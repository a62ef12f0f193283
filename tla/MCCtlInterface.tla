---------------------------- MODULE MCCtlInterface ----------------------------
(***************************************************************************)
(* The control interface with one file in init/, whose answer has the name *)
(* that clients use too, and nothing in input/ at the start.               *)
(***************************************************************************)
EXTENDS CtlInterface

MCInitFiles == <<"o1">>
MCLeftover == {NoFile}
================================================================================
