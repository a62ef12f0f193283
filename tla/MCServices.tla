------------------------------ MODULE MCServices ------------------------------
(***************************************************************************)
(* The services that every process has (the control interface, the pipes   *)
(* that wake its threads), model checked side by side: `service` names the *)
(* one that runs while the other has not started, where fairness asks      *)
(* nothing of it.                                                          *)
(***************************************************************************)
EXTENDS MCCtlInterface, EvPipe

VARIABLE service

ServicesInit ==
    /\ service \in {"ctl_interface", "ev_pipe"}
    /\ CtlInit /\ Init

ServicesNext ==
    \/ service = "ctl_interface" /\ CtlNext /\ UNCHANGED <<service, vars>>
    \/ service = "ev_pipe" /\ Next /\ UNCHANGED <<service, ctlVars>>

ServicesSpec ==
    /\ ServicesInit /\ [][ServicesNext]_<<service, ctlVars, vars>>
    /\ CtlFairness /\ Fairness
===============================================================================
