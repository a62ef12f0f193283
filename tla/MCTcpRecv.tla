----------------------------- MODULE MCTcpRecv -----------------------------
(* Two connections, each with a bulk, for one credit; the bulk of c1 can arrive in two parts. *)
EXTENDS TcpRecv

MCStream == [c \in Conns |-> IF c = "c1" THEN <<0, 2>> ELSE <<1>>]
=============================================================================
