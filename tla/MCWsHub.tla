------------------------------ MODULE MCWsHub ------------------------------
(***************************************************************************)
(* WsHub with one user in two tabs: the connections of different users     *)
(* meet only in the loop and the channel, as those of one user do.         *)
(***************************************************************************)
EXTENDS WsHub

CONSTANTS u1

MCUserOf == [c \in Conns |-> u1]

=============================================================================
