--------------------------- MODULE MCAccountRename ---------------------------
(* A small instance of AccountRename for TLC.                               *)
EXTENDS AccountRename

CONSTANT i1
OneHome == [c \in Callers |-> i1]
=============================================================================
