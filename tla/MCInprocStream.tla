--------------------------- MODULE MCInprocStream ---------------------------
(* Instances of InprocStream for TLC: two client threads, the handler's    *)
(* goroutine and one goroutine it starts.  The client threads play the     *)
(* same part, so the safety runs may permute them.                         *)
EXTENDS InprocStream, TLC

CONSTANTS c1, c2, main, helper

MCClients  == {c1, c2}
MCServers  == {main, helper}
MCSymmetry == Permutations(MCClients)
=============================================================================
