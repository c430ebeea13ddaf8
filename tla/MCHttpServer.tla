---------------------------- MODULE MCHttpServer ----------------------------
(* HttpServerBody for TLC: message 1 is empty, message 2 is as large as a  *)
(* reader accepts.                                                         *)
EXTENDS HttpServerBody

MCSizeOf == [n \in 0..2 |-> CASE n = 0 -> 2 [] n = 1 -> 0 [] n = 2 -> 3]
=============================================================================
