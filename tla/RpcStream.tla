----------------------------- MODULE RpcStream -----------------------------
(***************************************************************************)
(* What a channel promises about one streaming RPC, whatever carries it:   *)
(* messages arrive in order, each at most once; the client learns of the   *)
(* end only when the server's side is complete and every message has been  *)
(* received, learns the handler's own outcome, and learns it once.         *)
(*                                                                         *)
(* sent and got count response messages, requests and handled are the      *)
(* request messages; outcome is what the client's RecvMsg last said of the *)
(* end: "EOF" and "err" are the handler's, "tooMany" and "ctx" the         *)
(* client's own.                                                           *)
(***************************************************************************)
EXTENDS Naturals

VARIABLES cancelled, requests, halfClosed, handled, hret, sent, complete, got,
          outcome

vars == <<cancelled, requests, halfClosed, handled, hret, sent, complete, got,
          outcome>>

Init ==
    /\ cancelled = FALSE /\ requests = 0 /\ halfClosed = FALSE /\ handled = {}
    /\ hret = "none" /\ sent = 0 /\ complete = FALSE
    /\ got = 0 /\ outcome = "open"

Cancel ==
    /\ cancelled' = TRUE
    /\ UNCHANGED <<requests, halfClosed, handled, hret, sent, complete, got, outcome>>

SendRequest ==
    /\ ~halfClosed
    /\ requests' = requests + 1
    /\ UNCHANGED <<cancelled, halfClosed, handled, hret, sent, complete, got, outcome>>

HalfClose ==
    /\ halfClosed' = TRUE
    /\ UNCHANGED <<cancelled, requests, handled, hret, sent, complete, got, outcome>>

HandleRequest ==
    /\ \E n \in (1..requests) \ handled : handled' = handled \cup {n}
    /\ UNCHANGED <<cancelled, requests, halfClosed, hret, sent, complete, got, outcome>>

Respond ==
    /\ ~complete
    /\ sent' = sent + 1
    /\ UNCHANGED <<cancelled, requests, halfClosed, handled, hret, complete, got, outcome>>

Return ==
    /\ hret = "none" /\ hret' \in {"ok", "err"}
    /\ UNCHANGED <<cancelled, requests, halfClosed, handled, sent, complete, got, outcome>>

(* From here on nothing is added to what the client can receive.           *)
Complete ==
    /\ hret # "none" /\ complete' = TRUE
    /\ UNCHANGED <<cancelled, requests, halfClosed, handled, hret, sent, got, outcome>>

Receive ==
    /\ outcome = "open" /\ got < sent
    /\ got' = got + 1
    /\ outcome' \in {"open", "tooMany"}
    /\ outcome' = "tooMany" => got' > 1
    /\ UNCHANGED <<cancelled, requests, halfClosed, handled, hret, sent, complete>>

End ==
    /\ outcome = "open" /\ complete /\ got = sent
    /\ outcome' = IF hret = "ok" THEN "EOF" ELSE "err"
    /\ UNCHANGED <<cancelled, requests, halfClosed, handled, hret, sent, complete, got>>

Abort ==
    /\ cancelled /\ outcome \in {"open", "EOF"}
    /\ outcome' = "ctx"
    /\ UNCHANGED <<cancelled, requests, halfClosed, handled, hret, sent, complete, got>>

Next == \/ Cancel \/ SendRequest \/ HalfClose \/ HandleRequest \/ Respond
        \/ Return \/ Complete \/ Receive \/ End \/ Abort

Spec == Init /\ [][Next]_vars
=============================================================================
