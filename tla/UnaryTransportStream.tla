------------------------ MODULE UnaryTransportStream ------------------------
(***************************************************************************)
(* The object in which the handler of a unary RPC leaves its headers and   *)
(* trailers (internal.UnaryServerTransportStream).  Any goroutine of the   *)
(* handler may use it, also after the handler has returned; every method   *)
(* holds sts.mu from its first line to its last, so each is one step.  A   *)
(* call that returns an error changes nothing and is not a step.           *)
(***************************************************************************)
CONSTANT Keys   \* metadata keys

VARIABLES hdrs, hdrsSent, tlrs, tlrsSent

stsVars == <<hdrs, hdrsSent, tlrs, tlrsSent>>

StsInit == hdrs = {} /\ hdrsSent = FALSE /\ tlrs = {} /\ tlrsSent = FALSE

StsSetHeader(md) ==
    /\ ~hdrsSent
    /\ hdrs' = hdrs \cup md
    /\ UNCHANGED <<hdrsSent, tlrs, tlrsSent>>

StsSendHeader(md) ==
    /\ ~hdrsSent
    /\ hdrs' = hdrs \cup md
    /\ hdrsSent' = TRUE
    /\ UNCHANGED <<tlrs, tlrsSent>>

StsSetTrailer(md) ==
    /\ ~tlrsSent
    /\ tlrs' = tlrs \cup md
    /\ UNCHANGED <<hdrs, hdrsSent, tlrsSent>>

StsFinish_HeadersOnly ==
    /\ hdrsSent' = TRUE
    /\ UNCHANGED <<hdrs, tlrs, tlrsSent>>

StsFinish ==
    /\ hdrsSent' = TRUE /\ tlrsSent' = TRUE
    /\ UNCHANGED <<hdrs, tlrs>>

StsTypeOK ==
    /\ hdrs \subseteq Keys /\ tlrs \subseteq Keys
    /\ hdrsSent \in BOOLEAN /\ tlrsSent \in BOOLEAN
=============================================================================
