-------------------------- MODULE HttpClientStream --------------------------
(***************************************************************************)
(* The client's half of one streaming RPC over HTTP (httpgrpc/client.go):  *)
(* the clientStream the application uses, the goroutine doHttpCall that    *)
(* makes the round trip and reads the reply, and the pipe that carries the *)
(* request body.                                                           *)
(*                                                                         *)
(* The application has a sender (SendMsg) and a receiver (Header, RecvMsg) *)
(* as gRPC allows; either may call CloseSend.  A call that finds rMu held  *)
(* waits in state "check".  wMu is held exactly while the sender is in     *)
(* state "writing".                                                        *)
(*                                                                         *)
(* The peer is the other end as this client sees it: net/http, the network *)
(* and the server's handler, which answers, sends messages and a trailer   *)
(* when it likes, then reads the request to its end before the reply ends  *)
(* (drainAndClose in httpgrpc/server.go).                                  *)
(***************************************************************************)
EXTENDS Integers, Sequences, FiniteSets

CONSTANTS
    ResponseStreams,  \* the values respStream may have in this instance
    MaxResp           \* bound: messages the server writes

ASSUME StreamAssumption == ResponseStreams \subseteq BOOLEAN
ASSUME BoundAssumption  == MaxResp \in Nat

VARIABLES
    respStream,            \* may the server send many messages?
    ctxDone,
    pipeW, pipeR,          \* the pipe's ends are closed: CloseSend, readPipe
    send, recv,            \* where the sender and the receiver are
    wErr, result,
    consumed,              \* the messages taken from rCh
    inHand, given,         \* for a method with one response: those of this
                           \* RecvMsg, and of the calls that succeeded
    hpc, hErr, respRd,     \* doHttpCall: where it is, its rErr, frames read
    rChClosed,
    ready, hdr,            \* the WaitGroup; what hd and hdErr say
    rMu, done, rErr, tr,   \* does doHttpCall hold rMu? what rMu protects
    peer, reply, respLog   \* the other end, the kind of reply, its frames

callVars == <<respStream, ctxDone>>
msgVars  == <<consumed, inHand, given>>
appVars  == <<send, recv, wErr, result, msgVars>>
hdrVars  == <<ready, hdr>>
rdVars   == <<respRd, rChClosed>>
httpVars == <<hpc, hErr, rdVars, hdrVars>>
endVars  == <<rMu, done, rErr, tr>>
pipeVars == <<pipeW, pipeR>>
peerVars == <<peer, reply, respLog>>
vars     == <<callVars, pipeVars, appVars, httpVars, endVars, peerVars>>

Init ==
    /\ respStream \in ResponseStreams /\ ctxDone = FALSE
    /\ pipeW = FALSE /\ pipeR = FALSE
    /\ send = "idle" /\ recv = "idle" /\ wErr = FALSE
    /\ result = "none" /\ consumed = <<>> /\ inHand = <<>> /\ given = <<>>
    /\ hpc = "roundTrip" /\ hErr = "none" /\ respRd = 0 /\ rChClosed = FALSE
    /\ ready = 1 /\ hdr = "none"
    /\ rMu = FALSE /\ done = FALSE /\ rErr = "none" /\ tr = "unset"
    /\ peer = "waiting" /\ reply = "none" /\ respLog = <<>>

(* The application cancels, or the deadline passes.                        *)
Cancel ==
    /\ ~ctxDone /\ ctxDone' = TRUE
    /\ UNCHANGED <<respStream, pipeVars, appVars, httpVars, endVars,
                   peerVars>>

-----------------------------------------------------------------------------
(* The sender.                                                             *)

SendMsg ==
    /\ send = "idle"
    /\ send' = "check"
    /\ UNCHANGED <<callVars, pipeVars, recv, wErr, result, msgVars, httpVars,
                   endVars, peerVars>>

(* The codec may refuse the message before any of it is written.           *)
SendMsgChecks ==
    /\ send = "check" /\ ~rMu
    /\ IF done \/ wErr
       THEN send' = "idle" /\ wErr' = wErr
       ELSE \/ send' = "writing" /\ wErr' = wErr
            \/ send' = "idle" /\ wErr' = TRUE
    /\ UNCHANGED <<callVars, pipeVars, recv, result, msgVars, httpVars,
                   endVars, peerVars>>

(* A write to the pipe lasts until the transport has taken the message     *)
(* (RequestTaken) or one end is closed.                                    *)
SendMsgFails ==
    /\ send = "writing" /\ (pipeW \/ pipeR)
    /\ wErr' = TRUE /\ send' = "idle"
    /\ UNCHANGED <<callVars, pipeVars, recv, result, msgVars, httpVars,
                   endVars, peerVars>>

CloseSend ==
    /\ send = "idle" \/ recv = "idle"
    /\ send # "writing" /\ ~pipeW
    /\ pipeW' = TRUE
    /\ UNCHANGED <<callVars, pipeR, appVars, httpVars, endVars, peerVars>>

-----------------------------------------------------------------------------
(* The receiver.                                                           *)

Header ==
    /\ recv = "idle" /\ recv' = "header"
    /\ UNCHANGED <<callVars, pipeVars, send, wErr, result, msgVars, httpVars,
                   endVars, peerVars>>

HeaderReturns ==
    /\ recv = "header" /\ ready = 0 /\ recv' = "idle"
    /\ UNCHANGED <<callVars, pipeVars, send, wErr, result, msgVars, httpVars,
                   endVars, peerVars>>

(* What readErrorIfDone reports once done is set.                          *)
Terminal == IF rErr # "none" THEN rErr ELSE IF tr = "err" THEN "err" ELSE "EOF"

Returns(r) == result' = r /\ recv' = "idle" /\ inHand' = <<>>

RecvMsg ==
    /\ recv = "idle" /\ recv' = "check"
    /\ UNCHANGED <<callVars, pipeVars, send, wErr, result, msgVars, httpVars,
                   endVars, peerVars>>

RecvMsgChecks_NotDone ==
    /\ recv = "check" /\ ~rMu
    /\ recv' = "wait" /\ UNCHANGED <<result, inHand>>
    /\ UNCHANGED <<callVars, pipeVars, send, wErr, consumed, given, httpVars,
                   endVars, peerVars>>

RecvMsgChecks ==
    /\ recv = "check" /\ ~rMu
    /\ IF done THEN Returns(Terminal)
               ELSE recv' = "wait" /\ UNCHANGED <<result, inHand>>
    /\ UNCHANGED <<callVars, pipeVars, send, wErr, consumed, given, httpVars,
                   endVars, peerVars>>

(* rCh has no buffer: the two goroutines take this step together.          *)
Offered == respLog[respRd].n

TakesFromRCh ==
    /\ hpc = "offering" /\ hpc' = "reading"
    /\ consumed' = Append(consumed, Offered)
    /\ UNCHANGED <<callVars, pipeVars, send, wErr, hErr, rdVars, hdrVars,
                   endVars, peerVars>>

(* A message that does not decode is an error; the stream goes on.         *)
RecvMsgGetsMessage ==
    /\ recv = "wait" /\ TakesFromRCh
    /\ \/ Returns("invalid")
       \/ respStream /\ Returns("msg")
       \/ /\ ~respStream /\ recv' = "more" /\ inHand' = <<Offered>>
          /\ result' = result
    /\ given' = given

(* A second message of a method that has one response.                     *)
RecvMsgGetsSecond_ReadsOn ==
    /\ recv = "more" /\ TakesFromRCh
    /\ inHand' = Append(inHand, Offered)
    /\ UNCHANGED <<recv, result, given>>

RecvMsgGetsSecond ==
    /\ recv = "more" /\ TakesFromRCh
    /\ recv' = "many" /\ inHand' = Append(inHand, Offered)
    /\ UNCHANGED <<result, given>>

RecvMsgTooMany ==
    /\ recv = "many" /\ ~rMu
    /\ IF rErr = "none"
       THEN rErr' = "many" /\ done' = TRUE /\ ctxDone' = TRUE
       ELSE UNCHANGED <<rErr, done, ctxDone>>
    /\ Returns(rErr')
    /\ UNCHANGED <<respStream, pipeVars, send, wErr, consumed, given,
                   httpVars, rMu, tr, peerVars>>

RecvMsgSeesClosed ==
    /\ recv \in {"wait", "more"} /\ rChClosed
    /\ recv' = IF recv = "wait" THEN "ended" ELSE "moreEnded"
    /\ UNCHANGED <<callVars, pipeVars, send, wErr, result, msgVars, httpVars,
                   endVars, peerVars>>

(* "if server sent a failure after the single message, the failure takes   *)
(* precedence"                                                             *)
AfterLast_MessageWins == "msg"
AfterLast == IF Terminal = "EOF" THEN "msg" ELSE Terminal

(* readErrorIfDone once more.  "sanity check: this shouldn't be possible"  *)
RecvMsgGetsEnd ==
    /\ recv \in {"ended", "moreEnded"} /\ ~rMu
    /\ IF done
       THEN Returns(IF recv = "ended" THEN Terminal ELSE AfterLast)
       ELSE recv' = "panic" /\ UNCHANGED <<result, inHand>>
    /\ given' = IF result' = "msg" THEN given \o inHand ELSE given
    /\ UNCHANGED <<callVars, pipeVars, send, wErr, consumed, httpVars, endVars,
                   peerVars>>

RecvMsgGetsCtxDone ==
    /\ recv \in {"wait", "more"} /\ ctxDone
    /\ Returns("ctx")
    /\ UNCHANGED <<callVars, pipeVars, send, wErr, consumed, given, httpVars,
                   endVars, peerVars>>

-----------------------------------------------------------------------------
(* doHttpCall.                                                             *)

OnReady(err, h) == hErr' = err /\ hdr' = h /\ ready' = ready - 1

Connected == peer # "broken"

(* RoundTrip cannot return while it reads the request body.                *)
RoundTripFails_NotReady ==
    /\ hpc = "roundTrip" /\ hpc' = "finish"
    /\ \/ ctxDone /\ (pipeW \/ pipeR) /\ hErr' = "ctx"
       \/ ~Connected /\ hErr' = "net"
    /\ UNCHANGED <<callVars, pipeVars, appVars, rdVars, hdrVars, endVars,
                   peerVars>>

RoundTripFails ==
    /\ hpc = "roundTrip"
    /\ \/ ctxDone /\ (pipeW \/ pipeR) /\ OnReady("ctx", "err")
       \/ ~Connected /\ OnReady("net", "err")
    /\ hpc' = "finish"
    /\ UNCHANGED <<callVars, pipeVars, appVars, rdVars, endVars, peerVars>>

RoundTripReplies ==
    /\ hpc = "roundTrip" /\ reply # "none"
    /\ IF reply = "badHeader"
       THEN OnReady("net", "err") /\ hpc' = "drain"
       ELSE OnReady("none", "ok") /\ hpc' = "replied"
    /\ UNCHANGED <<callVars, pipeVars, appVars, rdVars, endVars, peerVars>>

(* A status other than OK is written to tr without rMu.                    *)
ChecksReply ==
    /\ hpc = "replied"
    /\ \/ /\ reply = "ok" /\ hpc' = "reading"
          /\ UNCHANGED <<hErr, hdr, ready, tr>>
       \/ /\ reply = "badStatus" /\ tr' = "err" /\ hpc' = "drain"
          /\ UNCHANGED <<hErr, hdr, ready>>
       \/ /\ reply = "badType" /\ OnReady("media", "err") /\ hpc' = "panic"
          /\ UNCHANGED tr
    /\ UNCHANGED <<callVars, pipeVars, appVars, rdVars, rMu, done, rErr,
                   peerVars>>

ReadsFrame ==
    /\ hpc = "reading" /\ respRd < Len(respLog)
    /\ respRd' = respRd + 1
    /\ hpc' = IF respLog[respRd'].kind = "data" THEN "offering" ELSE "trailer"
    /\ UNCHANGED <<callVars, pipeVars, appVars, hErr, rChClosed, hdrVars,
                   endVars, peerVars>>

(* A connection that breaks may lose what is under way.                    *)
BodyEnded == peer = "broken" \/ (peer = "closed" /\ respRd = Len(respLog))

(* "if rErr == io.EOF { rErr = io.ErrUnexpectedEOF }"                      *)
EndWithoutTrailer_RawEOF == IF peer = "closed" THEN "EOF" ELSE "net"
EndWithoutTrailer        == "net"

(* A cancelled request makes the read fail with the error of the context.  *)
ReadFails ==
    /\ hpc = "reading"
    /\ \/ BodyEnded /\ hErr' = EndWithoutTrailer
       \/ ctxDone /\ hErr' = "rawCtx"
    /\ hpc' = "drain"
    /\ UNCHANGED <<callVars, pipeVars, appVars, rdVars, hdrVars, endVars,
                   peerVars>>

OfferAbandoned ==
    /\ hpc = "offering" /\ ctxDone
    /\ hErr' = "ctx" /\ hpc' = "drain"
    /\ UNCHANGED <<callVars, pipeVars, appVars, rdVars, hdrVars, endVars,
                   peerVars>>

(* rMu is kept until the deferred function has run, after the drain.       *)
ReadsTrailer ==
    /\ hpc = "trailer" /\ ~rMu
    /\ rMu' = TRUE
    /\ rErr' = IF respLog[respRd].kind = "invalid" THEN "net" ELSE "none"
    /\ tr' = IF respLog[respRd].kind = "err" THEN "err" ELSE "ok"
    /\ hpc' = "drain"
    /\ UNCHANGED <<callVars, pipeVars, appVars, hErr, rdVars, hdrVars, done,
                   peerVars>>

Drains ==
    /\ hpc = "drain" /\ (peer \in {"closed", "broken"} \/ ctxDone)
    /\ hpc' = "finish"
    /\ UNCHANGED <<callVars, pipeVars, appVars, hErr, rdVars, hdrVars,
                   endVars, peerVars>>

(* The function of the AfterFunc, until stopOnCancel.                      *)
ClosePipeOnCancel_Never == FALSE

ClosePipeOnCancel ==
    /\ ctxDone /\ ~pipeR
    /\ hpc \notin {"finish", "closePipe", "closeRCh", "unlock", "gone"}
    /\ pipeR' = TRUE
    /\ UNCHANGED <<callVars, pipeW, appVars, httpVars, endVars, peerVars>>

(* The deferred function, once it has rMu: the end is reported, the pipe   *)
(* and then rCh are closed, and rMu is released.                           *)
ReportsEnd_ClosesRChFirst ==
    /\ hpc = "finish"
    /\ IF rChClosed
       THEN /\ rErr' = IF rErr = "none" THEN hErr ELSE rErr
            /\ done' = TRUE /\ rMu' = TRUE /\ hpc' = "closePipe"
            /\ rChClosed' = rChClosed
       ELSE rChClosed' = TRUE /\ UNCHANGED <<hpc, rErr, done, rMu>>
    /\ UNCHANGED <<callVars, pipeVars, appVars, hErr, respRd, hdrVars, tr,
                   peerVars>>

ReportsEnd ==
    /\ hpc = "finish"
    /\ rErr' = IF rErr = "none" THEN hErr ELSE rErr
    /\ done' = TRUE /\ rMu' = TRUE /\ hpc' = "closePipe"
    /\ UNCHANGED <<callVars, pipeVars, appVars, hErr, rdVars, hdrVars, tr,
                   peerVars>>

ClosesPipe ==
    /\ hpc = "closePipe" /\ hpc' = "closeRCh" /\ pipeR' = TRUE
    /\ UNCHANGED <<callVars, pipeW, appVars, hErr, rdVars, hdrVars, endVars,
                   peerVars>>

ClosesRCh ==
    /\ hpc = "closeRCh" /\ hpc' = "unlock" /\ rChClosed' = TRUE
    /\ UNCHANGED <<callVars, pipeVars, appVars, hErr, respRd, hdrVars,
                   endVars, peerVars>>

ReleasesRMu_Never ==
    /\ hpc = "unlock" /\ hpc' = "gone"
    /\ UNCHANGED <<callVars, pipeVars, appVars, hErr, rdVars, hdrVars,
                   endVars, peerVars>>

ReleasesRMu ==
    /\ hpc = "unlock" /\ hpc' = "gone" /\ rMu' = FALSE
    /\ UNCHANGED <<callVars, pipeVars, appVars, hErr, rdVars, hdrVars, done,
                   rErr, tr, peerVars>>

-----------------------------------------------------------------------------
(* The peer.  A reply that is not "ok" has no frames.  The transport takes *)
(* a request when there is room for it on the way, so that it may have to  *)
(* wait for the handler to read another one.                               *)

RequestTaken ==
    /\ send = "writing" /\ ~pipeW /\ ~pipeR /\ Connected
    /\ send' = "idle"
    /\ UNCHANGED <<callVars, pipeVars, recv, wErr, result, msgVars, httpVars,
                   endVars, peerVars>>

PeerReplies ==
    /\ peer = "waiting"
    /\ \/ reply' = "ok" /\ peer' = "responding"
       \/ reply' \in {"badHeader", "badStatus", "badType"} /\ peer' = "ending"
    /\ UNCHANGED <<callVars, pipeVars, appVars, httpVars, endVars, respLog>>

Messages == Cardinality({i \in 1..Len(respLog) : respLog[i].kind = "data"})

PeerSends ==
    /\ peer = "responding" /\ Messages < MaxResp
    /\ respLog' = Append(respLog, [kind |-> "data", n |-> Messages + 1])
    /\ UNCHANGED <<callVars, pipeVars, appVars, httpVars, endVars, peer,
                   reply>>

(* A trailer, or none if the last write of the server failed.              *)
PeerReturns ==
    /\ peer = "responding" /\ peer' = "ending"
    /\ \/ \E kind \in {"ok", "err", "invalid"} :
              respLog' = Append(respLog, [kind |-> kind, n |-> 0])
       \/ respLog' = respLog
    /\ UNCHANGED <<callVars, pipeVars, appVars, httpVars, endVars, reply>>

(* The reply ends once the request has been read to its end.               *)
PeerCloses ==
    /\ peer = "ending" /\ (pipeW \/ pipeR)
    /\ peer' = "closed"
    /\ UNCHANGED <<callVars, pipeVars, appVars, httpVars, endVars, reply,
                   respLog>>

PeerBreaks ==
    /\ peer \notin {"closed", "broken"} /\ peer' = "broken"
    /\ UNCHANGED <<callVars, pipeVars, appVars, httpVars, endVars, reply,
                   respLog>>

-----------------------------------------------------------------------------
SendStep == SendMsgChecks \/ SendMsgFails
RecvStep == HeaderReturns \/ RecvMsgChecks \/ RecvMsgGetsMessage
            \/ RecvMsgGetsSecond \/ RecvMsgTooMany \/ RecvMsgSeesClosed
            \/ RecvMsgGetsEnd \/ RecvMsgGetsCtxDone
FinishStep == ReportsEnd \/ ClosesPipe \/ ClosesRCh \/ ReleasesRMu
HttpStep == RoundTripFails \/ RoundTripReplies \/ ChecksReply \/ ReadsFrame
            \/ ReadFails \/ OfferAbandoned \/ ReadsTrailer \/ Drains
            \/ FinishStep
PeerStep == RequestTaken \/ PeerReplies \/ PeerSends \/ PeerReturns
            \/ PeerCloses \/ PeerBreaks

(* The RPC is over, or the process has panicked.                           *)
Over ==
    /\ hpc = "panic" \/ (hpc = "gone" /\ send = "idle" /\ recv = "idle")
    /\ UNCHANGED vars

Next == \/ Cancel \/ SendMsg \/ CloseSend \/ Header \/ RecvMsg
        \/ SendStep \/ RecvStep \/ HttpStep \/ ClosePipeOnCancel \/ PeerStep
        \/ Over

Spec == Init /\ [][Next]_vars

(* Goroutines inside a call run on, and the server drains the request once *)
(* its handler has returned.  Nobody has to call, answer, return or cancel.*)
FairSpec ==
    /\ Spec
    /\ WF_vars(SendStep) /\ WF_vars(RecvStep) /\ WF_vars(HttpStep)
    /\ WF_vars(ClosePipeOnCancel)
    /\ WF_vars(peer = "ending" /\ (RequestTaken \/ PeerCloses))

-----------------------------------------------------------------------------
Results == {"none", "ctx", "rawCtx", "net", "media", "many"}

TypeOK ==
    /\ \A b \in {respStream, ctxDone, pipeW, pipeR, wErr, rMu, done,
                rChClosed} : b \in BOOLEAN
    /\ send \in {"idle", "check", "writing"}
    /\ recv \in {"idle", "header", "check", "wait", "more", "many",
                "ended", "moreEnded", "panic"}
    /\ result \in Results \cup {"msg", "invalid", "EOF", "err"}
    /\ consumed \in Seq(Nat) /\ inHand \in Seq(Nat) /\ given \in Seq(Nat)
    /\ respRd \in 0..Len(respLog)
    /\ hpc \in {"roundTrip", "replied", "reading", "offering", "trailer",
                "drain", "finish", "closePipe", "closeRCh", "unlock", "gone",
                "panic"}
    /\ hErr \in Results /\ rErr \in Results /\ ready \in -1..1
    /\ hdr \in {"none", "ok", "err"} /\ tr \in {"unset", "ok", "err"}
    /\ peer \in {"waiting", "responding", "ending", "closed", "broken"}
    /\ reply \in {"none", "ok", "badHeader", "badStatus", "badType"}
    /\ respLog \in Seq([kind : {"data", "ok", "err", "invalid"}, n : Nat])

Received(kind) == \E i \in 1..respRd : respLog[i].kind = kind

(* RecvMsg reports the end of the stream, or success where there is one    *)
(* message, only on the strength of the server's own trailer, after every  *)
(* message before it: a reply that is cut off anywhere is never a success, *)
(* though tr.Code is OK until a trailer says otherwise.                    *)
EndIsComplete ==
    /\ result = "EOF" => Received("ok") /\ Len(consumed) = Messages
    /\ result = "err" => Received("err") \/ reply = "badStatus"

(* A method with one response: however often RecvMsg is called, only one   *)
(* call succeeds, with one message, and that is the last of the reply and  *)
(* has an OK trailer behind it.  A reply of several messages is a success  *)
(* only if the calls that took the others returned an error, that of a     *)
(* message that does not decode or of the context.                         *)
OneResponse ==
    ~respStream /\ (given # <<>> \/ result = "msg") =>
        /\ given = <<Messages>> /\ Received("ok")
        /\ Len(consumed) = Messages

(* "cs.rCh was closed but cs.done == false!", the panic RecvMsg guards     *)
(* itself with in two places, is indeed impossible: whenever a RecvMsg     *)
(* finds rCh closed and then gets rMu, done has been set.  The reason is   *)
(* recorded by then, in rErr or tr, and the headers are settled, so that   *)
(* no Header waits on for a stream that is over.                           *)
ClosedMeansDone ==
    /\ recv # "panic"
    /\ recv \in {"ended", "moreEnded"} /\ ~rMu =>
           ready = 0 /\ (rErr # "none" \/ tr # "unset")

(* An end that RecvMsg has reported is the end for good.  The exception is *)
(* "many", which a trailer read afterwards can overwrite, and the error of *)
(* the context, which gives way to what doHttpCall ended with.             *)
EndIsFinal ==
    [][(result \in {"EOF", "err", "net", "rawCtx"}) => result' = result]_vars

(* "hd and hdErr are populated when ready is done": what Header may        *)
(* already have returned does not change.                                  *)
HeaderIsFinal == [][ready # 1 => hdr' = hdr]_vars

(* A cancelled call leaves no goroutine behind, also when the application  *)
(* never closed the request and nobody reads the messages.                 *)
HttpGoroutineExits == ctxDone ~> (hpc \in {"gone", "panic"})

(* Header and RecvMsg return once the context is done, whatever the peer   *)
(* does, and once the server's handler has returned and the request is     *)
(* closed.                                                                 *)
ReceiverIsReleased ==
    (recv # "idle" /\ (ctxDone \/ (peer = "ending" /\ pipeW)))
        ~> (recv = "idle" \/ hpc = "panic")

(* So does SendMsg; and none waits for a pipe that nobody reads any more.  *)
SenderIsReleased ==
    (send # "idle" /\ (ctxDone \/ (peer = "ending" /\ pipeW) \/ hpc = "gone"))
        ~> (send = "idle" \/ hpc = "panic")

(* "GRPC streams return EOF error for attempts to send on closed stream":  *)
(* once doHttpCall has the trailer, a SendMsg does not wait any longer.    *)
SendEndsWithStream == (rMu /\ send = "check") ~> (send = "idle")
=============================================================================
