-------------------------- MODULE HttpServerStream --------------------------
(***************************************************************************)
(* The server's half of one streaming RPC over HTTP (httpgrpc/server.go):  *)
(* handleStream, the serverStream it gives to the handler, and the trailer *)
(* and the drain of the request at the end.                                *)
(*                                                                         *)
(* Main is the goroutine of net/http that runs handleStream and, in it,    *)
(* the handler; the others are goroutines the handler starts.  Outlive     *)
(* says whether they may go on with the stream after the handler returned. *)
(* A call that waits for a mutex is a call that has not started yet.  wmu  *)
(* is held by the goroutine it names; handleStream writes without it.      *)
(*                                                                         *)
(* A message is written in two parts, its size and its bytes, to what      *)
(* net/http has of the reply; reading one is a single step, since rmu is   *)
(* held throughout.  Calls that return early and change nothing (SetHeader *)
(* after the headers, SendMsg after a failed write) are stuttering steps.  *)
(***************************************************************************)
EXTENDS Naturals, Sequences

CONSTANTS
    ServerThreads, Main,
    Unlocked,            \* value of a mutex nobody holds
    Keys,                \* metadata keys
    ClientStream,        \* desc.ClientStreams (the field respStream)
    Outlive,             \* may goroutines outlive the handler?
    MaxReq, MaxResp      \* bounds: messages of the client and of the handler

ASSUME ThreadsAssumption == Main \in ServerThreads /\ Unlocked \notin ServerThreads
ASSUME FlagsAssumption == ClientStream \in BOOLEAN /\ Outlive \in BOOLEAN
ASSUME BoundsAssumption == MaxReq \in Nat /\ MaxResp \in Nat

VARIABLES
    phase, hret,               \* handleStream: where it is, the handler's error
    spc, result,               \* where each goroutine is; the last RecvMsg
    rmu, recvd, handled,       \* requests: the mutex, calls, messages received
    wmu, headersSent, writeFailed, tr,
    hdrs, committed, wireHdrs, \* w.Header(), and what went out of it
    wire, sent, trailer,       \* the reply's parts, SendMsg calls, the trailer
    connected, bodyClosed,     \* the connection; has net/http closed the body?
    req, reqRd, reqEnd,        \* the request: messages, those read, its end
    reqBad                     \* behind the messages comes one no reader takes

callVars == <<spc, result>>
readVars == <<rmu, recvd, handled>>
lockVars == <<wmu, headersSent, writeFailed, tr>>
respVars == <<hdrs, committed, wireHdrs, wire, sent>>
connVars == <<connected, bodyClosed>>
bodyVars == <<req, reqEnd, reqBad>>
vars == <<phase, hret, callVars, readVars, lockVars, respVars, trailer,
          connVars, bodyVars, reqRd>>

NoTrailer == [code |-> "none", md |-> {}]

Init ==
    /\ phase = "start" /\ hret = "none"
    /\ spc = [t \in ServerThreads |-> "idle"] /\ result = "none"
    /\ rmu = Unlocked /\ recvd = FALSE /\ handled = <<>>
    /\ wmu = Unlocked /\ headersSent = FALSE /\ writeFailed = FALSE /\ tr = {}
    /\ hdrs = {} /\ committed = FALSE /\ wireHdrs = {}
    /\ wire = <<>> /\ sent = 0 /\ trailer = NoTrailer
    /\ connected = TRUE /\ bodyClosed = FALSE
    /\ req = 0 /\ reqRd = 0 /\ reqEnd = FALSE /\ reqBad = FALSE

(* A goroutine that may call a method of the stream now.                   *)
MayCall(t) ==
    /\ spc[t] = "idle"
    /\ phase = "running" \/ (Outlive /\ t # Main /\ phase \in {"trailer", "drain"})

Goes(t, place) == spc' = [spc EXCEPT ![t] = place]

-----------------------------------------------------------------------------
(* Headers and trailers, under wmu.                                        *)

SetHeader(t, md) ==
    /\ MayCall(t) /\ wmu = Unlocked /\ ~headersSent
    /\ hdrs' = hdrs \cup md
    /\ UNCHANGED <<phase, hret, callVars, readVars, lockVars, committed,
                   wireHdrs, wire, sent, trailer, connVars, bodyVars, reqRd>>

(* net/http takes its copy of the headers when the first byte is written,  *)
(* or at WriteHeader.                                                      *)
Commit(h) == committed' = TRUE /\ wireHdrs' = IF committed THEN wireHdrs ELSE h

SendHeader(t, md) ==
    /\ MayCall(t) /\ wmu = Unlocked /\ ~headersSent
    /\ hdrs' = hdrs \cup md /\ headersSent' = TRUE
    /\ Commit(hdrs')
    /\ UNCHANGED <<phase, hret, callVars, readVars, wmu, writeFailed, tr, wire,
                   sent, trailer, connVars, bodyVars, reqRd>>

SetTrailer(t, md) ==
    /\ MayCall(t) /\ wmu = Unlocked
    /\ tr' = tr \cup md
    /\ UNCHANGED <<phase, hret, callVars, readVars, wmu, headersSent,
                   writeFailed, respVars, trailer, connVars, bodyVars, reqRd>>

-----------------------------------------------------------------------------
(* SendMsg, and the writer it shares with the trailer.                     *)

SendMsg_KeepsHeadersOpen(t) ==
    /\ MayCall(t) /\ wmu = Unlocked /\ ~writeFailed /\ sent < MaxResp
    /\ wmu' = t /\ sent' = sent + 1
    /\ Goes(t, "size")
    /\ UNCHANGED <<phase, hret, result, readVars, headersSent, writeFailed,
                   tr, hdrs, committed, wireHdrs, wire, trailer, connVars,
                   bodyVars, reqRd>>

SendMsg_NoMutex(t) ==
    /\ MayCall(t) /\ ~writeFailed /\ sent < MaxResp
    /\ headersSent' = TRUE /\ sent' = sent + 1
    /\ Goes(t, "size")
    /\ UNCHANGED <<phase, hret, result, readVars, wmu, writeFailed, tr, hdrs,
                   committed, wireHdrs, wire, trailer, connVars, bodyVars,
                   reqRd>>

SendMsg(t) ==
    /\ MayCall(t) /\ wmu = Unlocked /\ ~writeFailed /\ sent < MaxResp
    /\ wmu' = t /\ headersSent' = TRUE /\ sent' = sent + 1
    /\ Goes(t, "size")
    /\ UNCHANGED <<phase, hret, result, readVars, writeFailed, tr, hdrs,
                   committed, wireHdrs, wire, trailer, connVars, bodyVars,
                   reqRd>>

(* Is t writing the trailer rather than a message?                         *)
AtTrailer(t) == t = Main /\ phase = "trailer"

Part(t, part) == [part |-> part, n |-> IF AtTrailer(t) THEN 0 ELSE sent]

WriteSize(t) ==
    /\ spc[t] = "size"
    /\ wire' = Append(wire, Part(t, "size"))
    /\ Commit(hdrs)
    /\ Goes(t, "bytes")
    /\ UNCHANGED <<phase, hret, result, readVars, lockVars, hdrs, sent,
                   trailer, connVars, bodyVars, reqRd>>

(* The call ends: SendMsg releases wmu, handleStream goes on to the drain. *)
WriterDone(t) ==
    /\ Goes(t, "idle")
    /\ IF AtTrailer(t) THEN phase' = "drain" /\ wmu' = wmu
                       ELSE phase' = phase /\ wmu' = Unlocked

WriteBytes(t) ==
    /\ spc[t] = "bytes"
    /\ wire' = Append(wire, Part(t, "bytes"))
    /\ WriterDone(t)
    /\ UNCHANGED <<hret, result, readVars, headersSent, writeFailed, tr, hdrs,
                   committed, wireHdrs, sent, trailer, connVars, bodyVars,
                   reqRd>>

WriteFails_Forgotten(t) ==
    /\ \/ spc[t] = "size"
       \/ spc[t] = "bytes" /\ ~connected
    /\ writeFailed' = writeFailed
    /\ WriterDone(t)
    /\ UNCHANGED <<hret, result, readVars, headersSent, tr, respVars, trailer,
                   connVars, bodyVars, reqRd>>

(* The codec refuses the message, or the connection is gone.  The error of *)
(* the trailer is ignored.                                                 *)
WriteFails(t) ==
    /\ \/ spc[t] = "size"
       \/ spc[t] = "bytes" /\ ~connected
    /\ writeFailed' = (writeFailed \/ ~AtTrailer(t))
    /\ WriterDone(t)
    /\ UNCHANGED <<hret, result, readVars, headersSent, tr, respVars, trailer,
                   connVars, bodyVars, reqRd>>

-----------------------------------------------------------------------------
(* RecvMsg, under rmu.                                                     *)

RecvMsg(t) ==
    /\ MayCall(t) /\ rmu = Unlocked
    /\ IF ~ClientStream /\ recvd
       THEN result' = "EOF" /\ UNCHANGED <<rmu, recvd, spc>>
       ELSE rmu' = t /\ recvd' = TRUE /\ Goes(t, "reading") /\ result' = result
    /\ UNCHANGED <<phase, hret, handled, lockVars, respVars, trailer, connVars,
                   bodyVars, reqRd>>

Returns(t, r) == result' = r /\ rmu' = Unlocked /\ Goes(t, "idle")

AfterDecode_NoCheck(t) == Returns(t, "msg")

AfterDecode(t) ==
    IF ClientStream
    THEN Returns(t, "msg")
    ELSE Goes(t, "more") /\ UNCHANGED <<result, rmu>>

(* msg.Decode may fail; the message is gone then.                          *)
ReadMessage(t) ==
    /\ ~bodyClosed /\ reqRd < req /\ reqRd' = reqRd + 1
    /\ \/ /\ spc[t] = "reading" /\ AfterDecode(t)
          /\ handled' = Append(handled, reqRd')
       \/ spc[t] = "reading" /\ Returns(t, "invalid") /\ UNCHANGED handled
       \/ spc[t] = "more" /\ Returns(t, "many") /\ UNCHANGED handled
    /\ UNCHANGED <<phase, hret, recvd, lockVars, respVars, trailer, connVars,
                   bodyVars>>

(* The request has ended where a message does.                             *)
ReadEOF(t) ==
    /\ reqEnd /\ ~reqBad /\ reqRd = req /\ ~bodyClosed
    /\ \/ spc[t] = "reading" /\ Returns(t, "EOF")
       \/ spc[t] = "more" /\ Returns(t, "msg")
    /\ UNCHANGED <<phase, hret, recvd, handled, lockVars, respVars, trailer,
                   connVars, bodyVars, reqRd>>

BodyLost == ~connected \/ bodyClosed

(* A read fails with the connection, at a message the reader does not take *)
(* and on a closed body; it does not look at the context.  In the second   *)
(* read every error but io.EOF counts as another message.                  *)
ReadFails(t) ==
    /\ BodyLost \/ (reqBad /\ reqRd = req)
    /\ \/ spc[t] = "reading" /\ Returns(t, "error")
       \/ spc[t] = "more" /\ Returns(t, "many")
    /\ UNCHANGED <<phase, hret, recvd, handled, lockVars, respVars, trailer,
                   connVars, bodyVars, reqRd>>

-----------------------------------------------------------------------------
(* handleStream.                                                           *)

(* Not a POST, an unknown content type, or headers that do not decode:     *)
(* writeError, then the deferred drain.                                    *)
Reject ==
    /\ phase = "start" /\ phase' = "drain"
    /\ Commit({})
    /\ UNCHANGED <<hret, callVars, readVars, lockVars, hdrs, wire, sent,
                   trailer, connVars, bodyVars, reqRd>>

HandlerStarts ==
    /\ phase = "start" /\ phase' = "running"
    /\ UNCHANGED <<hret, callVars, readVars, lockVars, respVars, trailer,
                   connVars, bodyVars, reqRd>>

(* "errOK" is an error whose status code is OK.                            *)
HandlerReturns ==
    /\ phase = "running" /\ spc[Main] = "idle"
    /\ Outlive \/ \A t \in ServerThreads : spc[t] = "idle"
    /\ hret' \in {"nil", "err", "errOK"} /\ phase' = "returned"
    /\ UNCHANGED <<callVars, readVars, lockVars, respVars, trailer, connVars,
                   bodyVars, reqRd>>

(* "we don't want to send back a non-error status when we know an error    *)
(* occured"                                                                *)
TrailerCode_AsGiven == IF hret = "err" THEN "err" ELSE "OK"
TrailerCode         == IF hret = "nil" THEN "OK" ELSE "err"

(* str.writeFailed and str.tr are read, and the trailer written, without   *)
(* wmu.  Read while a goroutine appends to it, str.tr could be torn; the   *)
(* properties of runs with Outlive do not look at its value.               *)
StartTrailer ==
    /\ phase = "returned"
    /\ IF writeFailed
       THEN phase' = "drain" /\ UNCHANGED <<trailer, spc>>
       ELSE /\ phase' = "trailer" /\ Goes(Main, "size")
            /\ trailer' = [code |-> TrailerCode, md |-> tr]
    /\ UNCHANGED <<hret, result, readVars, lockVars, respVars, connVars,
                   bodyVars, reqRd>>

(* drainAndClose, of what the handler has left of the request, in messages *)
(* or not, until its end or an error.                                      *)
Drains_PastEnd ==
    /\ phase = "drain"
    /\ \/ reqRd <= req /\ reqRd' = reqRd + 1 /\ phase' = phase
       \/ reqEnd /\ reqRd = req /\ phase' = "over" /\ reqRd' = reqRd
       \/ BodyLost /\ phase' = "over" /\ reqRd' = reqRd
    /\ UNCHANGED <<hret, callVars, readVars, lockVars, respVars, trailer,
                   connVars, bodyVars>>

Drains_Retries ==
    /\ phase = "drain"
    /\ \/ reqRd < req /\ reqRd' = reqRd + 1 /\ phase' = phase
       \/ reqEnd /\ reqRd = req /\ phase' = "over" /\ reqRd' = reqRd
       \/ BodyLost /\ phase' = phase /\ reqRd' = reqRd
    /\ UNCHANGED <<hret, callVars, readVars, lockVars, respVars, trailer,
                   connVars, bodyVars>>

Drains ==
    /\ phase = "drain"
    /\ \/ reqRd < req /\ reqRd' = reqRd + 1 /\ phase' = phase
       \/ reqEnd /\ reqRd = req /\ phase' = "over" /\ reqRd' = reqRd
       \/ BodyLost /\ phase' = "over" /\ reqRd' = reqRd
    /\ UNCHANGED <<hret, callVars, readVars, lockVars, respVars, trailer,
                   connVars, bodyVars>>

-----------------------------------------------------------------------------
(* The client and the connection.                                          *)

ClientSends ==
    /\ connected /\ ~reqEnd /\ ~reqBad /\ req < MaxReq /\ phase # "over"
    /\ req' = req + 1
    /\ UNCHANGED <<phase, hret, callVars, readVars, lockVars, respVars,
                   trailer, connVars, reqEnd, reqBad, reqRd>>

(* A message that is malformed, too large for a reader, or cut short.      *)
ClientSendsBad ==
    /\ connected /\ ~reqEnd /\ ~reqBad /\ phase # "over"
    /\ reqBad' = TRUE
    /\ UNCHANGED <<phase, hret, callVars, readVars, lockVars, respVars,
                   trailer, connVars, req, reqEnd, reqRd>>

ClientCloses ==
    /\ connected /\ ~reqEnd /\ phase # "over"
    /\ reqEnd' = TRUE
    /\ UNCHANGED <<phase, hret, callVars, readVars, lockVars, respVars,
                   trailer, connVars, req, reqBad, reqRd>>

ConnectionBreaks ==
    /\ connected /\ phase # "over"
    /\ connected' = FALSE
    /\ UNCHANGED <<phase, hret, callVars, readVars, lockVars, respVars,
                   trailer, bodyClosed, bodyVars, reqRd>>

(* "once a server handler starts writing to the response body, the request *)
(* body is closed and no more messages can be read from it": net/http may  *)
(* do so for HTTP 1.1.                                                     *)
BodyCloses ==
    /\ ~bodyClosed /\ wire # <<>> /\ phase # "over"
    /\ bodyClosed' = TRUE
    /\ UNCHANGED <<phase, hret, callVars, readVars, lockVars, respVars,
                   trailer, connected, bodyVars, reqRd>>

-----------------------------------------------------------------------------
WriteStep(t) == WriteSize(t) \/ WriteBytes(t) \/ WriteFails(t)
ReadStep(t)  == ReadMessage(t) \/ ReadEOF(t) \/ ReadFails(t)
CallStep(t)  == \/ \E md \in SUBSET Keys :
                       SetHeader(t, md) \/ SendHeader(t, md) \/ SetTrailer(t, md)
                \/ SendMsg(t) \/ RecvMsg(t)
NetStep      == ClientSends \/ ClientSendsBad \/ ClientCloses
                \/ ConnectionBreaks \/ BodyCloses

Over == phase = "over" /\ UNCHANGED vars

Next == \/ \E t \in ServerThreads : CallStep(t) \/ WriteStep(t) \/ ReadStep(t)
        \/ Reject \/ HandlerStarts \/ HandlerReturns \/ StartTrailer \/ Drains
        \/ NetStep \/ Over

Spec == Init /\ [][Next]_vars

(* Goroutines run on where they do not wait for the client.  A write may   *)
(* wait for a client that does not read, but not on a broken connection.   *)
FairSpec ==
    /\ Spec
    /\ \A t \in ServerThreads :
           WF_vars(ReadStep(t)) /\ WF_vars(~connected /\ WriteStep(t))
    /\ WF_vars(StartTrailer) /\ WF_vars(Drains)

-----------------------------------------------------------------------------
TypeOK ==
    /\ phase \in {"start", "running", "returned", "trailer", "drain", "over"}
    /\ hret \in {"none", "nil", "err", "errOK"}
    /\ spc \in [ServerThreads -> {"idle", "size", "bytes", "reading", "more"}]
    /\ result \in {"none", "msg", "invalid", "many", "EOF", "error"}
    /\ rmu \in ServerThreads \cup {Unlocked} /\ recvd \in BOOLEAN
    /\ handled \in Seq(Nat)
    /\ wmu \in ServerThreads \cup {Unlocked}
    /\ headersSent \in BOOLEAN /\ writeFailed \in BOOLEAN /\ tr \subseteq Keys
    /\ hdrs \subseteq Keys /\ committed \in BOOLEAN /\ wireHdrs \subseteq Keys
    /\ wire \in Seq([part : {"size", "bytes"}, n : Nat]) /\ sent \in 0..MaxResp
    /\ trailer \in [code : {"none", "OK", "err"}, md : SUBSET Keys]
    /\ connected \in BOOLEAN /\ bodyClosed \in BOOLEAN
    /\ reqEnd \in BOOLEAN /\ reqBad \in BOOLEAN
    /\ req \in 0..MaxReq /\ reqRd \in 0..req

(* What goes out is whole messages, each size followed by its own bytes,   *)
(* in the order of the SendMsg calls, with the trailer behind all of them: *)
(* a client could not find the next frame otherwise.                       *)
WireIsWhole ==
    \A i \in 1..Len(wire) :
        LET number == (i + 1) \div 2
        IN  /\ wire[i].part = IF i % 2 = 1 THEN "size" ELSE "bytes"
            /\ wire[i].n \in {0, number}
            /\ wire[i].n = 0 => number > sent

(* The trailer tells the truth: it says OK exactly if the handler returned *)
(* nil, it comes only if every message the handler sent was written, and   *)
(* it has all the trailers the handler set.  A message the codec refused   *)
(* leaves the reply without a trailer, which no client takes for success.  *)
TrailerIsHonest ==
    \A i \in 1..Len(wire) : wire[i].n = 0 =>
        /\ (trailer.code = "OK") <=> (hret = "nil")
        /\ trailer.md = tr
        /\ ~writeFailed

(* Headers that SetHeader has accepted without an error reach the client.  *)
HeadersAreSent == committed => hdrs = wireHdrs

(* A method with one request: RecvMsg gives it to the handler only if the  *)
(* request has ended behind it, with nothing else in it, and refuses the   *)
(* call as one with too many messages only if it could not see that end:   *)
(* there was more, of which a reader need not make sense, the connection   *)
(* broke, or the handler had replied and the body was closed.              *)
OneRequest ==
    ~ClientStream =>
        /\ result = "msg" => handled = <<1>> /\ reqEnd /\ req = 1 /\ ~reqBad
        /\ result = "many" =>
               /\ handled = <<1>>
               /\ req > 1 \/ reqBad \/ ~connected \/ bodyClosed

(* Calls do not wait for a client that has gone, or for requests after the *)
(* client has closed its side; and once the handler has returned and the   *)
(* connection is gone, handleStream ends, whatever part of the request was *)
(* never read.                                                             *)
ClientGoneReleasesServer ==
    /\ \A t \in ServerThreads : ~connected ~> spc[t] = "idle"
    /\ \A t \in ServerThreads : reqEnd ~> spc[t] \notin {"reading", "more"}
    /\ (~connected /\ hret # "none") ~> (phase = "over")

(* "wmu serializes access to w": nobody writes to the reply while another  *)
(* does, not handleStream with its trailer either.                         *)
WriterIsAlone ==
    \A t, u \in ServerThreads :
        spc[t] \in {"size", "bytes"} /\ spc[u] \in {"size", "bytes"} => t = u
=============================================================================
