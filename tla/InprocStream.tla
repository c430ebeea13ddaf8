---------------------------- MODULE InprocStream ----------------------------
(***************************************************************************)
(* One streaming RPC of the in-process channel: Channel.NewStream, the     *)
(* client stream it returns, and the goroutine that runs the handler       *)
(* (inprocgrpc/in_process.go).                                             *)
(*                                                                         *)
(* Client threads call SendMsg, CloseSend, Header and RecvMsg on the       *)
(* client stream; the handler's goroutine (Main) and the goroutines it     *)
(* starts call SetHeader, SendHeader, SetTrailer, SendMsg and RecvMsg on   *)
(* the server stream.  The two sides share two Go channels of one slot and *)
(* three contexts.  A call that waits for a mutex is a call that has not   *)
(* started yet: every call takes its only mutex before it does anything.   *)
(* The one exception, finish, waits for mu after it has run onDone, and    *)
(* has a step of its own for that.                                         *)
(*                                                                         *)
(* Messages are numbered in the order in which they are written.  Metadata *)
(* is the set of its keys.  Calls that return early and change nothing     *)
(* (SendMsg after CloseSend, SetHeader after the headers, SendMsg of the   *)
(* server once it is closed, Trailer) are stuttering steps.                *)
(***************************************************************************)
EXTENDS Naturals, Sequences, FiniteSets

CONSTANTS
    ClientThreads,   \* goroutines that use the client stream
    ServerThreads,   \* goroutines that use the server stream
    Main,            \* the one NewStream starts, which runs the handler
    Unlocked,        \* value of a mutex nobody holds
    Keys,            \* metadata keys
    ResponseStream,  \* desc.ServerStreams: may the server send many messages?
    CopyMayFail,     \* can Cloner.Copy return an error?
    MaxReq, MaxResp, \* bounds: request and response messages written
    MaxHdr           \* bound: header frames written by SendHeader or SendMsg

ASSUME ThreadsAssumption ==
    /\ Main \in ServerThreads
    /\ ClientThreads \cap ServerThreads = {}
    /\ Unlocked \notin ClientThreads \cup ServerThreads
ASSUME FlagsAssumption == ResponseStream \in BOOLEAN /\ CopyMayFail \in BOOLEAN
ASSUME BoundsAssumption == MaxReq \in Nat /\ MaxResp \in Nat /\ MaxHdr \in Nat

VARIABLES
    ctxDone, svrDone, rpcDone,  \* the client's ctx, svrCtx, svrDoneCtx
    reqSent, reqRcvd,           \* messages written to / taken from requests
    reqClosed,                  \* close(requests) was called
    respLog, respRd,            \* frames written to responses, how many taken
    respClosed,                 \* close(responses) was called
    cpc, reqMu, sendClosed,     \* client stream, sending side
    respMu, cState, last, cliHeaders, cliTrailers, ended,  \* receiving side
    spc, mu, sState, headers, trailers,                    \* server stream
    taken,                      \* the message a server RecvMsg holds
    todo,                       \* frames finish still has to write
    hret,                       \* what the handler returned
    hdrFrames, respSent,        \* header and data frames written so far
    consumed,                   \* messages taken by the client's RecvMsg
    handled,                    \* messages taken by the server's RecvMsg
    result,                     \* result of the last client RecvMsg
    headersSet, trailersSet     \* all metadata the server stream accepted

ctxVars  == <<ctxDone, svrDone, rpcDone>>
sendVars == <<reqSent, reqClosed, reqMu, sendClosed>>
recvVars == <<respRd, respMu, cState, last, cliHeaders, cliTrailers, ended,
              consumed, result>>
outVars  == <<respLog, respClosed, mu, sState, headers, trailers, todo, hret,
              hdrFrames, respSent, headersSet, trailersSet>>
inVars   == <<reqRcvd, taken, handled>>
vars     == <<ctxVars, sendVars, recvVars, outVars, inVars, cpc, spc>>

-----------------------------------------------------------------------------
(* Frames and the two channels.                                            *)

Buffer == 1

Frame == [kind : {"headers", "data", "trailers", "error", "many", "none"},
          md : SUBSET Keys, n : Nat]

HeadersFrame(md)  == [kind |-> "headers", md |-> md, n |-> 0]
DataFrame(n)      == [kind |-> "data", md |-> {}, n |-> n]
TrailersFrame(md) == [kind |-> "trailers", md |-> md, n |-> 0]
ErrorFrame        == [kind |-> "error", md |-> {}, n |-> 0]
(* The client's own error: "server sent >1" response messages.             *)
ManyFrame         == [kind |-> "many", md |-> {}, n |-> 0]
NoFrame           == [kind |-> "none", md |-> {}, n |-> 0]

RoomForResponse_OffByOne == Len(respLog) - respRd <= Buffer
RoomForRequest  == reqSent - reqRcvd < Buffer
RoomForResponse == Len(respLog) - respRd < Buffer
ResponseReady   == respRd < Len(respLog)
ResponsesEnded  == respClosed /\ respRd = Len(respLog)

Init ==
    /\ ctxDone = FALSE /\ svrDone = FALSE /\ rpcDone = FALSE
    /\ reqSent = 0 /\ reqRcvd = 0 /\ reqClosed = FALSE
    /\ respLog = <<>> /\ respRd = 0 /\ respClosed = FALSE
    /\ cpc = [t \in ClientThreads |-> "idle"]
    /\ reqMu = Unlocked /\ sendClosed = FALSE
    /\ respMu = Unlocked /\ cState = "Headers" /\ last = NoFrame
    /\ cliHeaders = {} /\ cliTrailers = {} /\ ended = FALSE
    /\ spc = [t \in ServerThreads |-> "idle"]
    /\ mu = Unlocked /\ sState = "Headers" /\ headers = {} /\ trailers = {}
    /\ taken = [t \in ServerThreads |-> 0] /\ todo = <<>> /\ hret = "none"
    /\ hdrFrames = 0 /\ respSent = 0
    /\ consumed = <<>> /\ handled = {} /\ result = "none"
    /\ headersSet = {} /\ trailersSet = {}

-----------------------------------------------------------------------------
(* Contexts.  svrCtx hides the values of the client's ctx, so it is not    *)
(* linked to it as a child: a goroutine of the context package forwards    *)
(* the cancellation, some time later.                                      *)

(* The application cancels, the deadline passes, or the finalizer runs.    *)
Cancel ==
    /\ ~ctxDone
    /\ ctxDone' = TRUE
    /\ UNCHANGED <<svrDone, rpcDone, sendVars, recvVars, outVars, inVars,
                   cpc, spc>>

(* A server context that does not descend from the client's.               *)
Propagate_Never == FALSE

Propagate ==
    /\ ctxDone /\ ~svrDone
    /\ svrDone' = TRUE /\ rpcDone' = TRUE
    /\ UNCHANGED <<ctxDone, sendVars, recvVars, outVars, inVars, cpc, spc>>

-----------------------------------------------------------------------------
(* Client stream: SendMsg and CloseSend, under reqMu.                      *)

ClientSendMsg(t) ==
    /\ cpc[t] = "idle" /\ reqMu = Unlocked /\ ~sendClosed
    /\ reqSent < MaxReq
    /\ reqMu' = t
    /\ cpc' = [cpc EXCEPT ![t] = "sending"]
    /\ UNCHANGED <<ctxVars, reqSent, reqClosed, sendClosed, recvVars, outVars,
                   inVars, spc>>

(* writeMessage with remoteCtx: the select takes any case that is ready.   *)
SendMayStop == ctxDone \/ rpcDone

SendMsgWrites(t) ==
    /\ cpc[t] = "sending" /\ RoomForRequest
    /\ reqSent' = reqSent + 1
    /\ reqMu' = Unlocked
    /\ cpc' = [cpc EXCEPT ![t] = "idle"]
    /\ UNCHANGED <<ctxVars, reqClosed, sendClosed, recvVars, outVars, inVars,
                   spc>>

SendMsgAbandons(t) ==
    /\ cpc[t] = "sending" /\ SendMayStop
    /\ reqMu' = Unlocked
    /\ cpc' = [cpc EXCEPT ![t] = "idle"]
    /\ UNCHANGED <<ctxVars, reqSent, reqClosed, sendClosed, recvVars, outVars,
                   inVars, spc>>

CloseSend(t) ==
    /\ cpc[t] = "idle" /\ reqMu = Unlocked /\ ~sendClosed
    /\ reqClosed' = TRUE /\ sendClosed' = TRUE
    /\ UNCHANGED <<ctxVars, reqSent, reqMu, recvVars, outVars, inVars, cpc,
                   spc>>

-----------------------------------------------------------------------------
(* Client stream: Header and RecvMsg, under respMu.  readMessage takes a   *)
(* frame in one step and looks at ctx.Err() in the next; the frame at      *)
(* respRd is then the one in its hand.                                     *)

InHand == respLog[respRd]

Header(t) ==
    /\ cpc[t] = "idle" /\ respMu = Unlocked /\ cState = "Headers"
    /\ respMu' = t
    /\ cpc' = [cpc EXCEPT ![t] = "peeking"]
    /\ UNCHANGED <<ctxVars, sendVars, respRd, cState, last, cliHeaders,
                   cliTrailers, ended, consumed, result, outVars, inVars, spc>>

ReadMessage(t) ==
    /\ ResponseReady
    /\ \/ cpc[t] = "peeking"   /\ cpc' = [cpc EXCEPT ![t] = "peeked"]
       \/ cpc[t] = "receiving" /\ cpc' = [cpc EXCEPT ![t] = "received"]
       \/ cpc[t] = "checking"  /\ cpc' = [cpc EXCEPT ![t] = "checked"]
    /\ respRd' = respRd + 1
    /\ UNCHANGED <<ctxVars, sendVars, respMu, cState, last, cliHeaders,
                   cliTrailers, ended, consumed, result, outVars, inVars, spc>>

(* The call of t returns, or goes back to wait for another frame.          *)
Unlock(t) == respMu' = Unlocked /\ cpc' = [cpc EXCEPT ![t] = "idle"]
Again(t, pc) == respMu' = respMu /\ cpc' = [cpc EXCEPT ![t] = pc]

(* A message or an error is kept for the next RecvMsg.                     *)
Kept_ErrorsOnly(f) == IF f.kind = "error" THEN f ELSE last
Kept(f)            == IF f.kind \in {"data", "error"} THEN f ELSE last

HeaderGetsFrame(t) ==
    /\ cpc[t] = "peeked" /\ ~ctxDone
    /\ cState' = IF InHand.kind = "error" THEN "Closed" ELSE "Messages"
    /\ last' = Kept(InHand)
    /\ cliHeaders' = IF InHand.kind = "headers" THEN InHand.md ELSE cliHeaders
    /\ cliTrailers' = IF InHand.kind = "trailers" THEN InHand.md ELSE cliTrailers
    /\ Unlock(t)
    /\ UNCHANGED <<ctxVars, sendVars, respRd, ended, consumed, result, outVars,
                   inVars, spc>>

HeaderGetsEOF(t) ==
    /\ cpc[t] = "peeking" /\ ResponsesEnded /\ ~ctxDone
    /\ cState' = "Closed"
    /\ Unlock(t)
    /\ UNCHANGED <<ctxVars, sendVars, respRd, last, cliHeaders, cliTrailers,
                   ended, consumed, result, outVars, inVars, spc>>

(* The frame in hand, if any, is dropped.                                  *)
HeaderGetsCtxErr(t) ==
    /\ cpc[t] \in {"peeking", "peeked"} /\ ctxDone
    /\ Unlock(t)
    /\ UNCHANGED <<ctxVars, sendVars, respRd, cState, last, cliHeaders,
                   cliTrailers, ended, consumed, result, outVars, inVars, spc>>

RecvMsg(t) ==
    /\ cpc[t] = "idle" /\ respMu = Unlocked /\ last.kind = "none"
    /\ respMu' = t
    /\ cpc' = [cpc EXCEPT ![t] = "receiving"]
    /\ UNCHANGED <<ctxVars, sendVars, respRd, cState, last, cliHeaders,
                   cliTrailers, ended, consumed, result, outVars, inVars, spc>>

(* After a message was copied: a method with one response goes on to       *)
(* ensureNoMoreLocked, any other returns the message.                      *)
MessageCopied_NoCheck(t) == result' = "msg" /\ Unlock(t)

MessageCopied(t) ==
    IF ResponseStream
    THEN result' = "msg" /\ Unlock(t)
    ELSE result' = result /\ respMu' = t /\ cpc' = [cpc EXCEPT ![t] = "checking"]

(* The message Header has peeked is returned first.                        *)
RecvMsgPeekedData(t) ==
    /\ cpc[t] = "idle" /\ respMu = Unlocked /\ last.kind = "data"
    /\ \/ /\ consumed' = Append(consumed, last.n)
          /\ last' = NoFrame
          /\ MessageCopied(t)
       \/ /\ CopyMayFail
          /\ result' = "copyErr"
          /\ UNCHANGED <<consumed, last, respMu, cpc>>
    /\ UNCHANGED <<ctxVars, sendVars, respRd, cState, cliHeaders, cliTrailers,
                   ended, outVars, inVars, spc>>

RecvMsgPeekedError(t) ==
    /\ cpc[t] = "idle" /\ respMu = Unlocked /\ last.kind \in {"error", "many"}
    /\ cState' = "Closed" /\ ended' = TRUE
    /\ result' = IF last.kind = "many" THEN "many" ELSE "err"
    /\ UNCHANGED <<ctxVars, sendVars, respRd, respMu, last, cliHeaders,
                   cliTrailers, consumed, outVars, inVars, cpc, spc>>

RecvMsgGetsMetadata(t) ==
    /\ cpc[t] \in {"received", "checked"} /\ ~ctxDone
    /\ \/ /\ InHand.kind = "headers"
          /\ cState' = "Messages" /\ cliHeaders' = InHand.md
          /\ UNCHANGED cliTrailers
       \/ /\ InHand.kind = "trailers"
          /\ cliTrailers' = InHand.md
          /\ UNCHANGED <<cState, cliHeaders>>
    /\ Again(t, IF cpc[t] = "received" THEN "receiving" ELSE "checking")
    /\ UNCHANGED <<ctxVars, sendVars, respRd, last, ended, consumed, result,
                   outVars, inVars, spc>>

RecvMsgGetsData(t) ==
    /\ cpc[t] = "received" /\ ~ctxDone /\ InHand.kind = "data"
    /\ consumed' = Append(consumed, InHand.n)
    /\ \/ MessageCopied(t)
       \/ CopyMayFail /\ result' = "copyErr" /\ Unlock(t)
    /\ UNCHANGED <<ctxVars, sendVars, respRd, cState, last, cliHeaders,
                   cliTrailers, ended, outVars, inVars, spc>>

(* ensureNoMoreLocked gets a message: an error, unless Copy fails, which   *)
(* it takes for the end of the stream.                                     *)
CheckGetsData(t) ==
    /\ cpc[t] = "checked" /\ ~ctxDone /\ InHand.kind = "data"
    /\ consumed' = Append(consumed, InHand.n)
    /\ \/ last' = ManyFrame /\ cState' = "Closed" /\ result' = "many"
       \/ CopyMayFail /\ result' = "msg" /\ UNCHANGED <<last, cState>>
    /\ Unlock(t)
    /\ UNCHANGED <<ctxVars, sendVars, respRd, cliHeaders, cliTrailers, ended,
                   outVars, inVars, spc>>

RecvMsgGetsError_Forgets(t) ==
    /\ cpc[t] \in {"received", "checked"} /\ ~ctxDone /\ InHand.kind = "error"
    /\ cState' = "Closed" /\ ended' = TRUE
    /\ result' = IF cpc[t] = "checked" THEN "msg" ELSE "err"
    /\ Unlock(t)
    /\ UNCHANGED <<ctxVars, sendVars, respRd, last, cliHeaders, cliTrailers,
                   consumed, outVars, inVars, spc>>

RecvMsgGetsError(t) ==
    /\ cpc[t] \in {"received", "checked"} /\ ~ctxDone /\ InHand.kind = "error"
    /\ cState' = "Closed" /\ last' = InHand /\ ended' = TRUE
    /\ result' = IF cpc[t] = "checked" THEN "msg" ELSE "err"
    /\ Unlock(t)
    /\ UNCHANGED <<ctxVars, sendVars, respRd, cliHeaders, cliTrailers, consumed,
                   outVars, inVars, spc>>

RecvMsgGetsEOF(t) ==
    /\ cpc[t] \in {"receiving", "checking"} /\ ResponsesEnded /\ ~ctxDone
    /\ cState' = "Closed" /\ ended' = TRUE
    /\ result' = IF cpc[t] = "checking" THEN "msg" ELSE "EOF"
    /\ Unlock(t)
    /\ UNCHANGED <<ctxVars, sendVars, respRd, last, cliHeaders, cliTrailers,
                   consumed, outVars, inVars, spc>>

(* In the check for a second message every error means there is none.      *)
RecvMsgGetsCtxErr_AfterFrame(t) ==
    /\ cpc[t] \in {"received", "checked"} /\ ctxDone
    /\ result' = IF cpc[t] = "checked" THEN "msg" ELSE "ctx"
    /\ Unlock(t)
    /\ UNCHANGED <<ctxVars, sendVars, respRd, cState, last, cliHeaders,
                   cliTrailers, ended, consumed, outVars, inVars, spc>>

RecvMsgGetsCtxErr(t) ==
    /\ cpc[t] \in {"receiving", "received", "checking", "checked"} /\ ctxDone
    /\ result' = IF cpc[t] \in {"checking", "checked"} THEN "msg" ELSE "ctx"
    /\ Unlock(t)
    /\ UNCHANGED <<ctxVars, sendVars, respRd, cState, last, cliHeaders,
                   cliTrailers, ended, consumed, outVars, inVars, spc>>

-----------------------------------------------------------------------------
(* Server stream: headers and trailers, under mu.                          *)

SetHeader(t, md) ==
    /\ spc[t] = "idle" /\ mu = Unlocked /\ sState = "Headers"
    /\ headers' = headers \cup md /\ headersSet' = headersSet \cup md
    /\ UNCHANGED <<ctxVars, sendVars, recvVars, respLog, respClosed, mu, sState,
                   trailers, todo, hret, hdrFrames, respSent, trailersSet,
                   inVars, cpc, spc>>

(* setHeader(md, true).  A server SendMsg whose message is nil or cannot   *)
(* be cloned does what SendHeader does with no metadata, then fails.       *)
SendHeader(t, md) ==
    /\ spc[t] = "idle" /\ mu = Unlocked /\ sState = "Headers"
    /\ hdrFrames < MaxHdr
    /\ headers' = headers \cup md /\ headersSet' = headersSet \cup md
    /\ IF headers' = {}
       THEN sState' = "Messages" /\ UNCHANGED <<mu, spc>>
       ELSE mu' = t /\ spc' = [spc EXCEPT ![t] = "header"] /\ UNCHANGED sState
    /\ UNCHANGED <<ctxVars, sendVars, recvVars, respLog, respClosed, trailers,
                   todo, hret, hdrFrames, respSent, trailersSet, inVars, cpc>>

(* sendHeadersLocked, in two steps: the select of writeMessage, then its   *)
(* ctx.Err().  On an error the headers stay as they are, frame or no frame.*)
SendHeadersWrites(t) ==
    /\ RoomForResponse
    /\ \/ spc[t] = "header" /\ spc' = [spc EXCEPT ![t] = "headerSent"]
       \/ spc[t] = "msgHeader" /\ spc' = [spc EXCEPT ![t] = "msgHeaderSent"]
    /\ respLog' = Append(respLog, HeadersFrame(headers))
    /\ hdrFrames' = hdrFrames + 1
    /\ UNCHANGED <<ctxVars, sendVars, recvVars, respClosed, mu, sState, headers,
                   trailers, todo, hret, respSent, headersSet, trailersSet,
                   inVars, cpc>>

SendHeadersFails(t) ==
    /\ spc[t] \in {"header", "headerSent", "msgHeader", "msgHeaderSent"}
    /\ svrDone
    /\ mu' = Unlocked
    /\ spc' = [spc EXCEPT ![t] = "idle"]
    /\ UNCHANGED <<ctxVars, sendVars, recvVars, respLog, respClosed, sState,
                   headers, trailers, todo, hret, hdrFrames, respSent,
                   headersSet, trailersSet, inVars, cpc>>

SendHeadersReturns(t) ==
    /\ ~svrDone
    /\ \/ /\ spc[t] = "headerSent"
          /\ mu' = Unlocked /\ spc' = [spc EXCEPT ![t] = "idle"]
       \/ /\ spc[t] = "msgHeaderSent"
          /\ mu' = mu /\ spc' = [spc EXCEPT ![t] = "message"]
    /\ headers' = {} /\ sState' = "Messages"
    /\ UNCHANGED <<ctxVars, sendVars, recvVars, respLog, respClosed, trailers,
                   todo, hret, hdrFrames, respSent, headersSet, trailersSet,
                   inVars, cpc>>

SetTrailer(t, md) ==
    /\ spc[t] = "idle" /\ mu = Unlocked /\ sState # "Closed"
    /\ trailers' = trailers \cup md /\ trailersSet' = trailersSet \cup md
    /\ UNCHANGED <<ctxVars, sendVars, recvVars, respLog, respClosed, mu, sState,
                   headers, todo, hret, hdrFrames, respSent, headersSet, inVars,
                   cpc, spc>>

-----------------------------------------------------------------------------
(* Server stream: messages.                                                *)

ServerOpen_NoStateCheck == ~svrDone
ServerOpen == ~svrDone /\ sState # "Closed"

ServerSendMsg(t) ==
    /\ spc[t] = "idle" /\ mu = Unlocked /\ ServerOpen
    /\ respSent < MaxResp /\ (sState = "Headers" => hdrFrames < MaxHdr)
    /\ mu' = t
    /\ IF sState = "Headers" /\ headers # {}
       THEN spc' = [spc EXCEPT ![t] = "msgHeader"] /\ UNCHANGED sState
       ELSE spc' = [spc EXCEPT ![t] = "message"] /\ sState' = "Messages"
    /\ UNCHANGED <<ctxVars, sendVars, recvVars, respLog, respClosed, headers,
                   trailers, todo, hret, hdrFrames, respSent, headersSet,
                   trailersSet, inVars, cpc>>

ServerSendMsgWrites(t) ==
    /\ spc[t] = "message" /\ RoomForResponse
    /\ respSent' = respSent + 1
    /\ respLog' = Append(respLog, DataFrame(respSent'))
    /\ mu' = Unlocked /\ spc' = [spc EXCEPT ![t] = "idle"]
    /\ UNCHANGED <<ctxVars, sendVars, recvVars, respClosed, sState, headers,
                   trailers, todo, hret, hdrFrames, headersSet, trailersSet,
                   inVars, cpc>>

ServerSendMsgAbandons(t) ==
    /\ spc[t] = "message" /\ svrDone
    /\ mu' = Unlocked /\ spc' = [spc EXCEPT ![t] = "idle"]
    /\ UNCHANGED <<ctxVars, sendVars, recvVars, respLog, respClosed, sState,
                   headers, trailers, todo, hret, hdrFrames, respSent,
                   headersSet, trailersSet, inVars, cpc>>

(* The server's RecvMsg takes no mutex.                                    *)
ServerRecvMsg(t) ==
    /\ spc[t] = "idle"
    /\ spc' = [spc EXCEPT ![t] = "receiving"]
    /\ UNCHANGED <<ctxVars, sendVars, recvVars, outVars, inVars, cpc>>

ServerReadMessage(t) ==
    /\ spc[t] = "receiving" /\ reqRcvd < reqSent
    /\ reqRcvd' = reqRcvd + 1
    /\ taken' = [taken EXCEPT ![t] = reqRcvd']
    /\ spc' = [spc EXCEPT ![t] = "received"]
    /\ UNCHANGED <<ctxVars, sendVars, recvVars, outVars, handled, cpc>>

ServerRecvMsgReturns(t) ==
    /\ spc[t] = "received" /\ ~svrDone
    /\ handled' = handled \cup {taken[t]}
    /\ taken' = [taken EXCEPT ![t] = 0]
    /\ spc' = [spc EXCEPT ![t] = "idle"]
    /\ UNCHANGED <<ctxVars, sendVars, recvVars, outVars, reqRcvd, cpc>>

(* io.EOF, or an error of svrCtx that drops the message in hand.           *)
ServerRecvMsgFails(t) ==
    /\ \/ spc[t] = "receiving" /\ reqClosed /\ reqRcvd = reqSent
       \/ spc[t] \in {"receiving", "received"} /\ svrDone
    /\ taken' = [taken EXCEPT ![t] = 0]
    /\ spc' = [spc EXCEPT ![t] = "idle"]
    /\ UNCHANGED <<ctxVars, sendVars, recvVars, outVars, reqRcvd, handled, cpc>>

-----------------------------------------------------------------------------
(* The end of the goroutine: the handler returns, finish, svrCancel.       *)

HandlerReturns(err) ==
    /\ spc[Main] = "idle"
    /\ hret' = err
    /\ spc' = [spc EXCEPT ![Main] = "onDone"]
    /\ UNCHANGED <<ctxVars, sendVars, recvVars, respLog, respClosed, mu, sState,
                   headers, trailers, todo, hdrFrames, respSent, headersSet,
                   trailersSet, inVars, cpc>>

FinishOnDone_NoCancel ==
    /\ spc[Main] = "onDone"
    /\ spc' = [spc EXCEPT ![Main] = "lock"]
    /\ UNCHANGED <<ctxVars, sendVars, recvVars, outVars, inVars, cpc>>

FinishOnDone ==
    /\ spc[Main] = "onDone"
    /\ rpcDone' = TRUE
    /\ spc' = [spc EXCEPT ![Main] = "lock"]
    /\ UNCHANGED <<ctxDone, svrDone, sendVars, recvVars, outVars, inVars, cpc>>

(* What finish writes, in this order; mu keeps it from changing.           *)
FinalFrames_ErrorFirst ==
    (IF sState = "Headers" /\ headers # {} THEN <<HeadersFrame(headers)>> ELSE <<>>)
    \o (IF hret = "err" THEN <<ErrorFrame>> ELSE <<>>)
    \o (IF trailers # {} THEN <<TrailersFrame(trailers)>> ELSE <<>>)

FinalFrames_NoHeaders ==
    (IF trailers # {} THEN <<TrailersFrame(trailers)>> ELSE <<>>)
    \o (IF hret = "err" THEN <<ErrorFrame>> ELSE <<>>)

FinalFrames ==
    (IF sState = "Headers" /\ headers # {} THEN <<HeadersFrame(headers)>> ELSE <<>>)
    \o (IF trailers # {} THEN <<TrailersFrame(trailers)>> ELSE <<>>)
    \o (IF hret = "err" THEN <<ErrorFrame>> ELSE <<>>)

FinishLock_NoMutex ==
    /\ spc[Main] = "lock"
    /\ mu' = Main
    /\ todo' = FinalFrames
    /\ spc' = [spc EXCEPT ![Main] = "finish"]
    /\ UNCHANGED <<ctxVars, sendVars, recvVars, respLog, respClosed, sState,
                   headers, trailers, hret, hdrFrames, respSent, headersSet,
                   trailersSet, inVars, cpc>>

FinishLock ==
    /\ spc[Main] = "lock" /\ mu = Unlocked
    /\ mu' = Main
    /\ todo' = FinalFrames
    /\ spc' = [spc EXCEPT ![Main] = "finish"]
    /\ UNCHANGED <<ctxVars, sendVars, recvVars, respLog, respClosed, sState,
                   headers, trailers, hret, hdrFrames, respSent, headersSet,
                   trailersSet, inVars, cpc>>

(* One writeMessage of finish, whose error is ignored.                     *)
FinishWrites ==
    /\ spc[Main] = "finish" /\ todo # <<>>
    /\ \/ RoomForResponse /\ respLog' = Append(respLog, Head(todo))
       \/ svrDone /\ respLog' = respLog
    /\ todo' = Tail(todo)
    /\ UNCHANGED <<ctxVars, sendVars, recvVars, respClosed, mu, sState, headers,
                   trailers, hret, hdrFrames, respSent, headersSet, trailersSet,
                   inVars, cpc, spc>>

FinishCloses ==
    /\ spc[Main] = "finish" /\ todo = <<>>
    /\ trailers' = {} /\ sState' = "Closed" /\ respClosed' = TRUE
    /\ mu' = Unlocked
    /\ spc' = [spc EXCEPT ![Main] = "exit"]
    /\ UNCHANGED <<ctxVars, sendVars, recvVars, respLog, headers, todo, hret,
                   hdrFrames, respSent, headersSet, trailersSet, inVars, cpc>>

SvrCancel ==
    /\ spc[Main] = "exit"
    /\ svrDone' = TRUE /\ rpcDone' = TRUE
    /\ spc' = [spc EXCEPT ![Main] = "gone"]
    /\ UNCHANGED <<ctxDone, sendVars, recvVars, outVars, inVars, cpc>>

-----------------------------------------------------------------------------
(* What the two applications start, and what the code then does.           *)

ClientCall(t) ==
    \/ ClientSendMsg(t) \/ CloseSend(t) \/ Header(t)
    \/ RecvMsg(t) \/ RecvMsgPeekedData(t) \/ RecvMsgPeekedError(t)

ServerCall(t) ==
    \/ \E md \in SUBSET Keys : SetHeader(t, md) \/ SendHeader(t, md)
                               \/ SetTrailer(t, md)
    \/ ServerSendMsg(t) \/ ServerRecvMsg(t)

ClientStep(t) ==
    \/ SendMsgWrites(t) \/ SendMsgAbandons(t) \/ ReadMessage(t)
    \/ HeaderGetsFrame(t) \/ HeaderGetsEOF(t) \/ HeaderGetsCtxErr(t)
    \/ RecvMsgGetsMetadata(t) \/ RecvMsgGetsData(t) \/ CheckGetsData(t)
    \/ RecvMsgGetsError(t) \/ RecvMsgGetsEOF(t) \/ RecvMsgGetsCtxErr(t)

ServerStep(t) ==
    \/ SendHeadersWrites(t) \/ SendHeadersFails(t) \/ SendHeadersReturns(t)
    \/ ServerSendMsgWrites(t) \/ ServerSendMsgAbandons(t)
    \/ ServerReadMessage(t) \/ ServerRecvMsgReturns(t) \/ ServerRecvMsgFails(t)

FinishStep == FinishOnDone \/ FinishLock \/ FinishWrites \/ FinishCloses \/ SvrCancel

(* The RPC is over: no call is under way and none that waits can be.       *)
Over ==
    /\ spc[Main] = "gone"
    /\ \A t \in ServerThreads \ {Main} : spc[t] = "idle"
    /\ \A t \in ClientThreads : cpc[t] = "idle"
    /\ UNCHANGED vars

Next ==
    \/ Cancel \/ Propagate \/ FinishStep \/ Over
    \/ \E err \in {"ok", "err"} : HandlerReturns(err)
    \/ \E t \in ClientThreads : ClientCall(t) \/ ClientStep(t)
    \/ \E t \in ServerThreads : ServerCall(t) \/ ServerStep(t)

Spec == Init /\ [][Next]_vars

(* A goroutine inside a call runs on; a mutex that is released again and   *)
(* again is acquired in the end.  Nobody has to call, return or cancel.    *)
Fairness ==
    /\ WF_vars(Propagate)
    /\ \A t \in ClientThreads : WF_vars(ClientStep(t))
    /\ \A t \in ServerThreads : WF_vars(ServerStep(t))
    /\ WF_vars(FinishStep) /\ SF_vars(FinishLock)

FairSpec == Spec /\ Fairness

-----------------------------------------------------------------------------
(* Properties.                                                             *)

ClientPCs == {"idle", "sending", "peeking", "peeked", "receiving", "received",
              "checking", "checked"}
ServerPCs == {"idle", "header", "headerSent", "msgHeader", "msgHeaderSent",
              "message", "receiving", "received", "onDone", "lock", "finish",
              "exit", "gone"}

(* Every variable has its type; neither channel ever holds more than the   *)
(* one frame its buffer has room for (NewStream's two make calls).         *)
TypeOK ==
    /\ ctxDone \in BOOLEAN /\ svrDone \in BOOLEAN /\ rpcDone \in BOOLEAN
    /\ reqSent \in Nat /\ reqRcvd \in Nat /\ reqSent - reqRcvd \in 0..Buffer
    /\ respLog \in Seq(Frame) /\ respRd \in Nat
    /\ Len(respLog) - respRd \in 0..Buffer
    /\ reqClosed \in BOOLEAN /\ sendClosed \in BOOLEAN
    /\ respClosed \in BOOLEAN /\ ended \in BOOLEAN
    /\ cpc \in [ClientThreads -> ClientPCs]
    /\ spc \in [ServerThreads -> ServerPCs]
    /\ reqMu \in ClientThreads \cup {Unlocked}
    /\ respMu \in ClientThreads \cup {Unlocked}
    /\ mu \in ServerThreads \cup {Unlocked}
    /\ cState \in {"Headers", "Messages", "Closed"}
    /\ sState \in {"Headers", "Messages", "Closed"}
    /\ last \in Frame /\ todo \in Seq(Frame)
    /\ cliHeaders \subseteq Keys /\ cliTrailers \subseteq Keys
    /\ headers \subseteq Keys /\ trailers \subseteq Keys
    /\ headersSet \subseteq Keys /\ trailersSet \subseteq Keys
    /\ taken \in [ServerThreads -> Nat] /\ handled \subseteq Nat
    /\ hret \in {"none", "ok", "err"}
    /\ hdrFrames \in Nat /\ respSent \in Nat /\ consumed \in Seq(Nat)
    /\ result \in {"none", "msg", "copyErr", "EOF", "err", "ctx", "many"}

Sending(t) == cpc[t] = "sending"
Writing(t) == spc[t] \in {"header", "msgHeader", "message", "finish"}

(* Nobody is about to write to, or to close again, a Go channel that is    *)
(* already closed: either panics.  It is what reqMu and mu are there for   *)
(* ("guarded by mu to prevent write-after-close panic"), whatever helper   *)
(* goroutines of the handler do after it has returned.                     *)
NoWriteAfterClose ==
    /\ reqClosed => sendClosed /\ \A t \in ClientThreads : ~Sending(t)
    /\ respClosed => \A t \in ServerThreads : ~Writing(t)

Rank(f) == [headers |-> 1, data |-> 2, trailers |-> 3, error |-> 4][f.kind]

(* The frames of the response are headers, messages, trailers, error, in   *)
(* this order, even when several goroutines of the server and finish race; *)
(* trailers and the error come once.  So do headers ("Server streams must  *)
(* send zero or one header frame"), unless the call was cancelled.         *)
FramesInOrder ==
    \A i, j \in DOMAIN respLog : i < j =>
        /\ Rank(respLog[i]) <= Rank(respLog[j])
        /\ respLog[i].kind \in {"trailers", "error"} =>
              respLog[i].kind # respLog[j].kind
        /\ respLog[i].kind = "headers" /\ respLog[j].kind = "headers" => svrDone

(* Frames the client stream has taken and looked at.                       *)
Processed == respRd - (IF \E t \in ClientThreads :
                              cpc[t] \in {"peeked", "received", "checked"}
                       THEN 1 ELSE 0)
FramesOf(kind) == {i \in 1..Processed : respLog[i].kind = kind}

(* While the call is not cancelled, peeking at the first frame in Header   *)
(* and the check for a second response neither lose nor repeat nor reorder *)
(* anything: the client stream has each message it took, in order, and the *)
(* metadata of each headers and trailers frame; the handler's goroutines   *)
(* between them got each request taken from the other channel.             *)
NothingLostOrRepeated ==
    /\ \A i \in 1..Len(consumed) : consumed[i] = i
    /\ ~ctxDone =>
        /\ Cardinality(FramesOf("data")) =
             Len(consumed) + (IF last.kind = "data" THEN 1 ELSE 0)
        /\ last.kind = "data" => last.n = Len(consumed) + 1
        /\ cliHeaders = UNION {respLog[i].md : i \in FramesOf("headers")}
        /\ cliTrailers = UNION {respLog[i].md : i \in FramesOf("trailers")}
    /\ ~svrDone =>
        handled \cup ({taken[t] : t \in ServerThreads} \ {0}) = 1..reqRcvd

(* When RecvMsg reports the end, the handler has returned, with that       *)
(* outcome, the client has taken every message the server wrote, and it    *)
(* has all the headers and trailers the server stream ever accepted, from  *)
(* whichever goroutine and however late.                                   *)
EndIsComplete ==
    /\ result = "EOF" => hret = "ok"
    /\ result = "err" => hret = "err"
    /\ result \in {"EOF", "err"} =>
        /\ Len(consumed) = respSent
        /\ cliHeaders = headersSet /\ cliTrailers = trailersSet
    /\ ended /\ last.kind # "many" => hret # "none" /\ respRd = Len(respLog)

(* Once RecvMsg has reported the end, every later RecvMsg reports the same *)
(* one; only EOF may give way to the error of a context cancelled later.   *)
EndIsFinal ==
    [][(result \in {"EOF", "err", "many"}) =>
         \/ result' = result
         \/ result = "EOF" /\ result' = "ctx"]_vars

(* A method with one response: RecvMsg succeeds only if the server wrote   *)
(* exactly one message and the handler has returned, or the call was       *)
(* cancelled before the client could tell (ensureNoMoreLocked).  A message *)
(* that could not be copied, the first or the second, voids this.          *)
OneResponse ==
    ~ResponseStream /\ result = "msg" /\ ~ctxDone =>
        \/ hret # "none" /\ respSent = 1 /\ consumed = <<1>>
        \/ CopyMayFail /\ Len(consumed) > 1

(* A call that got its headers, or any frame that tells there are none,    *)
(* can return them at once: a Header that reads waits for the first frame  *)
(* of the response and no other.                                           *)
HeaderWaitsForFirstFrame ==
    (\E t \in ClientThreads : cpc[t] = "peeking") /\ ~ctxDone => respRd = 0

(* A failure of a method with one response takes precedence over the       *)
(* message: RecvMsg does not succeed when it has read the server's error.  *)
FailureTakesPrecedence ==
    ~(~ResponseStream /\ result = "msg" /\ last.kind = "error")

(* The stream keeps what a channel promises of an RPC (RpcStream): its     *)
(* steps are steps of the promise, and everything else is invisible.  The  *)
(* server's side is complete once finish holds mu.                         *)
Outcome == IF result \in {"none", "msg", "copyErr"} THEN "open"
           ELSE IF result = "many" THEN "tooMany" ELSE result

Promise == INSTANCE RpcStream WITH
    cancelled <- ctxDone, requests <- reqSent, halfClosed <- sendClosed,
    sent <- respSent, got <- Len(consumed), outcome <- Outcome,
    complete <- spc[Main] \in {"finish", "exit", "gone"}

KeepsPromise == Promise!Spec

(* A client call ends once the context is done, whatever the server does.  *)
CancelReleasesClient ==
    \A t \in ClientThreads : (ctxDone /\ cpc[t] # "idle") ~> (cpc[t] = "idle")

(* A client call ends once the handler has returned: a SendMsg that waits  *)
(* for room does not keep, and is not kept by, finish writing its frames   *)
(* (what svrDoneCtx is for).                                               *)
ReturnReleasesClient ==
    \A t \in ClientThreads :
        (hret # "none" /\ cpc[t] # "idle") ~> (cpc[t] = "idle")

(* After a cancellation the goroutine NewStream started ends once the      *)
(* handler returns, though nobody reads the frames finish writes.          *)
ServerGoroutineExits == (ctxDone /\ hret # "none") ~> (spc[Main] = "gone")
=============================================================================
