---------------------------- MODULE InprocUnary ----------------------------
(***************************************************************************)
(* One unary RPC of the in-process channel: Channel.Invoke and the         *)
(* goroutine it starts (inprocgrpc/in_process.go).  The goroutine runs the *)
(* handler and then writes headers, response, trailers and error to a Go   *)
(* channel of one slot; Invoke reads them until the channel is closed or   *)
(* its context is done.  The handler's context is Invoke's, with its       *)
(* values hidden, and Invoke cancels it when it returns.                   *)
(*                                                                         *)
(* The headers and trailers frames carry the maps of the transport stream  *)
(* themselves, not copies: a client that has the headers frame sees hdrs.  *)
(***************************************************************************)
EXTENDS UnaryTransportStream, Naturals, Sequences

CONSTANT CopyMayFail   \* can Cloner.Copy of the response return an error?
ASSUME CopyAssumption == CopyMayFail \in BOOLEAN

VARIABLES
    cancelled,    \* the caller's context was cancelled or timed out
    ctxDone,      \* so is the one Invoke derives from it
    spc, hret,    \* where the goroutine is, what the handler returned
    log, rd, closed,                  \* the Go channel ch
    gotResponse, gotHdrs, gotTlrs,    \* what Invoke has received
    result,                           \* what Invoke returned
    hdrsAtReturn, tlrsAtReturn        \* metadata set when the handler returned

svrVars == <<stsVars, spc, hret, closed, hdrsAtReturn, tlrsAtReturn>>
cliVars == <<rd, gotResponse, gotHdrs, gotTlrs, result>>
ctxVars == <<cancelled, ctxDone>>
vars    == <<svrVars, cliVars, ctxVars, log>>

Buffer == 1

Init ==
    /\ StsInit
    /\ cancelled = FALSE /\ ctxDone = FALSE
    /\ spc = "handler" /\ hret = "none"
    /\ log = <<>> /\ rd = 0 /\ closed = FALSE
    /\ gotResponse = FALSE /\ gotHdrs = FALSE /\ gotTlrs = FALSE
    /\ result = "none"
    /\ hdrsAtReturn = {} /\ tlrsAtReturn = {}

Cancel ==
    /\ ~cancelled
    /\ cancelled' = TRUE /\ ctxDone' = TRUE
    /\ UNCHANGED <<svrVars, cliVars, log>>

-----------------------------------------------------------------------------
(* The handler and its goroutines.                                         *)

SetMetadata ==
    /\ \E md \in SUBSET Keys :
           StsSetHeader(md) \/ StsSendHeader(md) \/ StsSetTrailer(md)
    /\ UNCHANGED <<spc, hret, closed, hdrsAtReturn, tlrsAtReturn,
                   cliVars, ctxVars, log>>

(* "nil" is neither an error nor a response.                               *)
HandlerReturns ==
    /\ spc = "handler"
    /\ hret' \in {"msg", "err", "nil"}
    /\ spc' = "headers"
    /\ hdrsAtReturn' = hdrs /\ tlrsAtReturn' = tlrs
    /\ UNCHANGED <<stsVars, closed, cliVars, ctxVars, log>>

(* What the goroutine writes next, and when it has nothing of the kind.    *)
AfterWrite == [headers |-> "data", data |-> "trailers", trailers |-> "error",
               error |-> "finish"]

Pending_NoTrailers(kind) ==
    CASE kind = "headers"  -> hdrs # {}
      [] kind = "data"     -> hret = "msg"
      [] kind = "trailers" -> FALSE
      [] kind = "error"    -> hret # "msg"

Pending_NilIsSuccess(kind) ==
    CASE kind = "headers"  -> hdrs # {}
      [] kind = "data"     -> hret = "msg"
      [] kind = "trailers" -> tlrs # {}
      [] kind = "error"    -> hret = "err"

Pending(kind) ==
    CASE kind = "headers"  -> hdrs # {}
      [] kind = "data"     -> hret = "msg"
      [] kind = "trailers" -> tlrs # {}
      [] kind = "error"    -> hret # "msg"

RoomForFrame_OffByOne == Len(log) - rd <= Buffer
RoomForFrame          == Len(log) - rd < Buffer

WriteFrame_NoCtx ==
    /\ spc \in DOMAIN AfterWrite
    /\ IF Pending(spc) THEN RoomForFrame /\ log' = Append(log, spc)
                       ELSE log' = log
    /\ spc' = AfterWrite[spc]
    /\ UNCHANGED <<stsVars, hret, closed, hdrsAtReturn, tlrsAtReturn,
                   cliVars, ctxVars>>

(* writeMessage, whose error is ignored: the frame may be dropped.         *)
WriteFrame ==
    /\ spc \in DOMAIN AfterWrite
    /\ IF Pending(spc)
       THEN \/ RoomForFrame /\ log' = Append(log, spc)
            \/ ctxDone /\ log' = log
       ELSE log' = log
    /\ spc' = AfterWrite[spc]
    /\ UNCHANGED <<stsVars, hret, closed, hdrsAtReturn, tlrsAtReturn,
                   cliVars, ctxVars>>

Finish ==
    /\ spc = "finish"
    /\ StsFinish
    /\ spc' = "close"
    /\ UNCHANGED <<hret, closed, hdrsAtReturn, tlrsAtReturn, cliVars,
                   ctxVars, log>>

CloseChannel_Forgotten ==
    /\ spc = "close"
    /\ spc' = "gone"
    /\ UNCHANGED <<stsVars, hret, closed, hdrsAtReturn, tlrsAtReturn,
                   cliVars, ctxVars, log>>

CloseChannel ==
    /\ spc = "close"
    /\ closed' = TRUE /\ spc' = "gone"
    /\ UNCHANGED <<stsVars, hret, hdrsAtReturn, tlrsAtReturn, cliVars,
                   ctxVars, log>>

-----------------------------------------------------------------------------
(* Invoke: a select of ch and ctx.Done(), in a loop.                       *)

(* Returning runs the deferred cancel().                                   *)
Return(r) == result' = r /\ ctxDone' = TRUE
Loop      == result' = result /\ ctxDone' = ctxDone

Receives(kind) == result = "none" /\ rd < Len(log) /\ log[rd + 1] = kind
               /\ rd' = rd + 1

GetMetadata ==
    /\ \/ Receives("headers")  /\ gotHdrs' = TRUE /\ UNCHANGED gotTlrs
       \/ Receives("trailers") /\ gotTlrs' = TRUE /\ UNCHANGED gotHdrs
    /\ Loop
    /\ UNCHANGED <<svrVars, cancelled, log, gotResponse>>

GetResponse ==
    /\ Receives("data")
    /\ IF gotResponse
       THEN Return("many") /\ UNCHANGED gotResponse
       ELSE /\ gotResponse' = TRUE
            /\ Loop \/ (CopyMayFail /\ Return("copyErr"))
    /\ UNCHANGED <<svrVars, cancelled, log, gotHdrs, gotTlrs>>

GetError ==
    /\ Receives("error")
    /\ Return("err")
    /\ UNCHANGED <<svrVars, cancelled, log, gotResponse, gotHdrs, gotTlrs>>

GetClosed ==
    /\ result = "none" /\ closed /\ rd = Len(log)
    /\ Return(IF gotResponse THEN "ok" ELSE "EOF")
    /\ UNCHANGED <<svrVars, cancelled, log, rd, gotResponse, gotHdrs, gotTlrs>>

GetCtxDone ==
    /\ result = "none" /\ ctxDone
    /\ Return("ctx")
    /\ UNCHANGED <<svrVars, cancelled, log, rd, gotResponse, gotHdrs, gotTlrs>>

InvokeStep == GetMetadata \/ GetResponse \/ GetError \/ GetClosed \/ GetCtxDone
ServerStep == WriteFrame \/ Finish \/ CloseChannel

Over == spc = "gone" /\ result # "none" /\ UNCHANGED vars

Next == Cancel \/ SetMetadata \/ HandlerReturns \/ ServerStep
        \/ InvokeStep \/ Over

Spec == Init /\ [][Next]_vars

(* Both goroutines run on; the handler need not return.                    *)
FairSpec == Spec /\ WF_vars(InvokeStep) /\ WF_vars(ServerStep)

-----------------------------------------------------------------------------
(* Every variable has its type, and ch never holds more frames than its    *)
(* buffer (make(chan frame, 1)).                                           *)
TypeOK ==
    /\ StsTypeOK
    /\ cancelled \in BOOLEAN /\ ctxDone \in BOOLEAN
    /\ spc \in DOMAIN AfterWrite \cup {"handler", "finish", "close", "gone"}
    /\ hret \in {"none", "msg", "err", "nil"}
    /\ log \in Seq(DOMAIN AfterWrite) /\ rd \in Nat /\ closed \in BOOLEAN
    /\ Len(log) - rd \in 0..Buffer
    /\ gotResponse \in BOOLEAN /\ gotHdrs \in BOOLEAN /\ gotTlrs \in BOOLEAN
    /\ result \in {"none", "ok", "EOF", "err", "ctx", "copyErr", "many"}
    /\ hdrsAtReturn \subseteq Keys /\ tlrsAtReturn \subseteq Keys

(* A call that was not cancelled has the outcome of its handler: success   *)
(* exactly when it returned a message, a failure also when it returned     *)
(* neither error nor message (in_process.go, the isNil(v) test).           *)
OutcomeIsHandlers ==
    ~cancelled => /\ result \in {"none", "ok", "err", "copyErr"}
                  /\ result = "ok" => hret = "msg"
                  /\ result = "err" => hret \in {"err", "nil"}

(* When Invoke returns the outcome of a call that was not cancelled before *)
(* the end, it has handed over all the headers and trailers the handler    *)
(* had set when it returned.                                               *)
MetadataIsComplete ==
    ~cancelled /\ result \in {"ok", "err"} =>
        /\ hdrsAtReturn # {} => gotHdrs
        /\ tlrsAtReturn # {} => gotTlrs

(* Metadata that a successful Invoke has handed over, the maps themselves, *)
(* is not changed any more by what the handler has left running: Finish    *)
(* comes before close(ch).                                                 *)
MetadataIsFinal ==
    [][(result = "ok") => hdrs' = hdrs /\ tlrs' = tlrs]_vars

(* Invoke returns once the handler has, or the caller's context is done.   *)
InvokeReturns == (cancelled \/ hret # "none") ~> (result # "none")

(* The goroutine does not outlive the handler, even if Invoke returned     *)
(* before it has read everything: no write to ch waits for ever.           *)
GoroutineExits == (hret # "none") ~> (spc = "gone")
=============================================================================
