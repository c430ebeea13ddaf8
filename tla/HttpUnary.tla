------------------------------ MODULE HttpUnary ------------------------------
(***************************************************************************)
(* One unary RPC over HTTP, from end to end: Channel.Invoke and the        *)
(* goroutine that reads the reply (httpgrpc/client.go), handleMethod and   *)
(* the handler it runs (httpgrpc/server.go), and the connection between.   *)
(*                                                                         *)
(* The reply may also come from something in front of the server, which    *)
(* knows nothing of gRPC ("foreign").  Goroutines that the handler left    *)
(* behind may go on to set metadata.                                       *)
(***************************************************************************)
EXTENDS UnaryTransportStream, HttpHeaders, StatusCodes

CONSTANTS
    Metadata,    \* what is passed to SetHeader and the like: sets of keys
    Calls,       \* the calls that are tried: [left, md, creds, timeout], where
    NoDeadline   \* left is the time until the deadline, or this

(* A header without a name cannot be sent; time.Until gives a Duration.    *)
(* The field timeout is the value of the key grpc-timeout, if the metadata *)
(* or the credentials have one; its unit is "none" if nobody can parse it. *)
ASSUME MetadataAssumption == Keys \subseteq Names /\ Metadata \subseteq SUBSET Keys
ASSUME CallsAssumption ==
    /\ NoDeadline \notin Int
    /\ \A c \in Calls : /\ c.md \cup c.creds \subseteq Names
                         /\ c.left \in Durations \cup {NoDeadline}
                         /\ c.timeout \in [unit : STRING, val : Int]

StatusKey == <<"x-grpc-status">>

VARIABLES
    ctxDone, call,           \* the caller's context, and what it calls with
    pc, outcome, wants,      \* Invoke; was it asked for headers and trailers?
    gotHdrs, gotTlrs,        \* what the call options received
    reader,                  \* the goroutine, and the error of its ReadAll
    connected, request,
    spc, svrMD, svrTimeout,  \* handleMethod and the handler's context
    hret, names,             \* the handler's result, w.Header()
    reply, whole,            \* the reply; was all of its body written?
    hdrsAtReturn, tlrsAtReturn

ctxVars == <<ctxDone, call>>
invVars == <<pc, outcome, wants, gotHdrs, gotTlrs>>
svrVars == <<spc, svrMD, svrTimeout, hret, names, hdrsAtReturn, tlrsAtReturn>>
netVars == <<connected, request, reply, whole>>
vars    == <<stsVars, ctxVars, invVars, svrVars, netVars, reader>>

Reply(origin, status, code, hdr, bad) ==
    [origin |-> origin, status |-> status, code |-> code, names |-> hdr,
     bad |-> bad]
NoReply   == Reply("none", 0, "none", {}, FALSE)
NoRequest == [sent |-> FALSE, names |-> {}, timeout |-> NoTimeout]

Init ==
    /\ StsInit
    /\ ctxDone = FALSE /\ call \in Calls
    /\ pc = "start" /\ outcome = "none" /\ wants = FALSE
    /\ gotHdrs = {} /\ gotTlrs = {}
    /\ reader = "none"
    /\ connected = TRUE /\ request = NoRequest
    /\ spc = "idle" /\ svrMD = {} /\ svrTimeout = NoTimeout
    /\ hret = "none" /\ names = {}
    /\ reply = NoReply /\ whole = FALSE
    /\ hdrsAtReturn = {} /\ tlrsAtReturn = {}

Cancel ==
    /\ ~ctxDone /\ ctxDone' = TRUE
    /\ UNCHANGED <<stsVars, call, invVars, svrVars, netVars, reader>>

ConnectionBreaks ==
    /\ connected /\ ~whole /\ connected' = FALSE
    /\ UNCHANGED <<stsVars, ctxVars, invVars, svrVars, request, reply, whole,
                   reader>>

-----------------------------------------------------------------------------
(* Invoke.                                                                 *)

Ends(result) == pc' = "done" /\ outcome' = result

(* The credentials refuse, or ask for a secure channel where there is      *)
(* none, or the codec refuses the request.                                 *)
InvokeRefused ==
    /\ pc = "start" /\ Ends("refused")
    /\ UNCHANGED <<stsVars, ctxVars, wants, gotHdrs, gotTlrs, svrVars,
                   netVars, reader>>

(* Credentials are joined to the metadata before it is made into headers.  *)
ApplyPerRPCCreds == call.md \cup call.creds

HasDeadline == call.left # NoDeadline

TimeoutInMetadata ==
    IF TimeoutKey \in ApplyPerRPCCreds THEN call.timeout ELSE NoTimeout

headersFromContext_Adds ==
    [sent    |-> TRUE,
     names   |-> toHeaders(ApplyPerRPCCreds, <<>>)
                     \cup IF HasDeadline THEN {TimeoutKey} ELSE {},
     timeout |-> IF HasDeadline /\ TimeoutKey \notin ApplyPerRPCCreds
                 THEN TimeoutHeader(call.left) ELSE TimeoutInMetadata]

(* The deadline of the context replaces a header that the metadata made.   *)
headersFromContext ==
    [sent    |-> TRUE,
     names   |-> toHeaders(ApplyPerRPCCreds, <<>>)
                     \cup IF HasDeadline THEN {TimeoutKey} ELSE {},
     timeout |-> IF HasDeadline THEN TimeoutHeader(call.left)
                                ELSE TimeoutInMetadata]

Invoke ==
    /\ pc = "start" /\ pc' = "roundTrip"
    /\ request' = headersFromContext
    /\ UNCHANGED <<stsVars, ctxVars, outcome, wants, gotHdrs, gotTlrs, svrVars,
                   connected, reply, whole, reader>>

RoundTripFails ==
    /\ pc = "roundTrip"
    /\ \/ ctxDone /\ Ends("ctx")
       \/ ~connected /\ Ends("net")
    /\ UNCHANGED <<stsVars, ctxVars, wants, gotHdrs, gotTlrs, svrVars,
                   netVars, reader>>

statFromResponse ==
    IF reply.code = "none" THEN codeFromHttpStatus(reply.status)
                           ELSE reply.code

ChecksStatus ==
    IF statFromResponse = "OK" THEN pc' = "select" /\ outcome' = outcome
                               ELSE Ends(statFromResponse)

RoundTripReplies_StatusFirst ==
    /\ pc = "roundTrip" /\ reply # NoReply
    /\ reader' = "reading" /\ wants' \in BOOLEAN
    /\ ChecksStatus
    /\ IF wants' /\ pc' # "done"
       THEN /\ gotHdrs' = HeadersOf(reply.names)
            /\ gotTlrs' = TrailersOf(reply.names)
       ELSE UNCHANGED <<gotHdrs, gotTlrs>>
    /\ UNCHANGED <<stsVars, ctxVars, svrVars, netVars>>

(* The goroutine is started first; Invoke may return without it.           *)
RoundTripReplies ==
    /\ pc = "roundTrip" /\ reply # NoReply
    /\ reader' = "reading" /\ wants' \in BOOLEAN
    /\ IF wants' /\ reply.bad
       THEN Ends("badHeader") /\ UNCHANGED <<gotHdrs, gotTlrs>>
       ELSE /\ ChecksStatus
            /\ gotHdrs' = IF wants' THEN HeadersOf(reply.names) ELSE {}
            /\ gotTlrs' = IF wants' THEN TrailersOf(reply.names) ELSE {}
    /\ UNCHANGED <<stsVars, ctxVars, svrVars, netVars>>

SelectCtxDone ==
    /\ pc = "select" /\ ctxDone /\ Ends("ctx")
    /\ UNCHANGED <<stsVars, ctxVars, wants, gotHdrs, gotTlrs, svrVars,
                   netVars, reader>>

(* Of a whole body the codec decides.                                      *)
SelectBody ==
    /\ pc = "select" /\ reader \in {"ok", "net", "rawCtx"}
    /\ IF reader = "ok" THEN Ends("OK") \/ Ends("invalid") ELSE Ends(reader)
    /\ UNCHANGED <<stsVars, ctxVars, wants, gotHdrs, gotTlrs, svrVars,
                   netVars, reader>>

ReadsBody_IgnoresCtx ==
    /\ reader = "reading"
    /\ \/ whole /\ reader' = "ok"
       \/ ~connected /\ reader' = "net"
    /\ UNCHANGED <<stsVars, ctxVars, invVars, svrVars, netVars>>

ReadsBody ==
    /\ reader = "reading"
    /\ \/ whole /\ reader' = "ok"
       \/ ~connected /\ reader' = "net"
       \/ ctxDone /\ reader' = "rawCtx"
    /\ UNCHANGED <<stsVars, ctxVars, invVars, svrVars, netVars>>

-----------------------------------------------------------------------------
(* handleMethod.                                                           *)

(* What is written to a connection that is gone reaches nobody.            *)
Writes(r) == reply' = IF connected THEN r ELSE reply

(* A content type without a codec, headers that do not decode, a request   *)
(* that cannot be read to its end (499).                                   *)
Rejects ==
    /\ spc = "idle" /\ request.sent /\ spc' = "body"
    /\ \E status \in {400, 415, 499} :
           Writes(Reply("server", status, "none", {}, FALSE))
    /\ UNCHANGED <<stsVars, ctxVars, invVars, svrMD, svrTimeout, hret, names,
                   hdrsAtReturn, tlrsAtReturn, connected, request, whole,
                   reader>>

HandlerStarts ==
    /\ spc = "idle" /\ request.sent /\ spc' = "handler"
    /\ svrMD' = request.names
    /\ svrTimeout' = TimeoutOf(request.timeout)
    /\ UNCHANGED <<stsVars, ctxVars, invVars, hret, names, hdrsAtReturn,
                   tlrsAtReturn, netVars, reader>>

(* What is set later still is accepted and reaches nobody: handleMethod    *)
(* does not call Finish.                                                   *)
SetMetadata ==
    /\ spc \in {"handler", "headers", "trailers"}
    /\ \E md \in Metadata :
           StsSetHeader(md) \/ StsSendHeader(md) \/ StsSetTrailer(md)
    /\ UNCHANGED <<ctxVars, invVars, svrVars, netVars, reader>>

(* "nil": a message; "unencodable": one that the codec refuses; otherwise  *)
(* an error with that code, "OK" among them.                               *)
HandlerReturns ==
    /\ spc = "handler" /\ spc' = "headers"
    /\ hret' \in {"nil", "unencodable", "OK", "Canceled", "AlreadyExists"}
    /\ hdrsAtReturn' = hdrs /\ tlrsAtReturn' = tlrs
    /\ UNCHANGED <<stsVars, ctxVars, invVars, svrMD, svrTimeout, names,
                   netVars, reader>>

CopiesHeaders ==
    /\ spc = "headers" /\ spc' = "trailers"
    /\ names' = toHeaders(hdrs, <<>>)
    /\ UNCHANGED <<stsVars, ctxVars, invVars, svrMD, svrTimeout, hret,
                   hdrsAtReturn, tlrsAtReturn, netVars, reader>>

CopiesTrailers ==
    /\ spc = "trailers" /\ spc' = "status"
    /\ names' = names \cup toHeaders(tlrs, trailerPrefix)
    /\ UNCHANGED <<stsVars, ctxVars, invVars, svrMD, svrTimeout, hret,
                   hdrsAtReturn, tlrsAtReturn, netVars, reader>>

(* "we don't want to send back a non-error status when we know an error    *)
(* occured"                                                                *)
ErrorCode_AsGiven == hret
ErrorCode         == IF hret = "OK" THEN "Internal" ELSE hret

(* DefaultErrorRenderer, or one of the application's that writes what it   *)
(* likes, nothing (200) for instance.                                      *)
RenderedStatus ==
    {httpStatusFromCode(ErrorCode), 200}
        \cup IF ErrorCode \in {"Canceled", "DeadlineExceeded"}
                /\ (ctxDone \/ ~connected)
             THEN {499} ELSE {}

(* X-GRPC-Status as the handler set it, if it did.                         *)
CodeFromMetadata == IF StatusKey \in names THEN "Unknown" ELSE "none"

Replies ==
    /\ spc = "status" /\ spc' = "body"
    /\ \/ /\ hret = "nil"
          /\ Writes(Reply("server", 200, CodeFromMetadata, names, FALSE))
       \/ /\ hret = "unencodable"
          /\ Writes(Reply("server", 500, CodeFromMetadata, names, FALSE))
       \/ /\ hret \in Codes
          /\ \E status \in RenderedStatus :
                 Writes(Reply("server", status, ErrorCode, names, FALSE))
    /\ UNCHANGED <<stsVars, ctxVars, invVars, svrMD, svrTimeout, hret, names,
                   hdrsAtReturn, tlrsAtReturn, connected, request, whole,
                   reader>>

WritesBody ==
    /\ spc = "body" /\ spc' = "over"
    /\ whole' = (connected /\ reply # NoReply)
    /\ UNCHANGED <<stsVars, ctxVars, invVars, svrMD, svrTimeout, hret, names,
                   hdrsAtReturn, tlrsAtReturn, connected, request, reply,
                   reader>>

(* Something else answers, with headers that may not decode.               *)
ForeignReplies ==
    /\ spc = "idle" /\ request.sent /\ connected /\ spc' = "foreign"
    /\ \E status \in {302, 404, 503}, bad \in BOOLEAN :
           reply' = Reply("foreign", status, "none", {}, bad)
    /\ UNCHANGED <<stsVars, ctxVars, invVars, svrMD, svrTimeout, hret, names,
                   hdrsAtReturn, tlrsAtReturn, connected, request, whole,
                   reader>>

ForeignEnds ==
    /\ spc = "foreign" /\ spc' = "over" /\ whole' = connected
    /\ UNCHANGED <<stsVars, ctxVars, invVars, svrMD, svrTimeout, hret, names,
                   hdrsAtReturn, tlrsAtReturn, connected, request, reply,
                   reader>>

-----------------------------------------------------------------------------
InvokeStep == RoundTripFails \/ RoundTripReplies \/ SelectCtxDone \/ SelectBody
ServerStep == CopiesHeaders \/ CopiesTrailers \/ Replies \/ WritesBody

Over == pc = "done" /\ spc \in {"idle", "over"} /\ UNCHANGED vars

Next == \/ Cancel \/ ConnectionBreaks \/ Invoke \/ InvokeRefused \/ InvokeStep
        \/ ReadsBody \/ Rejects \/ HandlerStarts \/ SetMetadata
        \/ HandlerReturns \/ ServerStep \/ ForeignReplies \/ ForeignEnds
        \/ Over

Spec == Init /\ [][Next]_vars

(* Goroutines run on; neither the handler nor whoever answers in front of  *)
(* the server need ever finish.                                            *)
FairSpec ==
    Spec /\ WF_vars(InvokeStep) /\ WF_vars(ReadsBody) /\ WF_vars(ServerStep)

-----------------------------------------------------------------------------
(* The code a caller should see for what the handler returned, or for a    *)
(* request that never reached it.                                          *)
Expected ==
    CASE hret = "none" /\ reply.status # 499 -> "InvalidArgument"
      [] hret = "none" /\ reply.status = 499 -> "Canceled"
      [] hret = "nil"                  -> "OK"
      [] hret \in {"OK", "unencodable"} -> "Internal"
      [] hret \in Codes \ {"OK"}       -> hret

(* Invoke succeeds only if the handler returned a message and all of it    *)
(* arrived; whatever the error renderer made of the HTTP status, an error  *)
(* has the handler's code and is never a success; and a call that was      *)
(* neither cancelled nor cut off has the handler's outcome.  Exempt is a   *)
(* handler that returns a message and sets "x-grpc-status" itself.         *)
OutcomeIsHandlers ==
    /\ outcome = "OK" => hret = "nil" /\ whole
    /\ /\ reply.origin = "server"
       /\ hret \in Codes \/ StatusKey \notin reply.names
       => /\ outcome \in Codes => outcome = Expected
          /\ pc = "done" /\ connected /\ ~ctxDone =>
                 outcome = Expected \/ (hret = "nil" /\ outcome = "invalid")

(* What the handler's context has of the caller's: all the metadata, that  *)
(* of the credentials too, but for the reserved keys, and of a caller with *)
(* a deadline that deadline, whatever the metadata says of one: it is not  *)
(* in the past and less than a millisecond off.  Of a caller without one   *)
(* it has a deadline only if the metadata has the key grpc-timeout, which  *)
(* is not reserved and is read as one (io.go toHeaders, client.go          *)
(* headersFromContext, server.go contextFromHeaders).                      *)
RequestArrives ==
    spc = "handler" =>
        LET md == call.md \cup call.creds
        IN  /\ md \ reservedHeaders \subseteq svrMD
            /\ svrMD \subseteq (md \ reservedHeaders) \cup {TimeoutKey}
            /\ IF call.left = NoDeadline
               THEN svrTimeout # NoTimeout => TimeoutKey \in md
               ELSE /\ svrTimeout.val > 0
                    /\ IF call.left < Milli THEN svrTimeout.val <= Milli
                       ELSE svrTimeout.val \in (call.left - Milli + 1)..call.left

(* A caller that asked for them has the headers and the trailers that the  *)
(* handler had set when it returned, also with an error, and nothing that  *)
(* was never set.  Reserved keys are not sent.  What is set as a trailer   *)
(* arrives as one; what is set as a header arrives as one unless its key   *)
(* begins with the prefix of trailers: then it arrives as the trailer      *)
(* without that prefix.  That the two are recovered "independently, as the *)
(* server handler intended them" (doc.go) is so for all other keys.        *)
MetadataArrives ==
    /\ wants /\ reply.origin = "server" /\ hret # "none"
    /\ pc = "select" \/ outcome \in Codes \cup {"invalid"}
    =>
        LET sent(md) == md \ reservedHeaders
            asTrailers(h, t) == sent(t) \cup TrailersOf(sent(h))
        IN  /\ HeadersOf(sent(hdrsAtReturn)) \subseteq gotHdrs
            /\ asTrailers(hdrsAtReturn, tlrsAtReturn) \subseteq gotTlrs
            /\ gotHdrs \subseteq HeadersOf(sent(hdrs))
            /\ gotTlrs \subseteq asTrailers(hdrs, tlrs)

(* Invoke returns, and its goroutine with it or soon after, once the       *)
(* context is done or the server has replied, also when Invoke does not    *)
(* wait for the body.                                                      *)
InvokeEnds ==
    (pc # "start" /\ (ctxDone \/ spc = "over"))
        ~> (pc = "done" /\ reader # "reading")
=============================================================================
