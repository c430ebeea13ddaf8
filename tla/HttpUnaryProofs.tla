--------------------------- MODULE HttpUnaryProofs ---------------------------
(***************************************************************************)
(* Theorems about HttpUnary for any keys, metadata, deadlines and units    *)
(* of time: the outcome of a call, what reaches the handler, and what      *)
(* comes back.                                                             *)
(***************************************************************************)
EXTENDS HttpUnary, SequenceTheorems, TLAPS

(* What a reply says, by who wrote it and what the handler had returned.   *)
ReplyInv ==
    /\ hret \in {"none", "nil", "unencodable", "OK", "Canceled", "AlreadyExists"}
    /\ reply # NoReply => reply.origin \in {"server", "foreign"}
    /\ spc \in {"idle", "handler", "headers", "trailers", "status"} =>
           reply = NoReply
    /\ spc \in {"idle", "handler", "foreign"} => hret = "none"
    /\ spc = "foreign" => reply.origin = "foreign"
    /\ reply.origin = "foreign" =>
           /\ spc \in {"foreign", "over"} /\ hret = "none"
           /\ reply.code = "none" /\ reply.status \in {302, 404, 503}
    /\ reply.origin = "server" => ~reply.bad
    /\ reply.origin = "server" /\ hret = "none" =>
           reply.code = "none" /\ reply.status \in {400, 415, 499}
    /\ reply.origin = "server" /\ hret \in {"nil", "unencodable"} =>
           /\ reply.status = IF hret = "nil" THEN 200 ELSE 500
           /\ reply.code = IF StatusKey \in reply.names THEN "Unknown" ELSE "none"
    /\ reply.origin = "server" /\ hret \in Codes => reply.code = ErrorCode
    /\ ~request.sent => spc = "idle"
    /\ whole => spc = "over" /\ reply # NoReply

(* What Invoke knows at each place, and why it ended as it did.            *)
InvokeInv ==
    /\ pc \in {"start", "roundTrip", "select", "done"}
    /\ pc \in {"start", "roundTrip"} => outcome = "none" /\ reader = "none"
    /\ pc = "start" => ~request.sent
    /\ pc = "select" =>
           outcome = "none" /\ reply # NoReply /\ statFromResponse = "OK"
    /\ reader = "ok" => whole
    /\ reader = "net" => ~connected
    /\ reader = "rawCtx" => ctxDone
    /\ pc = "done" =>
           \/ outcome = "refused" /\ ~request.sent
           \/ outcome \in {"ctx", "rawCtx"} /\ ctxDone
           \/ outcome = "net" /\ ~connected
           \/ outcome = "badHeader" /\ reply # NoReply /\ reply.bad
           \/ outcome \in {"OK", "invalid"} /\ whole /\ statFromResponse = "OK"
           \/ outcome = statFromResponse /\ outcome # "OK" /\ reply # NoReply

OutcomeInv == ReplyInv /\ InvokeInv

LEMMA CodeSet ==
    Codes = {"OK", "Canceled", "Unknown", "InvalidArgument", "DeadlineExceeded",
             "NotFound", "AlreadyExists", "PermissionDenied", "Unauthenticated",
             "ResourceExhausted", "FailedPrecondition", "Aborted", "OutOfRange",
             "Unimplemented", "Internal", "Unavailable", "DataLoss", "other"}
  BY DEF Codes, ErrorStatus

LEMMA CodesOfReplies ==
    /\ codeFromHttpStatus(200) = "OK" /\ codeFromHttpStatus(302) = "Unknown"
    /\ codeFromHttpStatus(400) = "InvalidArgument"
    /\ codeFromHttpStatus(404) = "NotFound"
    /\ codeFromHttpStatus(415) = "InvalidArgument"
    /\ codeFromHttpStatus(499) = "Canceled"
    /\ codeFromHttpStatus(500) = "Internal"
    /\ codeFromHttpStatus(503) = "Unavailable"
  BY DEF codeFromHttpStatus

LEMMA CodesOfStatuses ==
    /\ codeFromHttpStatus(401) = "Unauthenticated"
    /\ codeFromHttpStatus(403) = "PermissionDenied"
    /\ codeFromHttpStatus(409) = "Aborted"
    /\ codeFromHttpStatus(412) = "FailedPrecondition"
    /\ codeFromHttpStatus(422) = "InvalidArgument"
    /\ codeFromHttpStatus(429) = "ResourceExhausted"
    /\ codeFromHttpStatus(501) = "Unimplemented"
    /\ codeFromHttpStatus(502) = "Unknown"
    /\ codeFromHttpStatus(504) = "DeadlineExceeded"
  BY DEF codeFromHttpStatus

(* The two tables of codes.go agree on what is an error: the status of a   *)
(* code is read as a success exactly if the code is OK, so that an error   *)
(* stays one when its X-GRPC-Status is lost (httpStatusFromCode,           *)
(* codeFromHttpStatus).                                                    *)
THEOREM ErrorsStayErrors ==
    \A code \in Codes :
        codeFromHttpStatus(httpStatusFromCode(code)) = "OK" <=> code = "OK"
<1> DEFINE Statuses ==
               {400, 401, 403, 404, 409, 412, 422, 429, 500, 501, 502, 503, 504}
<1> SUFFICES ASSUME NEW code \in Codes
             PROVE  codeFromHttpStatus(httpStatusFromCode(code)) = "OK" <=> code = "OK"
  OBVIOUS
<1>1. CASE code = "OK"
  BY <1>1, CodesOfReplies DEF httpStatusFromCode
<1>2. CASE code # "OK"
  <2>1. httpStatusFromCode(code) \in Statuses
    BY <1>2 DEF httpStatusFromCode, Codes, ErrorStatus
  <2>2. \A stat \in Statuses : codeFromHttpStatus(stat) # "OK"
    BY CodesOfReplies, CodesOfStatuses
  <2> QED
    BY <1>2, <2>1, <2>2
<1> QED
  BY <1>1, <1>2

-----------------------------------------------------------------------------
(* Steps of the server and of the network.                                 *)

LEMMA ReplyWritten ==
    ASSUME OutcomeInv, reply = NoReply, Rejects \/ Replies \/ ForeignReplies
    PROVE  ReplyInv'
<1>1. NoReply.origin = "none" /\ NoReply.bad = FALSE
  BY DEF NoReply, Reply
<1>2. ~whole /\ whole' = whole /\ request' = request /\ hret' = hret
  BY DEF OutcomeInv, ReplyInv, Rejects, Replies, ForeignReplies, svrVars
<1>3. CASE Rejects
  <2>1. spc = "idle" /\ spc' = "body" /\ hret = "none" /\ request.sent
    <3>1. spc = "idle" /\ spc' = "body" /\ request.sent
      BY <1>3 DEF Rejects
    <3> QED
      BY <3>1 DEF OutcomeInv, ReplyInv
  <2> PICK status \in {400, 415, 499} :
          Writes(Reply("server", status, "none", {}, FALSE))
    BY <1>3 DEF Rejects
  <2>2. \/ reply' = NoReply
        \/ reply' = Reply("server", status, "none", {}, FALSE)
    BY DEF Writes
  <2>3. \/ reply'.origin = "none"
        \/ /\ reply'.origin = "server" /\ ~reply'.bad
           /\ reply'.code = "none" /\ reply'.status \in {400, 415, 499}
    BY <1>1, <2>2 DEF Reply
  <2>4. "none" \notin Codes
    BY CodeSet
  <2>5. reply' # NoReply => reply'.origin = "server"
    BY <2>2 DEF Reply
  <2> QED
    BY <1>2, <2>1, <2>3, <2>4, <2>5 DEF ReplyInv
<1>4. CASE Replies
  <2>1. /\ spc = "status" /\ spc' = "body" /\ names' = names
        /\ hret \in {"none", "nil", "unencodable", "OK", "Canceled",
                     "AlreadyExists"}
        /\ hret \in {"nil", "unencodable"} \cup Codes
        /\ request.sent
    BY <1>4 DEF Replies, OutcomeInv, ReplyInv
  <2>2. CASE reply' = NoReply
    BY <1>1, <1>2, <2>1, <2>2, CodeSet DEF ReplyInv, Reply
  <2>3. CASE hret = "nil"
             /\ reply' = Reply("server", 200, CodeFromMetadata, names, FALSE)
    BY <1>1, <1>2, <2>1, <2>3, CodeSet DEF ReplyInv, Reply, CodeFromMetadata
  <2>4. CASE hret = "unencodable"
             /\ reply' = Reply("server", 500, CodeFromMetadata, names, FALSE)
    BY <1>1, <1>2, <2>1, <2>4, CodeSet DEF ReplyInv, Reply, CodeFromMetadata
  <2>5. CASE hret \in Codes /\ \E status \in RenderedStatus :
                 reply' = Reply("server", status, ErrorCode, names, FALSE)
    <3>1. ErrorCode' = ErrorCode
      BY <1>2 DEF ErrorCode
    <3> QED
      BY <1>1, <1>2, <2>1, <2>5, <3>1, CodeSet DEF ReplyInv, Reply
  <2> QED
    BY <1>4, <2>2, <2>3, <2>4, <2>5 DEF Replies, Writes
<1>5. CASE ForeignReplies
  <2>1. /\ spc = "idle" /\ spc' = "foreign" /\ hret = "none" /\ request.sent
        /\ \E status \in {302, 404, 503}, bad \in BOOLEAN :
               reply' = Reply("foreign", status, "none", {}, bad)
    BY <1>5 DEF ForeignReplies, OutcomeInv, ReplyInv
  <2> QED
    BY <1>1, <1>2, <2>1, CodeSet DEF ReplyInv, Reply
<1> QED
  BY <1>3, <1>4, <1>5

(* The steps that leave the reply alone.                                   *)
LEMMA ReplyKept ==
    ASSUME OutcomeInv, UNCHANGED reply,
           Cancel \/ ConnectionBreaks \/ Invoke \/ InvokeRefused \/ InvokeStep
             \/ ReadsBody \/ HandlerStarts \/ SetMetadata
             \/ HandlerReturns \/ CopiesHeaders \/ CopiesTrailers
             \/ WritesBody \/ ForeignEnds
    PROVE  ReplyInv'
<1>1. CASE UNCHANGED <<spc, hret, whole>> /\ (request' = request \/ request'.sent)
  BY <1>1 DEF OutcomeInv, ReplyInv, ErrorCode
<1>2. CASE Cancel \/ ConnectionBreaks \/ InvokeRefused \/ InvokeStep
           \/ ReadsBody \/ SetMetadata
  BY <1>1, <1>2
     DEF Cancel, ConnectionBreaks, InvokeRefused, InvokeStep, RoundTripFails,
         RoundTripReplies, SelectCtxDone, SelectBody, ReadsBody, SetMetadata,
         svrVars, netVars
<1>3. CASE Invoke
  BY <1>1, <1>3 DEF Invoke, headersFromContext, svrVars
<1>4. CASE HandlerStarts
  BY <1>4 DEF HandlerStarts, OutcomeInv, ReplyInv, ErrorCode,
              NoReply, Reply, netVars
<1>5. CASE HandlerReturns
  BY <1>5 DEF HandlerReturns, OutcomeInv, ReplyInv, NoReply, Reply, netVars
<1>6. CASE CopiesHeaders \/ CopiesTrailers
  BY <1>6 DEF CopiesHeaders, CopiesTrailers, OutcomeInv, ReplyInv, ErrorCode,
              netVars
<1>7. CASE WritesBody
  <2>1. whole' => reply # NoReply
    BY <1>7, Zenon DEF WritesBody
  <2> QED
    BY <1>7, <2>1 DEF WritesBody, OutcomeInv, ReplyInv, ErrorCode
<1>8. CASE ForeignEnds
  <2>1. reply # NoReply
    BY <1>8 DEF ForeignEnds, OutcomeInv, ReplyInv, NoReply, Reply
  <2> QED
    BY <1>8, <2>1 DEF ForeignEnds, OutcomeInv, ReplyInv, ErrorCode
<1> QED
  BY <1>2, <1>3, <1>4, <1>5, <1>6, <1>7, <1>8

LEMMA OthersStep ==
    ASSUME OutcomeInv,
           Cancel \/ ConnectionBreaks \/ SetMetadata \/ HandlerReturns
             \/ HandlerStarts \/ Rejects \/ ServerStep
             \/ ForeignReplies \/ ForeignEnds
    PROVE  ReplyInv' /\ InvokeInv'
<1>1. /\ UNCHANGED <<pc, outcome, reader, request>>
      /\ reply' = reply \/ reply = NoReply
      /\ ctxDone => ctxDone'
      /\ ~connected => ~connected'
      /\ whole => whole' /\ reply # NoReply
  <2>1. CASE Cancel \/ ConnectionBreaks \/ SetMetadata
    BY <2>1 DEF Cancel, ConnectionBreaks, SetMetadata, ctxVars, invVars, netVars,
                OutcomeInv, ReplyInv
  <2>2. CASE HandlerReturns \/ HandlerStarts \/ CopiesHeaders
             \/ CopiesTrailers
    BY <2>2 DEF HandlerReturns, HandlerStarts, CopiesHeaders,
                CopiesTrailers, ctxVars, invVars, netVars, OutcomeInv, ReplyInv
  <2>3. CASE Rejects \/ Replies \/ ForeignReplies
    <3>1. spc \in {"idle", "status"}
      BY <2>3 DEF Rejects, Replies, ForeignReplies
    <3>2. ~whole /\ reply = NoReply
      BY <3>1 DEF OutcomeInv, ReplyInv
    <3>3. UNCHANGED <<pc, outcome, reader, request, ctxDone, connected>>
      BY <2>3 DEF Rejects, Replies, ForeignReplies, ctxVars, invVars
    <3> QED
      BY <3>2, <3>3
  <2>4. CASE WritesBody \/ ForeignEnds
    BY <2>4 DEF WritesBody, ForeignEnds, ctxVars, invVars, OutcomeInv, ReplyInv
  <2> QED
    BY <2>1, <2>2, <2>3, <2>4 DEF ServerStep
<1>2. ReplyInv'
  <2>1. CASE Rejects \/ Replies \/ ForeignReplies
    <3>1. spc \in {"idle", "status"}
      BY <2>1 DEF Rejects, Replies, ForeignReplies
    <3>2. reply = NoReply
      BY <3>1 DEF OutcomeInv, ReplyInv
    <3> QED
      BY <2>1, <3>2, ReplyWritten
  <2>2. CASE ~(Rejects \/ Replies \/ ForeignReplies)
    <3>1. reply' = reply
      BY <2>2 DEF Cancel, ConnectionBreaks, SetMetadata, HandlerReturns,
                  HandlerStarts, CopiesHeaders, CopiesTrailers,
                  WritesBody, ForeignEnds, ServerStep, netVars
    <3> QED
      BY <2>2, <3>1, ReplyKept DEF ServerStep
  <2> QED
    BY <2>1, <2>2
<1>3. reply # NoReply => reply' = reply /\ statFromResponse' = statFromResponse
  BY <1>1 DEF statFromResponse
<1>4. InvokeInv'
  BY <1>1, <1>3 DEF OutcomeInv, InvokeInv
<1> QED
  BY <1>2, <1>4

(* Invoke and its goroutine.                                               *)
LEMMA InvokeMoves ==
    ASSUME OutcomeInv, Invoke \/ InvokeRefused \/ InvokeStep \/ ReadsBody
    PROVE  ReplyInv' /\ InvokeInv'
<1>1. UNCHANGED <<reply, ctxDone, connected, whole>>
  BY DEF Invoke, InvokeRefused, InvokeStep, RoundTripFails, RoundTripReplies,
         SelectCtxDone, SelectBody, ReadsBody, ctxVars, netVars
<1>2. ReplyInv'
  BY <1>1, ReplyKept
<1>3. statFromResponse' = statFromResponse
  BY <1>1 DEF statFromResponse
<1>4. CASE Invoke \/ InvokeRefused
  BY <1>1, <1>2, <1>4
     DEF Invoke, InvokeRefused, Ends, netVars, OutcomeInv, InvokeInv
<1>5. CASE RoundTripFails \/ SelectCtxDone
  BY <1>1, <1>2, <1>5
     DEF RoundTripFails, SelectCtxDone, Ends, netVars, OutcomeInv, InvokeInv
<1>6. CASE RoundTripReplies
  <2>1. /\ pc = "roundTrip" /\ reply # NoReply /\ reader' = "reading"
        /\ outcome = "none" /\ request' = request
        /\ \/ reply.bad /\ pc' = "done" /\ outcome' = "badHeader"
           \/ statFromResponse = "OK" /\ pc' = "select" /\ outcome' = outcome
           \/ /\ statFromResponse # "OK" /\ pc' = "done"
              /\ outcome' = statFromResponse
    BY <1>6 DEF RoundTripReplies, ChecksStatus, Ends, netVars, OutcomeInv,
                InvokeInv
  <2> QED
    BY <1>1, <1>2, <1>3, <2>1 DEF InvokeInv
<1>7. CASE SelectBody
  <2>1. /\ pc = "select" /\ pc' = "done" /\ reader' = reader
        /\ request' = request /\ statFromResponse = "OK"
        /\ \/ reader = "ok" /\ outcome' \in {"OK", "invalid"}
           \/ reader \in {"net", "rawCtx"} /\ outcome' = reader
    BY <1>7 DEF SelectBody, Ends, netVars, OutcomeInv, InvokeInv
  <2> QED
    BY <1>1, <1>2, <1>3, <2>1 DEF OutcomeInv, InvokeInv
<1>8. CASE ReadsBody
  <2>1. /\ UNCHANGED <<pc, outcome, request>> /\ reader = "reading"
        /\ \/ whole /\ reader' = "ok"
           \/ ~connected /\ reader' = "net"
           \/ ctxDone /\ reader' = "rawCtx"
    BY <1>8 DEF ReadsBody, invVars, netVars
  <2> QED
    BY <1>1, <1>2, <1>3, <2>1 DEF OutcomeInv, InvokeInv
<1> QED
  BY <1>4, <1>5, <1>6, <1>7, <1>8 DEF InvokeStep

LEMMA OutcomeStep == OutcomeInv /\ [Next]_vars => OutcomeInv'
<1> SUFFICES ASSUME OutcomeInv, [Next]_vars PROVE OutcomeInv'
  OBVIOUS
<1>1. CASE UNCHANGED vars
  BY <1>1 DEF vars, ctxVars, invVars, svrVars, netVars, OutcomeInv, ReplyInv,
              InvokeInv, ErrorCode, statFromResponse
<1>2. CASE Invoke \/ InvokeRefused \/ InvokeStep \/ ReadsBody
  BY <1>2, InvokeMoves DEF OutcomeInv
<1> QED
  BY <1>1, <1>2, OthersStep DEF OutcomeInv, Next, Over

LEMMA OutcomeAlways == Spec => []OutcomeInv
<1>1. Init => OutcomeInv
  BY CodeSet DEF Init, StsInit, NoReply, NoRequest, Reply, OutcomeInv, ReplyInv,
                 InvokeInv
<1> QED
  BY <1>1, OutcomeStep, PTL DEF Spec

-----------------------------------------------------------------------------
(* The code the client reads from a reply of the server.                   *)
LEMMA StatOfReply ==
    ASSUME OutcomeInv, reply # NoReply
    PROVE  /\ statFromResponse = "OK" => hret = "nil"
           /\ /\ reply.origin = "server"
              /\ hret \in Codes \/ StatusKey \notin reply.names
              => statFromResponse = Expected
<1>1. CASE reply.origin = "foreign"
  BY <1>1, CodesOfReplies DEF OutcomeInv, ReplyInv, statFromResponse
<1>2. CASE reply.origin = "server" /\ hret = "none"
  BY <1>2, CodesOfReplies, CodeSet
     DEF OutcomeInv, ReplyInv, statFromResponse, Expected
<1>3. CASE reply.origin = "server" /\ hret \in {"nil", "unencodable"}
  BY <1>3, CodesOfReplies, CodeSet
     DEF OutcomeInv, ReplyInv, statFromResponse, Expected
<1>4. CASE reply.origin = "server" /\ hret \in {"OK", "Canceled", "AlreadyExists"}
  BY <1>4, CodesOfReplies, CodeSet
     DEF OutcomeInv, ReplyInv, statFromResponse, Expected, ErrorCode
<1> QED
  BY <1>1, <1>2, <1>3, <1>4 DEF OutcomeInv, ReplyInv

(* Invoke over HTTP succeeds only if the handler did and its whole message *)
(* arrived, and otherwise gives the handler's code, whatever the error     *)
(* renderer, the connection and what is in front of the server do          *)
(* (client.go Invoke, statFromResponse; server.go handleMethod).           *)
THEOREM HttpUnaryOutcome == Spec => []OutcomeIsHandlers
<1>1. ASSUME OutcomeInv PROVE OutcomeIsHandlers
  <2>1. outcome = "OK" => hret = "nil" /\ whole
    BY <1>1, StatOfReply DEF OutcomeInv, InvokeInv, ReplyInv
  <2>2. ASSUME reply.origin = "server",
               hret \in Codes \/ StatusKey \notin reply.names
        PROVE  /\ outcome \in Codes => outcome = Expected
               /\ pc = "done" /\ connected /\ ~ctxDone =>
                      outcome = Expected \/ (hret = "nil" /\ outcome = "invalid")
    <3>1. reply # NoReply /\ ~reply.bad /\ request.sent
      BY <1>1, <2>2 DEF OutcomeInv, ReplyInv, NoReply, Reply
    <3>2. statFromResponse = Expected
      BY <1>1, <2>2, <3>1, StatOfReply
    <3>3. statFromResponse = "OK" => hret = "nil"
      BY <1>1, <3>1, StatOfReply
    <3> QED
      BY <1>1, <3>1, <3>2, <3>3, CodeSet DEF OutcomeInv, InvokeInv
  <2> QED
    BY <2>1, <2>2 DEF OutcomeIsHandlers
<1> QED
  BY <1>1, OutcomeAlways, PTL

-----------------------------------------------------------------------------
(* How a name and a deadline are converted, and back.                      *)

LEMMA FrontOfConcat ==
    ASSUME NEW S, NEW p \in Seq(S), NEW k \in Seq(S)
    PROVE  SubSeq(p \o k, 1, Len(p)) = p
  OBVIOUS

LEMMA OnePartAndBack ==
    ASSUME NEW S, NEW p \in Seq(S), NEW k \in Seq(S), k # <<>>, Len(p) = 1
    PROVE  /\ Len(p \o k) > 1
           /\ SubSeq(p \o k, 1, 1) = p
           /\ Tail(p \o k) = k
           /\ <<>> \o k = k
<1> DEFINE name == p \o k
<1>1. name \in Seq(S) /\ Len(name) = Len(p) + Len(k)
  BY ConcatProperties
<1>2. Len(k) \in Nat \ {0}
  BY EmptySeq
<1>3. Len(name) = 1 + Len(k) /\ name # <<>>
  BY <1>1, <1>2, EmptySeq
<1>4. SubSeq(name, 1, 1) = p
  BY FrontOfConcat, Zenon
<1>5. \A i \in 1..Len(k) : name[i + 1] = k[i]
  BY <1>2, ConcatProperties
<1>6. Tail(name) = k
  <2>1. /\ Tail(name) \in Seq(S) /\ Len(Tail(name)) = Len(name) - 1
        /\ \A i \in 1..Len(Tail(name)) : Tail(name)[i] = name[i + 1]
    BY <1>1, <1>3, HeadTailProperties
  <2>2. Len(Tail(name)) = Len(k)
    BY <1>2, <1>3, <2>1
  <2> HIDE DEF name
  <2> QED
    BY <1>5, <2>1, <2>2, SeqEqual
<1> QED
  BY <1>2, <1>3, <1>4, <1>6, ConcatEmptySeq

(* A prefix that is put in front of a key is found and taken off again.    *)
LEMMA PrefixAndBack ==
    ASSUME NEW k \in Names
    PROVE  /\ IsTrailer(trailerPrefix \o k)
           /\ Tail(trailerPrefix \o k) = k
           /\ <<>> \o k = k
<1> DEFINE Part == STRING \cup {"x-grpc-trailer-"}
<1>1. trailerPrefix \in Seq(Part) /\ Len(trailerPrefix) = 1
  BY DEF trailerPrefix
<1>2. k \in Seq(Part) /\ k # <<>>
  BY SeqMonotonic DEF Names
<1> HIDE DEF Part
<1> QED
  BY <1>1, <1>2, OnePartAndBack DEF IsTrailer

LEMMA Division ==
    ASSUME NEW a \in Nat, NEW b \in Nat \ {0}
    PROVE  a \div b \in Nat /\ b * (a \div b) <= a /\ a < b * (a \div b) + b
  OBVIOUS

LEMMA SmallNumbersStay ==
    ASSUME NEW x \in Nat, x < Half
    PROVE  Wrap(x) = x
<1>1. Half \in Nat /\ x + Half \in Nat /\ x + Half < 2 * Half
  BY UnitAssumption
<1>2. (x + Half) % (2 * Half) = x + Half
  BY <1>1
<1> QED
  BY <1>1, <1>2 DEF Wrap

(* The deadline of the handler: never in the past, never too late by a     *)
(* millisecond, and no Duration overflows on the way.                      *)
LEMMA DeadlineAndBack ==
    ASSUME NEW left \in Durations
    PROVE  LET timeout == TimeoutOf(TimeoutHeader(left))
           IN  /\ timeout # NoTimeout /\ timeout.val \in Nat \ {0}
               /\ IF left < Milli THEN timeout.val <= Milli
                  ELSE timeout.val \in (left - Milli + 1)..left
<1> DEFINE timeout == TimeoutOf(TimeoutHeader(left))
           millis  == Millis(left)
<1>1. left \in Int /\ left < Half /\ Milli \in Nat \ {0} /\ Half \in Nat /\ Milli < Half
  BY UnitAssumption DEF Durations
<1>2. timeout = [unit |-> "n", val |-> Wrap(millis * Milli)]
  BY DEF TimeoutOf, TimeoutHeader, Units
<1>3. CASE left < Milli
  <2>1. millis = 1
    <3>1. CASE left < 0
      <4>1. (-left) \div Milli \in Nat
        BY <1>1, <3>1, Division
      <4> QED
        BY <1>1, <3>1, <4>1 DEF Millis, Quotient
    <3>2. CASE left >= 0
      <4>1. left \div Milli = 0
        BY <1>1, <1>3, <3>2
      <4> QED
        BY <1>1, <3>2, <4>1 DEF Millis, Quotient
    <3> QED
      BY <1>1, <3>1, <3>2
  <2>2. timeout.val = Milli
    BY <1>1, <1>2, <2>1, SmallNumbersStay
  <2> QED
    BY <1>1, <1>2, <1>3, <2>2 DEF NoTimeout
<1>4. CASE left >= Milli
  <2> DEFINE q == left \div Milli
  <2>1. q \in Nat /\ Milli * q <= left /\ left < Milli * q + Milli
    BY <1>1, <1>4, Division
  <2>2. q # 0
    BY <1>1, <1>4, <2>1
  <2>3. millis = q
    BY <1>1, <1>4, <2>1, <2>2 DEF Millis, Quotient
  <2>4. q * Milli \in Nat /\ q * Milli = Milli * q
    BY <1>1, <2>1
  <2> HIDE DEF q
  <2>5. timeout.val = q * Milli
    BY <1>1, <1>2, <2>1, <2>3, <2>4, SmallNumbersStay
  <2> QED
    BY <1>1, <1>2, <1>4, <2>1, <2>4, <2>5 DEF NoTimeout
<1> QED
  BY <1>1, <1>3, <1>4

-----------------------------------------------------------------------------
(* What arrives at the other end.                                          *)

(* The handler's context is made of the request, and the request of the    *)
(* call.                                                                   *)
RequestInv ==
    /\ call \in Calls
    /\ request.sent => request = headersFromContext
    /\ spc = "handler" =>
           /\ request.sent /\ svrMD = request.names
           /\ svrTimeout = TimeoutOf(request.timeout)

(* What w.Header() has at each place of handleMethod: no less than the     *)
(* handler had set when it returned, no more than what is set by now.      *)
NamesInv ==
    /\ hdrs \subseteq Keys /\ tlrs \subseteq Keys
    /\ spc \in {"headers", "trailers", "status"} => hret # "none"
    /\ hret # "none" => hdrsAtReturn \subseteq hdrs /\ tlrsAtReturn \subseteq tlrs
    /\ spc = "trailers" =>
           /\ toHeaders(hdrsAtReturn, <<>>) \subseteq names
           /\ names \subseteq toHeaders(hdrs, <<>>)
    /\ spc \in {"status", "body", "over"} /\ hret # "none" =>
           /\ toHeaders(hdrsAtReturn, <<>>) \subseteq names
           /\ toHeaders(tlrsAtReturn, trailerPrefix) \subseteq names
           /\ names \subseteq toHeaders(hdrs, <<>>) \cup toHeaders(tlrs, trailerPrefix)
    /\ reply.origin = "server" /\ hret # "none" =>
           spc \in {"body", "over"} /\ reply.names = names

HasReply == pc = "select" \/ outcome \in Codes \cup {"invalid"}

(* Invoke hands out the metadata before it looks at the status.            *)
GotInv ==
    wants /\ HasReply =>
        gotHdrs = HeadersOf(reply.names) /\ gotTlrs = TrailersOf(reply.names)

ArrivalInv == OutcomeInv /\ RequestInv /\ NamesInv /\ GotInv

LEMMA Unprefixed ==
    ASSUME NEW md, md \subseteq Names
    PROVE  toHeaders(md, <<>>) = md \ reservedHeaders
  BY PrefixAndBack DEF toHeaders

LEMMA RequestStep ==
    ASSUME ArrivalInv, [Next]_vars
    PROVE  RequestInv'
<1>1. CASE HandlerStarts
  BY <1>1 DEF HandlerStarts, ctxVars, netVars, headersFromContext,
              ApplyPerRPCCreds, HasDeadline, TimeoutInMetadata, ArrivalInv,
              RequestInv
<1>2. CASE Invoke
  <2>1. spc # "handler"
    BY <1>2 DEF Invoke, ArrivalInv, OutcomeInv, ReplyInv, InvokeInv
  <2> QED
    BY <1>2, <2>1 DEF Invoke, ctxVars, svrVars, headersFromContext,
                      ApplyPerRPCCreds, HasDeadline, TimeoutInMetadata,
                      ArrivalInv, RequestInv
<1>3. CASE ~HandlerStarts /\ ~Invoke
  <2>1. /\ call' = call /\ request' = request
        /\ spc' = "handler" => UNCHANGED <<spc, svrMD, svrTimeout>>
    BY <1>3
       DEF Next, Cancel, ConnectionBreaks, InvokeRefused, InvokeStep,
           RoundTripFails, RoundTripReplies, SelectCtxDone, SelectBody,
           ReadsBody, Rejects, SetMetadata, HandlerReturns,
           ServerStep, CopiesHeaders, CopiesTrailers, Replies, WritesBody,
           ForeignReplies, ForeignEnds, Over, vars, ctxVars, netVars, svrVars
  <2> QED
    BY <2>1 DEF headersFromContext, ApplyPerRPCCreds, HasDeadline,
                TimeoutInMetadata, ArrivalInv, RequestInv
<1> QED
  BY <1>1, <1>2, <1>3

(* A goroutine of the handler sets more, before or after the handler has   *)
(* returned.                                                               *)
LEMMA SetMetadataStep ==
    ASSUME ArrivalInv, SetMetadata
    PROVE  NamesInv'
<1>1. PICK md \in Metadata : StsSetHeader(md) \/ StsSendHeader(md) \/ StsSetTrailer(md)
  BY DEF SetMetadata
<1>2. md \subseteq Keys
  BY MetadataAssumption
<1>3. /\ hdrs \subseteq hdrs' /\ tlrs \subseteq tlrs'
      /\ hdrs' \subseteq Keys /\ tlrs' \subseteq Keys
  BY <1>1, <1>2
     DEF StsSetHeader, StsSendHeader, StsSetTrailer, ArrivalInv, NamesInv
<1>4. UNCHANGED <<spc, hret, names, hdrsAtReturn, tlrsAtReturn, reply>>
  BY DEF SetMetadata, svrVars, netVars
<1>5. toHeaders(hdrs, <<>>) \subseteq toHeaders(hdrs', <<>>)
      /\ toHeaders(tlrs, trailerPrefix) \subseteq toHeaders(tlrs', trailerPrefix)
  BY <1>3 DEF toHeaders
<1> QED
  BY <1>3, <1>4, <1>5 DEF ArrivalInv, NamesInv

(* handleMethod copies the maps, headers first.                            *)
LEMMA CopiesStep ==
    ASSUME ArrivalInv, HandlerReturns \/ CopiesHeaders \/ CopiesTrailers
    PROVE  NamesInv'
<1>1. /\ UNCHANGED <<hdrs, tlrs, reply>> /\ reply.origin # "server"
      /\ hdrs \subseteq Keys /\ tlrs \subseteq Keys
  BY DEF HandlerReturns, CopiesHeaders, CopiesTrailers, stsVars, netVars,
         ArrivalInv, OutcomeInv, ReplyInv, NamesInv, NoReply, Reply
<1>2. CASE HandlerReturns
  BY <1>1, <1>2 DEF HandlerReturns, NamesInv
<1>3. CASE CopiesHeaders
  <2>1. /\ spc' = "trailers" /\ names' = toHeaders(hdrs, <<>>) /\ hret # "none"
        /\ UNCHANGED <<hret, hdrsAtReturn, tlrsAtReturn>>
        /\ hdrsAtReturn \subseteq hdrs /\ tlrsAtReturn \subseteq tlrs
    BY <1>3 DEF CopiesHeaders, ArrivalInv, NamesInv
  <2>2. toHeaders(hdrsAtReturn, <<>>) \subseteq toHeaders(hdrs, <<>>)
    BY <2>1 DEF toHeaders
  <2> QED
    BY <1>1, <2>1, <2>2 DEF NamesInv
<1>4. CASE CopiesTrailers
  <2>1. /\ spc' = "status" /\ hret # "none"
        /\ names' = names \cup toHeaders(tlrs, trailerPrefix)
        /\ UNCHANGED <<hret, hdrsAtReturn, tlrsAtReturn>>
        /\ hdrsAtReturn \subseteq hdrs /\ tlrsAtReturn \subseteq tlrs
        /\ toHeaders(hdrsAtReturn, <<>>) \subseteq names
        /\ names \subseteq toHeaders(hdrs, <<>>)
    BY <1>4 DEF CopiesTrailers, ArrivalInv, NamesInv
  <2>2. toHeaders(tlrsAtReturn, trailerPrefix) \subseteq toHeaders(tlrs, trailerPrefix)
    BY <2>1 DEF toHeaders
  <2> QED
    BY <1>1, <2>1, <2>2 DEF NamesInv
<1> QED
  BY <1>2, <1>3, <1>4

(* The reply is written with the names as they are then, or not at all.    *)
LEMMA RepliesStep ==
    ASSUME ArrivalInv, Replies
    PROVE  NamesInv'
<1>1. /\ spc = "status" /\ spc' = "body" /\ reply = NoReply /\ hret # "none"
      /\ UNCHANGED <<hdrs, tlrs, hret, names, hdrsAtReturn, tlrsAtReturn>>
  BY DEF Replies, stsVars, ArrivalInv, OutcomeInv, ReplyInv, NamesInv
<1>2. reply' = NoReply \/ reply'.names = names
  BY <1>1 DEF Replies, Writes, Reply
<1>3. NoReply.origin = "none"
  BY DEF NoReply, Reply
<1> QED
  BY <1>1, <1>2, <1>3 DEF ArrivalInv, NamesInv

LEMMA NamesStep ==
    ASSUME ArrivalInv, [Next]_vars
    PROVE  NamesInv'
<1>1. CASE Rejects
  <2>1. /\ hret = "none" /\ spc' = "body"
        /\ UNCHANGED <<hdrs, tlrs, hret>>
    BY <1>1 DEF Rejects, stsVars, ArrivalInv, OutcomeInv, ReplyInv
  <2> QED
    BY <2>1 DEF ArrivalInv, NamesInv
<1>2. CASE ForeignReplies
  <2>1. /\ hret = "none" /\ spc' = "foreign"
        /\ UNCHANGED <<hdrs, tlrs, hret>>
    BY <1>2 DEF ForeignReplies, stsVars, ArrivalInv, OutcomeInv, ReplyInv
  <2> QED
    BY <2>1 DEF ArrivalInv, NamesInv
<1>3. CASE HandlerStarts \/ WritesBody \/ ForeignEnds
  <2>1. /\ UNCHANGED <<hdrs, tlrs, hret, names, hdrsAtReturn, tlrsAtReturn, reply>>
        /\ hret = "none" \/ (spc = "body" /\ spc' = "over")
        /\ spc' \in {"handler", "over"}
    BY <1>3 DEF HandlerStarts, WritesBody, ForeignEnds, stsVars,
                netVars, ArrivalInv, OutcomeInv, ReplyInv
  <2> QED
    BY <2>1 DEF ArrivalInv, NamesInv
<1>4. CASE UNCHANGED <<stsVars, svrVars, reply>>
  BY <1>4 DEF stsVars, svrVars, ArrivalInv, NamesInv
<1>5. CASE Cancel \/ ConnectionBreaks \/ Invoke \/ InvokeRefused \/ InvokeStep
           \/ ReadsBody \/ Over \/ UNCHANGED vars
  BY <1>4, <1>5
     DEF Cancel, ConnectionBreaks, Invoke, InvokeRefused, InvokeStep,
         RoundTripFails, RoundTripReplies, SelectCtxDone, SelectBody,
         ReadsBody, Over, vars, netVars
<1> QED
  BY <1>1, <1>2, <1>3, <1>5, SetMetadataStep, CopiesStep, RepliesStep
     DEF Next, ServerStep

LEMMA GotStep ==
    ASSUME ArrivalInv, [Next]_vars
    PROVE  GotInv'
<1>1. HasReply => reply # NoReply
  BY CodeSet DEF HasReply, ArrivalInv, OutcomeInv, ReplyInv, InvokeInv
<1>2. CASE RoundTripReplies
  <2>1. /\ wants' => \/ outcome' = "badHeader" /\ pc' = "done"
                     \/ /\ gotHdrs' = HeadersOf(reply.names)
                        /\ gotTlrs' = TrailersOf(reply.names)
        /\ reply' = reply
    BY <1>2 DEF RoundTripReplies, Ends, netVars
  <2>2. "badHeader" \notin Codes \cup {"invalid"}
    BY CodeSet
  <2> QED
    BY <2>1, <2>2 DEF GotInv, HasReply
<1>3. CASE ~RoundTripReplies
  <2>1. UNCHANGED <<wants, gotHdrs, gotTlrs>>
    BY <1>3
       DEF Next, Cancel, ConnectionBreaks, Invoke, InvokeRefused, InvokeStep,
           RoundTripFails, SelectCtxDone, SelectBody, ReadsBody, Rejects,
           HandlerStarts, SetMetadata, HandlerReturns, ServerStep,
           CopiesHeaders, CopiesTrailers, Replies, WritesBody, ForeignReplies,
           ForeignEnds, Over, vars, invVars
  <2>2. HasReply' => HasReply
    <3>1. CASE RoundTripFails \/ SelectCtxDone \/ InvokeRefused
      <4>1. pc' = "done" /\ outcome' \in {"ctx", "net", "refused"}
        BY <3>1 DEF RoundTripFails, SelectCtxDone, InvokeRefused, Ends
      <4> QED
        BY <4>1, CodeSet DEF HasReply
    <3>2. CASE SelectBody
      BY <3>2 DEF SelectBody, HasReply
    <3>3. CASE Invoke
      BY <3>3 DEF Invoke, HasReply
    <3>4. CASE ~(RoundTripFails \/ SelectCtxDone \/ InvokeRefused \/ SelectBody \/ Invoke)
      <4>1. UNCHANGED <<pc, outcome>>
        BY <1>3, <3>4
           DEF Next, Cancel, ConnectionBreaks, InvokeStep, ReadsBody, Rejects,
               HandlerStarts, SetMetadata, HandlerReturns,
               ServerStep, CopiesHeaders, CopiesTrailers, Replies, WritesBody,
               ForeignReplies, ForeignEnds, Over, vars, invVars
      <4> QED
        BY <4>1 DEF HasReply
    <3> QED
      BY <3>1, <3>2, <3>3, <3>4
  <2>3. reply' = reply \/ reply = NoReply
    <3>1. CASE Rejects \/ Replies \/ ForeignReplies
      <4>1. spc \in {"idle", "status"}
        BY <3>1 DEF Rejects, Replies, ForeignReplies
      <4> QED
        BY <4>1 DEF ArrivalInv, OutcomeInv, ReplyInv
    <3>2. CASE ~(Rejects \/ Replies \/ ForeignReplies)
      BY <1>3, <3>2
         DEF Next, Cancel, ConnectionBreaks, Invoke, InvokeRefused, InvokeStep,
             RoundTripFails, SelectCtxDone, SelectBody, ReadsBody,
             HandlerStarts, SetMetadata, HandlerReturns, ServerStep,
             CopiesHeaders, CopiesTrailers, WritesBody, ForeignEnds, Over, vars,
             netVars
    <3> QED
      BY <3>1, <3>2
  <2> QED
    BY <1>1, <2>1, <2>2, <2>3 DEF ArrivalInv, GotInv
<1> QED
  BY <1>2, <1>3

LEMMA ArrivalAlways == Spec => []ArrivalInv
<1>1. Init => ArrivalInv
  <2> SUFFICES ASSUME Init PROVE ArrivalInv
    OBVIOUS
  <2>1. OutcomeInv
    BY CodeSet DEF Init, StsInit, NoReply, NoRequest, Reply, OutcomeInv,
                   ReplyInv, InvokeInv
  <2>2. RequestInv /\ NamesInv /\ GotInv
    BY DEF Init, StsInit, NoReply, NoRequest, Reply, RequestInv, NamesInv, GotInv
  <2> QED
    BY <2>1, <2>2 DEF ArrivalInv
<1>2. ArrivalInv /\ [Next]_vars => ArrivalInv'
  BY OutcomeStep, RequestStep, NamesStep, GotStep DEF ArrivalInv
<1> QED
  BY <1>1, <1>2, PTL DEF Spec

(* The handler's context has the metadata of the call and of its           *)
(* credentials, without the reserved keys, and of a caller with a deadline *)
(* that deadline, whatever the metadata says of one: never in the past nor *)
(* later than it was nor early by a millisecond.  Without one it has a     *)
(* deadline only from a key grpc-timeout of the metadata, about whose      *)
(* value nothing is said (client.go headersFromContext, io.go toHeaders,   *)
(* server.go contextFromHeaders).                                          *)
THEOREM HttpUnaryRequest == Spec => []RequestArrives
<1> DEFINE md == call.md \cup call.creds
<1>1. ASSUME ArrivalInv, spc = "handler"
      PROVE  /\ md \ reservedHeaders \subseteq svrMD
             /\ svrMD \subseteq (md \ reservedHeaders) \cup {TimeoutKey}
             /\ IF call.left = NoDeadline
                THEN svrTimeout # NoTimeout => TimeoutKey \in md
                ELSE /\ svrTimeout.val > 0
                     /\ IF call.left < Milli THEN svrTimeout.val <= Milli
                        ELSE svrTimeout.val \in (call.left - Milli + 1)..call.left
  <2>1. /\ svrMD = headersFromContext.names
        /\ svrTimeout = TimeoutOf(headersFromContext.timeout)
    BY <1>1 DEF ArrivalInv, RequestInv
  <2>2. md \subseteq Names /\ call.left \in Durations \cup {NoDeadline}
    BY <1>1, CallsAssumption DEF ArrivalInv, RequestInv
  <2>3. toHeaders(md, <<>>) = md \ reservedHeaders
    BY <2>2, Unprefixed
  <2>4. /\ md \ reservedHeaders \subseteq svrMD
        /\ svrMD \subseteq (md \ reservedHeaders) \cup {TimeoutKey}
    BY <2>1, <2>3 DEF headersFromContext, ApplyPerRPCCreds
  <2>5. ASSUME call.left = NoDeadline, TimeoutKey \notin md
        PROVE  svrTimeout = NoTimeout
    <3>1. svrTimeout = TimeoutOf(NoTimeout)
      BY <2>1, <2>5 DEF headersFromContext, HasDeadline, TimeoutInMetadata,
                        ApplyPerRPCCreds
    <3>2. TimeoutOf(NoTimeout) = NoTimeout
      BY DEF TimeoutOf, NoTimeout, Units
    <3> QED
      BY <3>1, <3>2
  <2>6. CASE call.left # NoDeadline
    <3>1. call.left \in Durations /\ svrTimeout = TimeoutOf(TimeoutHeader(call.left))
      BY <2>1, <2>2, <2>6 DEF headersFromContext, HasDeadline
    <3> QED
      BY <2>4, <2>6, <3>1, DeadlineAndBack
  <2> QED
    BY <2>4, <2>5, <2>6
<1>2. ArrivalInv => RequestArrives
  BY <1>1 DEF RequestArrives
<1> QED
  BY <1>2, ArrivalAlways, PTL

(* A caller that asked for them has what the handler had set when it       *)
(* returned, with an error too, and nothing that was never set, but for    *)
(* the reserved keys: every trailer as a trailer, every header as a header *)
(* or, if its key begins with the prefix of trailers, as the trailer       *)
(* without it (server.go handleMethod, client.go setMetadata).             *)
THEOREM HttpUnaryMetadata == Spec => []MetadataArrives
<1> DEFINE sent(md) == md \ reservedHeaders
           asTrailers(h, t) == sent(t) \cup TrailersOf(sent(h))
<1>1. ASSUME ArrivalInv, wants, reply.origin = "server", hret # "none", HasReply
      PROVE  /\ HeadersOf(sent(hdrsAtReturn)) \subseteq gotHdrs
             /\ asTrailers(hdrsAtReturn, tlrsAtReturn) \subseteq gotTlrs
             /\ gotHdrs \subseteq HeadersOf(sent(hdrs))
             /\ gotTlrs \subseteq asTrailers(hdrs, tlrs)
  <2>1. gotHdrs = HeadersOf(names) /\ gotTlrs = TrailersOf(names)
    BY <1>1 DEF ArrivalInv, GotInv, NamesInv
  <2>2. /\ hdrs \subseteq Names /\ tlrs \subseteq Names
        /\ hdrsAtReturn \subseteq hdrs /\ tlrsAtReturn \subseteq tlrs
    BY <1>1, MetadataAssumption DEF ArrivalInv, NamesInv
  <2>3. /\ toHeaders(hdrsAtReturn, <<>>) \subseteq names
        /\ toHeaders(tlrsAtReturn, trailerPrefix) \subseteq names
        /\ names \subseteq toHeaders(hdrs, <<>>) \cup toHeaders(tlrs, trailerPrefix)
    BY <1>1 DEF ArrivalInv, NamesInv
  <2>4. /\ toHeaders(hdrsAtReturn, <<>>) = sent(hdrsAtReturn)
        /\ toHeaders(hdrs, <<>>) = sent(hdrs)
    BY <2>2, Unprefixed
  <2>5. HeadersOf(sent(hdrsAtReturn)) \subseteq gotHdrs
    BY <2>1, <2>3, <2>4 DEF HeadersOf
  <2>6. sent(tlrsAtReturn) \subseteq gotTlrs
    <3> SUFFICES ASSUME NEW k \in tlrsAtReturn \ reservedHeaders PROVE k \in gotTlrs
      OBVIOUS
    <3>1. trailerPrefix \o k \in names
      BY <2>3 DEF toHeaders
    <3>2. IsTrailer(trailerPrefix \o k) /\ Tail(trailerPrefix \o k) = k
      BY <2>2, PrefixAndBack
    <3> QED
      BY <2>1, <3>1, <3>2 DEF TrailersOf
  <2>7. TrailersOf(sent(hdrsAtReturn)) \subseteq gotTlrs
    BY <2>1, <2>3, <2>4 DEF TrailersOf
  <2>8. ASSUME NEW name \in names
        PROVE  \/ name \in sent(hdrs)
               \/ IsTrailer(name) /\ Tail(name) \in sent(tlrs)
    <3>1. CASE name \in toHeaders(tlrs, trailerPrefix)
      <4>1. PICK k \in tlrs \ reservedHeaders : name = trailerPrefix \o k
        BY <3>1, Zenon DEF toHeaders
      <4>2. IsTrailer(trailerPrefix \o k) /\ Tail(trailerPrefix \o k) = k
        BY <2>2, PrefixAndBack
      <4> QED
        BY <4>1, <4>2, Zenon
    <3> QED
      BY <2>3, <2>4, <2>8, <3>1
  <2>9. gotHdrs \subseteq HeadersOf(sent(hdrs))
    BY <2>1, <2>8 DEF HeadersOf
  <2>10. gotTlrs \subseteq asTrailers(hdrs, tlrs)
    BY <2>1, <2>8 DEF TrailersOf
  <2> QED
    BY <2>5, <2>6, <2>7, <2>9, <2>10
<1>2. ArrivalInv => MetadataArrives
  BY <1>1 DEF MetadataArrives, HasReply
<1> QED
  BY <1>2, ArrivalAlways, PTL
=============================================================================
