----------------------- MODULE HttpServerStreamProofs -----------------------
(***************************************************************************)
(* Theorems about HttpServerStream for any number of goroutines, any       *)
(* metadata and any number of messages.  All but the first are about       *)
(* handlers that wait for the goroutines they start (~Outlive).  The last  *)
(* is about HttpServerBody, the parts of the two bodies laid out in tokens.*)
(***************************************************************************)
EXTENDS HttpServerBody, FramingProofs, FiniteSetTheorems

Writing == {"size", "bytes"}

LEMMA AppendInSeq ==
    ASSUME NEW S, NEW s \in Seq(S), NEW e \in S
    PROVE  Append(s, e) \in Seq(S)
  BY AppendProperties

LEMMA PartType ==
    ASSUME TypeOK, NEW t \in ServerThreads
    PROVE  /\ Part(t, "size") \in [part : {"size", "bytes"}, n : Nat]
           /\ Part(t, "bytes") \in [part : {"size", "bytes"}, n : Nat]
  BY BoundsAssumption DEF TypeOK, Part

-----------------------------------------------------------------------------
(* Type correctness.                                                       *)

LEMMA TypeCall ==
    ASSUME TypeOK, NEW t \in ServerThreads, CallStep(t)
    PROVE  TypeOK'
<1>1. CASE \E md \in SUBSET Keys : SetHeader(t, md)
  BY <1>1 DEF SetHeader, TypeOK, callVars, readVars, lockVars, respVars, bodyVars, connVars
<1>2. CASE \E md \in SUBSET Keys : SendHeader(t, md)
  BY <1>2 DEF SendHeader, Commit, TypeOK, callVars, readVars, bodyVars, connVars
<1>3. CASE \E md \in SUBSET Keys : SetTrailer(t, md)
  BY <1>3 DEF SetTrailer, TypeOK, callVars, readVars, respVars, bodyVars, connVars
<1>4. CASE SendMsg(t)
  BY <1>4, BoundsAssumption DEF SendMsg, Goes, TypeOK, readVars, bodyVars, connVars
<1>5. CASE RecvMsg(t)
  <2>1. CASE ~ClientStream /\ recvd
    BY <1>5, <2>1 DEF RecvMsg, TypeOK, lockVars, respVars, bodyVars, connVars
  <2>2. CASE ~(~ClientStream /\ recvd)
    <3>1. /\ rmu' = t /\ recvd' = TRUE /\ result' = result
          /\ spc' = [spc EXCEPT ![t] = "reading"]
          /\ UNCHANGED <<phase, hret, handled, lockVars, respVars, trailer,
                         connVars, bodyVars, reqRd>>
      BY <1>5, <2>2, Zenon DEF RecvMsg, Goes
    <3> QED
      BY <3>1 DEF TypeOK, lockVars, respVars, bodyVars, connVars
  <2> QED
    BY <2>1, <2>2
<1> QED
  BY <1>1, <1>2, <1>3, <1>4, <1>5 DEF CallStep

LEMMA TypeWrite ==
    ASSUME TypeOK, NEW t \in ServerThreads, WriteStep(t)
    PROVE  TypeOK'
<1> DEFINE Pieces == [part : {"size", "bytes"}, n : Nat]
<1>1. /\ Append(wire, Part(t, "size")) \in Seq(Pieces)
      /\ Append(wire, Part(t, "bytes")) \in Seq(Pieces)
  <2>1. wire \in Seq(Pieces)
    BY DEF TypeOK
  <2> QED
    BY <2>1, PartType, AppendInSeq
<1>2. CASE WriteSize(t)
  BY <1>1, <1>2 DEF WriteSize, Commit, Goes, TypeOK, readVars, lockVars, bodyVars, connVars
<1>3. CASE WriteBytes(t)
  BY <1>1, <1>3 DEF WriteBytes, WriterDone, Goes, TypeOK, readVars, bodyVars, connVars
<1>4. CASE WriteFails(t)
  BY <1>4 DEF WriteFails, WriterDone, AtTrailer, Goes, TypeOK, readVars, respVars,
              bodyVars, connVars
<1> QED
  BY <1>2, <1>3, <1>4 DEF WriteStep

LEMMA TypeRead ==
    ASSUME TypeOK, NEW t \in ServerThreads, ReadStep(t)
    PROVE  TypeOK'
<1>1. Append(handled, reqRd + 1) \in Seq(Nat)
  BY AppendInSeq, BoundsAssumption DEF TypeOK
<1>2. CASE ReadMessage(t)
  <2>1. /\ reqRd < req /\ reqRd' = reqRd + 1
        /\ UNCHANGED <<phase, hret, recvd, lockVars, respVars, trailer,
                       connVars, bodyVars>>
    BY <1>2 DEF ReadMessage
  <2>2. handled' \in Seq(Nat)
    BY <1>1, <1>2 DEF ReadMessage, TypeOK
  <2>3. /\ result' \in {result, "msg", "invalid", "many"}
        /\ rmu' \in {rmu, Unlocked}
        /\ \E place \in {"idle", "more"} : spc' = [spc EXCEPT ![t] = place]
    BY <1>2 DEF ReadMessage, AfterDecode, Returns, Goes
  <2> QED
    BY <2>1, <2>2, <2>3, BoundsAssumption DEF TypeOK, lockVars, respVars, bodyVars, connVars
<1>3. CASE ReadEOF(t)
  BY <1>3 DEF ReadEOF, Returns, Goes, TypeOK, lockVars, respVars, bodyVars, connVars
<1>4. CASE ReadFails(t)
  BY <1>4 DEF ReadFails, Returns, Goes, TypeOK, lockVars, respVars, bodyVars, connVars
<1> QED
  BY <1>2, <1>3, <1>4 DEF ReadStep

LEMMA TypeNext == TypeOK /\ [Next]_vars => TypeOK'
<1> SUFFICES ASSUME TypeOK, [Next]_vars PROVE TypeOK'
  OBVIOUS
<1> USE DEF callVars, readVars, lockVars, respVars, bodyVars, connVars
<1>1. CASE Reject
  BY <1>1 DEF Reject, Commit, TypeOK
<1>2. CASE HandlerStarts \/ HandlerReturns
  BY <1>2 DEF HandlerStarts, HandlerReturns, TypeOK
<1>3. CASE StartTrailer
  <2>1. /\ phase' \in {"drain", "trailer"}
        /\ spc' = spc \/ spc' = [spc EXCEPT ![Main] = "size"]
        /\ trailer' = trailer \/ trailer' = [code |-> TrailerCode, md |-> tr]
        /\ UNCHANGED <<hret, result, readVars, lockVars, respVars, connVars,
                       bodyVars, reqRd>>
    BY <1>3 DEF StartTrailer, Goes
  <2>2. trailer' \in [code : {"none", "OK", "err"}, md : SUBSET Keys]
    BY <2>1 DEF TrailerCode, TypeOK
  <2>3. spc' \in [ServerThreads -> {"idle", "size", "bytes", "reading", "more"}]
    BY <2>1 DEF TypeOK
  <2> QED
    BY <2>1, <2>2, <2>3 DEF TypeOK
<1>4. CASE Drains
  BY <1>4, BoundsAssumption DEF Drains, TypeOK
<1>5. CASE NetStep
  <2>1. CASE ClientSends
    BY <2>1, BoundsAssumption DEF ClientSends, TypeOK
  <2>2. CASE ClientCloses
    BY <2>2 DEF ClientCloses, TypeOK
  <2>3. CASE ConnectionBreaks
    <3>1. /\ connected' \in BOOLEAN
          /\ UNCHANGED <<phase, hret, callVars, readVars, lockVars, respVars,
                         trailer, bodyClosed, bodyVars, reqRd>>
      BY <2>3 DEF ConnectionBreaks
    <3> QED
      BY <3>1 DEF TypeOK
  <2>4. CASE ClientSendsBad
    BY <2>4 DEF ClientSendsBad, TypeOK
  <2>5. CASE BodyCloses
    <3>1. /\ bodyClosed' \in BOOLEAN
          /\ UNCHANGED <<phase, hret, callVars, readVars, lockVars, respVars,
                         trailer, connected, bodyVars, reqRd>>
      BY <2>5 DEF BodyCloses
    <3> QED
      BY <3>1 DEF TypeOK
  <2> QED
    BY <1>5, <2>1, <2>2, <2>3, <2>4, <2>5 DEF NetStep
<1>6. CASE Over \/ UNCHANGED vars
  BY <1>6 DEF Over, vars, TypeOK
<1> QED
  BY <1>1, <1>2, <1>3, <1>4, <1>5, <1>6, TypeCall, TypeWrite, TypeRead DEF Next

(* Every variable keeps its type: no state of the code's is left out of    *)
(* the invariants below.                                                   *)
THEOREM ServerTypeSafe == Spec => []TypeOK
<1>1. Init => TypeOK
  <2> SUFFICES ASSUME Init PROVE TypeOK
    OBVIOUS
  <2>1. <<>> \in Seq(Nat) /\ <<>> \in Seq([part : {"size", "bytes"}, n : Nat])
    OBVIOUS
  <2>2. NoTrailer \in [code : {"none", "OK", "err"}, md : SUBSET Keys]
    BY DEF NoTrailer
  <2>3. spc \in [ServerThreads -> {"idle", "size", "bytes", "reading", "more"}]
    BY DEF Init
  <2>4. /\ recvd \in BOOLEAN /\ headersSent \in BOOLEAN /\ writeFailed \in BOOLEAN
        /\ committed \in BOOLEAN /\ connected \in BOOLEAN /\ bodyClosed \in BOOLEAN
        /\ reqEnd \in BOOLEAN /\ reqBad \in BOOLEAN
    BY Zenon DEF Init
  <2>5. sent \in 0..MaxResp /\ req \in 0..MaxReq /\ reqRd \in 0..req
    BY BoundsAssumption DEF Init
  <2> QED
    BY <2>1, <2>2, <2>3, <2>4, <2>5 DEF Init, TypeOK
<1> QED
  BY <1>1, TypeNext, PTL DEF Spec

-----------------------------------------------------------------------------
(* Who writes: wmu protects SendMsg, and the trailer is written when no    *)
(* goroutine but Main is left.                                             *)

WriterInv ==
    /\ \A t \in ServerThreads : spc[t] \in Writing /\ ~AtTrailer(t) => wmu = t
    /\ phase # "running" =>
           \A t \in ServerThreads : spc[t] # "idle" => AtTrailer(t)

LEMMA WriterNext ==
    ASSUME ~Outlive, TypeOK, WriterInv, [Next]_vars
    PROVE  WriterInv'
<1> USE DEF AtTrailer, Writing
<1>1. ASSUME NEW t \in ServerThreads, CallStep(t) PROVE WriterInv'
  <2>1. phase = "running" /\ phase' = phase
    BY <1>1 DEF CallStep, SetHeader, SendHeader, SetTrailer, SendMsg, RecvMsg,
                MayCall
  <2>2. CASE SendMsg(t)
    BY <2>1, <2>2, ThreadsAssumption
       DEF SendMsg, MayCall, Goes, WriterInv, TypeOK
  <2>3. CASE RecvMsg(t)
    <3>1. /\ wmu' = wmu
          /\ spc' = spc \/ spc' = [spc EXCEPT ![t] = "reading"]
      BY <2>3 DEF RecvMsg, Goes, lockVars
    <3> QED
      BY <2>1, <3>1 DEF WriterInv, TypeOK
  <2>4. CASE \E md \in SUBSET Keys :
                 SetHeader(t, md) \/ SendHeader(t, md) \/ SetTrailer(t, md)
    <3>1. wmu' = wmu /\ spc' = spc
      BY <2>4 DEF SetHeader, SendHeader, SetTrailer, callVars, lockVars
    <3> QED
      BY <2>1, <3>1 DEF WriterInv
  <2> QED
    BY <1>1, <2>2, <2>3, <2>4 DEF CallStep
<1>2. ASSUME NEW t \in ServerThreads, WriteStep(t) PROVE WriterInv'
  BY <1>2 DEF WriteStep, WriteSize, WriteBytes, WriteFails, WriterDone, Goes,
              WriterInv, TypeOK, lockVars
<1>3. ASSUME NEW t \in ServerThreads, ReadStep(t) PROVE WriterInv'
  BY <1>3 DEF ReadStep, ReadMessage, AfterDecode, ReadEOF, ReadFails, Returns,
              Goes, WriterInv, TypeOK, lockVars
<1>4. CASE Reject \/ HandlerStarts \/ HandlerReturns \/ Drains
  BY <1>4 DEF Reject, HandlerStarts, HandlerReturns, Drains, WriterInv,
              callVars, lockVars
<1>5. CASE StartTrailer
  BY <1>5, ThreadsAssumption DEF StartTrailer, Goes, WriterInv, TypeOK, lockVars
<1>6. CASE NetStep \/ Over \/ UNCHANGED vars
  BY <1>6 DEF NetStep, ClientSends, ClientSendsBad, ClientCloses, BodyCloses,
              ConnectionBreaks, Over, vars,
              WriterInv, callVars, lockVars
<1> QED
  BY <1>1, <1>2, <1>3, <1>4, <1>5, <1>6 DEF Next

LEMMA WriterSafe == ASSUME ~Outlive PROVE Spec => [](TypeOK /\ WriterInv)
<1>1. Init => WriterInv
  BY DEF Init, WriterInv, Writing
<1>2. TypeOK /\ WriterInv /\ [Next]_vars => WriterInv'
  BY WriterNext
<1> QED
  BY <1>1, <1>2, ServerTypeSafe, PTL DEF Spec

(* "wmu serializes access to w": with a handler that waits for its         *)
(* goroutines no two of them write to the reply at a time, the one that    *)
(* writes the trailer, without wmu, among them.                            *)
THEOREM OneWriter == ASSUME ~Outlive PROVE Spec => []WriterIsAlone
<1>1. WriterInv => WriterIsAlone
  BY DEF WriterInv, WriterIsAlone, AtTrailer, Writing
<1> QED
  BY <1>1, WriterSafe, PTL

-----------------------------------------------------------------------------
(* Headers: once a byte was written, or is about to be, no more are        *)
(* accepted.                                                               *)

HeaderInv ==
    /\ HeadersAreSent
    /\ phase = "start" => ~committed /\ hdrs = {}
    /\ phase = "running" =>
           /\ committed => headersSent
           /\ \A t \in ServerThreads : spc[t] \in Writing => headersSent

LEMMA HeaderNext ==
    ASSUME ~Outlive, TypeOK, WriterInv, HeaderInv, [Next]_vars
    PROVE  HeaderInv'
<1> USE DEF HeadersAreSent, Writing
<1>1. ASSUME NEW t \in ServerThreads, CallStep(t) PROVE HeaderInv'
  <2>1. phase = "running" /\ phase' = phase
    BY <1>1 DEF CallStep, SetHeader, SendHeader, SetTrailer, SendMsg, RecvMsg,
                MayCall
  <2>2. CASE \E md \in SUBSET Keys : SetHeader(t, md)
    BY <2>1, <2>2 DEF SetHeader, HeaderInv, callVars, lockVars
  <2>3. CASE \E md \in SUBSET Keys : SendHeader(t, md)
    BY <2>1, <2>3 DEF SendHeader, Commit, HeaderInv, callVars
  <2>4. CASE SendMsg(t)
    BY <2>1, <2>4 DEF SendMsg, HeaderInv
  <2>5. CASE \E md \in SUBSET Keys : SetTrailer(t, md)
    BY <2>1, <2>5 DEF SetTrailer, HeaderInv, callVars, respVars
  <2>6. CASE RecvMsg(t)
    <3>1. /\ UNCHANGED <<lockVars, respVars>>
          /\ spc' = spc \/ spc' = [spc EXCEPT ![t] = "reading"]
      BY <2>6 DEF RecvMsg, Goes
    <3> QED
      BY <2>1, <3>1 DEF HeaderInv, TypeOK, lockVars, respVars
  <2> QED
    BY <1>1, <2>2, <2>3, <2>4, <2>5, <2>6 DEF CallStep
<1>2. ASSUME NEW t \in ServerThreads, WriteStep(t) PROVE HeaderInv'
  <2>1. CASE WriteSize(t)
    BY <2>1 DEF WriteSize, Commit, Goes, HeaderInv, TypeOK, lockVars, WriterInv,
                AtTrailer
  <2>2. CASE WriteBytes(t) \/ WriteFails(t)
    <3>1. /\ UNCHANGED <<headersSent, hdrs, committed, wireHdrs>>
          /\ spc' = [spc EXCEPT ![t] = "idle"]
          /\ phase' = phase \/ phase' = "drain"
      BY <2>2 DEF WriteBytes, WriteFails, WriterDone, Goes, respVars
    <3> QED
      BY <3>1 DEF HeaderInv, TypeOK
  <2> QED
    BY <1>2, <2>1, <2>2 DEF WriteStep
<1>3. ASSUME NEW t \in ServerThreads, ReadStep(t) PROVE HeaderInv'
  <2>1. /\ UNCHANGED <<phase, lockVars, respVars>>
        /\ \E place \in {"idle", "more"} : spc' = [spc EXCEPT ![t] = place]
    BY <1>3 DEF ReadStep, ReadMessage, AfterDecode, ReadEOF, ReadFails, Returns,
                Goes
  <2> QED
    BY <2>1 DEF HeaderInv, TypeOK, lockVars, respVars
<1>4. CASE Reject
  BY <1>4 DEF Reject, Commit, HeaderInv
<1>5. CASE HandlerStarts
  BY <1>5 DEF HandlerStarts, HeaderInv, WriterInv, AtTrailer, callVars, respVars
<1>6. CASE HandlerReturns \/ StartTrailer \/ Drains
  BY <1>6 DEF HandlerReturns, StartTrailer, Drains, HeaderInv, respVars
<1>7. CASE NetStep \/ Over \/ UNCHANGED vars
  BY <1>7 DEF NetStep, ClientSends, ClientSendsBad, ClientCloses, BodyCloses,
              ConnectionBreaks, Over, vars,
              HeaderInv, callVars, lockVars, respVars
<1> QED
  BY <1>1, <1>2, <1>3, <1>4, <1>5, <1>6, <1>7 DEF Next

(* No header that SetHeader or SendHeader accepted stays behind: setHeader *)
(* refuses it from the moment SendMsg decides to write, not from the first *)
(* byte on.                                                                *)
THEOREM HeadersReachClient == ASSUME ~Outlive PROVE Spec => []HeadersAreSent
<1>1. Init => HeaderInv
  BY DEF Init, HeaderInv, HeadersAreSent, Writing
<1>2. TypeOK /\ WriterInv /\ HeaderInv /\ [Next]_vars => HeaderInv'
  BY HeaderNext
<1>3. HeaderInv => HeadersAreSent
  BY DEF HeaderInv
<1> QED
  BY <1>1, <1>2, <1>3, WriterSafe, PTL DEF Spec

-----------------------------------------------------------------------------
(* Requests: rmu, and how far the body was read.                           *)

Reader(t) == spc[t] \in {"reading", "more"}

RequestInv ==
    /\ OneRequest
    /\ \A t \in ServerThreads : Reader(t) => rmu = t /\ recvd
    /\ ~ClientStream =>
           /\ ~recvd => handled = <<>>
           /\ ~recvd /\ phase \in {"start", "running"} => reqRd = 0
           /\ \A t \in ServerThreads :
                  /\ spc[t] = "reading" => reqRd = 0 /\ handled = <<>>
                  /\ spc[t] = "more" => reqRd = 1 /\ handled = <<1>>

LEMMA RequestRead ==
    ASSUME TypeOK, RequestInv, NEW t \in ServerThreads, ReadStep(t)
    PROVE  RequestInv'
<1> USE DEF Reader, OneRequest, connVars, bodyVars
<1>1. /\ Reader(t) /\ rmu = t /\ recvd' = recvd /\ recvd
      /\ UNCHANGED <<phase, connVars, bodyVars>>
  BY DEF ReadStep, ReadMessage, ReadEOF, ReadFails, RequestInv
<1>2. \A u \in ServerThreads : u # t => ~Reader(u)
  BY <1>1 DEF RequestInv
<1>3. spc' \in {[spc EXCEPT ![t] = "idle"], [spc EXCEPT ![t] = "more"]}
  BY DEF ReadStep, ReadMessage, AfterDecode, ReadEOF, ReadFails, Returns, Goes
<1>4. \A u \in ServerThreads : u # t => ~Reader(u)'
  BY <1>2, <1>3 DEF TypeOK
<1>5. CASE ClientStream
  BY <1>1, <1>3, <1>4, <1>5, FlagsAssumption
     DEF ReadStep, ReadMessage, AfterDecode, ReadEOF, ReadFails, Returns, Goes,
         RequestInv, TypeOK
<1>6. CASE ~ClientStream /\ ReadMessage(t)
  <2>1. CASE spc[t] = "reading" /\ AfterDecode(t) /\ handled' = Append(handled, reqRd')
    <3>1. reqRd' = 1 /\ handled' = <<1>>
      <4>1. reqRd = 0 /\ handled = <<>>
        BY <1>6, <2>1 DEF RequestInv
      <4>2. reqRd' = 1
        BY <1>6, <4>1 DEF ReadMessage
      <4>3. Append(<<>>, 1) = <<1>>
        OBVIOUS
      <4> QED
        BY <2>1, <4>1, <4>2, <4>3
    <3>2. /\ spc' = [spc EXCEPT ![t] = "more"]
          /\ result' = result /\ rmu' = rmu
      BY <1>6, <2>1 DEF AfterDecode, Goes
    <3>3. result # "msg"
      BY <1>6, <2>1 DEF RequestInv
    <3> QED
      BY <1>1, <1>4, <1>6, <3>1, <3>2, <3>3 DEF RequestInv, TypeOK
  <2>2. CASE /\ spc[t] = "reading" /\ Returns(t, "invalid")
             /\ UNCHANGED handled
    BY <1>1, <1>4, <1>6, <2>2 DEF Returns, Goes, RequestInv, TypeOK
  <2>3. CASE spc[t] = "more" /\ Returns(t, "many") /\ UNCHANGED handled
    <3>1. req > 1 /\ handled' = <<1>>
      BY <1>6, <2>3 DEF ReadMessage, RequestInv, TypeOK
    <3> QED
      BY <1>1, <1>4, <1>6, <2>3, <3>1 DEF Returns, Goes, RequestInv, TypeOK
  <2> QED
    BY <1>6, <2>1, <2>2, <2>3 DEF ReadMessage
<1>7. CASE ~ClientStream /\ ReadEOF(t)
  BY <1>1, <1>4, <1>7 DEF ReadEOF, Returns, Goes, RequestInv, TypeOK
<1>8. CASE ~ClientStream /\ ReadFails(t)
  BY <1>1, <1>4, <1>8 DEF ReadFails, BodyLost, Returns, Goes, RequestInv, TypeOK
<1> QED
  BY <1>5, <1>6, <1>7, <1>8 DEF ReadStep

LEMMA RequestCall ==
    ASSUME ~Outlive, TypeOK, RequestInv, NEW t \in ServerThreads, CallStep(t)
    PROVE  RequestInv'
<1> USE DEF Reader, OneRequest, connVars, bodyVars
<1>1. CASE RecvMsg(t)
  <2>1. phase = "running" /\ rmu = Unlocked /\ spc[t] = "idle"
        /\ UNCHANGED <<phase, handled, connVars, bodyVars, reqRd>>
    BY <1>1 DEF RecvMsg, MayCall, bodyVars, connVars
  <2>2. \A u \in ServerThreads : ~Reader(u)
    BY <2>1, ThreadsAssumption DEF RequestInv
  <2>3. CASE ~ClientStream /\ recvd
    <3>1. result' = "EOF" /\ UNCHANGED <<rmu, recvd, spc>>
      BY <1>1, <2>3 DEF RecvMsg
    <3> QED
      BY <2>1, <3>1 DEF RequestInv
  <2>4. CASE ~(~ClientStream /\ recvd)
    <3>1. /\ rmu' = t /\ recvd' = TRUE /\ result' = result
          /\ spc' = [spc EXCEPT ![t] = "reading"]
      BY <1>1, <2>4, Zenon DEF RecvMsg, Goes
    <3> QED
      BY <2>1, <2>2, <2>4, <3>1 DEF RequestInv, TypeOK
  <2> QED
    BY <2>3, <2>4
<1>2. CASE ~RecvMsg(t)
  <2>1. /\ UNCHANGED <<readVars, phase, result, connVars, bodyVars, reqRd>>
        /\ spc' = spc \/ spc' = [spc EXCEPT ![t] = "size"]
    BY <1>2 DEF CallStep, SetHeader, SendHeader, SetTrailer, SendMsg, Goes, callVars
  <2> QED
    BY <2>1 DEF RequestInv, TypeOK, readVars, bodyVars, connVars
<1> QED
  BY <1>1, <1>2

LEMMA RequestNext ==
    ASSUME ~Outlive, TypeOK, WriterInv, RequestInv, [Next]_vars
    PROVE  RequestInv'
<1> USE DEF Reader, OneRequest, connVars, bodyVars
<1>1. ASSUME NEW t \in ServerThreads, WriteStep(t) PROVE RequestInv'
  <2>1. /\ UNCHANGED <<readVars, result, connVars, bodyVars, reqRd>>
        /\ phase' \in {phase, "drain"}
        /\ \E place \in {"idle", "bytes"} : spc' = [spc EXCEPT ![t] = place]
    BY <1>1 DEF WriteStep, WriteSize, WriteBytes, WriteFails, WriterDone, Goes
  <2> QED
    BY <2>1 DEF RequestInv, TypeOK, readVars, bodyVars, connVars
<1>2. CASE Reject \/ HandlerStarts \/ HandlerReturns
  BY <1>2 DEF Reject, HandlerStarts, HandlerReturns, RequestInv, callVars, readVars,
              bodyVars, connVars
<1>3. CASE StartTrailer
  <2>1. /\ UNCHANGED <<readVars, result, connVars, bodyVars, reqRd>>
        /\ phase' \in {"trailer", "drain"}
        /\ spc' = spc \/ spc' = [spc EXCEPT ![Main] = "size"]
    BY <1>3 DEF StartTrailer, Goes
  <2> QED
    BY <2>1 DEF RequestInv, TypeOK, readVars, bodyVars, connVars
<1>4. CASE Drains
  <2>1. /\ UNCHANGED <<callVars, readVars, connVars, bodyVars>>
        /\ phase = "drain" /\ phase' \in {"drain", "over"}
    BY <1>4 DEF Drains
  <2>2. \A t \in ServerThreads : spc[t] = "idle"
    BY <2>1 DEF WriterInv, AtTrailer
  <2> QED
    BY <2>1, <2>2 DEF RequestInv, callVars, readVars, bodyVars, connVars
<1>5. CASE NetStep
  <2>1. UNCHANGED <<callVars, readVars, phase, reqRd>>
    BY <1>5 DEF NetStep, ClientSends, ClientSendsBad, ClientCloses, BodyCloses,
              ConnectionBreaks
  <2>2. CASE ClientSends
    <3>1. ~reqEnd /\ req' = req + 1 /\ UNCHANGED <<connVars, reqEnd, reqBad>>
      BY <2>2 DEF ClientSends
    <3> QED
      BY <2>1, <3>1 DEF RequestInv, TypeOK, callVars, readVars, connVars
  <2>3. CASE ClientCloses
    <3>1. ~reqEnd /\ UNCHANGED <<connVars, req, reqBad>>
      BY <2>3 DEF ClientCloses
    <3> QED
      BY <2>1, <3>1 DEF RequestInv, callVars, readVars, connVars
  <2>4. CASE ConnectionBreaks
    <3>1. ~connected' /\ UNCHANGED <<bodyClosed, req, reqEnd, reqBad>>
      BY <2>4 DEF ConnectionBreaks, bodyVars
    <3> QED
      BY <2>1, <3>1 DEF RequestInv, callVars, readVars
  <2>5. CASE BodyCloses
    <3>1. bodyClosed' /\ UNCHANGED <<connected, req, reqEnd, reqBad>>
      BY <2>5 DEF BodyCloses, bodyVars
    <3> QED
      BY <2>1, <3>1 DEF RequestInv, callVars, readVars
  <2>6. CASE ClientSendsBad
    <3>1. ~reqEnd /\ reqBad' /\ UNCHANGED <<connVars, req, reqEnd>>
      BY <2>6 DEF ClientSendsBad
    <3> QED
      BY <2>1, <3>1 DEF RequestInv, callVars, readVars, connVars
  <2> QED
    BY <1>5, <2>2, <2>3, <2>4, <2>5, <2>6 DEF NetStep
<1>6. CASE Over \/ UNCHANGED vars
  BY <1>6 DEF Over, vars, RequestInv, callVars, readVars, bodyVars, connVars
<1> QED
  BY <1>1, <1>2, <1>3, <1>4, <1>5, <1>6, RequestRead, RequestCall DEF Next

(* RecvMsg of a method with one request hands over the only message of a   *)
(* request that has ended, and says there were too many messages only if   *)
(* it had one and could not see the end behind it: the second read runs    *)
(* under the rmu of the first, and can fail for other reasons.             *)
THEOREM OneRequestOnly == ASSUME ~Outlive PROVE Spec => []OneRequest
<1>1. Init => RequestInv
  BY DEF Init, RequestInv, OneRequest, Reader
<1>2. TypeOK /\ WriterInv /\ RequestInv /\ [Next]_vars => RequestInv'
  BY RequestNext
<1>3. RequestInv => OneRequest
  BY DEF RequestInv
<1> QED
  BY <1>1, <1>2, <1>3, WriterSafe, PTL DEF Spec

-----------------------------------------------------------------------------
(* The trailer: nothing it says can change once handleStream has read it.  *)

Honest ==
    /\ (trailer.code = "OK") <=> (hret = "nil")
    /\ trailer.md = tr
    /\ ~writeFailed

TrailerInv ==
    /\ phase = "trailer" => Honest
    /\ \A i \in 1..Len(wire) :
           wire[i].n = 0 => phase \in {"trailer", "drain", "over"} /\ Honest
    /\ \A t \in ServerThreads : spc[t] \in Writing /\ ~AtTrailer(t) => sent > 0

LEMMA TrailerCall ==
    ASSUME ~Outlive, TypeOK, TrailerInv, NEW t \in ServerThreads, CallStep(t)
    PROVE  TrailerInv'
<1> USE DEF AtTrailer, Writing
<1>1. /\ phase = "running" /\ UNCHANGED <<phase, wire>>
      /\ \/ sent' = sent /\ (spc' = spc \/ spc' = [spc EXCEPT ![t] = "reading"])
         \/ sent' = sent + 1 /\ spc' = [spc EXCEPT ![t] = "size"]
  <2>1. CASE RecvMsg(t)
    BY <2>1 DEF RecvMsg, MayCall, Goes, respVars
  <2>2. CASE SendMsg(t)
    BY <2>2 DEF SendMsg, MayCall, Goes
  <2>3. CASE \E md \in SUBSET Keys :
                 SetHeader(t, md) \/ SendHeader(t, md) \/ SetTrailer(t, md)
    BY <2>3 DEF SetHeader, SendHeader, SetTrailer, MayCall, callVars, respVars
  <2> QED
    BY <2>1, <2>2, <2>3 DEF CallStep
<1>2. \A i \in 1..Len(wire) : wire[i].n # 0
  BY <1>1 DEF TrailerInv
<1> QED
  BY <1>1, <1>2 DEF TrailerInv, TypeOK

LEMMA TrailerWrite ==
    ASSUME TypeOK, WriterInv, TrailerInv, NEW t \in ServerThreads, WriteStep(t)
    PROVE  TrailerInv'
<1> USE DEF Writing
<1>1. spc[t] \in Writing /\ (phase = "running" \/ AtTrailer(t))
  BY DEF WriteStep, WriteSize, WriteBytes, WriteFails, WriterInv
<1>2. /\ UNCHANGED <<hret, tr, trailer, sent>>
      /\ \E place \in {"idle", "bytes"} : spc' = [spc EXCEPT ![t] = place]
      /\ phase' = phase \/ (AtTrailer(t) /\ phase' = "drain")
  BY DEF WriteStep, WriteSize, WriteBytes, WriteFails, WriterDone, Goes, lockVars,
         respVars
<1>3. AtTrailer(t) => writeFailed' = writeFailed
  BY DEF WriteStep, WriteSize, WriteBytes, WriteFails, lockVars, TypeOK
<1>4. \/ wire' = wire
      \/ \E part \in {"size", "bytes"} : wire' = Append(wire, Part(t, part))
  BY DEF WriteStep, WriteSize, WriteBytes, WriteFails, respVars
<1>5. \A i \in 1..Len(wire') :
          wire'[i].n = 0 => AtTrailer(t) \/ (i \in 1..Len(wire) /\ wire[i].n = 0)
  <2>1. CASE wire' = wire
    BY <2>1
  <2>2. ASSUME NEW part \in {"size", "bytes"}, wire' = Append(wire, Part(t, part))
        PROVE  \A i \in 1..Len(wire') : wire'[i].n = 0 =>
                   AtTrailer(t) \/ (i \in 1..Len(wire) /\ wire[i].n = 0)
    <3>1. Part(t, part).n = 0 => AtTrailer(t)
      BY <1>1 DEF Part, TrailerInv, TypeOK
    <3>2. /\ Len(wire') = Len(wire) + 1 /\ wire'[Len(wire) + 1] = Part(t, part)
          /\ \A i \in 1..Len(wire) : wire'[i] = wire[i]
      <4>1. wire \in Seq([part : {"size", "bytes"}, n : Nat])
        BY DEF TypeOK
      <4>2. Part(t, part) \in [part : {"size", "bytes"}, n : Nat]
        BY PartType
      <4> QED
        BY <2>2, <4>1, <4>2, AppendProperties
    <3>3. Len(wire) \in Nat
      BY DEF TypeOK
    <3> QED
      BY <3>1, <3>2, <3>3
  <2> QED
    BY <1>4, <2>1, <2>2
<1>6. CASE AtTrailer(t)
  <2>1. Honest /\ Honest'
    BY <1>2, <1>3, <1>6 DEF TrailerInv, Honest, AtTrailer
  <2>2. phase = "trailer" /\ phase' \in {"trailer", "drain"}
    BY <1>2, <1>6 DEF AtTrailer
  <2>3. \A u \in ServerThreads : u # t => spc'[u] = "idle"
    BY <1>2, <1>6 DEF WriterInv, TypeOK, AtTrailer
  <2>4. t = Main
    BY <1>6 DEF AtTrailer
  <2>5. phase' = "trailer" \/ spc'[t] = "idle"
    BY <1>2, <2>2 DEF WriteStep, WriteSize, WriteBytes, WriteFails, WriterDone, Goes,
                      AtTrailer, TypeOK
  <2> QED
    BY <2>1, <2>2, <2>3, <2>4, <2>5 DEF TrailerInv, AtTrailer
<1>7. CASE ~AtTrailer(t)
  <2>1. phase = "running" /\ phase' = phase
    BY <1>1, <1>2, <1>7
  <2>2. \A i \in 1..Len(wire') : wire'[i].n # 0
    BY <1>5, <1>7, <2>1 DEF TrailerInv
  <2> QED
    BY <1>1, <1>2, <1>7, <2>1, <2>2 DEF TrailerInv, AtTrailer, TypeOK
<1> QED
  BY <1>6, <1>7

LEMMA TrailerNext ==
    ASSUME ~Outlive, TypeOK, WriterInv, TrailerInv, [Next]_vars
    PROVE  TrailerInv'
<1> USE DEF AtTrailer, Writing, Honest
<1>1. ASSUME NEW t \in ServerThreads, ReadStep(t) PROVE TrailerInv'
  <2>1. /\ UNCHANGED <<phase, hret, lockVars, respVars, trailer>>
        /\ \E place \in {"idle", "more"} : spc' = [spc EXCEPT ![t] = place]
    BY <1>1 DEF ReadStep, ReadMessage, AfterDecode, ReadEOF, ReadFails, Returns,
                Goes
  <2> QED
    BY <2>1 DEF TrailerInv, TypeOK, lockVars, respVars
<1>2. CASE Reject \/ HandlerStarts \/ HandlerReturns
  BY <1>2 DEF Reject, HandlerStarts, HandlerReturns, TrailerInv, WriterInv, callVars,
              lockVars, respVars
<1>3. CASE StartTrailer
  <2>1. /\ phase = "returned" /\ UNCHANGED <<hret, lockVars, respVars>>
        /\ \A i \in 1..Len(wire) : wire[i].n # 0
        /\ \A t \in ServerThreads : spc[t] = "idle"
    BY <1>3 DEF StartTrailer, TrailerInv, WriterInv
  <2>2. CASE writeFailed
    BY <1>3, <2>1, <2>2 DEF StartTrailer, TrailerInv, lockVars, respVars
  <2>3. CASE ~writeFailed
    <3>1. /\ phase' = "trailer" /\ spc' = [spc EXCEPT ![Main] = "size"]
          /\ trailer' = [code |-> TrailerCode, md |-> tr]
      BY <1>3, <2>3 DEF StartTrailer, Goes
    <3>2. (trailer'.code = "OK") <=> (hret' = "nil")
      BY <2>1, <3>1 DEF TrailerCode
    <3> QED
      BY <2>1, <2>3, <3>1, <3>2 DEF TrailerInv, TypeOK, lockVars, respVars
  <2> QED
    BY <2>2, <2>3
<1>4. CASE Drains
  BY <1>4 DEF Drains, TrailerInv, WriterInv, callVars, lockVars, respVars
<1>5. CASE NetStep \/ Over \/ UNCHANGED vars
  BY <1>5 DEF NetStep, ClientSends, ClientSendsBad, ClientCloses, BodyCloses,
              ConnectionBreaks, Over, vars,
              TrailerInv, callVars, lockVars, respVars
<1> QED
  BY <1>1, <1>2, <1>3, <1>4, <1>5, TrailerCall, TrailerWrite DEF Next

(* A trailer that says OK is written only for a handler that returned nil, *)
(* after no write has failed, and carries every trailer the handler set.   *)
THEOREM TrailerTellsTheTruth == ASSUME ~Outlive PROVE Spec => []TrailerIsHonest
<1>1. Init => TrailerInv
  BY DEF Init, TrailerInv, Writing
<1>2. TypeOK /\ WriterInv /\ TrailerInv /\ [Next]_vars => TrailerInv'
  BY TrailerNext
<1>3. TrailerInv => TrailerIsHonest
  BY DEF TrailerInv, TrailerIsHonest, Honest
<1> QED
  BY <1>1, <1>2, <1>3, WriterSafe, PTL DEF Spec

-----------------------------------------------------------------------------
(* The parts of the reply: how many were written says which comes next.    *)

WireInv ==
    /\ WireIsWhole
    /\ phase \in {"start", "running", "returned"} /\ ~writeFailed
            /\ (\A t \in ServerThreads : spc[t] \notin Writing)
          => Len(wire) = 2 * sent
    /\ \A t \in ServerThreads :
          /\ spc[t] = "size"  => Len(wire) = IF AtTrailer(t) THEN 2 * sent
                                                           ELSE 2 * sent - 2
          /\ spc[t] = "bytes" => Len(wire) = IF AtTrailer(t) THEN 2 * sent + 1
                                                           ELSE 2 * sent - 1

(* A part that follows the ones before it leaves the reply whole.          *)
LEMMA WholeAppend ==
    ASSUME TypeOK, WireIsWhole, sent' = sent,
           NEW part \in {"size", "bytes"}, NEW n \in Nat,
           wire' = Append(wire, [part |-> part, n |-> n]),
           \/ part = "size" /\ n = sent /\ sent > 0 /\ Len(wire) = 2 * sent - 2
           \/ part = "bytes" /\ n = sent /\ sent > 0 /\ Len(wire) = 2 * sent - 1
           \/ part = "size" /\ n = 0 /\ Len(wire) = 2 * sent
           \/ part = "bytes" /\ n = 0 /\ Len(wire) = 2 * sent + 1
    PROVE  WireIsWhole'
<1> DEFINE L == Len(wire)
<1>1. L \in Nat /\ sent \in Nat
  BY BoundsAssumption DEF TypeOK
<1>2. /\ Len(wire') = L + 1 /\ wire'[L + 1] = [part |-> part, n |-> n]
      /\ \A i \in 1..L : wire'[i] = wire[i]
  <2>1. wire \in Seq([part : {"size", "bytes"}, n : Nat])
    BY DEF TypeOK
  <2> QED
    BY <2>1, AppendProperties
<1>3. /\ part = IF (L + 1) % 2 = 1 THEN "size" ELSE "bytes"
      /\ n \in {0, (L + 2) \div 2}
      /\ n = 0 => (L + 2) \div 2 > sent
  <2>1. CASE L = 2 * sent - 2 /\ part = "size" /\ n = sent
    BY <1>1, <2>1
  <2>2. CASE L = 2 * sent - 1 /\ part = "bytes" /\ n = sent
    BY <1>1, <2>2
  <2>3. CASE L = 2 * sent /\ part = "size" /\ n = 0
    BY <1>1, <2>3
  <2>4. CASE L = 2 * sent + 1 /\ part = "bytes" /\ n = 0
    BY <1>1, <2>4
  <2> QED
    BY <2>1, <2>2, <2>3, <2>4
<1> SUFFICES ASSUME NEW i \in 1..(L + 1)
             PROVE  /\ wire'[i].part = IF i % 2 = 1 THEN "size" ELSE "bytes"
                    /\ wire'[i].n \in {0, (i + 1) \div 2}
                    /\ wire'[i].n = 0 => (i + 1) \div 2 > sent
  BY <1>2 DEF WireIsWhole
<1>4. CASE i \in 1..L
  <2>1. wire'[i] = wire[i]
    BY <1>2, <1>4
  <2> QED
    BY <1>4, <2>1 DEF WireIsWhole
<1>5. CASE i = L + 1
  <2>1. wire'[i].part = part /\ wire'[i].n = n
    BY <1>2, <1>5
  <2>2. i + 1 = L + 2
    BY <1>1, <1>5
  <2> QED
    BY <1>3, <1>5, <2>1, <2>2
<1> QED
  BY <1>1, <1>4, <1>5

LEMMA WireWrite ==
    ASSUME TypeOK, WriterInv, TrailerInv, WireInv,
           NEW t \in ServerThreads, WriteStep(t)
    PROVE  WireInv'
<1> USE DEF Writing
<1>1. spc[t] \in Writing /\ sent' = sent /\ (~AtTrailer(t) => sent > 0)
  BY DEF WriteStep, WriteSize, WriteBytes, WriteFails, TrailerInv, respVars
<1>2. \A u \in ServerThreads : u # t => spc[u] \notin Writing
  BY <1>1, ThreadsAssumption DEF WriterInv, AtTrailer
<1>3. sent \in Nat /\ Len(wire) \in Nat
  BY BoundsAssumption DEF TypeOK
<1>4. CASE WriteSize(t)
  <2>1. /\ wire' = Append(wire, [part |-> "size", n |-> IF AtTrailer(t) THEN 0 ELSE sent])
        /\ spc' = [spc EXCEPT ![t] = "bytes"] /\ phase' = phase /\ spc[t] = "size"
    BY <1>4 DEF WriteSize, Part, Goes
  <2>2. WireIsWhole'
    BY <1>1, <1>3, <2>1, WholeAppend DEF WireInv
  <2>3. Len(wire') = Len(wire) + 1
    BY <2>1, AppendProperties DEF TypeOK
  <2>4. AtTrailer(t)' = AtTrailer(t)
    BY <2>1 DEF AtTrailer
  <2> QED
    <3>1. Len(wire') = IF AtTrailer(t)' THEN 2 * sent' + 1 ELSE 2 * sent' - 1
      BY <1>1, <1>3, <2>1, <2>3, <2>4 DEF WireInv
    <3>2. \A u \in ServerThreads :
              /\ u # t => spc'[u] \notin Writing
              /\ u = t => spc'[u] = "bytes"
      BY <1>2, <2>1 DEF TypeOK
    <3> QED
      BY <2>2, <3>1, <3>2 DEF WireInv
<1>5. CASE WriteBytes(t)
  <2>1. /\ wire' = Append(wire, [part |-> "bytes", n |-> IF AtTrailer(t) THEN 0 ELSE sent])
        /\ spc' = [spc EXCEPT ![t] = "idle"] /\ spc[t] = "bytes"
        /\ IF AtTrailer(t) THEN phase' = "drain" ELSE phase' = phase
    BY <1>5 DEF WriteBytes, WriterDone, Part, Goes
  <2>2. WireIsWhole'
    BY <1>1, <1>3, <2>1, WholeAppend DEF WireInv
  <2>3. Len(wire') = Len(wire) + 1
    BY <2>1, AppendProperties DEF TypeOK
  <2>4. \A u \in ServerThreads : spc'[u] \notin Writing
    BY <1>2, <2>1 DEF TypeOK
  <2> QED
    BY <1>1, <1>3, <2>1, <2>2, <2>3, <2>4 DEF WireInv
<1>6. CASE WriteFails(t)
  <2>1. /\ wire' = wire /\ spc' = [spc EXCEPT ![t] = "idle"]
        /\ phase' = "drain" \/ writeFailed'
    BY <1>6 DEF WriteFails, WriterDone, Goes, respVars
  <2>2. \A u \in ServerThreads : spc'[u] \notin Writing
    BY <1>2, <2>1 DEF TypeOK
  <2> QED
    BY <1>1, <2>1, <2>2 DEF WireInv, WireIsWhole
<1> QED
  BY <1>4, <1>5, <1>6 DEF WriteStep

LEMMA WireNext ==
    ASSUME ~Outlive, TypeOK, WriterInv, TrailerInv, WireInv, [Next]_vars
    PROVE  WireInv'
<1> USE DEF Writing, AtTrailer
<1>1. ASSUME NEW t \in ServerThreads, CallStep(t) PROVE WireInv'
  <2>1. phase = "running" /\ phase' = phase /\ wire' = wire /\ spc[t] = "idle"
    BY <1>1 DEF CallStep, SetHeader, SendHeader, SetTrailer, SendMsg, RecvMsg,
                MayCall, respVars
  <2>2. CASE SendMsg(t)
    <3>1. /\ ~writeFailed /\ wmu = Unlocked /\ sent' = sent + 1
          /\ spc' = [spc EXCEPT ![t] = "size"]
      BY <2>2 DEF SendMsg, Goes
    <3>2. \A u \in ServerThreads : spc[u] \notin Writing
      BY <2>1, <3>1, ThreadsAssumption DEF WriterInv
    <3>3. Len(wire) = 2 * sent /\ sent \in Nat
      BY <2>1, <3>1, <3>2, BoundsAssumption DEF WireInv, TypeOK
    <3>4. WireIsWhole'
      BY <2>1, <3>1, <3>3 DEF WireInv, WireIsWhole, TrailerInv
    <3> QED
      BY <2>1, <3>1, <3>2, <3>3, <3>4 DEF WireInv, TypeOK
  <2>3. CASE ~SendMsg(t)
    <3>1. /\ sent' = sent /\ writeFailed' = writeFailed
          /\ spc' = spc \/ spc' = [spc EXCEPT ![t] = "reading"]
      <4>1. CASE RecvMsg(t)
        BY <4>1 DEF RecvMsg, Goes, lockVars, respVars
      <4>2. CASE \E md \in SUBSET Keys :
                     SetHeader(t, md) \/ SendHeader(t, md) \/ SetTrailer(t, md)
        BY <4>2 DEF SetHeader, SendHeader, SetTrailer, callVars, lockVars, respVars
      <4> QED
        BY <1>1, <2>3, <4>1, <4>2 DEF CallStep
    <3> QED
      BY <2>1, <3>1 DEF WireInv, WireIsWhole, TypeOK
  <2> QED
    BY <2>2, <2>3
<1>2. ASSUME NEW t \in ServerThreads, ReadStep(t) PROVE WireInv'
  <2>1. /\ UNCHANGED <<phase, lockVars, respVars>> /\ spc[t] \notin Writing
        /\ \E place \in {"idle", "more"} : spc' = [spc EXCEPT ![t] = place]
    BY <1>2 DEF ReadStep, ReadMessage, AfterDecode, ReadEOF, ReadFails, Returns,
                Goes
  <2> QED
    BY <2>1 DEF WireInv, WireIsWhole, TypeOK, lockVars, respVars
<1>3. CASE Reject \/ HandlerStarts \/ HandlerReturns \/ Drains
  <2>1. /\ UNCHANGED <<callVars, lockVars, wire, sent>>
        /\ phase \notin {"start", "running", "returned"}
              => phase' \notin {"start", "running", "returned", "trailer"}
        /\ phase # "trailer" /\ phase' # "trailer"
    BY <1>3 DEF Reject, HandlerStarts, HandlerReturns, Drains, respVars
  <2> QED
    BY <2>1 DEF WireInv, WireIsWhole, callVars, lockVars
<1>4. CASE StartTrailer
  <2>1. /\ phase = "returned" /\ UNCHANGED <<lockVars, respVars>>
        /\ \A t \in ServerThreads : spc[t] = "idle"
    BY <1>4 DEF StartTrailer, WriterInv
  <2>2. CASE writeFailed
    BY <1>4, <2>1, <2>2 DEF StartTrailer, WireInv, WireIsWhole, lockVars, respVars
  <2>3. CASE ~writeFailed
    <3>1. /\ phase' = "trailer" /\ spc' = [spc EXCEPT ![Main] = "size"]
          /\ Len(wire) = 2 * sent
      BY <1>4, <2>1, <2>3 DEF StartTrailer, Goes, WireInv
    <3> QED
      BY <2>1, <3>1 DEF WireInv, WireIsWhole, TypeOK, respVars
  <2> QED
    BY <2>2, <2>3
<1>5. CASE NetStep \/ Over \/ UNCHANGED vars
  BY <1>5 DEF NetStep, ClientSends, ClientSendsBad, ClientCloses, BodyCloses,
              ConnectionBreaks, Over, vars,
              WireInv, WireIsWhole, callVars, lockVars, respVars
<1> QED
  BY <1>1, <1>2, <1>3, <1>4, <1>5, WireWrite DEF Next

(* The reply is whole messages in the order of the SendMsg calls, and the  *)
(* trailer behind them, whichever goroutines send and wherever a write     *)
(* fails.                                                                  *)
THEOREM ReplyIsWhole == ASSUME ~Outlive PROVE Spec => []WireIsWhole
<1>1. Init => WireInv /\ TrailerInv
  BY DEF Init, WireInv, WireIsWhole, TrailerInv, Writing
<1>2. TypeOK /\ WriterInv /\ TrailerInv /\ [Next]_vars => TrailerInv'
  BY TrailerNext
<1>3. TypeOK /\ WriterInv /\ TrailerInv /\ WireInv /\ [Next]_vars => WireInv'
  BY WireNext
<1>4. WireInv => WireIsWhole
  BY DEF WireInv
<1> QED
  BY <1>1, <1>2, <1>3, <1>4, WriterSafe, PTL DEF Spec

-----------------------------------------------------------------------------
(* The bodies: what the parts say, and how a reader of the tokens they are *)
(* finds the messages again.                                               *)

LEMMA NumberOf ==
    ASSUME NEW c \in Nat, NEW m \in Nat, m <= 2 * c + 2, NEW x \in 1..m
    PROVE  Stream(c)[x] = [part |-> IF x % 2 = 1 THEN "size" ELSE "bytes",
                           n    |-> IF (x + 1) \div 2 <= c THEN (x + 1) \div 2 ELSE 0]
<1>1. x \in 1..(2 * c + 2)
  OBVIOUS
<1> QED BY <1>1 DEF Stream, Number

LEMMA MessagesStart ==
    ASSUME NEW format, NEW c \in Nat, NEW n \in 0..c
    PROVE  /\ Len(Messages(n)) = 2 * n
           /\ \A x \in 1..(2 * n) : Messages(n)[x] = Stream(c)[x]
           /\ Len(Body(format, Messages(n))) = End(format, c, n)
<1>1. PICK m \in 0..(2 * c + 2) : m = 2 * n /\ m \in Nat /\ m <= 2 * c
  OBVIOUS
<1>2. Len(Messages(n)) = m
  BY <1>1 DEF Messages
<1>3. ASSUME NEW x \in 1..m PROVE Messages(n)[x] = Stream(c)[x]
  <2>1. (x + 1) \div 2 <= c /\ m <= 2 * c + 2 /\ x \in 1..(2 * n)
    BY <1>1
  <2>2. Messages(n)[x] = [part |-> IF x % 2 = 1 THEN "size" ELSE "bytes",
                          n    |-> (x + 1) \div 2]
    BY <2>1 DEF Messages
  <2>3. Stream(c)[x] = [part |-> IF x % 2 = 1 THEN "size" ELSE "bytes",
                        n    |-> IF (x + 1) \div 2 <= c THEN (x + 1) \div 2 ELSE 0]
    BY <1>1, <2>1, NumberOf
  <2> QED BY <2>1, <2>2, <2>3
<1>4. Body(format, Messages(n)) = Bodies(format, Stream(c))[m]
  BY <1>2, <1>3, PrefixBody
<1> QED BY <1>1, <1>2, <1>3, <1>4 DEF End

LEMMA BodyDecodes ==
    ASSUME SizesFit, NEW format \in Names, NEW c \in Nat,
           1..c \subseteq DOMAIN SizeOf,
           NEW m \in 0..(2 * c + 2), NEW parts, Len(parts) = m,
           \A x \in 1..m : parts[x] = Stream(c)[x],
           NEW hasTrailer \in BOOLEAN, ~hasTrailer => m <= 2 * c,
           format = "json" => ~hasTrailer
    PROVE  /\ Decodes(format, Body(format, parts), hasTrailer, c)
           /\ hasTrailer /\ m = 2 * c + 2 =>
                  LET got == ReadAll(format, Body(format, parts))
                  IN  Len(got.data) = c /\ got.trailer = Data(0)
<1>1. PICK b : b = Bodies(format, Stream(c))
  OBVIOUS
<1>2. PICK N \in Nat : N = 2 * c + 2 /\ m \in 0..N /\ N \in m..N
  OBVIOUS
<1>3. PICK body : body = Body(format, parts)
  OBVIOUS
<1>4. body = b[m]
  BY <1>1, <1>3, PrefixBody
<1>5. /\ body \in Seq(Tokens) /\ Len(body) <= Len(b[N])
      /\ \A q \in 1..Len(body) : b[N][q] = body[q]
  <2>1. /\ \A i \in 0..N : b[i] \in Seq(Tokens)
        /\ \A i \in 0..N : \A k \in i..N :
               /\ Len(b[i]) <= Len(b[k])
               /\ \A q \in 1..Len(b[i]) : b[k][q] = b[i][q]
    <3>1. /\ \A i \in 0..(2 * c + 2) : b[i] \in Seq(Tokens)
          /\ \A i \in 0..(2 * c + 2) : \A k \in i..(2 * c + 2) :
                 /\ Len(b[i]) <= Len(b[k])
                 /\ \A q \in 1..Len(b[i]) : b[k][q] = b[i][q]
      BY <1>1, StreamPrefix
    <3>2. N = 2 * c + 2
      BY <1>2
    <3> QED BY <3>1, <3>2, Zenon
  <2> QED BY <1>2, <1>4, <2>1
<1>6. \A j \in 0..(c + 1) : End(format, c, j) \in Nat
  BY EndsGrow
<1>7. ~hasTrailer => Len(body) <= End(format, c, c)
  <2> SUFFICES ASSUME ~hasTrailer PROVE Len(body) <= End(format, c, c)
    OBVIOUS
  <2>1. 2 * c \in m..N /\ m \in 0..N
    BY <1>2
  <2>2. Len(b[m]) <= Len(b[2 * c])
    BY <1>1, <1>2, <2>1, StreamPrefix
  <2> QED BY <1>1, <1>4, <2>2 DEF End
<1>8. ASSUME NEW in \in Seq(Tokens), Len(in) <= Len(body),
             \A q \in 1..Len(in) : in[q] = body[q]
      PROVE  ReadsRight(format, c, in)
  <2>1. Len(b[N]) \in Nat /\ Len(body) \in Nat /\ Len(in) \in Nat
    <3>1. N \in 0..N
      BY <1>2
    <3>2. b[N] \in Seq(Tokens)
      BY <1>1, <1>2, <3>1, StreamPrefix
    <3> QED BY <1>5, <3>2
  <2>2. Len(in) <= Len(b[N])
    BY <1>5, <1>8, <2>1
  <2>3. \A q \in 1..Len(in) : q \in 1..Len(body)
    BY <1>8, <2>1
  <2>4. \A q \in 1..Len(in) : in[q] = b[N][q]
    BY <1>5, <1>8, <2>3
  <2>5. Starts(format, c, in)
    BY <1>1, <1>2, <2>2, <2>4 DEF Starts
  <2>6. format = "json" => Len(in) <= End(format, c, c)
    <3>1. PICK e \in Nat : e = End(format, c, c)
      <4>1. c \in 0..(c + 1)
        OBVIOUS
      <4> QED BY <1>6, <4>1
    <3> QED BY <1>7, <1>8, <2>1, <3>1
  <2> QED BY <2>5, <2>6, ReadsPrefix
<1>9. ASSUME NEW j \in Nat PROVE Len(Datas(j)) = j /\ \A i \in 1..j : Datas(j)[i] = Data(i)
  BY DEF Datas
<1>10. ASSUME NEW cut \in 0..Len(body)
       PROVE  LET got == ReadAll(format, SubSeq(body, 1, cut))
                  n   == Len(got.data)
                  end == Len(Body(format, Messages(n)))
              IN  /\ n <= c
                  /\ \A i \in 1..n : got.data[i] = Data(i)
                  /\ got.end = "none" =>
                         hasTrailer /\ n = c /\ got.trailer \in {Data(0), <<>>}
                  /\ got.end = "EOF" => cut = end \/ (format = "sse" /\ cut = end - 1)
  <2>1. PICK in : in = SubSeq(body, 1, cut)
    OBVIOUS
  <2>2. /\ in \in Seq(Tokens) /\ Len(in) = cut
        /\ \A q \in 1..cut : in[q] = body[q]
    <3>1. PICK a \in 1..(Len(body) + 1) : a = 1 /\ cut \in (a - 1)..Len(body)
                                          /\ cut - a + 1 = cut
      BY <1>5
    <3>2. /\ SubSeq(body, a, cut) \in Seq(Tokens)
          /\ Len(SubSeq(body, a, cut)) = cut - a + 1
          /\ \A q \in 1..(cut - a + 1) : SubSeq(body, a, cut)[q] = body[a + q - 1]
      BY <1>5, <3>1, PartOfSeq
    <3>3. \A q \in 1..cut : a + q - 1 = q
      BY <3>1
    <3> QED BY <2>1, <3>1, <3>2, <3>3
  <2>3. ReadsRight(format, c, in)
    <3>1. Len(in) <= Len(body)
      BY <2>2
    <3> QED BY <1>8, <2>2, <3>1
  <2>4. PICK got : got = ReadAll(format, in)
    OBVIOUS
  <2>5. PICK n \in 0..c :
            /\ got.data = Datas(n)
            /\ got.end = "none" =>
                   /\ n = c /\ Len(in) > End(format, c, c)
                   /\ got.trailer \in {Data(0), <<>>}
            /\ got.end = "EOF" =>
                   \/ Len(in) = End(format, c, n)
                   \/ format = "sse" /\ Len(in) = End(format, c, n) - 1
    BY <2>3, <2>4 DEF ReadsRight
  <2>6. Len(got.data) = n /\ \A i \in 1..n : got.data[i] = Data(i)
    <3>1. n \in Nat /\ got.data = Datas(n)
      BY <2>5
    <3> QED BY <1>9, <3>1
  <2>7. Len(Body(format, Messages(n))) = End(format, c, n)
    BY MessagesStart
  <2>8. got.end = "none" => hasTrailer
    <3>1. PICK e \in Nat : e = End(format, c, c)
      <4>1. c \in 0..(c + 1)
        OBVIOUS
      <4> QED BY <1>6, <4>1
    <3>2. ~hasTrailer => ~(Len(in) > e)
      BY <1>5, <1>7, <2>2, <3>1
    <3> QED BY <2>5, <3>1, <3>2
  <2>9. n <= c
    OBVIOUS
  <2> QED BY <2>1, <2>2, <2>4, <2>5, <2>6, <2>7, <2>8, <2>9
<1>11. Decodes(format, body, hasTrailer, c)
  BY <1>10 DEF Decodes
<1>12. ASSUME hasTrailer, m = 2 * c + 2
       PROVE  Len(ReadAll(format, body).data) = c /\ ReadAll(format, body).trailer = Data(0)
  <2>1. ReadsRight(format, c, body)
    BY <1>5, <1>8
  <2>2. Len(body) = End(format, c, c + 1)
    <3>1. 2 * (c + 1) = m
      BY <1>12
    <3> QED BY <1>1, <1>4, <3>1 DEF End
  <2>3. ReadAll(format, body).data = Datas(c) /\ ReadAll(format, body).trailer = Data(0)
    BY <2>1, <2>2 DEF ReadsRight
  <2> QED BY <1>9, <2>3
<1> QED BY <1>3, <1>11, <1>12

-----------------------------------------------------------------------------
(* No more is written than the messages and the trailer.                   *)
LengthInv ==
    /\ Len(wire) <= 2 * sent + 2
    /\ \A i \in 1..Len(wire) : wire[i].n <= sent

LEMMA WireParts ==
    ASSUME TypeOK, NEW i \in 1..Len(wire)
    PROVE  wire[i] \in [part : {"size", "bytes"}, n : Nat] /\ wire[i].n \in Nat
<1>1. wire \in Seq([part : {"size", "bytes"}, n : Nat])
  BY DEF TypeOK
<1>2. wire[i] \in [part : {"size", "bytes"}, n : Nat]
  BY <1>1, ElementOfSeq
<1> QED BY <1>2

LEMMA LengthNext ==
    ASSUME TypeOK, WireInv, LengthInv, [Next]_vars
    PROVE  LengthInv'
<1>1. sent \in Nat /\ Len(wire) \in Nat
  BY BoundsAssumption DEF TypeOK
<1>2. CASE wire' = wire /\ sent' \in {sent, sent + 1}
  <2>1. \A i \in 1..Len(wire) : wire[i].n \in Nat
    BY WireParts
  <2> QED BY <1>1, <1>2, <2>1 DEF LengthInv
<1>3. ASSUME NEW t \in ServerThreads, NEW part \in {"size", "bytes"},
             wire' = Append(wire, Part(t, part)), sent' = sent,
             Len(wire) <= 2 * sent + 1
      PROVE  LengthInv'
  <2>1. Part(t, part).n <= sent
    BY <1>1 DEF Part
  <2>2. /\ Len(wire') = Len(wire) + 1 /\ wire'[Len(wire) + 1] = Part(t, part)
        /\ \A i \in 1..Len(wire) : wire'[i] = wire[i]
    <3>1. wire \in Seq([part : {"size", "bytes"}, n : Nat])
      BY DEF TypeOK
    <3>2. Part(t, part) \in [part : {"size", "bytes"}, n : Nat]
      BY PartType
    <3> QED BY <1>3, <3>1, <3>2, AppendProperties
  <2> QED BY <1>1, <1>3, <2>1, <2>2 DEF LengthInv
<1>4. ASSUME NEW t \in ServerThreads, CallStep(t) \/ WriteStep(t) \/ ReadStep(t)
      PROVE  LengthInv'
  <2>1. CASE SendMsg(t)
    BY <1>2, <2>1 DEF SendMsg
  <2>2. CASE \E md \in SUBSET Keys :
                 SetHeader(t, md) \/ SendHeader(t, md) \/ SetTrailer(t, md)
    BY <1>2, <2>2 DEF SetHeader, SendHeader, SetTrailer, respVars
  <2>3. CASE RecvMsg(t) \/ ReadStep(t) \/ WriteFails(t)
    BY <1>2, <2>3 DEF RecvMsg, ReadStep, ReadMessage, ReadEOF, ReadFails,
                      WriteFails, respVars
  <2>4. CASE WriteSize(t)
    <3>1. Len(wire) <= 2 * sent + 1
      BY <1>1, <2>4 DEF WriteSize, WireInv
    <3> QED BY <1>3, <2>4, <3>1 DEF WriteSize
  <2>5. CASE WriteBytes(t)
    <3>1. Len(wire) <= 2 * sent + 1
      BY <1>1, <2>5 DEF WriteBytes, WireInv
    <3> QED BY <1>3, <2>5, <3>1 DEF WriteBytes
  <2> QED BY <1>4, <2>1, <2>2, <2>3, <2>4, <2>5 DEF CallStep, WriteStep
<1>5. CASE Reject \/ HandlerStarts \/ HandlerReturns \/ StartTrailer \/ Drains
  BY <1>2, <1>5 DEF Reject, HandlerStarts, HandlerReturns, StartTrailer, Drains,
                    respVars
<1>6. CASE NetStep \/ Over \/ UNCHANGED vars
  BY <1>2, <1>6 DEF NetStep, ClientSends, ClientSendsBad, ClientCloses, BodyCloses,
              ConnectionBreaks, Over,
                    vars, respVars
<1> QED BY <1>4, <1>5, <1>6 DEF Next

(* The reply is the start of a stream of the messages written so far.      *)
LEMMA ReplyDecodes ==
    ASSUME TypeOK, WireIsWhole, LengthInv, SizesFit, NEW format \in {"proto", "sse"}
    PROVE  LET numbers == {wire[i].n : i \in 1..Len(wire)}
               count   == Cardinality(numbers \ {0})
               reply   == Body(format, wire)
           IN  /\ Decodes(format, reply, 0 \in numbers, count)
               /\ 0 \in numbers /\ Len(wire) % 2 = 0 =>
                      LET got == ReadAll(format, reply)
                      IN  Len(got.data) = count /\ got.trailer = Data(0)
<1>1. PICK numbers : numbers = {wire[i].n : i \in 1..Len(wire)}
  OBVIOUS
<1>2. PICK L \in Nat : L = Len(wire) /\ L <= 2 * sent + 2
  BY DEF TypeOK, LengthInv
<1>3. sent \in Nat /\ sent <= MaxResp /\ MaxResp \in Nat
  BY BoundsAssumption DEF TypeOK
<1>4. ASSUME NEW i \in 1..L
      PROVE  /\ wire[i] = [part |-> IF i % 2 = 1 THEN "size" ELSE "bytes",
                           n    |-> IF (i + 1) \div 2 <= sent THEN (i + 1) \div 2 ELSE 0]
             /\ wire[i].n = IF (i + 1) \div 2 <= sent THEN (i + 1) \div 2 ELSE 0
  <2>1. wire[i] \in [part : {"size", "bytes"}, n : Nat]
    BY <1>2, WireParts
  <2>2. /\ wire[i].part = IF i % 2 = 1 THEN "size" ELSE "bytes"
        /\ wire[i].n \in {0, (i + 1) \div 2}
        /\ wire[i].n = 0 => (i + 1) \div 2 > sent
        /\ wire[i].n <= sent
    BY <1>2 DEF WireIsWhole, LengthInv
  <2>3. wire[i].n = IF (i + 1) \div 2 <= sent THEN (i + 1) \div 2 ELSE 0
    <3>1. PICK k \in Nat : k = (i + 1) \div 2
      OBVIOUS
    <3>2. CASE k <= sent
      <4>1. ~(k > sent)
        BY <1>3, <3>2
      <4> QED BY <2>2, <3>1, <3>2, <4>1
    <3>3. CASE ~(k <= sent)
      BY <2>2, <3>1, <3>3
    <3> QED BY <3>2, <3>3
  <2> QED BY <2>1, <2>2, <2>3
<1>5. PICK c \in Nat : /\ c = IF (L + 1) \div 2 <= sent THEN (L + 1) \div 2 ELSE sent
                       /\ c <= sent /\ L <= 2 * c + 2
  <2>1. CASE (L + 1) \div 2 <= sent
    <3>1. (L + 1) \div 2 \in Nat /\ L <= 2 * ((L + 1) \div 2) + 2
      OBVIOUS
    <3> QED BY <2>1, <3>1
  <2>2. CASE ~((L + 1) \div 2 <= sent)
    <3>1. sent <= sent
      BY <1>3
    <3> QED BY <1>2, <1>3, <2>2, <3>1
  <2> QED BY <2>1, <2>2
<1>6. ASSUME NEW i \in 1..L
      PROVE  wire[i] = Stream(c)[i]
  <2>1. ((i + 1) \div 2 <= sent) <=> ((i + 1) \div 2 <= c)
    <3>1. CASE (L + 1) \div 2 <= sent
      <4>1. c = (L + 1) \div 2
        BY <1>5, <3>1
      <4>2. (i + 1) \div 2 <= c /\ (i + 1) \div 2 <= sent
        BY <1>3, <1>5, <4>1
      <4> QED BY <4>2
    <3>2. CASE ~((L + 1) \div 2 <= sent)
      BY <1>5, <3>2
    <3> QED BY <3>1, <3>2
  <2>2. Stream(c)[i] = [part |-> IF i % 2 = 1 THEN "size" ELSE "bytes",
                        n    |-> IF (i + 1) \div 2 <= c THEN (i + 1) \div 2 ELSE 0]
    BY <1>5, NumberOf
  <2> QED BY <1>4, <2>1, <2>2
<1>7. numbers \ {0} = 1..c
  <2>1. ASSUME NEW i \in 1..L, wire[i].n # 0 PROVE wire[i].n \in 1..c
    <3>1. wire[i].n = (i + 1) \div 2 /\ (i + 1) \div 2 <= sent
      BY <1>4, <2>1
    <3>2. (i + 1) \div 2 \in 1..c
      BY <1>3, <1>5, <3>1
    <3> QED BY <3>1, <3>2
  <2>2. ASSUME NEW k \in 1..c PROVE \E i \in 1..L : wire[i].n = k /\ k # 0
    <3>1. 2 * k - 1 \in 1..L /\ (2 * k - 1 + 1) \div 2 = k /\ k <= sent /\ k # 0
      BY <1>3, <1>5
    <3>2. PICK i \in 1..L : i = 2 * k - 1 /\ (i + 1) \div 2 = k
      BY <3>1
    <3>3. wire[i].n = k
      BY <1>4, <3>1, <3>2
    <3> QED BY <3>1, <3>3
  <2> QED BY <1>1, <1>2, <2>1, <2>2
<1>8. Cardinality(numbers \ {0}) = c
  <2>1. Cardinality(1..c) = IF 1 > c THEN 0 ELSE c - 1 + 1
    BY FS_Interval
  <2>2. (IF 1 > c THEN 0 ELSE c - 1 + 1) = c
    OBVIOUS
  <2> QED BY <1>7, <2>1, <2>2
<1>9. /\ 0 \notin numbers => L <= 2 * c
      /\ 0 \in numbers => L >= 2 * c + 1
  <2>1. ASSUME ~(L <= 2 * c) PROVE 0 \in numbers
    <3>1. PICK i \in 1..L : i = 2 * c + 1 /\ (i + 1) \div 2 = c + 1
      <4>1. 2 * c + 1 \in 1..L /\ (2 * c + 1 + 1) \div 2 = c + 1
        BY <2>1
      <4> QED BY <4>1
    <3>2. ~(c + 1 <= sent)
      BY <1>3, <1>5, <2>1
    <3>3. wire[i].n = 0
      BY <1>4, <3>1, <3>2
    <3> QED BY <1>1, <1>2, <3>3
  <2>2. ASSUME 0 \in numbers PROVE L >= 2 * c + 1
    <3>1. PICK i \in 1..L : wire[i].n = 0
      BY <1>1, <1>2, <2>2
    <3>2. ~((i + 1) \div 2 <= sent)
      <4>1. (i + 1) \div 2 # 0
        OBVIOUS
      <4> QED BY <1>4, <3>1, <4>1
    <3>3. c = sent /\ i >= 2 * sent + 1
      BY <1>3, <1>5, <3>2
    <3> QED BY <1>3, <3>3
  <2> QED BY <2>1, <2>2
<1>10. 1..c \subseteq DOMAIN SizeOf
  <2>1. 1..c \subseteq 1..MaxResp
    BY <1>3, <1>5
  <2> QED BY <2>1, MessagesAssumption
<1>11. PICK hasTrailer \in BOOLEAN : hasTrailer = (0 \in numbers)
  <2>1. CASE 0 \in numbers
    <3>1. TRUE = (0 \in numbers) /\ TRUE \in BOOLEAN
      BY <2>1
    <3> QED BY <3>1
  <2>2. CASE 0 \notin numbers
    <3>1. FALSE = (0 \in numbers) /\ FALSE \in BOOLEAN
      BY <2>2
    <3> QED BY <3>1
  <2> QED BY <2>1, <2>2
<1>12. /\ Decodes(format, Body(format, wire), hasTrailer, c)
       /\ hasTrailer /\ L = 2 * c + 2 =>
              LET got == ReadAll(format, Body(format, wire))
              IN  Len(got.data) = c /\ got.trailer = Data(0)
  <2>1. format \in Names /\ format # "json" /\ L \in 0..(2 * c + 2)
    BY <1>5 DEF Names
  <2>2. ~hasTrailer => L <= 2 * c
    BY <1>9, <1>11
  <2> QED BY <1>2, <1>6, <1>10, <2>1, <2>2, BodyDecodes
<1>13. 0 \in numbers /\ L % 2 = 0 => L = 2 * c + 2
  BY <1>5, <1>9
<1> QED BY <1>1, <1>2, <1>8, <1>11, <1>12, <1>13

(* So are the requests.                                                    *)
LEMMA RequestsDecode ==
    ASSUME TypeOK, SizesFit, NEW format \in {"proto", "json"}
    PROVE  Decodes(format, Body(format, Messages(req)), FALSE, req)
<1>1. req \in Nat /\ req \in 0..req /\ 1..req \subseteq 1..MaxReq
  BY BoundsAssumption DEF TypeOK
<1>2. PICK m \in 0..(2 * req + 2) : m = 2 * req /\ m <= 2 * req
  BY <1>1
<1>3. PICK parts : parts = Messages(req)
  OBVIOUS
<1>4. Len(parts) = m /\ \A x \in 1..m : parts[x] = Stream(req)[x]
  BY <1>1, <1>2, <1>3, MessagesStart
<1>5. format \in Names /\ 1..req \subseteq DOMAIN SizeOf
  BY <1>1, MessagesAssumption DEF Names
<1>6. PICK hasTrailer \in BOOLEAN : hasTrailer = FALSE
  OBVIOUS
<1>7. Decodes(format, Body(format, parts), hasTrailer, req)
  BY <1>1, <1>2, <1>4, <1>5, <1>6, BodyDecodes
<1> QED BY <1>3, <1>6, <1>7

(* A reader of either body, wherever the connection cuts it, finds the     *)
(* messages that were written, in order and each with its own data, and    *)
(* says that the body has ended only where one may (io.go, sse.go), if no  *)
(* message is longer than what a reader accepts.                           *)
THEOREM BodiesDecode ==
    ASSUME ~Outlive, SizesFit PROVE Spec => []StreamsDecode
<1>1. Init => WireInv /\ TrailerInv /\ LengthInv
  BY DEF Init, WireInv, WireIsWhole, TrailerInv, LengthInv, Writing
<1>2. TypeOK /\ WriterInv /\ TrailerInv /\ [Next]_vars => TrailerInv'
  BY TrailerNext
<1>3. TypeOK /\ WriterInv /\ TrailerInv /\ WireInv /\ [Next]_vars => WireInv'
  BY WireNext
<1>4. TypeOK /\ WireInv /\ LengthInv /\ [Next]_vars => LengthInv'
  BY LengthNext
<1>5. TypeOK /\ WireInv /\ LengthInv => StreamsDecode
  <2> SUFFICES ASSUME TypeOK, WireIsWhole, LengthInv PROVE StreamsDecode
    BY DEF WireInv
  <2>1. \A f \in Formats : f.request \in {"proto", "json"} /\ f.reply \in {"proto", "sse"}
    BY DEF Formats
  <2> QED BY <2>1, ReplyDecodes, RequestsDecode DEF StreamsDecode
<1> QED BY <1>1, <1>2, <1>3, <1>4, <1>5, WriterSafe, PTL DEF Spec
=============================================================================
