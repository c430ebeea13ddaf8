-------------------------- MODULE InprocUnaryProofs --------------------------
(***************************************************************************)
(* Theorems about InprocUnary for any metadata: what Invoke returns is     *)
(* what the handler did, with all of its metadata, which stays as it is.   *)
(***************************************************************************)
EXTENDS InprocUnary, SequenceTheorems, TLAPS

FrameKinds == {"headers", "data", "trailers", "error"}

LEMMA WrittenKinds == DOMAIN AfterWrite = FrameKinds
  BY DEF AfterWrite, FrameKinds

LEMMA NextKind ==
    /\ AfterWrite["headers"] = "data" /\ AfterWrite["data"] = "trailers"
    /\ AfterWrite["trailers"] = "error" /\ AfterWrite["error"] = "finish"
  BY DEF AfterWrite

(* What a write does to the log.                                           *)
LEMMA Appended ==
    ASSUME NEW s \in Seq(FrameKinds), NEW k \in FrameKinds
    PROVE  /\ Append(s, k) \in Seq(FrameKinds)
           /\ Len(s) \in Nat
           /\ Len(Append(s, k)) = Len(s) + 1
           /\ Append(s, k)[Len(s) + 1] = k
           /\ \A i \in 1..Len(s) : Append(s, k)[i] = s[i]
  BY AppendProperties, LenProperties

-----------------------------------------------------------------------------
(* Type correctness.                                                       *)

LEMMA TypeServer ==
    ASSUME TypeOK, SetMetadata \/ HandlerReturns \/ ServerStep
    PROVE  TypeOK'
<1>1. CASE SetMetadata
  <2>1. PICK md \in SUBSET Keys :
            StsSetHeader(md) \/ StsSendHeader(md) \/ StsSetTrailer(md)
    BY <1>1 DEF SetMetadata
  <2>2. StsTypeOK'
    BY <2>1 DEF StsSetHeader, StsSendHeader, StsSetTrailer, TypeOK, StsTypeOK
  <2> QED
    BY <1>1, <2>2 DEF SetMetadata, TypeOK, cliVars, ctxVars
<1>2. CASE HandlerReturns
  BY <1>2, WrittenKinds
     DEF HandlerReturns, TypeOK, StsTypeOK, stsVars, cliVars, ctxVars, FrameKinds
<1>3. CASE WriteFrame
  <2>1. spc \in FrameKinds /\ log \in Seq(FrameKinds) /\ Len(log) \in Nat
    BY <1>3, WrittenKinds, LenProperties DEF WriteFrame, TypeOK
  <2>2. spc' \in FrameKinds \cup {"finish"}
    BY <1>3, <2>1, NextKind DEF WriteFrame, FrameKinds
  <2>3. CASE log' = log
    BY <1>3, <2>2, <2>3, WrittenKinds
       DEF WriteFrame, TypeOK, StsTypeOK, stsVars, cliVars, ctxVars
  <2>4. CASE RoomForFrame /\ log' = Append(log, spc)
    <3>1. log' \in Seq(FrameKinds) /\ Len(log') = Len(log) + 1
      BY <2>1, <2>4, Appended
    <3>2. rd' = rd /\ Len(log') - rd' \in 0..Buffer
      BY <1>3, <2>1, <2>4, <3>1
         DEF WriteFrame, TypeOK, cliVars, RoomForFrame, Buffer
    <3> QED
      BY <1>3, <2>2, <3>1, <3>2, WrittenKinds
         DEF WriteFrame, TypeOK, StsTypeOK, stsVars, cliVars, ctxVars
  <2> QED
    BY <1>3, <2>3, <2>4 DEF WriteFrame
<1>4. CASE Finish
  BY <1>4 DEF Finish, StsFinish, TypeOK, StsTypeOK, cliVars, ctxVars
<1>5. CASE CloseChannel
  BY <1>5 DEF CloseChannel, TypeOK, StsTypeOK, stsVars, cliVars, ctxVars
<1> QED
  BY <1>1, <1>2, <1>3, <1>4, <1>5 DEF ServerStep

LEMMA TypeInvoke ==
    ASSUME TypeOK, InvokeStep
    PROVE  TypeOK'
<1>1. Len(log) \in Nat
  BY WrittenKinds, LenProperties DEF TypeOK
<1>2. CASE GetMetadata
  <2>1. gotHdrs' \in BOOLEAN /\ gotTlrs' \in BOOLEAN
    BY <1>2 DEF GetMetadata, TypeOK
  <2>2. rd < Len(log) /\ rd' = rd + 1
    BY <1>2 DEF GetMetadata, Receives
  <2> QED
    BY <1>1, <1>2, <2>1, <2>2
       DEF GetMetadata, Loop, TypeOK, StsTypeOK, svrVars, stsVars, Buffer
<1>3. CASE GetResponse
  <2>1. /\ gotResponse' \in BOOLEAN /\ ctxDone' \in BOOLEAN
        /\ result' \in {"none", "many", "copyErr"}
    BY <1>3 DEF GetResponse, Receives, Loop, Return, TypeOK
  <2> QED
    BY <1>1, <1>3, <2>1
       DEF GetResponse, Receives, TypeOK, StsTypeOK, svrVars, stsVars, Buffer
<1>4. CASE GetError
  BY <1>1, <1>4 DEF GetError, Receives, Return, TypeOK, StsTypeOK, svrVars,
                    stsVars, Buffer
<1>5. CASE GetClosed
  BY <1>5 DEF GetClosed, Return, TypeOK, StsTypeOK, svrVars, stsVars
<1>6. CASE GetCtxDone
  BY <1>6 DEF GetCtxDone, Return, TypeOK, StsTypeOK, svrVars, stsVars
<1> QED
  BY <1>2, <1>3, <1>4, <1>5, <1>6 DEF InvokeStep

LEMMA TypeInit == Init => TypeOK
<1> SUFFICES ASSUME Init PROVE TypeOK
  OBVIOUS
<1>1. log \in Seq(DOMAIN AfterWrite) /\ Len(log) = 0
  BY DEF Init
<1>2. Len(log) - rd \in 0..Buffer /\ rd \in Nat
  BY <1>1 DEF Init, Buffer
<1>3. /\ StsTypeOK /\ hdrsAtReturn \subseteq Keys /\ tlrsAtReturn \subseteq Keys
      /\ spc \in {"handler", "finish", "close", "gone"}
      /\ hret = "none" /\ result = "none"
      /\ cancelled \in BOOLEAN /\ ctxDone \in BOOLEAN /\ closed \in BOOLEAN
      /\ gotResponse \in BOOLEAN /\ gotHdrs \in BOOLEAN /\ gotTlrs \in BOOLEAN
  BY DEF Init, StsInit, StsTypeOK
<1> QED
  BY <1>1, <1>2, <1>3 DEF TypeOK

LEMMA TypeStep == TypeOK /\ [Next]_vars => TypeOK'
<1> SUFFICES ASSUME TypeOK, [Next]_vars PROVE TypeOK'
  OBVIOUS
<1>1. CASE Cancel
  BY <1>1 DEF Cancel, TypeOK, StsTypeOK, svrVars, stsVars, cliVars
<1>2. CASE SetMetadata \/ HandlerReturns \/ ServerStep
  BY <1>2, TypeServer
<1>3. CASE InvokeStep
  BY <1>3, TypeInvoke
<1>4. CASE UNCHANGED vars
  BY <1>4 DEF vars, svrVars, stsVars, cliVars, ctxVars, TypeOK, StsTypeOK
<1> QED
  BY <1>1, <1>2, <1>3, <1>4 DEF Next, Over

(* Every variable has its type and ch never holds more than one frame      *)
(* (in_process.go, Channel.Invoke).                                        *)
THEOREM UnaryTypeSafe == Spec => []TypeOK
  BY TypeInit, TypeStep, PTL DEF Spec

-----------------------------------------------------------------------------
(* The outcome and its metadata.                                           *)

InLog(kind) == \E i \in 1..Len(log) : log[i] = kind
Taken(kind) == \E i \in 1..rd : log[i] = kind

(* ch is written in the order of the kinds, each at most once.             *)
LogInv ==
    /\ hret = "none" <=> spc = "handler"
    /\ InLog("headers") => spc \notin {"handler", "headers"}
    /\ InLog("data") => hret = "msg" /\ spc \notin {"handler", "headers", "data"}
    /\ InLog("trailers") => spc \in {"error", "finish", "close", "gone"}
    /\ InLog("error") => hret # "msg" /\ spc \in {"finish", "close", "gone"}
    /\ \A i, j \in 1..Len(log) : log[i] = log[j] => i = j
    /\ \A i \in 1..Len(log) : log[i] = "error" => i = Len(log)

(* What Invoke has is what it took.                                        *)
TakenInv ==
    /\ gotResponse <=> Taken("data")
    /\ gotHdrs <=> Taken("headers")
    /\ gotTlrs <=> Taken("trailers")
    /\ result = "none" => ~Taken("error")

(* Nothing is dropped while the call lasts: a context that is done has     *)
(* been cancelled, or Invoke has returned.                                 *)
WrittenInv ==
    /\ hret # "none" => hdrsAtReturn \subseteq hdrs /\ tlrsAtReturn \subseteq tlrs
    /\ closed => spc = "gone"
    /\ ~cancelled /\ ctxDone => result # "none"
    /\ ~cancelled /\ result = "none" =>
           /\ spc \notin {"handler", "headers"} /\ hdrsAtReturn # {}
                  => InLog("headers")
           /\ spc \notin {"handler", "headers", "data"} /\ hret = "msg"
                  => InLog("data")
           /\ spc \in {"error", "finish", "close", "gone"} /\ tlrsAtReturn # {}
                  => InLog("trailers")
           /\ spc \in {"finish", "close", "gone"} /\ hret # "msg"
                  => InLog("error")

OutcomeInv == /\ TypeOK /\ LogInv /\ TakenInv /\ WrittenInv
              /\ OutcomeIsHandlers /\ MetadataIsComplete

LEMMA LogTypes ==
    ASSUME TypeOK
    PROVE  /\ log \in Seq(FrameKinds) /\ Len(log) \in Nat /\ rd \in Nat
           /\ rd <= Len(log)
           /\ \A i \in 1..Len(log) : log[i] \in FrameKinds
<1>1. log \in Seq(FrameKinds) /\ Len(log) \in Nat
  BY WrittenKinds, LenProperties DEF TypeOK
<1>2. \A i \in 1..Len(log) : log[i] \in FrameKinds
  BY <1>1, ElementOfSeq
<1> QED
  BY <1>1, <1>2 DEF TypeOK, Buffer

(* A frame that is appended is the only change of the log.                 *)
LEMMA LogGrows ==
    ASSUME TypeOK, spc \in FrameKinds, log' = Append(log, spc), rd' = rd
    PROVE  /\ \A k : InLog(k)' <=> InLog(k) \/ k = spc
           /\ \A k : Taken(k)' <=> Taken(k)
<1>1. /\ Len(log') = Len(log) + 1 /\ log'[Len(log) + 1] = spc
      /\ \A i \in 1..Len(log) : log'[i] = log[i]
  BY LogTypes, Appended
<1>2. ASSUME NEW k PROVE InLog(k)' <=> InLog(k) \/ k = spc
  BY <1>1, LogTypes DEF InLog
<1>3. ASSUME NEW k PROVE Taken(k)' <=> Taken(k)
  BY <1>1, LogTypes DEF Taken
<1> QED
  BY <1>2, <1>3

LEMMA OutcomeWrite ==
    ASSUME OutcomeInv, WriteFrame
    PROVE  LogInv' /\ TakenInv' /\ WrittenInv'
<1>1. spc \in FrameKinds
  BY WrittenKinds DEF WriteFrame
<1>2. /\ spc' = AfterWrite[spc]
      /\ UNCHANGED <<hdrs, tlrs, hret, closed, hdrsAtReturn, tlrsAtReturn, rd,
                     gotResponse, gotHdrs, gotTlrs, result, cancelled, ctxDone>>
  BY DEF WriteFrame, stsVars, cliVars, ctxVars
<1>3. /\ spc = "headers" => spc' = "data" /\ (Pending(spc) <=> hdrs # {})
      /\ spc = "data" => spc' = "trailers" /\ (Pending(spc) <=> hret = "msg")
      /\ spc = "trailers" => spc' = "error" /\ (Pending(spc) <=> tlrs # {})
      /\ spc = "error" => spc' = "finish" /\ (Pending(spc) <=> hret # "msg")
  BY <1>2, NextKind DEF Pending
<1>4. CASE log' = log /\ (~Pending(spc) \/ ctxDone)
  <2>1. \A k : (InLog(k)' <=> InLog(k)) /\ (Taken(k)' <=> Taken(k))
    BY <1>2, <1>4 DEF InLog, Taken
  <2>2. LogInv'
    BY <1>1, <1>2, <1>3, <1>4, <2>1 DEF OutcomeInv, LogInv, FrameKinds
  <2>3. TakenInv'
    BY <1>2, <2>1 DEF OutcomeInv, TakenInv
  <2>4. WrittenInv'
    BY <1>1, <1>2, <1>3, <1>4, <2>1
       DEF OutcomeInv, LogInv, WrittenInv, FrameKinds
  <2> QED
    BY <2>2, <2>3, <2>4
<1>5. CASE log' = Append(log, spc) /\ Pending(spc)
  <2>1. \A k : (InLog(k)' <=> InLog(k) \/ k = spc) /\ (Taken(k)' <=> Taken(k))
    BY <1>1, <1>2, <1>5, LogGrows DEF OutcomeInv
  <2>2. LogInv'
    <3>1. /\ Len(log) \in Nat /\ Len(log') = Len(log) + 1
          /\ log'[Len(log) + 1] = spc
          /\ \A i \in 1..Len(log) : log'[i] = log[i]
      BY <1>1, <1>5, LogTypes, Appended DEF OutcomeInv
    <3>2. ~InLog(spc) /\ ~InLog("error")
      BY <1>1 DEF OutcomeInv, LogInv, FrameKinds
    <3>3. \A i, j \in 1..Len(log') : log'[i] = log'[j] => i = j
      BY <3>1, <3>2 DEF OutcomeInv, LogInv, InLog
    <3>4. \A i \in 1..Len(log') : log'[i] = "error" => i = Len(log')
      BY <3>1, <3>2 DEF InLog
    <3> QED
      BY <1>1, <1>2, <1>3, <1>5, <2>1, <3>3, <3>4
         DEF OutcomeInv, LogInv, FrameKinds
  <2>3. TakenInv'
    BY <1>2, <2>1 DEF OutcomeInv, TakenInv
  <2>4. WrittenInv'
    BY <1>1, <1>2, <1>3, <1>5, <2>1
       DEF OutcomeInv, LogInv, WrittenInv, FrameKinds
  <2> QED
    BY <2>2, <2>3, <2>4
<1> QED
  BY <1>4, <1>5 DEF WriteFrame

LEMMA OutcomeServer ==
    ASSUME OutcomeInv, Cancel \/ SetMetadata \/ HandlerReturns \/ Finish
                       \/ CloseChannel
    PROVE  LogInv' /\ TakenInv' /\ WrittenInv'
<1>1. /\ UNCHANGED <<log, rd, gotResponse, gotHdrs, gotTlrs, result>>
      /\ hdrs \subseteq hdrs' /\ tlrs \subseteq tlrs'
  <2>1. CASE SetMetadata
    BY <2>1 DEF SetMetadata, StsSetHeader, StsSendHeader, StsSetTrailer, cliVars
  <2>2. CASE Cancel \/ HandlerReturns \/ Finish \/ CloseChannel
    BY <2>2 DEF Cancel, HandlerReturns, Finish, StsFinish, CloseChannel,
                svrVars, stsVars, cliVars
  <2> QED
    BY <2>1, <2>2
<1>2. \A k : (InLog(k)' <=> InLog(k)) /\ (Taken(k)' <=> Taken(k))
  BY <1>1 DEF InLog, Taken
<1>3. TakenInv'
  BY <1>1, <1>2 DEF OutcomeInv, TakenInv
<1>4. CASE HandlerReturns
  <2>1. ~InLog("headers") /\ ~InLog("data") /\ ~InLog("trailers") /\ ~InLog("error")
    BY <1>4 DEF HandlerReturns, OutcomeInv, LogInv
  <2>2. LogInv'
    BY <1>1, <1>2, <1>4, <2>1 DEF HandlerReturns, OutcomeInv, LogInv
  <2>3. WrittenInv'
    BY <1>1, <1>2, <1>4
       DEF HandlerReturns, OutcomeInv, WrittenInv, stsVars, ctxVars
  <2> QED
    BY <1>3, <2>2, <2>3
<1>5. CASE Cancel \/ SetMetadata
  <2>1. /\ UNCHANGED <<spc, hret, closed, hdrsAtReturn, tlrsAtReturn>>
        /\ UNCHANGED <<cancelled, ctxDone>> \/ cancelled' = TRUE
    BY <1>5 DEF Cancel, SetMetadata, svrVars, ctxVars
  <2>2. LogInv'
    BY <1>1, <1>2, <2>1 DEF OutcomeInv, LogInv
  <2>3. WrittenInv'
    BY <1>1, <1>2, <2>1 DEF OutcomeInv, WrittenInv
  <2> QED
    BY <1>3, <2>2, <2>3
<1>6. CASE Finish \/ CloseChannel
  <2>1. /\ UNCHANGED <<hret, hdrsAtReturn, tlrsAtReturn, cancelled, ctxDone>>
        /\ \/ spc = "finish" /\ spc' = "close" /\ closed' = closed
           \/ spc = "close" /\ spc' = "gone"
    BY <1>6 DEF Finish, CloseChannel, ctxVars
  <2>2. LogInv'
    BY <1>1, <1>2, <2>1 DEF OutcomeInv, LogInv
  <2>3. WrittenInv'
    BY <1>1, <1>2, <2>1 DEF OutcomeInv, WrittenInv
  <2> QED
    BY <1>3, <2>2, <2>3
<1> QED
  BY <1>4, <1>5, <1>6

LEMMA OutcomeInvoke ==
    ASSUME OutcomeInv, InvokeStep
    PROVE  /\ LogInv' /\ TakenInv' /\ WrittenInv'
           /\ OutcomeIsHandlers' /\ MetadataIsComplete'
<1>1. /\ UNCHANGED <<log, spc, hret, closed, hdrs, tlrs, hdrsAtReturn,
                     tlrsAtReturn, cancelled>>
      /\ result = "none"
  BY DEF InvokeStep, GetMetadata, GetResponse, GetError, GetClosed, GetCtxDone,
         Receives, svrVars, stsVars
<1>2. \A k : InLog(k)' <=> InLog(k)
  BY <1>1 DEF InLog
<1>3. LogInv'
  BY <1>1, <1>2 DEF OutcomeInv, LogInv
<1>4. \A k : Taken(k) => InLog(k)
  BY LogTypes DEF OutcomeInv, Taken, InLog
<1>5. CASE UNCHANGED <<rd, gotResponse, gotHdrs, gotTlrs>>
  <2>1. \A k : Taken(k)' <=> Taken(k)
    BY <1>1, <1>5 DEF Taken
  <2>2. GetClosed \/ GetCtxDone
    BY <1>5, LogTypes
       DEF InvokeStep, GetMetadata, GetResponse, GetError, Receives, OutcomeInv
  <2>3. result' # "none" /\ TakenInv'
    BY <1>5, <2>1, <2>2
       DEF GetClosed, GetCtxDone, Return, OutcomeInv, TakenInv
  <2>4. WrittenInv'
    BY <1>1, <1>2, <2>3 DEF OutcomeInv, WrittenInv
  <2>5. CASE GetCtxDone
    BY <1>1, <1>3, <2>3, <2>4, <2>5
       DEF GetCtxDone, Return, OutcomeInv, WrittenInv, OutcomeIsHandlers,
           MetadataIsComplete
  <2>6. CASE GetClosed
    <3>1. closed /\ spc = "gone" /\ \A k : InLog(k) => Taken(k)
      BY <2>6 DEF GetClosed, OutcomeInv, WrittenInv, InLog, Taken
    <3>2. ASSUME ~cancelled
          PROVE  /\ hret = "msg" /\ gotResponse
                 /\ hdrsAtReturn # {} => gotHdrs
                 /\ tlrsAtReturn # {} => gotTlrs
      BY <1>1, <3>1, <3>2 DEF OutcomeInv, WrittenInv, TakenInv
    <3> QED
      BY <1>1, <1>3, <1>5, <2>3, <2>4, <2>6, <3>2
         DEF GetClosed, Return, OutcomeIsHandlers, MetadataIsComplete
  <2> QED
    BY <2>2, <2>5, <2>6
<1>6. CASE rd < Len(log) /\ rd' = rd + 1
  <2>1. \A k : Taken(k)' <=> Taken(k) \/ log[rd + 1] = k
    BY <1>1, <1>6, LogTypes DEF OutcomeInv, Taken
  <2>2. log[rd + 1] \in FrameKinds /\ InLog(log[rd + 1])
        /\ ~Taken(log[rd + 1])
    BY <1>6, LogTypes DEF OutcomeInv, LogInv, InLog, Taken
  <2>3. CASE GetMetadata
    <3>1. /\ result' = result /\ ctxDone' = ctxDone
          /\ gotResponse' = gotResponse
      BY <2>3 DEF GetMetadata, Loop
    <3>2. TakenInv'
      BY <1>1, <2>1, <2>3, <3>1
         DEF GetMetadata, Receives, OutcomeInv, TakenInv
    <3>3. WrittenInv'
      BY <1>1, <1>2, <3>1 DEF OutcomeInv, WrittenInv
    <3> QED
      BY <1>1, <1>3, <3>1, <3>2, <3>3
         DEF OutcomeIsHandlers, MetadataIsComplete
  <2>4. CASE GetResponse
    <3>1. /\ log[rd + 1] = "data" /\ ~gotResponse
          /\ UNCHANGED <<gotHdrs, gotTlrs>>
      BY <2>2, <2>4 DEF GetResponse, Receives, OutcomeInv, TakenInv
    <3>2. /\ gotResponse' = TRUE
          /\ Loop \/ Return("copyErr")
      BY <2>4, <3>1 DEF GetResponse
    <3>3. TakenInv'
      BY <1>1, <2>1, <3>1, <3>2 DEF OutcomeInv, TakenInv
    <3>4. WrittenInv'
      BY <1>1, <1>2, <3>2 DEF Loop, Return, OutcomeInv, WrittenInv
    <3> QED
      BY <1>1, <1>3, <3>2, <3>3, <3>4
         DEF Loop, Return, OutcomeIsHandlers, MetadataIsComplete
  <2>5. CASE GetError
    <3>1. /\ log[rd + 1] = "error" /\ result' = "err"
          /\ UNCHANGED <<gotResponse, gotHdrs, gotTlrs>>
      BY <2>5 DEF GetError, Receives, Return
    <3>2. TakenInv'
      BY <2>1, <3>1 DEF OutcomeInv, TakenInv
    <3>3. WrittenInv'
      BY <1>1, <1>2, <3>1 DEF OutcomeInv, WrittenInv
    <3>4. hret # "msg" /\ hret # "none" /\ spc \in {"finish", "close", "gone"}
      BY <2>2, <3>1 DEF OutcomeInv, LogInv
    <3>5. \A k : InLog(k) /\ k # "error" => Taken(k)
      <4>1. rd + 1 = Len(log)
        BY <1>6, <3>1, LogTypes DEF OutcomeInv, LogInv
      <4> QED
        BY <3>1, <4>1, LogTypes DEF OutcomeInv, InLog, Taken
    <3>6. MetadataIsComplete'
      BY <1>1, <3>1, <3>4, <3>5
         DEF OutcomeInv, WrittenInv, TakenInv, MetadataIsComplete
    <3>7. OutcomeIsHandlers'
      BY <1>1, <3>1, <3>4 DEF OutcomeInv, TypeOK, OutcomeIsHandlers
    <3> QED
      BY <1>3, <3>2, <3>3, <3>6, <3>7
  <2> QED
    BY <1>6, <2>3, <2>4, <2>5, LogTypes
       DEF InvokeStep, GetClosed, GetCtxDone, OutcomeInv
<1> QED
  BY <1>5, <1>6
     DEF InvokeStep, GetMetadata, GetResponse, GetError, GetClosed, GetCtxDone,
         Receives

LEMMA OutcomeStep == OutcomeInv /\ [Next]_vars => OutcomeInv'
<1> SUFFICES ASSUME OutcomeInv, [Next]_vars PROVE OutcomeInv'
  OBVIOUS
<1>1. TypeOK'
  BY TypeStep DEF OutcomeInv
<1>2. CASE InvokeStep
  BY <1>1, <1>2, OutcomeInvoke DEF OutcomeInv
<1>3. CASE Cancel \/ SetMetadata \/ HandlerReturns \/ ServerStep
  <2>1. LogInv' /\ TakenInv' /\ WrittenInv'
    BY <1>3, OutcomeServer, OutcomeWrite DEF ServerStep
  <2>2. /\ UNCHANGED <<result, gotHdrs, gotTlrs>>
        /\ cancelled => cancelled'
        /\ result # "none" \/ hret # "none" =>
               UNCHANGED <<hdrsAtReturn, tlrsAtReturn>> \/ spc = "handler"
        /\ hret' = hret \/ spc = "handler"
    BY <1>3 DEF Cancel, SetMetadata, HandlerReturns, ServerStep, WriteFrame,
                Finish, CloseChannel, svrVars, cliVars, ctxVars
  <2>3. OutcomeIsHandlers' /\ MetadataIsComplete'
    BY <2>2 DEF OutcomeInv, LogInv, OutcomeIsHandlers, MetadataIsComplete
  <2> QED
    BY <1>1, <2>1, <2>3 DEF OutcomeInv
<1>4. CASE UNCHANGED vars
  BY <1>1, <1>4
     DEF vars, svrVars, stsVars, cliVars, ctxVars, OutcomeInv, LogInv, TakenInv,
         WrittenInv, InLog, Taken, OutcomeIsHandlers, MetadataIsComplete
<1> QED
  BY <1>2, <1>3, <1>4 DEF Next, Over

LEMMA OutcomeAlways == Spec => []OutcomeInv
<1>1. Init => OutcomeInv
  BY TypeInit DEF Init, StsInit, OutcomeInv, LogInv, TakenInv, WrittenInv, InLog,
                  Taken, OutcomeIsHandlers, MetadataIsComplete
<1> QED
  BY <1>1, OutcomeStep, PTL DEF Spec

(* A call that nobody cancels has the outcome of its handler, for any      *)
(* metadata (in_process.go, Channel.Invoke).                               *)
THEOREM UnaryOutcome == Spec => []OutcomeIsHandlers
<1>1. OutcomeInv => OutcomeIsHandlers
  BY DEF OutcomeInv
<1> QED
  BY <1>1, OutcomeAlways, PTL

(* With its outcome the caller has all the headers and trailers that were  *)
(* set when the handler returned (in_process.go, Channel.Invoke).          *)
THEOREM UnaryMetadata == Spec => []MetadataIsComplete
<1>1. OutcomeInv => MetadataIsComplete
  BY DEF OutcomeInv
<1> QED
  BY <1>1, OutcomeAlways, PTL

-----------------------------------------------------------------------------
(* Finish comes before close(ch), and success after it.                    *)
SentInv ==
    /\ spc \in {"close", "gone"} => hdrsSent /\ tlrsSent
    /\ closed => spc = "gone"
    /\ result = "ok" => spc = "gone"

LEMMA SentStep == SentInv /\ [Next]_vars => SentInv'
<1> SUFFICES ASSUME SentInv, [Next]_vars PROVE SentInv'
  OBVIOUS
<1>1. CASE SetMetadata
  BY <1>1 DEF SetMetadata, StsSetHeader, StsSendHeader, StsSetTrailer, SentInv,
              cliVars
<1>2. CASE Cancel \/ HandlerReturns
  BY <1>2 DEF Cancel, HandlerReturns, SentInv, svrVars, stsVars, cliVars
<1>3. CASE WriteFrame
  BY <1>3, NextKind, WrittenKinds
     DEF WriteFrame, SentInv, stsVars, cliVars, FrameKinds
<1>4. CASE Finish \/ CloseChannel
  BY <1>4 DEF Finish, StsFinish, CloseChannel, SentInv, stsVars, cliVars
<1>5. CASE InvokeStep
  BY <1>5 DEF InvokeStep, GetMetadata, GetResponse, GetError, GetClosed,
              GetCtxDone, Receives, Return, Loop, SentInv, svrVars, stsVars
<1>6. CASE UNCHANGED vars
  BY <1>6 DEF vars, svrVars, stsVars, cliVars, SentInv
<1> QED
  BY <1>1, <1>2, <1>3, <1>4, <1>5, <1>6 DEF Next, ServerStep, Over

(* Once Invoke has succeeded, nothing the handler has left running changes *)
(* the maps the caller was given (in_process.go, the deferred Finish).     *)
THEOREM MetadataStays == Spec => MetadataIsFinal
<1>1. Init => SentInv
  BY DEF Init, StsInit, SentInv
<1>2. ASSUME SentInv, [Next]_vars
      PROVE  [result = "ok" => hdrs' = hdrs /\ tlrs' = tlrs]_vars
  <2> SUFFICES ASSUME result = "ok", Next PROVE hdrs' = hdrs /\ tlrs' = tlrs
    BY <1>2
  <2>1. ~SetMetadata
    BY <1>2 DEF SentInv, SetMetadata, StsSetHeader, StsSendHeader, StsSetTrailer
  <2> QED
    BY <2>1 DEF Next, Cancel, HandlerReturns, ServerStep, WriteFrame, Finish,
                StsFinish, CloseChannel, InvokeStep, GetMetadata, GetResponse,
                GetError, GetClosed, GetCtxDone, Over, vars, svrVars, stsVars
<1> QED
  BY <1>1, <1>2, SentStep, PTL DEF Spec, MetadataIsFinal
=============================================================================
