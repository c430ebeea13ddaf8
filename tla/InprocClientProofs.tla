------------------------- MODULE InprocClientProofs -------------------------
(***************************************************************************)
(* What the client's half of InprocStream makes of the frames the server's *)
(* half writes (InprocStreamProofs), for any number of goroutines on       *)
(* either side and any metadata: nothing lost or repeated, an end that is  *)
(* complete and final, and the promise of RpcStream kept.                  *)
(***************************************************************************)
EXTENDS InprocStreamProofs

Holding(t)   == cpc[t] \in {"peeked", "received", "checked"}
Checking(t)  == cpc[t] \in {"checking", "checked"}
Receiving(t) == cpc[t] \in {"receiving", "received", "checking", "checked"}
Reading(t)   == cpc[t] \in {"peeking", "peeked"} \/ Receiving(t)

(* Who holds respMu, and in which state of the client stream.              *)
PlaceInv ==
    /\ \A t \in ClientThreads :
          /\ Reading(t) => respMu = t
          /\ cpc[t] \in {"peeking", "peeked"} => cState = "Headers"
          /\ Receiving(t) => last.kind = "none"
          /\ Checking(t) => /\ ~ResponseStream /\ Len(consumed) > 0
                            /\ result \in {"none", "msg", "copyErr"}
    /\ cState = "Headers" => last.kind = "none"
    /\ last.kind \in {"none", "data", "error", "many"}
    /\ sendClosed => reqClosed

(* What the client stream has of the frames it has processed.              *)
Has(kind, md) ==
    /\ \A i \in 1..Processed : respLog[i].kind = kind => md = respLog[i].md
    /\ (\A i \in 1..Processed : respLog[i].kind # kind) => md = {}

Pending == IF last.kind = "data" THEN 1 ELSE 0

GotInv ==
    /\ \A i \in DOMAIN consumed : consumed[i] = i
    /\ last.kind = "data" => last.n = Len(consumed) + 1 /\ last.n <= respSent
    /\ ~ctxDone =>
          /\ Cardinality(DataUpTo(Processed)) = Len(consumed) + Pending
          /\ Has("headers", cliHeaders) /\ Has("trailers", cliTrailers)
          /\ \A i \in 1..Processed : respLog[i].kind = "error" => last.kind = "error"

(* The client stream has seen the end, and not one of its own making.      *)
Settled == (ended /\ last.kind # "many") \/ last.kind = "error"
LogDone == spc[Main] \in {"exit", "gone"} \/ (spc[Main] = "finish" /\ todo = <<>>)

SettledInv ==
    Settled =>
        /\ LogDone /\ respRd = Len(respLog) /\ Len(consumed) = respSent
        /\ cliHeaders = headersSet /\ cliTrailers = trailersSet
        /\ cState = "Closed" /\ \A t \in ClientThreads : ~Holding(t)
        /\ last.kind \in {"none", "error"} /\ (last.kind = "error" <=> hret = "err")

ResultInv ==
    /\ result = "ctx" => ctxDone /\ last.kind = "none"
    /\ result = "EOF" => ended /\ last.kind = "none"
    /\ result = "err" => ended /\ last.kind = "error"
    /\ result = "many" <=> last.kind = "many"

(* A method with one response.                                             *)
OneInv ==
    ~ResponseStream /\ ~ctxDone =>
        /\ ~CopyMayFail /\ Len(consumed) > 0 =>
              \/ last.kind = "many"
              \/ Len(consumed) = 1 /\ (Settled \/ \E t \in ClientThreads : Checking(t))
        /\ result = "msg" => \/ Settled /\ Len(consumed) = 1
                             \/ CopyMayFail /\ Len(consumed) > 1

ClientInv == PlaceInv /\ GotInv /\ SettledInv /\ ResultInv /\ OneInv

LEMMA OneOrMore == \A n \in Nat : n > 0 => n = 1 \/ n > 1
  OBVIOUS

-----------------------------------------------------------------------------
(* respMu admits one reader, and only a reader has a frame in hand.        *)

LEMMA OtherReaders ==
    ASSUME TypeOK, PlaceInv, NEW t \in ClientThreads, Reading(t) \/ respMu = Unlocked
    PROVE  \A u \in ClientThreads : u # t \/ respMu = Unlocked =>
               ~Reading(u) /\ ~Holding(u) /\ ~Receiving(u) /\ ~Checking(u)
<1>1. \A u \in ClientThreads : u # t \/ respMu = Unlocked => ~Reading(u)
  BY ThreadsAssumption DEF PlaceInv
<1> QED
  BY <1>1 DEF Reading, Holding, Receiving, Checking

LEMMA ProcessedIs ==
    ASSUME TypeInv
    PROVE  /\ (\E t \in ClientThreads : Holding(t)) => Processed = respRd - 1
           /\ (\A t \in ClientThreads : ~Holding(t)) => Processed = respRd
           /\ Processed \in Nat /\ Processed <= respRd /\ respRd <= Len(respLog)
           /\ Len(respLog) \in Nat /\ respRd \in Nat
<1>1. respRd \in Nat /\ respRd <= Len(respLog) /\ Len(respLog) \in Nat
  BY DEF TypeInv, TypeOK, Buffer
<1>2. CASE \E t \in ClientThreads : Holding(t)
  <2>1. respRd > 0
    BY <1>2 DEF TypeInv, HasFrame, Holding
  <2> QED
    BY <1>1, <1>2, <2>1 DEF Processed, Holding
<1>3. CASE \A t \in ClientThreads : ~Holding(t)
  BY <1>1, <1>3 DEF Processed, Holding
<1> QED
  BY <1>2, <1>3

LEMMA DataMonotone ==
    ASSUME NEW log, NEW i \in Nat, NEW j \in Nat, i <= j
    PROVE  Cardinality(DataIn(log, i)) <= Cardinality(DataIn(log, j))
<1>1. DataIn(log, i) \subseteq DataIn(log, j)
  BY DEF DataIn
<1> QED
  BY <1>1, DataInType, FS_Subset

(* A thread that has a frame in hand has the only one, the next to be      *)
(* processed.                                                              *)
LEMMA FrameInHand ==
    ASSUME TypeInv, PlaceInv, NEW t \in ClientThreads, Holding(t)
    PROVE  /\ Processed = respRd - 1 /\ respRd \in 1..Len(respLog)
           /\ InHand = respLog[respRd] /\ InHand \in Frame /\ respRd \in DOMAIN respLog
           /\ last.kind = "none"
           /\ \A u \in ClientThreads : u # t => ~Reading(u)
<1>1. Processed = respRd - 1 /\ respRd \in 1..Len(respLog)
  BY ProcessedIs DEF TypeInv, HasFrame, Holding
<1>2. InHand \in Frame
  BY InHandType DEF Holding
<1>3. last.kind = "none"
  BY DEF PlaceInv, Holding, Receiving
<1>4. \A u \in ClientThreads : u # t => ~Reading(u)
  BY OtherReaders DEF TypeInv, Holding, Receiving, Reading
<1> QED
  BY <1>1, <1>2, <1>3, <1>4 DEF InHand, TypeInv, TypeOK

-----------------------------------------------------------------------------
(* Once the server's half is done nothing is added to it.                  *)

LEMMA Frozen ==
    ASSUME Inv, ServerInv, LogDone, [Next]_vars
    PROVE  LogDone' /\ UNCHANGED <<respLog, headersSet, trailersSet, hret, respSent>>
<1> USE ThreadsAssumption
<1>t. /\ TypeOK /\ spc \in [ServerThreads -> ServerPCs] /\ ResponseSide /\ StageInv
      /\ spc[Main] \in Finished
  BY DEF Inv, TypeInv, TypeOK, ServerInv, OrderInv, LogDone, Finished
<1>1. CASE Cancel \/ Propagate \/ Over \/ UNCHANGED vars
           \/ \E t \in ClientThreads : ClientCall(t) \/ ClientStep(t)
  <2>1. UNCHANGED <<outVars, spc>>
    BY <1>1, ClientLeavesServer DEF Cancel, Propagate, Over, vars
  <2> QED
    BY <2>1 DEF outVars, LogDone
<1>2. CASE FinishStep
  <2>1. CASE FinishCloses \/ SvrCancel
    BY <1>t, <2>1 DEF FinishCloses, SvrCancel, LogDone, outVars
  <2>2. ~FinishOnDone /\ ~FinishLock /\ ~FinishWrites
    BY DEF FinishOnDone, FinishLock, FinishWrites, LogDone
  <2> QED
    BY <1>2, <2>1, <2>2 DEF FinishStep
<1>3. CASE \E err \in {"ok", "err"} : HandlerReturns(err)
  BY <1>3 DEF HandlerReturns, LogDone
<1>4. CASE \E t \in ServerThreads : ServerCall(t) \/ ServerStep(t)
  <2>1. PICK t \in ServerThreads : ServerCall(t) \/ ServerStep(t)
    BY <1>4
  <2>2. ~InHeader(t) /\ spc[t] # "message"
    BY <1>t, HolderIsAlone
  <2>3. ~(mu = Unlocked /\ sState # "Closed")
    BY <1>t, FreeMutex
  <2>4. UNCHANGED <<respLog, headersSet, trailersSet, respSent>>
    <3>1. CASE ServerCall(t)
      BY <2>3, <3>1 DEF ServerCall, SetHeader, SendHeader, SetTrailer, ServerSendMsg,
         ServerRecvMsg, outVars
    <3>2. CASE ServerStep(t)
      BY <2>2, <3>2 DEF ServerStep, InHeader, SendHeadersWrites, SendHeadersFails,
         SendHeadersReturns, ServerSendMsgWrites, ServerSendMsgAbandons,
         ServerReadMessage, ServerRecvMsgReturns, ServerRecvMsgFails, outVars
    <3> QED
      BY <2>1, <3>1, <3>2
  <2>5. UNCHANGED <<todo, hret>>
    BY <2>1, RequestsStay
  <2>6. spc' = spc \/ \E pc : spc' = [spc EXCEPT ![t] = pc]
    BY <2>1 DEF ServerCall, ServerStep, SetHeader, SendHeader, SetTrailer, ServerSendMsg,
       ServerRecvMsg, SendHeadersWrites, SendHeadersFails, SendHeadersReturns,
       ServerSendMsgWrites, ServerSendMsgAbandons, ServerReadMessage,
       ServerRecvMsgReturns, ServerRecvMsgFails
  <2>7. spc[t] \notin Finished
    BY <2>1 DEF Finished, ServerCall, ServerStep, SetHeader, SendHeader, SetTrailer,
       ServerSendMsg, ServerRecvMsg, SendHeadersWrites, SendHeadersFails,
       SendHeadersReturns, ServerSendMsgWrites, ServerSendMsgAbandons,
       ServerReadMessage, ServerRecvMsgReturns, ServerRecvMsgFails
  <2>8. spc'[Main] = spc[Main]
    BY <1>t, <2>6, <2>7
  <2> QED
    BY <2>4, <2>5, <2>8 DEF LogDone
<1> QED
  BY <1>1, <1>2, <1>3, <1>4 DEF Next

(* The messages written are counted, and never taken back.                 *)
LEMMA SentGrows ==
    ASSUME TypeInv, [Next]_vars
    PROVE  respSent \in Nat /\ respSent' \in Nat /\ respSent <= respSent'
<1>1. respSent \in Nat
  BY DEF TypeInv, TypeOK
<1> QED
  BY <1>1, Writers DEF FinishWrites, SendHeadersWrites, ServerSendMsgWrites

-----------------------------------------------------------------------------
(* Steps that leave the receiving side of the client stream alone.         *)

RecvRests ==
    /\ UNCHANGED recvVars
    /\ \A t \in ClientThreads :
          cpc'[t] = cpc[t] \/ (cpc[t] \in {"idle", "sending"} /\ cpc'[t] \in {"idle", "sending"})
    /\ sendClosed' => reqClosed' \/ (sendClosed /\ reqClosed' = reqClosed)

LEMMA RestsPCs ==
    ASSUME RecvRests, NEW t \in ClientThreads
    PROVE  /\ Reading(t)' <=> Reading(t)
           /\ Holding(t)' <=> Holding(t)
           /\ Receiving(t)' <=> Receiving(t)
           /\ Checking(t)' <=> Checking(t)
           /\ cpc'[t] \in {"peeking", "peeked"} <=> cpc[t] \in {"peeking", "peeked"}
  BY DEF RecvRests, Reading, Holding, Receiving, Checking

LEMMA RestsProcessed ==
    ASSUME TypeInv, [Next]_vars, RecvRests
    PROVE  /\ Processed' = Processed
           /\ DataUpTo(Processed)' = DataUpTo(Processed)
           /\ \A i \in 1..Processed : respLog'[i] = respLog[i]
<1>1. TypeInv'
  BY TypeNext
<1>2. Processed' = Processed
  <2>1. \A t \in ClientThreads : Holding(t)' <=> Holding(t)
    BY RestsPCs
  <2>2. respRd' = respRd
    BY DEF RecvRests, recvVars
  <2> QED
    BY <1>1, <2>1, <2>2, ProcessedIs DEF Processed, Holding
<1>3. \A i \in 1..Processed : respLog'[i] = respLog[i]
  BY ProcessedIs, LogGrows
<1>4. DataUpTo(Processed)' = DataUpTo(Processed)
  BY <1>2, <1>3 DEF DataUpTo, DataIn
<1> QED
  BY <1>2, <1>3, <1>4

LEMMA ClientRests ==
    ASSUME Inv, ServerInv, ClientInv, [Next]_vars, RecvRests
    PROVE  ClientInv'
<1>t. TypeInv /\ TypeInv' /\ consumed \in Seq(Nat)
  BY TypeNext DEF Inv, TypeInv, TypeOK
<1>0. UNCHANGED <<respRd, respMu, cState, last, cliHeaders, cliTrailers, ended,
                  consumed, result>>
  BY DEF RecvRests, recvVars
<1>1. PlaceInv'
  BY <1>0, RestsPCs DEF ClientInv, PlaceInv, RecvRests
<1>2. ctxDone => ctxDone'
  BY RequestsStay, ClientLeavesServer DEF Next, Cancel, Propagate, FinishStep,
     FinishOnDone, FinishLock, FinishWrites, FinishCloses, SvrCancel, Over,
     HandlerReturns, vars, ctxVars
<1>3. GotInv'
  <2>1. \A i \in DOMAIN consumed' : consumed'[i] = i
    BY <1>0 DEF ClientInv, GotInv
  <2>2. last'.kind = "data" => last'.n = Len(consumed') + 1 /\ last'.n <= respSent'
    <3>1. last.n \in Nat
      BY <1>t DEF TypeInv, TypeOK, Frame
    <3>2. respSent \in Nat /\ respSent' \in Nat /\ respSent <= respSent'
      BY <1>t, SentGrows
    <3>3. last.kind = "data" => last.n = Len(consumed) + 1 /\ last.n <= respSent
      BY DEF ClientInv, GotInv
    <3> QED
      BY <1>0, <3>1, <3>2, <3>3
  <2>3. ~ctxDone' => /\ Cardinality(DataUpTo(Processed)') = Len(consumed') + Pending'
                     /\ Has("headers", cliHeaders)' /\ Has("trailers", cliTrailers)'
                     /\ \A i \in 1..Processed' : respLog'[i].kind = "error" => last'.kind = "error"
    BY <1>t, <1>0, <1>2, RestsProcessed DEF ClientInv, GotInv, Has, Pending
  <2> QED
    BY <2>1, <2>2, <2>3 DEF GotInv
<1>4. Settled' <=> Settled
  BY <1>0 DEF Settled
<1>5. SettledInv'
  BY <1>0, <1>4, Frozen, RestsPCs DEF ClientInv, SettledInv
<1>6. ResultInv'
  BY <1>0, <1>2 DEF ClientInv, ResultInv
<1>7. OneInv'
  BY <1>0, <1>2, <1>4, RestsPCs DEF ClientInv, OneInv
<1> QED
  BY <1>1, <1>3, <1>5, <1>6, <1>7 DEF ClientInv

-----------------------------------------------------------------------------
(* A thread that starts to read, reads, or gives up.                       *)

LEMMA ServerRests ==
    ASSUME NEW t \in ClientThreads, ClientCall(t) \/ ClientStep(t)
    PROVE  /\ UNCHANGED <<ctxDone, respLog, headersSet, trailersSet, hret, respSent, todo, spc>>
           /\ LogDone' <=> LogDone
           /\ \A i : DataUpTo(i)' = DataUpTo(i)
<1>1. UNCHANGED <<ctxDone, respLog, headersSet, trailersSet, hret, respSent, todo, spc>>
  BY ClientLeavesServer DEF ctxVars, outVars
<1> QED
  BY <1>1 DEF LogDone, DataUpTo

(* Only t moves, and only it may hold respMu afterwards.                   *)
LEMMA OneMoves ==
    ASSUME TypeOK, PlaceInv, NEW t \in ClientThreads, Reading(t) \/ respMu = Unlocked,
           NEW pc, cpc' = [cpc EXCEPT ![t] = pc]
    PROVE  /\ cpc'[t] = pc
           /\ \A u \in ClientThreads : u # t => cpc'[u] = cpc[u] /\
                 ~Reading(u)' /\ ~Holding(u)' /\ ~Receiving(u)' /\ ~Checking(u)'
<1>1. \A u \in ClientThreads : cpc'[u] = IF u = t THEN pc ELSE cpc[u]
  BY DEF TypeOK
<1> QED
  BY <1>1, OtherReaders DEF Reading, Holding, Receiving, Checking

LEMMA ReadingStarts ==
    ASSUME TypeInv, ClientInv, NEW t \in ClientThreads, Header(t) \/ RecvMsg(t)
    PROVE  ClientInv'
<1>t. TypeOK
  BY DEF TypeInv
<1>0. /\ UNCHANGED <<respRd, cState, last, cliHeaders, cliTrailers, ended, consumed,
                     result, reqClosed, sendClosed>>
      /\ respMu = Unlocked /\ respMu' = t /\ cpc[t] = "idle"
  BY DEF Header, RecvMsg, sendVars
<1>s. /\ UNCHANGED <<ctxDone, respLog, headersSet, trailersSet, hret, respSent, todo, spc>>
      /\ (LogDone' <=> LogDone) /\ \A i : DataUpTo(i)' = DataUpTo(i)
  BY ServerRests DEF ClientCall
<1>1. \E pc \in {"peeking", "receiving"} :
         /\ cpc' = [cpc EXCEPT ![t] = pc]
         /\ pc = "peeking" => cState = "Headers"
         /\ pc = "receiving" => last.kind = "none"
  BY DEF Header, RecvMsg
<1>2. /\ \/ cpc'[t] = "peeking" /\ cState = "Headers"
         \/ cpc'[t] = "receiving" /\ last.kind = "none"
      /\ \A u \in ClientThreads : u # t => cpc'[u] = cpc[u] /\ ~Reading(u)' /\ ~Holding(u)'
                                          /\ ~Receiving(u)' /\ ~Checking(u)'
  BY <1>t, <1>0, <1>1, OneMoves DEF ClientInv
<1>3. \A u \in ClientThreads : ~Holding(u)' /\ ~Checking(u)' /\ ~Holding(u) /\ ~Checking(u)
  BY <1>t, <1>0, <1>2, OtherReaders DEF ClientInv, Holding, Checking
<1>4. PlaceInv'
  BY <1>0, <1>2, <1>3 DEF ClientInv, PlaceInv, Receiving, Checking
<1>5. Processed' = Processed
  BY <1>0, <1>3 DEF Processed, Holding
<1>6. GotInv'
  BY <1>0, <1>s, <1>5 DEF ClientInv, GotInv, Has, Pending
<1>7. Settled' <=> Settled
  BY <1>0 DEF Settled
<1>8. SettledInv'
  BY <1>0, <1>s, <1>3, <1>7 DEF ClientInv, SettledInv
<1>9. ResultInv'
  BY <1>0, <1>s DEF ClientInv, ResultInv
<1>10. OneInv'
  BY <1>0, <1>s, <1>3, <1>7 DEF ClientInv, OneInv
<1> QED
  BY <1>4, <1>6, <1>8, <1>9, <1>10 DEF ClientInv

LEMMA FrameIsTaken ==
    ASSUME TypeInv, ClientInv, NEW t \in ClientThreads, ReadMessage(t)
    PROVE  ClientInv'
<1>t. TypeOK /\ respRd \in Nat
  BY DEF TypeInv, TypeOK
<1>0. /\ UNCHANGED <<respMu, cState, last, cliHeaders, cliTrailers, ended, consumed,
                     result, reqClosed, sendClosed>>
      /\ respRd' = respRd + 1 /\ respRd < Len(respLog)
  BY DEF ReadMessage, sendVars, ResponseReady
<1>s. /\ UNCHANGED <<ctxDone, respLog, headersSet, trailersSet, hret, respSent, todo, spc>>
      /\ (LogDone' <=> LogDone) /\ \A i : DataUpTo(i)' = DataUpTo(i)
  BY ServerRests DEF ClientStep
<1>1. \E pc \in {"peeked", "received", "checked"} :
         /\ cpc' = [cpc EXCEPT ![t] = pc]
         /\ pc = "peeked" => cpc[t] = "peeking"
         /\ pc = "received" => cpc[t] = "receiving"
         /\ pc = "checked" => cpc[t] = "checking"
  BY DEF ReadMessage
<1>r. Reading(t) /\ ~Holding(t)
  BY <1>1 DEF Reading, Receiving, Holding
<1>2. /\ \/ cpc'[t] = "peeked" /\ cpc[t] = "peeking"
         \/ cpc'[t] = "received" /\ cpc[t] = "receiving"
         \/ cpc'[t] = "checked" /\ cpc[t] = "checking"
      /\ \A u \in ClientThreads : u # t => cpc'[u] = cpc[u] /\ ~Reading(u)' /\ ~Holding(u)'
                                          /\ ~Receiving(u)' /\ ~Checking(u)'
  BY <1>t, <1>r, <1>1, OneMoves DEF ClientInv
<1>3. /\ Holding(t)' /\ (Receiving(t)' <=> Receiving(t)) /\ (Checking(t)' <=> Checking(t))
      /\ cpc'[t] \in {"peeking", "peeked"} <=> cpc[t] \in {"peeking", "peeked"}
      /\ Reading(t)'
  BY <1>2 DEF Holding, Receiving, Checking, Reading
<1>4. \A u \in ClientThreads : ~Holding(u) /\ (u # t => ~Checking(u))
  BY <1>t, <1>r, OtherReaders DEF ClientInv
<1>5. PlaceInv'
  BY <1>0, <1>r, <1>2, <1>3 DEF ClientInv, PlaceInv, Reading
<1>6. Processed' = Processed
  <2>1. (\E u \in ClientThreads : cpc'[u] \in {"peeked", "received", "checked"})
    BY <1>3 DEF Holding
  <2>2. ~(\E u \in ClientThreads : cpc[u] \in {"peeked", "received", "checked"})
    BY <1>4 DEF Holding
  <2> QED
    BY <1>t, <1>0, <2>1, <2>2 DEF Processed
<1>7. GotInv'
  BY <1>0, <1>s, <1>6 DEF ClientInv, GotInv, Has, Pending
<1>8. ~Settled /\ ~Settled'
  BY <1>t, <1>0 DEF Settled, ClientInv, SettledInv
<1>9. SettledInv'
  BY <1>8 DEF SettledInv
<1>10. ResultInv'
  BY <1>0, <1>s DEF ClientInv, ResultInv
<1>11. OneInv'
  BY <1>0, <1>s, <1>3, <1>4, <1>8 DEF ClientInv, OneInv
<1> QED
  BY <1>5, <1>7, <1>9, <1>10, <1>11 DEF ClientInv

(* The context is done: what was in hand is dropped.                       *)
LEMMA ReadingAbandoned ==
    ASSUME TypeInv, ClientInv, NEW t \in ClientThreads,
           HeaderGetsCtxErr(t) \/ RecvMsgGetsCtxErr(t)
    PROVE  ClientInv'
<1>t. TypeOK
  BY DEF TypeInv
<1>0. /\ UNCHANGED <<respRd, cState, last, cliHeaders, cliTrailers, ended, consumed,
                     reqClosed, sendClosed>>
      /\ ctxDone /\ respMu' = Unlocked /\ cpc' = [cpc EXCEPT ![t] = "idle"]
  BY DEF HeaderGetsCtxErr, RecvMsgGetsCtxErr, Unlock, sendVars
<1>s. /\ UNCHANGED <<ctxDone, respLog, headersSet, trailersSet, hret, respSent, todo, spc>>
      /\ (LogDone' <=> LogDone)
  BY ServerRests DEF ClientStep
<1>r. Reading(t)
  BY DEF HeaderGetsCtxErr, RecvMsgGetsCtxErr, Reading, Receiving
<1>2. /\ cpc'[t] = "idle"
      /\ \A u \in ClientThreads : u # t => cpc'[u] = cpc[u] /\ ~Reading(u)' /\ ~Holding(u)'
                                          /\ ~Receiving(u)' /\ ~Checking(u)'
  BY <1>t, <1>r, <1>0, OneMoves DEF ClientInv
<1>3. \A u \in ClientThreads : ~Holding(u)' /\ ~Checking(u)' /\ ~Receiving(u)' /\ ~Reading(u)'
  BY <1>2 DEF Holding, Receiving, Checking, Reading
<1>4. PlaceInv'
  BY <1>0, <1>3 DEF ClientInv, PlaceInv, Reading
<1>5. GotInv'
  BY <1>0, <1>s DEF ClientInv, GotInv
<1>6. Settled' <=> Settled
  BY <1>0 DEF Settled
<1>7. SettledInv'
  BY <1>0, <1>s, <1>3, <1>6 DEF ClientInv, SettledInv
<1>8. ResultInv'
  <2>1. CASE HeaderGetsCtxErr(t)
    BY <1>0, <1>s, <2>1 DEF HeaderGetsCtxErr, ClientInv, ResultInv
  <2>2. CASE RecvMsgGetsCtxErr(t)
    <3>1. result' \in {"msg", "ctx"}
      BY <2>2 DEF RecvMsgGetsCtxErr
    <3>2. last.kind = "none"
      BY <2>2 DEF RecvMsgGetsCtxErr, ClientInv, PlaceInv, Receiving
    <3> QED
      BY <1>0, <1>s, <3>1, <3>2 DEF ResultInv
  <2> QED
    BY <2>1, <2>2
<1>9. OneInv'
  BY <1>0, <1>s DEF OneInv
<1> QED
  BY <1>4, <1>5, <1>7, <1>8, <1>9 DEF ClientInv

-----------------------------------------------------------------------------
(* The end of the stream: what the client has is all there is.             *)

(* An error frame is the last of the response, and finish has no other.    *)
LEMMA ErrorIsLast ==
    ASSUME Inv, ServerInv, NEW i \in DOMAIN respLog, respLog[i].kind = "error"
    PROVE  i = Len(respLog) /\ LogDone /\ hret = "err"
<1>t. /\ TypeOK /\ respLog \in Seq(Frame) /\ todo \in Seq(Frame)
      /\ StageInv /\ WrittenInv /\ TodoInv /\ SortedInv /\ PendingInv
  BY DEF Inv, TypeInv, TypeOK, ServerInv, OrderInv
<1>1. hret = "err"
  BY <1>t DEF PendingInv, InLog
<1>2. spc[Main] \in Finished
  BY <1>t DEF WrittenInv
<1>3. i = Len(respLog)
  <2> SUFFICES ASSUME i # Len(respLog) PROVE FALSE
    OBVIOUS
  <2>1. i + 1 \in DOMAIN respLog /\ i < i + 1
    BY <1>t
  <2>2. Rank(respLog[i]) <= Rank(respLog[i + 1]) /\ respLog[i + 1].kind # "error"
    BY <1>t, <2>1 DEF SortedInv, FramesInOrder
  <2>3. respLog[i + 1].kind \in Kinds
    BY <1>t, <2>1 DEF TodoInv
  <2> QED
    BY <2>2, <2>3 DEF Rank, Kinds
<1>4. todo = <<>>
  <2> SUFFICES ASSUME todo # <<>> PROVE FALSE
    OBVIOUS
  <2>1. 1 \in DOMAIN todo
    BY <1>t, EmptySeq
  <2>2. todo[1].kind \in {"headers", "trailers", "error"} /\ MayFollow(todo[1], respLog)
    BY <1>t, <2>1 DEF TodoInv
  <2>3. Rank(respLog[i]) <= Rank(todo[1]) /\ todo[1].kind # "error"
    BY <2>2 DEF MayFollow
  <2> QED
    BY <2>2, <2>3 DEF Rank
<1> QED
  BY <1>1, <1>2, <1>3, <1>4 DEF LogDone, Finished

LEMMA AllTaken ==
    ASSUME Inv, ServerInv, GotInv, ~ctxDone, LogDone,
           \/ Len(respLog) = Processed
           \/ Len(respLog) = Processed + 1 /\ respLog[Len(respLog)].kind = "error"
    PROVE  /\ Len(consumed) + Pending = respSent
           /\ cliHeaders = headersSet /\ cliTrailers = trailersSet
<1>t. /\ TypeInv /\ TypeOK /\ StageInv /\ MetadataInv /\ CountInv
      /\ respLog \in Seq(Frame) /\ spc[Main] \in Finished /\ todo = <<>>
  BY DEF Inv, TypeInv, TypeOK, ServerInv, OrderInv, StageInv, LogDone, Finished
<1>1. /\ Processed \in Nat /\ Len(respLog) \in Nat /\ DOMAIN respLog = 1..Len(respLog)
  BY <1>t, ProcessedIs
<1> DEFINE n == Len(respLog)
           p == Processed
<1>e. n = p \/ (n = p + 1 /\ respLog[n].kind = "error")
  OBVIOUS
<1>n. p \in Nat /\ n \in Nat /\ DOMAIN respLog = 1..n
  BY <1>1
<1> HIDE DEF n, p
<1>2. \A i \in DOMAIN respLog : i \in 1..p \/ respLog[i].kind = "error"
  BY <1>e, <1>n
<1>3. \A i \in 1..p : i \in DOMAIN respLog
  BY <1>e, <1>n
<1> USE DEF n, p
<1>4. respSent = Len(consumed) + Pending
  <2>1. respSent = Cardinality(DataUpTo(Len(respLog)))
    BY <1>t DEF CountInv
  <2>2. Cardinality(DataUpTo(Len(respLog))) = Cardinality(DataUpTo(Processed))
    <3>1. CASE Len(respLog) = Processed
      BY <3>1
    <3>2. CASE Len(respLog) = Processed + 1 /\ respLog[Len(respLog)].kind = "error"
      <4>1. Cardinality(DataIn(respLog, Processed + 1)) = Cardinality(DataIn(respLog, Processed)) + 0
        BY <1>1, <3>2, DataInStep
      <4>2. Cardinality(DataIn(respLog, Processed)) \in Nat
        BY <1>1, DataInType
      <4> QED
        BY <3>2, <4>1, <4>2 DEF DataUpTo
    <3> QED
      BY <3>1, <3>2
  <2> QED
    BY <2>1, <2>2 DEF GotInv
<1>5. ~InTodo("headers") /\ ~InTodo("trailers")
  BY <1>t DEF InTodo
<1>6. cliHeaders = headersSet
  <2>1. CASE InLog("headers")
    BY <1>2, <2>1, <1>t DEF InLog, GotInv, Has, MetadataInv, FramesCarry
  <2>2. CASE ~InLog("headers")
    <3>1. cliHeaders = {}
      BY <1>3, <2>2 DEF InLog, GotInv, Has
    <3> QED
      BY <1>t, <1>5, <2>2, <3>1 DEF MetadataInv
  <2> QED
    BY <2>1, <2>2
<1>7. cliTrailers = trailersSet
  <2>1. CASE InLog("trailers")
    BY <1>2, <2>1, <1>t DEF InLog, GotInv, Has, MetadataInv, FramesCarry
  <2>2. CASE ~InLog("trailers")
    <3>1. cliTrailers = {}
      BY <1>3, <2>2 DEF InLog, GotInv, Has
    <3> QED
      BY <1>t, <1>5, <2>2, <3>1 DEF MetadataInv
  <2> QED
    BY <2>1, <2>2
<1> QED
  BY <1>4, <1>6, <1>7

LEMMA EndByError ==
    ASSUME Inv, ServerInv, ClientInv, ~ctxDone, NEW t \in ClientThreads, Holding(t),
           InHand.kind = "error"
    PROVE  /\ LogDone /\ respRd = Len(respLog) /\ Len(consumed) = respSent /\ hret = "err"
           /\ cliHeaders = headersSet /\ cliTrailers = trailersSet
<1>1. /\ Processed = respRd - 1 /\ respRd \in DOMAIN respLog /\ InHand = respLog[respRd]
      /\ last.kind = "none" /\ respRd \in Nat
  BY FrameInHand DEF Inv, ClientInv, TypeInv, TypeOK
<1>2. respRd = Len(respLog) /\ LogDone /\ hret = "err"
  BY <1>1, ErrorIsLast
<1>3. Len(respLog) = Processed + 1 /\ respLog[Len(respLog)].kind = "error"
  BY <1>1, <1>2
<1>4. /\ Len(consumed) + Pending = respSent
      /\ cliHeaders = headersSet /\ cliTrailers = trailersSet
  BY <1>2, <1>3, AllTaken DEF ClientInv
<1>5. Len(consumed) \in Nat /\ Pending = 0
  BY <1>1 DEF Inv, TypeInv, TypeOK, Pending
<1> QED
  BY <1>2, <1>4, <1>5

LEMMA EndByEOF ==
    ASSUME Inv, ServerInv, ClientInv, ~ctxDone, ResponsesEnded, last.kind = "none",
           \A t \in ClientThreads : ~Holding(t)
    PROVE  /\ LogDone /\ respRd = Len(respLog) /\ Len(consumed) = respSent /\ hret = "ok"
           /\ cliHeaders = headersSet /\ cliTrailers = trailersSet
<1>1. LogDone
  BY DEF ResponsesEnded, Inv, ResponseSide, LogDone
<1>2. Processed = respRd /\ respRd = Len(respLog) /\ DOMAIN respLog = 1..Len(respLog)
  BY ProcessedIs DEF ResponsesEnded, Inv, TypeInv, TypeOK
<1>3. /\ Len(consumed) + Pending = respSent
      /\ cliHeaders = headersSet /\ cliTrailers = trailersSet
  BY <1>1, <1>2, AllTaken DEF ClientInv
<1>4. Len(consumed) \in Nat /\ Pending = 0
  BY DEF Inv, TypeInv, TypeOK, Pending
<1>5. hret = "ok"
  <2>1. /\ spc[Main] \in Finished /\ spc[Main] \in Returned /\ todo = <<>> /\ hret \in {"none", "ok", "err"}
        /\ hret = "none" <=> spc[Main] \notin Returned
    BY <1>1 DEF LogDone, Finished, Returned, Inv, TypeInv, TypeOK, ServerInv, OrderInv, StageInv
  <2>2. ~InLog("error") /\ ~InTodo("error")
    BY <1>2, <2>1 DEF InLog, InTodo, ClientInv, GotInv
  <2> QED
    BY <2>1, <2>2 DEF ServerInv, MetadataInv
<1> QED
  BY <1>1, <1>2, <1>3, <1>4, <1>5

-----------------------------------------------------------------------------
(* A frame in hand is processed.                                           *)

(* As long as there is one nothing is decided yet.                         *)
LEMMA Undecided ==
    ASSUME TypeInv, ClientInv, NEW t \in ClientThreads, Holding(t), ~ctxDone
    PROVE  /\ ~Settled /\ ~ended /\ last.kind = "none"
           /\ result \in {"none", "msg", "copyErr"}
<1>1. ~Settled /\ last.kind = "none"
  BY FrameInHand DEF ClientInv, SettledInv
<1>2. ~ended
  BY <1>1 DEF Settled
<1> QED
  BY <1>1, <1>2 DEF ClientInv, ResultInv, TypeInv, TypeOK

(* f was processed by t: what the client stream keeps of it.               *)
Keeps(f) ==
    /\ \/ /\ f.kind = "data" /\ consumed' = Append(consumed, f.n)
          /\ last'.kind # "data"
       \/ f.kind = "data" /\ consumed' = consumed /\ last' = f
       \/ f.kind # "data" /\ consumed' = consumed /\ last'.kind # "data"
    /\ cliHeaders' = IF f.kind = "headers" THEN f.md ELSE cliHeaders
    /\ cliTrailers' = IF f.kind = "trailers" THEN f.md ELSE cliTrailers
    /\ f.kind = "error" => last'.kind = "error"
    /\ respRd' = respRd

LEMMA NumberInHand ==
    ASSUME Inv, ServerInv, ClientInv, NEW t \in ClientThreads, Holding(t), ~ctxDone
    PROVE  /\ Cardinality(DataUpTo(respRd)) =
                 Len(consumed) + (IF InHand.kind = "data" THEN 1 ELSE 0)
           /\ InHand.kind = "data" => InHand.n = Len(consumed) + 1 /\ InHand.n <= respSent
<1>t. TypeInv /\ PlaceInv /\ CountInv /\ Len(consumed) \in Nat
  BY DEF Inv, TypeInv, TypeOK, ServerInv, ClientInv
<1>1. /\ Processed = respRd - 1 /\ respRd \in 1..Len(respLog) /\ InHand = respLog[respRd]
      /\ respRd \in DOMAIN respLog /\ last.kind = "none" /\ Len(respLog) \in Nat
  BY <1>t, FrameInHand, ProcessedIs
<1>2. Processed \in Nat /\ respRd = Processed + 1 /\ respRd \in Nat /\ respRd <= Len(respLog)
  BY <1>1
<1>3. Cardinality(DataUpTo(Processed)) = Len(consumed)
  BY <1>t, <1>1 DEF ClientInv, GotInv, Pending
<1>4. Cardinality(DataUpTo(respRd)) = Len(consumed) + (IF InHand.kind = "data" THEN 1 ELSE 0)
  BY <1>1, <1>2, <1>3, DataInStep DEF DataUpTo
<1>5. ASSUME InHand.kind = "data"
      PROVE  InHand.n = Len(consumed) + 1 /\ InHand.n <= respSent
  <2>1. InHand.n = Cardinality(DataUpTo(respRd))
    BY <1>t, <1>1, <1>5 DEF CountInv
  <2>2. Cardinality(DataUpTo(respRd)) <= Cardinality(DataUpTo(Len(respLog)))
    BY <1>1, <1>2, DataMonotone DEF DataUpTo
  <2> QED
    BY <1>t, <1>4, <1>5, <2>1, <2>2 DEF CountInv
<1> QED
  BY <1>4, <1>5

LEMMA GotNext ==
    ASSUME Inv, ServerInv, ClientInv, NEW t \in ClientThreads, Holding(t), ~ctxDone,
           ClientStep(t), Keeps(InHand), \A u \in ClientThreads : ~Holding(u)'
    PROVE  GotInv'
<1>t. /\ TypeInv /\ PlaceInv /\ SortedInv /\ GotInv
      /\ consumed \in Seq(Nat) /\ Len(consumed) \in Nat
  <2>1. consumed \in Seq(Nat) /\ TypeInv
    BY DEF Inv, TypeInv, TypeOK
  <2> QED
    BY <2>1 DEF ServerInv, OrderInv, ClientInv
<1>s. /\ UNCHANGED <<ctxDone, respLog, respSent>> /\ \A i : DataUpTo(i)' = DataUpTo(i)
  BY ServerRests
<1>1. /\ Processed = respRd - 1 /\ respRd \in 1..Len(respLog) /\ InHand = respLog[respRd]
      /\ InHand \in Frame /\ respRd \in DOMAIN respLog /\ last.kind = "none"
      /\ DOMAIN respLog = 1..Len(respLog)
  <2>1. DOMAIN respLog = 1..Len(respLog)
    BY <1>t DEF TypeInv, TypeOK
  <2> QED
    BY <1>t, <2>1, FrameInHand
<1> DEFINE f == InHand
           p == Processed
           r == respRd
<1>2. /\ p \in Nat /\ r = p + 1 /\ 1..r = 1..p \cup {r} /\ f = respLog[r]
      /\ \A i \in 1..r : i \in DOMAIN respLog
  BY <1>1
<1>3. Processed' = r
  <2>1. ~(\E u \in ClientThreads : cpc'[u] \in {"peeked", "received", "checked"})
    BY DEF Holding
  <2> QED
    BY <1>1, <2>1 DEF Processed, Keeps
<1>k. Keeps(f)
  OBVIOUS
<1>n. /\ Cardinality(DataUpTo(r)) = Len(consumed) + (IF f.kind = "data" THEN 1 ELSE 0)
      /\ f.kind = "data" => f.n = Len(consumed) + 1 /\ f.n <= respSent /\ f.n \in Nat
  BY <1>1, NumberInHand DEF Frame
<1> HIDE DEF f, p, r
<1>4. \A i \in DOMAIN consumed' : consumed'[i] = i
  <2>1. \A i \in DOMAIN consumed : consumed[i] = i
    BY <1>t DEF GotInv
  <2>2. CASE consumed' = consumed
    BY <2>1, <2>2
  <2>3. CASE f.kind = "data" /\ consumed' = Append(consumed, f.n)
    BY <1>t, <1>n, <2>1, <2>3, AppendProperties
  <2> QED
    BY <1>k, <2>2, <2>3 DEF Keeps
<1>5. /\ last'.kind = "data" => last'.n = Len(consumed') + 1 /\ last'.n <= respSent'
      /\ Cardinality(DataUpTo(r)) = Len(consumed') + Pending'
  <2>1. CASE /\ f.kind = "data" /\ consumed' = Append(consumed, f.n)
             /\ last'.kind # "data"
    <3>1. Len(consumed') = Len(consumed) + 1 /\ Pending' = 0
      BY <1>t, <1>n, <2>1, AppendProperties DEF Pending
    <3> QED
      BY <1>t, <1>n, <2>1, <3>1
  <2>2. CASE f.kind = "data" /\ consumed' = consumed /\ last' = f
    BY <1>t, <1>s, <1>n, <2>2 DEF Pending
  <2>3. CASE f.kind # "data" /\ consumed' = consumed /\ last'.kind # "data"
    BY <1>t, <1>n, <2>3 DEF Pending
  <2> QED
    BY <1>k, <2>1, <2>2, <2>3 DEF Keeps
<1>6. \A i \in 1..p : respLog[i].kind # "error"
  BY <1>1, <1>t DEF GotInv, p
<1>7. \A kind \in {"headers", "trailers"} : f.kind = kind =>
         \A i \in 1..p : respLog[i].kind # kind
  BY <1>t, <1>2 DEF SortedInv, FramesInOrder
<1>8. \A i \in 1..r : respLog[i].kind = "error" => last'.kind = "error"
  BY <1>2, <1>6, <1>k DEF Keeps
<1>9. /\ \A i \in 1..r : respLog[i].kind = "headers" => cliHeaders' = respLog[i].md
      /\ (\A i \in 1..r : respLog[i].kind # "headers") => cliHeaders' = {}
  <2>1. /\ \A i \in 1..p : respLog[i].kind = "headers" => cliHeaders = respLog[i].md
        /\ (\A i \in 1..p : respLog[i].kind # "headers") => cliHeaders = {}
    BY <1>t DEF GotInv, Has, p
  <2> QED
    BY <1>2, <1>7, <2>1, <1>k DEF Keeps
<1>10. /\ \A i \in 1..r : respLog[i].kind = "trailers" => cliTrailers' = respLog[i].md
       /\ (\A i \in 1..r : respLog[i].kind # "trailers") => cliTrailers' = {}
  <2>1. /\ \A i \in 1..p : respLog[i].kind = "trailers" => cliTrailers = respLog[i].md
        /\ (\A i \in 1..p : respLog[i].kind # "trailers") => cliTrailers = {}
    BY <1>t DEF GotInv, Has, p
  <2> QED
    BY <1>2, <1>7, <2>1, <1>k DEF Keeps
<1> QED
  BY <1>s, <1>3, <1>4, <1>5, <1>8, <1>9, <1>10 DEF GotInv, Has

LEMMA HeaderTakesFrame ==
    ASSUME Inv, ServerInv, ClientInv, NEW t \in ClientThreads, HeaderGetsFrame(t)
    PROVE  ClientInv'
<1>t. TypeInv /\ TypeOK /\ ClientStep(t)
  BY DEF Inv, TypeInv, ClientStep
<1>0. /\ UNCHANGED <<respRd, ended, consumed, result, reqClosed, sendClosed>>
      /\ ~ctxDone /\ cpc[t] = "peeked" /\ respMu' = Unlocked
      /\ cpc' = [cpc EXCEPT ![t] = "idle"] /\ last' = Kept(InHand)
      /\ cState' = IF InHand.kind = "error" THEN "Closed" ELSE "Messages"
      /\ cliHeaders' = IF InHand.kind = "headers" THEN InHand.md ELSE cliHeaders
      /\ cliTrailers' = IF InHand.kind = "trailers" THEN InHand.md ELSE cliTrailers
  BY DEF HeaderGetsFrame, Unlock, sendVars
<1>s. /\ UNCHANGED <<ctxDone, respLog, headersSet, trailersSet, hret, respSent>>
      /\ (LogDone' <=> LogDone)
  BY <1>t, ServerRests
<1>r. Reading(t) /\ Holding(t) /\ ~Checking(t)
  BY <1>0 DEF Reading, Holding, Checking
<1>1. /\ InHand \in Frame /\ last.kind = "none" /\ ~Settled /\ ~ended
      /\ result \in {"none", "msg", "copyErr"}
  BY <1>t, <1>0, <1>r, FrameInHand, Undecided DEF ClientInv
<1>2. /\ cpc'[t] = "idle"
      /\ \A u \in ClientThreads : u # t => cpc'[u] = cpc[u] /\ ~Reading(u)' /\ ~Holding(u)'
                                          /\ ~Receiving(u)' /\ ~Checking(u)'
  BY <1>t, <1>r, <1>0, OneMoves DEF ClientInv
<1>3. \A u \in ClientThreads : ~Holding(u)' /\ ~Checking(u)' /\ ~Receiving(u)' /\ ~Reading(u)'
  BY <1>2 DEF Holding, Receiving, Checking, Reading
<1>4. last'.kind = (IF InHand.kind \in {"data", "error"} THEN InHand.kind ELSE "none")
  BY <1>0, <1>1 DEF Kept
<1>5. PlaceInv'
  BY <1>0, <1>3, <1>4 DEF ClientInv, PlaceInv, Reading
<1>6. GotInv'
  <2>1. Keeps(InHand)
    BY <1>0, <1>4 DEF Keeps, Kept
  <2> QED
    BY <1>t, <1>0, <1>r, <1>3, <2>1, GotNext
<1>7. Settled' <=> InHand.kind = "error"
  BY <1>0, <1>1, <1>4 DEF Settled
<1>8. SettledInv'
  <2>1. CASE InHand.kind = "error"
    <3>1. /\ LogDone /\ respRd = Len(respLog) /\ Len(consumed) = respSent /\ hret = "err"
          /\ cliHeaders = headersSet /\ cliTrailers = trailersSet
      BY <1>0, <1>r, <2>1, EndByError
    <3> QED
      BY <1>0, <1>s, <1>3, <1>4, <2>1, <3>1 DEF SettledInv
  <2>2. CASE InHand.kind # "error"
    BY <1>7, <2>2 DEF SettledInv
  <2> QED
    BY <2>1, <2>2
<1>9. ResultInv'
  BY <1>0, <1>1, <1>4 DEF ResultInv
<1>10. OneInv'
  <2>1. \A u \in ClientThreads : ~Checking(u)
    BY <1>t, <1>r, OtherReaders DEF ClientInv
  <2> QED
    BY <1>0, <1>s, <1>1, <2>1 DEF ClientInv, OneInv
<1> QED
  BY <1>5, <1>6, <1>8, <1>9, <1>10 DEF ClientInv

LEMMA RecvTakesMetadata ==
    ASSUME Inv, ServerInv, ClientInv, NEW t \in ClientThreads, RecvMsgGetsMetadata(t)
    PROVE  ClientInv'
<1>t. TypeInv /\ TypeOK /\ ClientStep(t)
  BY DEF Inv, TypeInv, ClientStep
<1>0. /\ UNCHANGED <<respRd, respMu, last, ended, consumed, result, reqClosed, sendClosed>>
      /\ ~ctxDone /\ InHand.kind \in {"headers", "trailers"} /\ cState' \in {cState, "Messages"}
      /\ cliHeaders' = IF InHand.kind = "headers" THEN InHand.md ELSE cliHeaders
      /\ cliTrailers' = IF InHand.kind = "trailers" THEN InHand.md ELSE cliTrailers
  BY DEF RecvMsgGetsMetadata, Again, sendVars
<1>p. \E pc \in {"receiving", "checking"} :
         /\ cpc' = [cpc EXCEPT ![t] = pc]
         /\ pc = "receiving" => cpc[t] = "received"
         /\ pc = "checking" => cpc[t] = "checked"
  BY DEF RecvMsgGetsMetadata, Again
<1>s. UNCHANGED ctxDone
  BY <1>t, ServerRests
<1>r. Reading(t) /\ Holding(t) /\ Receiving(t)
  BY <1>p DEF Reading, Holding, Receiving
<1>1. /\ last.kind = "none" /\ ~Settled /\ ~ended /\ result \in {"none", "msg", "copyErr"}
  BY <1>t, <1>0, <1>r, Undecided DEF ClientInv
<1>2. /\ \/ cpc'[t] = "receiving" /\ cpc[t] = "received"
         \/ cpc'[t] = "checking" /\ cpc[t] = "checked"
      /\ \A u \in ClientThreads : u # t => cpc'[u] = cpc[u] /\ ~Reading(u)' /\ ~Holding(u)'
                                          /\ ~Receiving(u)' /\ ~Checking(u)'
  BY <1>t, <1>r, <1>p, OneMoves DEF ClientInv
<1>3. /\ ~Holding(t)' /\ (Receiving(t)' <=> Receiving(t)) /\ (Checking(t)' <=> Checking(t))
      /\ cpc'[t] \notin {"peeking", "peeked"} /\ Reading(t)'
  BY <1>2 DEF Holding, Receiving, Checking, Reading
<1>4. \A u \in ClientThreads : ~Holding(u)' /\ (u # t => ~Checking(u))
  BY <1>t, <1>r, <1>2, <1>3, OtherReaders DEF ClientInv
<1>5. PlaceInv'
  BY <1>0, <1>1, <1>r, <1>2, <1>3 DEF ClientInv, PlaceInv, Reading
<1>6. GotInv'
  <2>1. Keeps(InHand)
    BY <1>0, <1>1 DEF Keeps
  <2> QED
    BY <1>t, <1>0, <1>r, <1>4, <2>1, GotNext
<1>7. ~Settled'
  BY <1>0, <1>1 DEF Settled
<1>8. SettledInv'
  BY <1>7 DEF SettledInv
<1>9. ResultInv'
  BY <1>0, <1>1 DEF ResultInv
<1>10. OneInv'
  BY <1>0, <1>s, <1>1, <1>3, <1>4, <1>7 DEF ClientInv, OneInv
<1> QED
  BY <1>5, <1>6, <1>8, <1>9, <1>10 DEF ClientInv

(* What a message that was taken by RecvMsg makes of the call.             *)
LEMMA RecvTakesData ==
    ASSUME Inv, ServerInv, ClientInv, NEW t \in ClientThreads, RecvMsgGetsData(t)
    PROVE  ClientInv'
<1>t. TypeInv /\ TypeOK /\ ClientStep(t) /\ consumed \in Seq(Nat)
  BY DEF Inv, TypeInv, TypeOK, ClientStep
<1>0. /\ UNCHANGED <<respRd, cState, last, cliHeaders, cliTrailers, ended,
                     reqClosed, sendClosed>>
      /\ ~ctxDone /\ InHand.kind = "data" /\ cpc[t] = "received"
      /\ consumed' = Append(consumed, InHand.n)
  BY DEF RecvMsgGetsData, sendVars
<1>p. \/ /\ cpc' = [cpc EXCEPT ![t] = "idle"] /\ respMu' = Unlocked
         /\ \/ ResponseStream /\ result' = "msg"
            \/ CopyMayFail /\ result' = "copyErr"
      \/ /\ cpc' = [cpc EXCEPT ![t] = "checking"] /\ respMu' = t /\ result' = result
         /\ ~ResponseStream
  BY DEF RecvMsgGetsData, MessageCopied, Unlock
<1>s. UNCHANGED ctxDone
  BY <1>t, ServerRests
<1>r. Reading(t) /\ Holding(t) /\ Receiving(t) /\ ~Checking(t)
  BY <1>0 DEF Reading, Holding, Receiving, Checking
<1>1. /\ last.kind = "none" /\ ~Settled /\ ~ended /\ result \in {"none", "msg", "copyErr"}
      /\ InHand \in Frame
  BY <1>t, <1>0, <1>r, Undecided, FrameInHand DEF ClientInv
<1>n. Len(consumed') = Len(consumed) + 1 /\ Len(consumed) \in Nat
  <2>1. InHand.n \in Nat
    BY <1>1 DEF Frame
  <2> QED
    BY <1>t, <1>0, <2>1, AppendProperties
<1>2. /\ \/ cpc'[t] = "idle" /\ respMu' = Unlocked
         \/ cpc'[t] = "checking" /\ respMu' = t /\ ~ResponseStream /\ result' = result
      /\ \A u \in ClientThreads : u # t => cpc'[u] = cpc[u] /\ ~Reading(u)' /\ ~Holding(u)'
                                          /\ ~Receiving(u)' /\ ~Checking(u)'
  BY <1>t, <1>r, <1>p, OneMoves DEF ClientInv
<1>3. ~Holding(t)' /\ cpc'[t] \notin {"peeking", "peeked"}
  BY <1>2 DEF Holding
<1>4. \A u \in ClientThreads : ~Holding(u)' /\ ~Checking(u)
  BY <1>t, <1>r, <1>2, <1>3, OtherReaders DEF ClientInv
<1>5. PlaceInv'
  <2>1. Reading(t)' => respMu' = t /\ ~ResponseStream /\ result' = result
    BY <1>2 DEF Reading, Receiving
  <2>2. Receiving(t)' \/ Checking(t)' => Reading(t)'
    BY DEF Reading, Receiving, Checking
  <2> QED
    BY <1>0, <1>1, <1>n, <1>2, <1>3, <2>1, <2>2 DEF ClientInv, PlaceInv, Reading
<1>6. GotInv'
  <2>1. Keeps(InHand)
    BY <1>0, <1>1 DEF Keeps
  <2> QED
    BY <1>t, <1>0, <1>r, <1>4, <2>1, GotNext
<1>7. ~Settled'
  BY <1>0, <1>1 DEF Settled
<1>8. SettledInv'
  BY <1>7 DEF SettledInv
<1>9. ResultInv'
  BY <1>0, <1>1, <1>p DEF ResultInv
<1>10. OneInv'
  <2> SUFFICES ASSUME ~ResponseStream
               PROVE  /\ ~CopyMayFail /\ Len(consumed') > 0 =>
                            Len(consumed') = 1 /\ \E u \in ClientThreads : Checking(u)'
                      /\ result' = "msg" => CopyMayFail /\ Len(consumed') > 1
    BY <1>s DEF OneInv
  <2>1. /\ ~CopyMayFail => Len(consumed) = 0
        /\ result = "msg" => CopyMayFail /\ Len(consumed) > 1
    BY <1>0, <1>1, <1>4, <1>n DEF ClientInv, OneInv
  <2>2. ~CopyMayFail => Checking(t)'
    <3>1. cpc \in [ClientThreads -> ClientPCs]
      BY <1>t DEF TypeOK
    <3> QED
      BY <1>p, <3>1 DEF Checking
  <2> QED
    BY <1>p, <1>n, <2>1, <2>2
<1> QED
  BY <1>5, <1>6, <1>8, <1>9, <1>10 DEF ClientInv

LEMMA CheckTakesData ==
    ASSUME Inv, ServerInv, ClientInv, NEW t \in ClientThreads, CheckGetsData(t)
    PROVE  ClientInv'
<1>t. TypeInv /\ TypeOK /\ ClientStep(t) /\ consumed \in Seq(Nat)
  BY DEF Inv, TypeInv, TypeOK, ClientStep
<1>0. /\ UNCHANGED <<respRd, cliHeaders, cliTrailers, ended, reqClosed, sendClosed>>
      /\ ~ctxDone /\ InHand.kind = "data" /\ cpc[t] = "checked"
      /\ consumed' = Append(consumed, InHand.n)
      /\ cpc' = [cpc EXCEPT ![t] = "idle"] /\ respMu' = Unlocked
  BY DEF CheckGetsData, Unlock, sendVars
<1>s. UNCHANGED ctxDone
  BY <1>t, ServerRests
<1>r. Reading(t) /\ Holding(t) /\ Checking(t)
  BY <1>0 DEF Reading, Holding, Receiving, Checking
<1>1. /\ last.kind = "none" /\ ~Settled /\ ~ended /\ result \in {"none", "msg", "copyErr"}
      /\ InHand \in Frame
  BY <1>t, <1>0, <1>r, Undecided, FrameInHand DEF ClientInv
<1>p. \/ last'.kind = "many" /\ cState' = "Closed" /\ result' = "many"
      \/ CopyMayFail /\ result' = "msg" /\ last'.kind = "none" /\ cState' = cState
  BY <1>1 DEF CheckGetsData, ManyFrame
<1>n. Len(consumed') = Len(consumed) + 1 /\ Len(consumed) \in Nat /\ Len(consumed) > 0
  <2>1. InHand.n \in Nat
    BY <1>1 DEF Frame
  <2> QED
    BY <1>t, <1>0, <1>r, <2>1, AppendProperties DEF ClientInv, PlaceInv
<1>2. /\ cpc'[t] = "idle"
      /\ \A u \in ClientThreads : u # t => cpc'[u] = cpc[u] /\ ~Reading(u)' /\ ~Holding(u)'
                                          /\ ~Receiving(u)' /\ ~Checking(u)'
  BY <1>t, <1>r, <1>0, OneMoves DEF ClientInv
<1>3. \A u \in ClientThreads : ~Holding(u)' /\ ~Checking(u)' /\ ~Receiving(u)' /\ ~Reading(u)'
  BY <1>2 DEF Holding, Receiving, Checking, Reading
<1>5. PlaceInv'
  BY <1>0, <1>p, <1>3 DEF ClientInv, PlaceInv, Reading
<1>6. GotInv'
  <2>1. Keeps(InHand)
    BY <1>0, <1>p DEF Keeps
  <2> QED
    BY <1>t, <1>0, <1>r, <1>3, <2>1, GotNext
<1>7. ~Settled'
  BY <1>0, <1>1, <1>p DEF Settled
<1>8. SettledInv'
  BY <1>7 DEF SettledInv
<1>9. ResultInv'
  BY <1>p DEF ResultInv
<1>10. OneInv'
  BY <1>p, <1>n DEF OneInv
<1> QED
  BY <1>5, <1>6, <1>8, <1>9, <1>10 DEF ClientInv

LEMMA RecvTakesError ==
    ASSUME Inv, ServerInv, ClientInv, NEW t \in ClientThreads, RecvMsgGetsError(t)
    PROVE  ClientInv'
<1>t. TypeInv /\ TypeOK /\ ClientStep(t) /\ Len(consumed) \in Nat
  BY DEF Inv, TypeInv, TypeOK, ClientStep
<1>0. /\ UNCHANGED <<respRd, cliHeaders, cliTrailers, consumed, reqClosed, sendClosed>>
      /\ ~ctxDone /\ InHand.kind = "error" /\ cpc[t] \in {"received", "checked"}
      /\ cState' = "Closed" /\ last' = InHand /\ ended' = TRUE
      /\ result' = IF cpc[t] = "checked" THEN "msg" ELSE "err"
      /\ cpc' = [cpc EXCEPT ![t] = "idle"] /\ respMu' = Unlocked
  BY DEF RecvMsgGetsError, Unlock, sendVars
<1>s. /\ UNCHANGED <<ctxDone, respLog, headersSet, trailersSet, hret, respSent>>
      /\ (LogDone' <=> LogDone)
  BY <1>t, ServerRests
<1>r. Reading(t) /\ Holding(t) /\ (Checking(t) <=> cpc[t] = "checked")
  BY <1>0 DEF Reading, Holding, Receiving, Checking
<1>1. /\ last.kind = "none" /\ ~Settled /\ ~ended /\ result \in {"none", "msg", "copyErr"}
  BY <1>t, <1>0, <1>r, Undecided DEF ClientInv
<1>2. /\ cpc'[t] = "idle"
      /\ \A u \in ClientThreads : u # t => cpc'[u] = cpc[u] /\ ~Reading(u)' /\ ~Holding(u)'
                                          /\ ~Receiving(u)' /\ ~Checking(u)'
  BY <1>t, <1>r, <1>0, OneMoves DEF ClientInv
<1>3. \A u \in ClientThreads : ~Holding(u)' /\ ~Checking(u)' /\ ~Receiving(u)' /\ ~Reading(u)'
  BY <1>2 DEF Holding, Receiving, Checking, Reading
<1>5. PlaceInv'
  BY <1>0, <1>3 DEF ClientInv, PlaceInv, Reading
<1>6. GotInv'
  <2>1. Keeps(InHand)
    BY <1>0 DEF Keeps
  <2> QED
    BY <1>t, <1>0, <1>r, <1>3, <2>1, GotNext
<1>7. Settled'
  BY <1>0 DEF Settled
<1>8. SettledInv'
  <2>1. /\ LogDone /\ respRd = Len(respLog) /\ Len(consumed) = respSent /\ hret = "err"
        /\ cliHeaders = headersSet /\ cliTrailers = trailersSet
    BY <1>0, <1>r, EndByError
  <2> QED
    BY <1>0, <1>s, <1>3, <2>1 DEF SettledInv
<1>9. ResultInv'
  BY <1>0 DEF ResultInv
<1>10. OneInv'
  <2> SUFFICES ASSUME ~ResponseStream
               PROVE  /\ ~CopyMayFail /\ Len(consumed) > 0 => Len(consumed) = 1
                      /\ cpc[t] = "checked" =>
                           Len(consumed) = 1 \/ (CopyMayFail /\ Len(consumed) > 1)
    BY <1>0, <1>s, <1>7 DEF OneInv
  <2>1. ~CopyMayFail /\ Len(consumed) > 0 => Len(consumed) = 1
    BY <1>0, <1>1 DEF ClientInv, OneInv
  <2>2. cpc[t] = "checked" => Len(consumed) > 0
    BY <1>r DEF ClientInv, PlaceInv
  <2>3. Len(consumed) > 0 => Len(consumed) = 1 \/ Len(consumed) > 1
    BY <1>t, OneOrMore
  <2> QED
    BY <2>1, <2>2, <2>3
<1> QED
  BY <1>5, <1>6, <1>8, <1>9, <1>10 DEF ClientInv

-----------------------------------------------------------------------------
(* The end of the channel, and calls served from what Header has peeked.   *)

LEMMA HeaderSeesEOF ==
    ASSUME Inv, ServerInv, ClientInv, NEW t \in ClientThreads, HeaderGetsEOF(t)
    PROVE  ClientInv'
<1>t. TypeInv /\ TypeOK /\ ClientStep(t)
  BY DEF Inv, TypeInv, ClientStep
<1>0. /\ UNCHANGED <<respRd, last, cliHeaders, cliTrailers, ended, consumed, result,
                     reqClosed, sendClosed>>
      /\ cpc[t] = "peeking" /\ cState' = "Closed" /\ respMu' = Unlocked
      /\ cpc' = [cpc EXCEPT ![t] = "idle"]
  BY DEF HeaderGetsEOF, Unlock, sendVars
<1>s. /\ UNCHANGED <<ctxDone, respLog, headersSet, trailersSet, hret, respSent>>
      /\ (LogDone' <=> LogDone) /\ \A i : DataUpTo(i)' = DataUpTo(i)
  BY <1>t, ServerRests
<1>r. Reading(t) /\ ~Holding(t) /\ ~Checking(t)
  BY <1>0 DEF Reading, Holding, Checking
<1>2. /\ cpc'[t] = "idle"
      /\ \A u \in ClientThreads : u # t => cpc'[u] = cpc[u] /\ ~Reading(u)' /\ ~Holding(u)'
                                          /\ ~Receiving(u)' /\ ~Checking(u)'
  BY <1>t, <1>r, <1>0, OneMoves DEF ClientInv
<1>3. \A u \in ClientThreads : ~Holding(u)' /\ ~Checking(u)' /\ ~Receiving(u)' /\ ~Reading(u)'
  BY <1>2 DEF Holding, Receiving, Checking, Reading
<1>4. \A u \in ClientThreads : ~Holding(u) /\ ~Checking(u)
  BY <1>t, <1>r, OtherReaders DEF ClientInv
<1>5. PlaceInv'
  BY <1>0, <1>3 DEF ClientInv, PlaceInv, Reading
<1>6. Processed' = Processed
  BY <1>0, <1>3, <1>4 DEF Processed, Holding
<1>7. GotInv'
  BY <1>0, <1>s, <1>6 DEF ClientInv, GotInv, Has, Pending
<1>8. Settled' <=> Settled
  BY <1>0 DEF Settled
<1>9. SettledInv'
  BY <1>0, <1>s, <1>3, <1>8 DEF ClientInv, SettledInv
<1>10. ResultInv'
  BY <1>0, <1>s DEF ClientInv, ResultInv
<1>11. OneInv'
  BY <1>0, <1>s, <1>4, <1>8 DEF ClientInv, OneInv
<1> QED
  BY <1>5, <1>7, <1>9, <1>10, <1>11 DEF ClientInv

LEMMA RecvSeesEOF ==
    ASSUME Inv, ServerInv, ClientInv, NEW t \in ClientThreads, RecvMsgGetsEOF(t)
    PROVE  ClientInv'
<1>t. TypeInv /\ TypeOK /\ ClientStep(t) /\ Len(consumed) \in Nat
  BY DEF Inv, TypeInv, TypeOK, ClientStep
<1>0. /\ UNCHANGED <<respRd, last, cliHeaders, cliTrailers, consumed, reqClosed, sendClosed>>
      /\ ~ctxDone /\ ResponsesEnded /\ cpc[t] \in {"receiving", "checking"}
      /\ cState' = "Closed" /\ ended' = TRUE
      /\ result' = IF cpc[t] = "checking" THEN "msg" ELSE "EOF"
      /\ cpc' = [cpc EXCEPT ![t] = "idle"] /\ respMu' = Unlocked
  BY DEF RecvMsgGetsEOF, Unlock, sendVars
<1>s. /\ UNCHANGED <<ctxDone, respLog, headersSet, trailersSet, hret, respSent>>
      /\ (LogDone' <=> LogDone) /\ \A i : DataUpTo(i)' = DataUpTo(i)
  BY <1>t, ServerRests
<1>r. Reading(t) /\ Receiving(t) /\ ~Holding(t) /\ (Checking(t) <=> cpc[t] = "checking")
  BY <1>0 DEF Reading, Holding, Receiving, Checking
<1>1. last.kind = "none"
  BY <1>r DEF ClientInv, PlaceInv
<1>2. /\ cpc'[t] = "idle"
      /\ \A u \in ClientThreads : u # t => cpc'[u] = cpc[u] /\ ~Reading(u)' /\ ~Holding(u)'
                                          /\ ~Receiving(u)' /\ ~Checking(u)'
  BY <1>t, <1>r, <1>0, OneMoves DEF ClientInv
<1>3. \A u \in ClientThreads : ~Holding(u)' /\ ~Checking(u)' /\ ~Receiving(u)' /\ ~Reading(u)'
  BY <1>2 DEF Holding, Receiving, Checking, Reading
<1>4. \A u \in ClientThreads : ~Holding(u)
  BY <1>t, <1>r, OtherReaders DEF ClientInv
<1>5. PlaceInv'
  BY <1>0, <1>3 DEF ClientInv, PlaceInv, Reading
<1>6. Processed' = Processed
  BY <1>0, <1>3, <1>4 DEF Processed, Holding
<1>7. GotInv'
  BY <1>0, <1>s, <1>6 DEF ClientInv, GotInv, Has, Pending
<1>8. Settled'
  BY <1>0, <1>1 DEF Settled
<1>9. SettledInv'
  <2>1. /\ LogDone /\ respRd = Len(respLog) /\ Len(consumed) = respSent /\ hret = "ok"
        /\ cliHeaders = headersSet /\ cliTrailers = trailersSet
    BY <1>0, <1>1, <1>4, EndByEOF
  <2> QED
    BY <1>0, <1>s, <1>1, <1>3, <2>1 DEF SettledInv
<1>10. ResultInv'
  BY <1>0, <1>1 DEF ResultInv
<1>11. OneInv'
  <2> SUFFICES ASSUME ~ResponseStream
               PROVE  /\ ~CopyMayFail /\ Len(consumed) > 0 => Len(consumed) = 1
                      /\ cpc[t] = "checking" =>
                           Len(consumed) = 1 \/ (CopyMayFail /\ Len(consumed) > 1)
    BY <1>0, <1>s, <1>8 DEF OneInv
  <2>1. ~CopyMayFail /\ Len(consumed) > 0 => Len(consumed) = 1
    BY <1>0, <1>1 DEF ClientInv, OneInv
  <2>2. cpc[t] = "checking" => Len(consumed) > 0
    BY <1>r DEF ClientInv, PlaceInv
  <2>3. Len(consumed) > 0 => Len(consumed) = 1 \/ Len(consumed) > 1
    BY <1>t, OneOrMore
  <2> QED
    BY <2>1, <2>2, <2>3
<1> QED
  BY <1>5, <1>7, <1>9, <1>10, <1>11 DEF ClientInv

(* The message Header has peeked: nobody reads, nothing is decided.        *)
LEMMA PeekedDataTaken ==
    ASSUME Inv, ServerInv, ClientInv, NEW t \in ClientThreads, RecvMsgPeekedData(t)
    PROVE  ClientInv'
<1>t. TypeInv /\ TypeOK /\ ClientCall(t) /\ consumed \in Seq(Nat) /\ Len(consumed) \in Nat
      /\ cpc \in [ClientThreads -> ClientPCs]
  BY DEF Inv, TypeInv, TypeOK, ClientCall
<1>0. /\ UNCHANGED <<respRd, cState, cliHeaders, cliTrailers, ended, reqClosed, sendClosed>>
      /\ respMu = Unlocked /\ cpc[t] = "idle" /\ last.kind = "data"
  BY DEF RecvMsgPeekedData, sendVars
<1>s. /\ UNCHANGED <<ctxDone, respLog, headersSet, trailersSet, hret, respSent>>
      /\ \A i : DataUpTo(i)' = DataUpTo(i)
  BY <1>t, ServerRests
<1>1. ~Settled /\ ~ended /\ result \in {"none", "msg", "copyErr"} /\ cState # "Headers"
  <2>1. ~Settled
    BY <1>0 DEF ClientInv, SettledInv
  <2> QED
    BY <1>t, <1>0, <2>1 DEF Settled, TypeOK, ClientInv, ResultInv, PlaceInv
<1>4. \A u \in ClientThreads : ~Holding(u) /\ ~Checking(u) /\ ~Reading(u) /\ ~Receiving(u)
  BY <1>t, <1>0, OtherReaders DEF ClientInv
<1>5. CASE result' = "copyErr" /\ UNCHANGED <<consumed, last, respMu, cpc>>
  <2>1. PlaceInv'
    BY <1>0, <1>4, <1>5 DEF ClientInv, PlaceInv, Reading, Receiving, Checking
  <2>2. Processed' = Processed
    BY <1>0, <1>5 DEF Processed
  <2>3. GotInv'
    BY <1>0, <1>s, <1>5, <2>2 DEF ClientInv, GotInv, Has, Pending
  <2>4. ~Settled'
    BY <1>0, <1>1, <1>5 DEF Settled
  <2>5. SettledInv' /\ ResultInv'
    BY <1>0, <1>5, <2>4 DEF SettledInv, ResultInv
  <2>6. OneInv'
    BY <1>0, <1>s, <1>1, <1>4, <1>5 DEF ClientInv, OneInv
  <2> QED
    BY <2>1, <2>3, <2>5, <2>6 DEF ClientInv
<1>6. CASE consumed' = Append(consumed, last.n) /\ last' = NoFrame /\ MessageCopied(t)
  <2>p. \/ /\ cpc' = [cpc EXCEPT ![t] = "idle"] /\ respMu' = Unlocked
           /\ ResponseStream /\ result' = "msg"
        \/ /\ cpc' = [cpc EXCEPT ![t] = "checking"] /\ respMu' = t /\ result' = result
           /\ ~ResponseStream
    BY <1>6 DEF MessageCopied, Unlock
  <2>l. last'.kind = "none"
    BY <1>6 DEF NoFrame
  <2>n. /\ last.n = Len(consumed) + 1 /\ last.n \in Nat
        /\ Len(consumed') = Len(consumed) + 1
    <3>1. last.n \in Nat
      BY <1>t DEF TypeOK, Frame
    <3> QED
      BY <1>t, <1>0, <1>6, <3>1, AppendProperties DEF ClientInv, GotInv
  <2>1. /\ \/ cpc'[t] = "idle" /\ respMu' = Unlocked
           \/ cpc'[t] = "checking" /\ respMu' = t /\ ~ResponseStream /\ result' = result
        /\ \A u \in ClientThreads : u # t => cpc'[u] = cpc[u] /\ ~Reading(u)' /\ ~Holding(u)'
                                            /\ ~Receiving(u)' /\ ~Checking(u)'
    BY <1>t, <1>0, <2>p, OneMoves DEF ClientInv
  <2>2. \A u \in ClientThreads : ~Holding(u)'
    BY <2>1 DEF Holding
  <2>3. PlaceInv'
    <3>1. Reading(t)' => respMu' = t /\ ~ResponseStream /\ result' = result
      BY <2>1 DEF Reading, Receiving
    <3>2. cpc'[t] \notin {"peeking", "peeked"}
      BY <2>1
    <3>3. Receiving(t)' \/ Checking(t)' => Reading(t)'
      BY DEF Reading, Receiving, Checking
    <3> QED
      BY <1>t, <1>0, <1>1, <2>n, <2>l, <2>1, <3>1, <3>2, <3>3 DEF ClientInv, PlaceInv, Reading
  <2>4. Processed' = Processed
    BY <1>0, <1>4, <2>2 DEF Processed, Holding
  <2>5. GotInv'
    <3>1. \A i \in DOMAIN consumed' : consumed'[i] = i
      <4>1. \A i \in DOMAIN consumed : consumed[i] = i
        BY DEF ClientInv, GotInv
      <4> QED
        BY <1>t, <1>6, <2>n, <4>1, AppendProperties
    <3>2. ~ctxDone =>
            /\ Cardinality(DataUpTo(Processed)) = Len(consumed) + 1
            /\ Has("headers", cliHeaders) /\ Has("trailers", cliTrailers)
            /\ \A i \in 1..Processed : respLog[i].kind # "error"
      BY <1>0 DEF ClientInv, GotInv, Pending
    <3>3. Pending' = 0 /\ Len(consumed') + 0 = Len(consumed) + 1
      BY <1>t, <2>n, <2>l DEF Pending
    <3>4. /\ Has("headers", cliHeaders)' <=> Has("headers", cliHeaders)
          /\ Has("trailers", cliTrailers)' <=> Has("trailers", cliTrailers)
      BY <1>0, <1>s, <2>4 DEF Has
    <3> QED
      BY <1>s, <2>l, <2>4, <3>1, <3>2, <3>3, <3>4 DEF GotInv
  <2>6. ~Settled'
    BY <1>0, <1>1, <2>l DEF Settled
  <2>7. SettledInv'
    BY <2>6 DEF SettledInv
  <2>8. ResultInv'
    BY <1>1, <2>p, <2>l DEF ResultInv
  <2>9. OneInv'
    <3> SUFFICES ASSUME ~ResponseStream, ~ctxDone
                 PROVE  /\ ~CopyMayFail /\ Len(consumed') > 0 =>
                              Len(consumed') = 1 /\ \E u \in ClientThreads : Checking(u)'
                        /\ result' = "msg" => CopyMayFail /\ Len(consumed') > 1
      BY <1>s DEF OneInv
    <3>1. /\ ~CopyMayFail => Len(consumed) = 0
          /\ result = "msg" => CopyMayFail /\ Len(consumed) > 1
      BY <1>t, <1>0, <1>1, <1>4 DEF ClientInv, OneInv
    <3>2. Checking(t)'
      BY <1>t, <2>p DEF Checking
    <3> QED
      BY <1>t, <2>p, <2>n, <3>1, <3>2
  <2> QED
    BY <2>3, <2>5, <2>7, <2>8, <2>9 DEF ClientInv
<1> QED
  BY <1>5, <1>6 DEF RecvMsgPeekedData

LEMMA PeekedErrorReturned ==
    ASSUME Inv, ServerInv, ClientInv, NEW t \in ClientThreads, RecvMsgPeekedError(t)
    PROVE  ClientInv'
<1>t. TypeInv /\ TypeOK /\ ClientCall(t)
  BY DEF Inv, TypeInv, ClientCall
<1>0. /\ UNCHANGED <<respRd, respMu, last, cliHeaders, cliTrailers, consumed, cpc,
                     reqClosed, sendClosed>>
      /\ respMu = Unlocked /\ last.kind \in {"error", "many"}
      /\ cState' = "Closed" /\ ended' = TRUE
      /\ result' = IF last.kind = "many" THEN "many" ELSE "err"
  BY DEF RecvMsgPeekedError, sendVars
<1>s. /\ UNCHANGED <<ctxDone, respLog, headersSet, trailersSet, hret, respSent>>
      /\ (LogDone' <=> LogDone) /\ \A i : DataUpTo(i)' = DataUpTo(i)
  BY <1>t, ServerRests
<1>4. \A u \in ClientThreads : ~Holding(u) /\ ~Checking(u) /\ ~Reading(u) /\ ~Receiving(u)
  BY <1>t, <1>0, OtherReaders DEF ClientInv
<1>5. PlaceInv'
  BY <1>0, <1>4 DEF ClientInv, PlaceInv, Reading, Receiving, Checking
<1>6. Processed' = Processed
  BY <1>0 DEF Processed
<1>7. GotInv'
  BY <1>0, <1>s, <1>6 DEF ClientInv, GotInv, Has, Pending
<1>8. (Settled' <=> last.kind = "error") /\ (Settled <=> last.kind = "error")
  BY <1>0 DEF Settled
<1>9. SettledInv'
  BY <1>0, <1>s, <1>4, <1>8 DEF ClientInv, SettledInv, Holding
<1>10. ResultInv'
  BY <1>0 DEF ResultInv
<1>11. OneInv'
  BY <1>0, <1>s, <1>4, <1>8 DEF ClientInv, OneInv
<1> QED
  BY <1>5, <1>7, <1>9, <1>10, <1>11 DEF ClientInv

-----------------------------------------------------------------------------
(* The client's invariant.                                                 *)

LEMMA ClientInit == Init => ClientInv
<1> SUFFICES ASSUME Init PROVE ClientInv
  OBVIOUS
<1> USE DEF Init
<1>0. last.kind = "none" /\ (\A t \in ClientThreads : cpc[t] = "idle") /\ ~Settled
  BY DEF NoFrame, Settled
<1>1. PlaceInv
  BY <1>0 DEF PlaceInv, Reading, Receiving, Checking
<1>2. Processed = 0
  <2>1. ~\E t \in ClientThreads : cpc[t] \in {"peeked", "received", "checked"}
    BY <1>0
  <2>2. Processed = respRd - 0 /\ respRd = 0
    BY <2>1 DEF Processed
  <2> QED
    BY <2>2
<1>3. GotInv
  <2>1. Cardinality(DataUpTo(Processed)) = 0
    BY <1>2, DataInEmpty DEF DataUpTo
  <2>2. Len(consumed) = 0 /\ Pending = 0 /\ DOMAIN consumed = {}
    BY <1>0 DEF Pending
  <2>3. 1..Processed = {}
    BY <1>2
  <2> QED
    BY <1>0, <2>1, <2>2, <2>3 DEF GotInv, Has
<1>4. SettledInv /\ ResultInv
  BY <1>0 DEF SettledInv, ResultInv
<1>5. OneInv
  <2>1. Len(consumed) = 0
    OBVIOUS
  <2> QED
    BY <2>1 DEF OneInv
<1> QED
  BY <1>1, <1>3, <1>4, <1>5 DEF ClientInv

LEMMA ClientNext ==
    ASSUME Inv, ServerInv, ClientInv, [Next]_vars
    PROVE  ClientInv'
<1>t. TypeInv /\ TypeOK /\ cpc \in [ClientThreads -> ClientPCs]
  BY DEF Inv, TypeInv, TypeOK
<1>1. ASSUME NEW t \in ClientThreads,
             ClientSendMsg(t) \/ CloseSend(t) \/ SendMsgWrites(t) \/ SendMsgAbandons(t)
      PROVE  RecvRests
  <2>1. \E pc \in {"idle", "sending", cpc[t]} :
           cpc' = [cpc EXCEPT ![t] = pc] /\ (pc # cpc[t] => cpc[t] \in {"idle", "sending"})
    BY <1>t, <1>1 DEF ClientSendMsg, CloseSend, SendMsgWrites, SendMsgAbandons
  <2>2. \A u \in ClientThreads :
           cpc'[u] = cpc[u] \/ (cpc[u] \in {"idle", "sending"} /\ cpc'[u] \in {"idle", "sending"})
    BY <1>t, <2>1
  <2>3. /\ UNCHANGED recvVars
        /\ sendClosed' => reqClosed' \/ (sendClosed /\ reqClosed' = reqClosed)
    BY <1>1 DEF ClientSendMsg, CloseSend, SendMsgWrites, SendMsgAbandons
  <2> QED
    BY <2>2, <2>3 DEF RecvRests
<1>2. CASE \E t \in ClientThreads : ClientCall(t) \/ ClientStep(t)
  BY <1>t, <1>1, <1>2, ClientRests, ReadingStarts, FrameIsTaken, ReadingAbandoned,
     HeaderTakesFrame, RecvTakesMetadata, RecvTakesData, CheckTakesData, RecvTakesError,
     HeaderSeesEOF, RecvSeesEOF, PeekedDataTaken, PeekedErrorReturned
     DEF ClientCall, ClientStep
<1>3. CASE Cancel \/ Propagate \/ Over \/ UNCHANGED vars \/ FinishStep
           \/ (\E err \in {"ok", "err"} : HandlerReturns(err))
           \/ \E t \in ServerThreads : ServerCall(t) \/ ServerStep(t)
  <2>1. UNCHANGED <<sendVars, recvVars, cpc>>
    BY <1>3, RequestsStay DEF Cancel, Propagate, Over, vars, FinishStep, FinishOnDone,
       FinishLock, FinishWrites, FinishCloses, SvrCancel, HandlerReturns
  <2>2. RecvRests
    BY <2>1 DEF RecvRests, sendVars
  <2> QED
    BY <2>2, ClientRests
<1> QED
  BY <1>2, <1>3 DEF Next

(* What the client stream has made of the frames it has processed: it has  *)
(* each message once and all metadata, it has seen the end only when there *)
(* is nothing more to see, and respMu admits one reader at a time.         *)
THEOREM ClientInvariant == Spec => [](Inv /\ ServerInv /\ ClientInv)
<1>1. Init => ClientInv
  BY ClientInit
<1>2. (Inv /\ ServerInv) /\ ClientInv /\ [Next]_vars => ClientInv'
  BY ClientNext
<1> QED
  BY <1>1, <1>2, ServerInvariant, PTL DEF Spec

LEMMA HasUnion ==
    ASSUME NEW kind, NEW md, Has(kind, md),
           \A i, j \in 1..Processed :
               respLog[i].kind = kind /\ respLog[j].kind = kind => i = j
    PROVE  md = UNION {respLog[i].md : i \in FramesOf(kind)}
<1>1. CASE FramesOf(kind) = {}
  BY <1>1 DEF Has, FramesOf
<1>2. CASE FramesOf(kind) # {}
  <2>1. PICK i \in FramesOf(kind) : TRUE
    BY <1>2
  <2>2. FramesOf(kind) = {i} /\ md = respLog[i].md
    BY <2>1 DEF Has, FramesOf
  <2> QED
    BY <2>2
<1> QED
  BY <1>1, <1>2

(* While the call is not cancelled, peeking at the first frame in Header   *)
(* and the check for a second response neither lose nor repeat nor reorder *)
(* a message or metadata; nor do the handler's goroutines with requests.   *)
THEOREM NothingIsLost == Spec => []NothingLostOrRepeated
<1>1. ASSUME Inv, ServerInv, ClientInv PROVE NothingLostOrRepeated
  <2>t. /\ TypeInv /\ consumed \in Seq(Nat) /\ GotInv /\ SortedInv /\ RequestInv
        /\ respLog \in Seq(Frame)
    BY <1>1 DEF Inv, TypeInv, TypeOK, ServerInv, OrderInv, ClientInv
  <2>1. \A i \in 1..Len(consumed) : consumed[i] = i
    BY <2>t DEF GotInv
  <2>2. FramesOf("data") = DataUpTo(Processed)
    BY DEF FramesOf, DataUpTo, DataIn
  <2>3. \A i \in 1..Processed : i \in DOMAIN respLog /\ i \in Nat
    <3>1. /\ Processed \in Nat /\ Len(respLog) \in Nat /\ Processed <= Len(respLog)
          /\ DOMAIN respLog = 1..Len(respLog)
      BY <2>t, ProcessedIs
    <3> QED
      BY <3>1
  <2>4. ASSUME ~ctxDone, NEW kind \in {"headers", "trailers"}
        PROVE  \A i, j \in 1..Processed :
                  respLog[i].kind = kind /\ respLog[j].kind = kind => i = j
    <3>1. \A i, j \in DOMAIN respLog :
             i < j /\ respLog[i].kind = kind => respLog[j].kind # kind
      BY <2>t, <2>4 DEF SortedInv, FramesInOrder
    <3>2. \A i, j \in 1..Processed : i = j \/ i < j \/ j < i
      BY <2>3
    <3> QED
      BY <2>3, <3>1, <3>2
  <2>5. ~ctxDone =>
          /\ cliHeaders = UNION {respLog[i].md : i \in FramesOf("headers")}
          /\ cliTrailers = UNION {respLog[i].md : i \in FramesOf("trailers")}
    BY <2>t, <2>4, HasUnion DEF GotInv
  <2>6. ~ctxDone =>
          /\ Cardinality(FramesOf("data")) =
                 Len(consumed) + (IF last.kind = "data" THEN 1 ELSE 0)
          /\ last.kind = "data" => last.n = Len(consumed) + 1
    BY <2>t, <2>2 DEF GotInv, Pending
  <2>7. ~svrDone => handled \cup ({taken[t] : t \in ServerThreads} \ {0}) = 1..reqRcvd
    BY <2>t DEF RequestInv
  <2> QED
    BY <2>1, <2>5, <2>6, <2>7 DEF NothingLostOrRepeated
<1> QED
  BY <1>1, ClientInvariant, PTL

(* When RecvMsg reports the end, the handler has returned with that very   *)
(* outcome, and the client has all its messages, headers and trailers.     *)
THEOREM EndOfStreamIsComplete == Spec => []EndIsComplete
<1>1. ASSUME Inv, ServerInv, ClientInv PROVE EndIsComplete
  <2>t. /\ SettledInv /\ ResultInv /\ StageInv /\ hret \in {"none", "ok", "err"}
    BY <1>1 DEF Inv, TypeInv, TypeOK, ServerInv, OrderInv, ClientInv
  <2>1. LogDone => hret # "none"
    BY <2>t DEF LogDone, StageInv, Returned
  <2>2. ended /\ last.kind # "many" => Settled
    BY DEF Settled
  <2>3. /\ result = "EOF" => Settled /\ last.kind = "none"
        /\ result = "err" => Settled /\ last.kind = "error"
    BY <2>t, <2>2 DEF ResultInv
  <2>4. Settled => hret # "none" /\ (hret = "err" <=> last.kind = "error")
    BY <2>t, <2>1 DEF SettledInv
  <2> QED
    BY <2>t, <2>2, <2>3, <2>4 DEF EndIsComplete, SettledInv
<1> QED
  BY <1>1, ClientInvariant, PTL

(* RecvMsg of a method with one response succeeds only when there was      *)
(* exactly one and the handler has returned, unless the call was cancelled *)
(* or a message could not be copied.                                       *)
THEOREM OneResponseOnly == Spec => []OneResponse
<1>1. ASSUME Inv, ServerInv, ClientInv PROVE OneResponse
  <2>t. /\ SettledInv /\ OneInv /\ GotInv /\ StageInv /\ consumed \in Seq(Nat)
    BY <1>1 DEF Inv, TypeInv, TypeOK, ServerInv, OrderInv, ClientInv
  <2>1. LogDone => hret # "none"
    BY <2>t DEF LogDone, StageInv, Returned
  <2>2. Len(consumed) = 1 => consumed = <<1>>
    <3> SUFFICES ASSUME Len(consumed) = 1 PROVE consumed = <<1>>
      OBVIOUS
    <3>1. consumed[1] = 1
      BY <2>t DEF GotInv
    <3> QED
      BY <2>t, <3>1
  <2>3. Settled /\ Len(consumed) = 1 => hret # "none" /\ respSent = 1 /\ consumed = <<1>>
    BY <2>t, <2>1, <2>2 DEF SettledInv
  <2> QED
    BY <2>t, <2>3 DEF OneResponse, OneInv
<1> QED
  BY <1>1, ClientInvariant, PTL

-----------------------------------------------------------------------------
(* The end is final, and the promise is kept.                              *)

(* What the steps that read do to the result.                              *)
LEMMA ResultMoves ==
    ASSUME Inv, ServerInv, ClientInv, NEW t \in ClientThreads, ClientCall(t) \/ ClientStep(t)
    PROVE  \/ result' = result
           \/ /\ result \in {"none", "msg", "copyErr"} /\ ~Settled
              /\ RecvMsgPeekedData(t) \/ RecvMsgGetsData(t) \/ CheckGetsData(t)
           \/ result \notin {"ctx", "many", "err"} /\ RecvMsgGetsError(t)
           \/ result \notin {"ctx", "many", "err"} /\ RecvMsgGetsEOF(t)
           \/ result \notin {"many", "err"} /\ RecvMsgGetsCtxErr(t)
           \/ result # "ctx" /\ RecvMsgPeekedError(t)
<1>t. TypeInv /\ TypeOK /\ PlaceInv /\ SettledInv /\ ResultInv
  BY DEF Inv, TypeInv, ClientInv
<1>1. CASE RecvMsgPeekedData(t)
  <2>1. last.kind = "data"
    BY <1>1 DEF RecvMsgPeekedData
  <2>2. ~Settled
    BY <1>t, <2>1 DEF SettledInv
  <2> QED
    BY <1>t, <1>1, <2>1, <2>2 DEF ResultInv, TypeOK
<1>2. CASE RecvMsgGetsData(t) \/ CheckGetsData(t)
  <2>1. Holding(t) /\ ~ctxDone
    BY <1>2 DEF RecvMsgGetsData, CheckGetsData, Holding
  <2> QED
    BY <1>t, <1>2, <2>1, Undecided DEF ClientInv
<1>3. CASE RecvMsgGetsError(t) \/ RecvMsgGetsEOF(t)
  <2>1. Receiving(t) /\ ~ctxDone
    BY <1>3 DEF RecvMsgGetsError, RecvMsgGetsEOF, Receiving
  <2> QED
    BY <1>t, <1>3, <2>1 DEF PlaceInv, ResultInv
<1>4. CASE RecvMsgGetsCtxErr(t)
  <2>1. Receiving(t)
    BY <1>4 DEF RecvMsgGetsCtxErr, Receiving
  <2> QED
    BY <1>t, <1>4, <2>1 DEF PlaceInv, ResultInv
<1>5. CASE RecvMsgPeekedError(t)
  <2>1. last.kind # "none"
    BY <1>5 DEF RecvMsgPeekedError
  <2> QED
    BY <1>t, <1>5, <2>1 DEF ResultInv
<1>6. CASE result' = result
  BY <1>6
<1> QED
  BY <1>1, <1>2, <1>3, <1>4, <1>5, <1>6 DEF ClientCall, ClientStep, ClientSendMsg,
     CloseSend, Header, RecvMsg, SendMsgWrites, SendMsgAbandons, ReadMessage,
     HeaderGetsFrame, HeaderGetsEOF, HeaderGetsCtxErr, RecvMsgGetsMetadata, recvVars

(* Only the client stream reports anything to the client.                  *)
LEMMA OthersReportNothing ==
    ASSUME [Next]_vars, ~(\E t \in ClientThreads : ClientCall(t) \/ ClientStep(t))
    PROVE  UNCHANGED <<sendVars, recvVars, cpc>>
  BY RequestsStay DEF Next, Cancel, Propagate, Over, vars, FinishStep, FinishOnDone,
     FinishLock, FinishWrites, FinishCloses, SvrCancel, HandlerReturns

(* Once RecvMsg has reported the end every later RecvMsg reports the same, *)
(* except that EOF may give way to a context that is cancelled later.      *)
THEOREM EndOfStreamIsFinal == Spec => EndIsFinal
<1>1. ASSUME Inv, ServerInv, ClientInv, [Next]_vars
      PROVE  [(result \in {"EOF", "err", "many"}) =>
                \/ result' = result
                \/ result = "EOF" /\ result' = "ctx"]_vars
  <2> SUFFICES ASSUME result \in {"EOF", "err", "many"}, result' # result
               PROVE  result = "EOF" /\ result' = "ctx"
    OBVIOUS
  <2>1. PICK t \in ClientThreads : ClientCall(t) \/ ClientStep(t)
    BY <1>1, OthersReportNothing DEF recvVars
  <2>2. PlaceInv /\ ResultInv /\ SettledInv /\ TypeInv
    BY <1>1 DEF ClientInv, Inv
  <2>3. CASE RecvMsgGetsError(t) \/ RecvMsgGetsEOF(t) \/ RecvMsgGetsCtxErr(t)
    <3>1. Receiving(t) /\ (cpc[t] \in {"checking", "checked"} => Checking(t))
      BY <2>3 DEF RecvMsgGetsError, RecvMsgGetsEOF, RecvMsgGetsCtxErr, Receiving, Checking
    <3>2. ~Checking(t) /\ result = "EOF"
      BY <2>2, <3>1 DEF PlaceInv, ResultInv
    <3>3. Settled
      BY <2>2, <3>2 DEF ResultInv, Settled
    <3>4. ~RecvMsgGetsError(t)
      BY <2>2, <3>3 DEF SettledInv, Holding, RecvMsgGetsError
    <3>5. ~RecvMsgGetsEOF(t)
      BY <3>1, <3>2 DEF RecvMsgGetsEOF
    <3> QED
      BY <2>3, <3>1, <3>2, <3>4, <3>5 DEF RecvMsgGetsCtxErr
  <2>4. CASE RecvMsgPeekedError(t)
    BY <2>2, <2>4 DEF RecvMsgPeekedError, ResultInv
  <2> QED
    BY <1>1, <2>1, <2>3, <2>4, ResultMoves
<1> QED
  BY <1>1, ClientInvariant, PTL DEF Spec, EndIsFinal

-----------------------------------------------------------------------------
(* Each step is a step of RpcStream, or one it does not see.               *)

Complete == spc[Main] \in {"finish", "exit", "gone"}

LEMMA PromiseStutters ==
    ASSUME UNCHANGED <<ctxDone, reqSent, sendClosed, handled, hret, respSent>>,
           Complete' <=> Complete, Len(consumed') = Len(consumed), Outcome' = Outcome
    PROVE  UNCHANGED Promise!vars
  BY DEF Promise!vars, Complete

LEMMA PromiseServer ==
    ASSUME Inv, ServerInv, NEW t \in ServerThreads, ServerCall(t) \/ ServerStep(t)
    PROVE  [Promise!Next]_(Promise!vars)
<1> USE ThreadsAssumption
<1>t. /\ TypeOK /\ spc \in [ServerThreads -> ServerPCs] /\ ResponseSide /\ StageInv
  BY DEF Inv, TypeInv, TypeOK, ServerInv, OrderInv
<1>1. UNCHANGED <<ctxDone, reqSent, sendClosed, consumed, result, hret>>
  BY RequestsStay DEF ctxVars, sendVars, recvVars
<1>2. Outcome' = Outcome
  BY <1>1 DEF Outcome
<1>3. Complete' <=> Complete
  <2>1. spc' = spc \/ \E pc \in ServerPCs \ Finished : spc' = [spc EXCEPT ![t] = pc]
    BY DEF Finished, ServerPCs, ServerCall, ServerStep, SetHeader, SendHeader, SetTrailer,
       ServerSendMsg, ServerRecvMsg, SendHeadersWrites, SendHeadersFails,
       SendHeadersReturns, ServerSendMsgWrites, ServerSendMsgAbandons,
       ServerReadMessage, ServerRecvMsgReturns, ServerRecvMsgFails
  <2>2. spc[t] \notin Finished
    BY DEF Finished, ServerCall, ServerStep, SetHeader, SendHeader, SetTrailer,
       ServerSendMsg, ServerRecvMsg, SendHeadersWrites, SendHeadersFails,
       SendHeadersReturns, ServerSendMsgWrites, ServerSendMsgAbandons,
       ServerReadMessage, ServerRecvMsgReturns, ServerRecvMsgFails
  <2> QED
    BY <1>t, <2>1, <2>2 DEF Complete, Finished
<1>4. CASE ServerSendMsgWrites(t)
  <2>1. respSent' = respSent + 1 /\ UNCHANGED handled
    BY <1>4 DEF ServerSendMsgWrites, inVars
  <2>2. ~Complete
    BY <1>t, <1>4, HolderIsAlone DEF ServerSendMsgWrites, Complete, Finished
  <2>3. Promise!Respond
    BY <1>1, <1>2, <1>3, <2>1, <2>2 DEF Promise!Respond, Complete
  <2> QED
    BY <2>3 DEF Promise!Next
<1>5. CASE ServerRecvMsgReturns(t)
  <2>1. /\ respSent' = respSent /\ handled' = handled \cup {taken[t]}
        /\ spc[t] = "received"
    BY <1>5 DEF ServerRecvMsgReturns, outVars
  <2>2. reqRcvd \in Nat /\ reqSent \in Nat /\ reqRcvd <= reqSent
    BY <1>t DEF TypeOK, Buffer
  <2>3. taken[t] \in (1..reqRcvd) \ handled
    BY <2>1 DEF ServerInv, RequestInv
  <2>4. taken[t] \in (1..reqSent) \ handled
    BY <2>2, <2>3
  <2>5. Promise!HandleRequest
    BY <1>1, <1>2, <1>3, <2>1, <2>4 DEF Promise!HandleRequest, Complete
  <2> QED
    BY <2>5 DEF Promise!Next
<1>6. CASE UNCHANGED <<respSent, handled>>
  BY <1>1, <1>2, <1>3, <1>6, PromiseStutters
<1> QED
  BY <1>4, <1>5, <1>6 DEF outVars, inVars, ServerCall, ServerStep, SetHeader, SendHeader,
     SetTrailer, ServerSendMsg, ServerRecvMsg, SendHeadersWrites, SendHeadersFails,
     SendHeadersReturns, ServerSendMsgAbandons, ServerReadMessage, ServerRecvMsgFails

LEMMA PromiseMain ==
    ASSUME Inv, ServerInv,
           Cancel \/ Propagate \/ FinishStep \/ Over \/ UNCHANGED vars
           \/ \E err \in {"ok", "err"} : HandlerReturns(err)
    PROVE  [Promise!Next]_(Promise!vars)
<1> USE ThreadsAssumption
<1>t. /\ TypeOK /\ spc \in [ServerThreads -> ServerPCs] /\ StageInv
  BY DEF Inv, TypeInv, TypeOK, ServerInv, OrderInv
<1>1. UNCHANGED <<reqSent, sendClosed, consumed, result, handled, respSent>>
  BY DEF Cancel, Propagate, FinishStep, FinishOnDone, FinishLock, FinishWrites,
     FinishCloses, SvrCancel, Over, vars, HandlerReturns, sendVars, recvVars, inVars, outVars
<1>2. Outcome' = Outcome
  BY <1>1 DEF Outcome
<1>3. CASE Cancel
  <2>1. ctxDone' = TRUE /\ UNCHANGED <<hret, spc>>
    BY <1>3 DEF Cancel, outVars
  <2>2. Promise!Cancel
    BY <1>1, <1>2, <2>1 DEF Promise!Cancel
  <2> QED
    BY <2>2 DEF Promise!Next
<1>4. CASE \E err \in {"ok", "err"} : HandlerReturns(err)
  <2>1. /\ spc[Main] = "idle" /\ hret' \in {"ok", "err"} /\ ctxDone' = ctxDone
        /\ spc' = [spc EXCEPT ![Main] = "onDone"]
    BY <1>4 DEF HandlerReturns, ctxVars
  <2>2. hret = "none" /\ (Complete' <=> Complete)
    BY <1>t, <2>1 DEF StageInv, Returned, Complete
  <2>3. Promise!Return
    BY <1>1, <1>2, <2>1, <2>2 DEF Promise!Return, Complete
  <2> QED
    BY <2>3 DEF Promise!Next
<1>5. CASE FinishLock
  <2>1. /\ spc[Main] = "lock" /\ UNCHANGED <<ctxDone, hret>>
        /\ spc' = [spc EXCEPT ![Main] = "finish"]
    BY <1>5 DEF FinishLock, ctxVars
  <2>2. hret # "none" /\ Complete'
    BY <1>t, <2>1 DEF StageInv, Returned, Complete
  <2>3. Promise!Complete
    BY <1>1, <1>2, <2>1, <2>2 DEF Promise!Complete, Complete
  <2> QED
    BY <2>3 DEF Promise!Next
<1>6. CASE FinishOnDone \/ FinishWrites \/ FinishCloses \/ SvrCancel
           \/ Propagate \/ Over \/ UNCHANGED vars
  <2>1. UNCHANGED <<ctxDone, hret>>
    BY <1>6 DEF FinishOnDone, FinishWrites, FinishCloses, SvrCancel, Propagate, Over,
       vars, ctxVars, outVars
  <2>2. Complete' <=> Complete
    BY <1>t, <1>6 DEF FinishOnDone, FinishWrites, FinishCloses, SvrCancel, Propagate, Over,
       vars, Complete
  <2> QED
    BY <1>1, <1>2, <2>1, <2>2, PromiseStutters
<1> QED
  BY <1>3, <1>4, <1>5, <1>6 DEF FinishStep

LEMMA PromiseClient ==
    ASSUME Inv, ServerInv, ClientInv, NEW t \in ClientThreads, ClientCall(t) \/ ClientStep(t)
    PROVE  [Promise!Next]_(Promise!vars)
<1>t. /\ TypeInv /\ TypeOK /\ consumed \in Seq(Nat) /\ Len(consumed) \in Nat
      /\ respSent \in Nat /\ RequestSide /\ PlaceInv /\ GotInv /\ SettledInv /\ ResultInv
      /\ StageInv
  BY DEF Inv, TypeInv, TypeOK, ClientInv, ServerInv, OrderInv
<1>1. UNCHANGED <<ctxDone, handled, hret, respSent, spc>>
  BY ClientLeavesServer DEF ctxVars, outVars, inVars
<1>2. Complete' <=> Complete
  BY <1>1 DEF Complete
<1>3. CASE SendMsgWrites(t)
  <2>1. /\ reqSent' = reqSent + 1 /\ cpc[t] = "sending" /\ UNCHANGED <<sendClosed, consumed, result>>
    BY <1>3 DEF SendMsgWrites, recvVars
  <2>2. ~sendClosed
    BY <1>t, <2>1 DEF RequestSide, PlaceInv, Sending
  <2>3. Promise!SendRequest
    BY <1>1, <2>1, <2>2 DEF Promise!SendRequest, Outcome
  <2> QED
    BY <2>3 DEF Promise!Next
<1>4. CASE CloseSend(t)
  <2>1. sendClosed' = TRUE /\ UNCHANGED <<reqSent, consumed, result>>
    BY <1>4 DEF CloseSend, recvVars
  <2>2. Promise!HalfClose
    BY <1>1, <2>1 DEF Promise!HalfClose, Outcome
  <2> QED
    BY <2>2 DEF Promise!Next
<1>5. CASE RecvMsgPeekedData(t) \/ RecvMsgGetsData(t) \/ CheckGetsData(t)
  <2>0. UNCHANGED <<reqSent, sendClosed>>
    BY <1>5 DEF RecvMsgPeekedData, RecvMsgGetsData, CheckGetsData, sendVars
  <2>1. result \in {"none", "msg", "copyErr"}
    <3>1. CASE RecvMsgPeekedData(t)
      <4>1. last.kind = "data"
        BY <3>1 DEF RecvMsgPeekedData
      <4> QED
        BY <1>t, <4>1 DEF ResultInv, TypeOK
    <3>2. CASE RecvMsgGetsData(t) \/ CheckGetsData(t)
      <4>1. Holding(t) /\ ~ctxDone
        BY <3>2 DEF RecvMsgGetsData, CheckGetsData, Holding
      <4> QED
        BY <1>t, <4>1, Undecided
    <3> QED
      BY <1>5, <3>1, <3>2
  <2>2. \E n \in Nat : /\ n = Len(consumed) + 1 /\ n <= respSent
                       /\ \/ consumed' = Append(consumed, n)
                          \/ consumed' = consumed /\ result' = "copyErr"
    <3>1. CASE RecvMsgPeekedData(t)
      <4>1. last.n = Len(consumed) + 1 /\ last.n <= respSent /\ last.n \in Nat
        BY <1>t, <3>1 DEF RecvMsgPeekedData, GotInv
      <4> QED
        BY <3>1, <4>1 DEF RecvMsgPeekedData
    <3>2. CASE RecvMsgGetsData(t) \/ CheckGetsData(t)
      <4>1. /\ Holding(t) /\ ~ctxDone /\ InHand.kind = "data"
            /\ consumed' = Append(consumed, InHand.n)
        BY <3>2 DEF RecvMsgGetsData, CheckGetsData, Holding
      <4>2. InHand.n = Len(consumed) + 1 /\ InHand.n <= respSent
        BY <4>1, NumberInHand
      <4> QED
        BY <1>t, <4>1, <4>2
    <3> QED
      BY <1>5, <3>1, <3>2
  <2>3. /\ result' \in {"none", "msg", "copyErr", "many"}
        /\ result' = "many" => Len(consumed) > 0 /\ Len(consumed') = Len(consumed) + 1
    <3>1. CASE RecvMsgPeekedData(t) \/ RecvMsgGetsData(t)
      BY <2>1, <3>1 DEF RecvMsgPeekedData, RecvMsgGetsData, MessageCopied
    <3>2. CASE CheckGetsData(t)
      <4>1. result' \in {"many", "msg"}
        BY <3>2 DEF CheckGetsData
      <4>2. Len(consumed) > 0
        BY <1>t, <3>2 DEF CheckGetsData, PlaceInv, Checking
      <4>3. result' = "many" => Len(consumed') = Len(consumed) + 1
        BY <1>t, <2>2, AppendProperties
      <4> QED
        BY <4>1, <4>2, <4>3
    <3> QED
      BY <1>5, <3>1, <3>2
  <2>4. Outcome = "open" /\ Outcome' \in {"open", "tooMany"}
        /\ (Outcome' = "tooMany" => result' = "many")
    BY <2>1, <2>3 DEF Outcome
  <2>5. CASE consumed' = consumed /\ result' = "copyErr"
    <3>1. Outcome' = Outcome
      BY <2>4, <2>5 DEF Outcome
    <3> QED
      BY <1>1, <1>2, <2>0, <2>5, <3>1, PromiseStutters
  <2>6. CASE \E n \in Nat : /\ n = Len(consumed) + 1 /\ n <= respSent
                            /\ consumed' = Append(consumed, n)
    <3>1. Len(consumed) < respSent /\ Len(consumed') = Len(consumed) + 1
      BY <1>t, <2>6, AppendProperties
    <3>2. Outcome' = "tooMany" => Len(consumed') > 1
      BY <1>t, <2>3, <2>4, <3>1
    <3>3. Promise!Receive
      BY <1>1, <2>0, <2>4, <3>1, <3>2 DEF Promise!Receive
    <3> QED
      BY <3>3 DEF Promise!Next
  <2> QED
    BY <2>2, <2>5, <2>6
<1>6. CASE RecvMsgGetsError(t) \/ RecvMsgGetsEOF(t)
  <2>0. UNCHANGED <<reqSent, sendClosed, consumed>>
    BY <1>6 DEF RecvMsgGetsError, RecvMsgGetsEOF, sendVars
  <2>1. Receiving(t) /\ ~ctxDone
    BY <1>6 DEF RecvMsgGetsError, RecvMsgGetsEOF, Receiving
  <2>2. last.kind = "none" /\ result \in {"none", "msg", "copyErr", "EOF"}
    BY <1>t, <2>1 DEF PlaceInv, ResultInv, TypeOK
  <2>3. /\ LogDone /\ Len(consumed) = respSent
        /\ hret = (IF RecvMsgGetsError(t) THEN "err" ELSE "ok")
    <3>1. CASE RecvMsgGetsError(t)
      <4>1. Holding(t) /\ InHand.kind = "error"
        BY <3>1 DEF RecvMsgGetsError, Holding
      <4> QED
        BY <2>1, <3>1, <4>1, EndByError
    <3>2. CASE RecvMsgGetsEOF(t) /\ ~RecvMsgGetsError(t)
      <4>1. ResponsesEnded /\ ~Holding(t) /\ Reading(t)
        BY <3>2 DEF RecvMsgGetsEOF, Holding, Reading, Receiving
      <4>2. \A u \in ClientThreads : ~Holding(u)
        BY <1>t, <4>1, OtherReaders
      <4> QED
        BY <2>1, <2>2, <3>2, <4>1, <4>2, EndByEOF
    <3> QED
      BY <1>6, <3>1, <3>2
  <2>4. Complete
    BY <2>3 DEF LogDone, Complete
  <2>5. CASE cpc[t] \in {"checking", "checked"}
    <3>1. result' = "msg"
      BY <1>6, <2>5 DEF RecvMsgGetsError, RecvMsgGetsEOF
    <3>2. result \in {"none", "msg", "copyErr"}
      BY <1>t, <2>5 DEF PlaceInv, Checking
    <3>3. Outcome' = Outcome
      BY <3>1, <3>2 DEF Outcome
    <3> QED
      BY <1>1, <1>2, <2>0, <3>3, PromiseStutters
  <2>6. CASE cpc[t] \notin {"checking", "checked"}
    <3>1. result' = IF hret = "ok" THEN "EOF" ELSE "err"
      BY <1>6, <2>3, <2>6 DEF RecvMsgGetsError, RecvMsgGetsEOF
    <3>2. CASE result = "EOF"
      <4>1. Settled /\ hret # "err"
        BY <1>t, <2>2, <3>2 DEF ResultInv, Settled, SettledInv
      <4>2. result' = result
        BY <2>3, <3>1, <3>2, <4>1
      <4> QED
        BY <1>1, <1>2, <2>0, <4>2, PromiseStutters DEF Outcome
    <3>3. CASE result # "EOF"
      <4>1. Outcome = "open" /\ Outcome' = IF hret = "ok" THEN "EOF" ELSE "err"
        BY <2>2, <3>1, <3>3 DEF Outcome
      <4>2. Promise!End
        BY <1>1, <2>0, <2>3, <2>4, <4>1 DEF Promise!End, Complete
      <4> QED
        BY <4>2 DEF Promise!Next
    <3> QED
      BY <3>2, <3>3
  <2> QED
    BY <2>5, <2>6
<1>7. CASE RecvMsgGetsCtxErr(t)
  <2>0. UNCHANGED <<reqSent, sendClosed, consumed>> /\ ctxDone
    BY <1>7 DEF RecvMsgGetsCtxErr, sendVars
  <2>1. Receiving(t)
    BY <1>7 DEF RecvMsgGetsCtxErr, Receiving
  <2>2. last.kind = "none" /\ result \in {"none", "msg", "copyErr", "EOF", "ctx"}
    BY <1>t, <2>1 DEF PlaceInv, ResultInv, TypeOK
  <2>3. CASE cpc[t] \in {"checking", "checked"}
    <3>1. result' = "msg"
      BY <1>7, <2>3 DEF RecvMsgGetsCtxErr
    <3>2. result \in {"none", "msg", "copyErr"}
      BY <1>t, <2>3 DEF PlaceInv, Checking
    <3>3. Outcome' = Outcome
      BY <3>1, <3>2 DEF Outcome
    <3> QED
      BY <1>1, <1>2, <2>0, <3>3, PromiseStutters
  <2>4. CASE cpc[t] \notin {"checking", "checked"}
    <3>1. result' = "ctx" /\ Outcome' = "ctx"
      BY <1>7, <2>4 DEF RecvMsgGetsCtxErr, Outcome
    <3>2. Outcome \in {"open", "EOF", "ctx"}
      BY <2>2 DEF Outcome
    <3>3. CASE Outcome = "ctx"
      BY <1>1, <1>2, <2>0, <3>1, <3>3, PromiseStutters
    <3>4. CASE Outcome # "ctx"
      <4>1. Promise!Abort
        BY <1>1, <2>0, <3>1, <3>2, <3>4 DEF Promise!Abort
      <4> QED
        BY <4>1 DEF Promise!Next
    <3> QED
      BY <3>3, <3>4
  <2> QED
    BY <2>3, <2>4
<1>8. CASE RecvMsgPeekedError(t)
  <2>0. /\ UNCHANGED <<reqSent, sendClosed, consumed>> /\ last.kind \in {"error", "many"}
        /\ result' = IF last.kind = "many" THEN "many" ELSE "err"
    BY <1>8 DEF RecvMsgPeekedError, sendVars
  <2>1. CASE last.kind = "many"
    <3>1. result' = result
      BY <1>t, <2>0, <2>1 DEF ResultInv
    <3> QED
      BY <1>1, <1>2, <2>0, <3>1, PromiseStutters DEF Outcome
  <2>2. CASE last.kind = "error"
    <3>1. Settled
      BY <2>2 DEF Settled
    <3>2. LogDone /\ Len(consumed) = respSent /\ hret = "err"
      BY <1>t, <2>2, <3>1 DEF SettledInv
    <3>3. Complete
      BY <3>2 DEF LogDone, Complete
    <3>4. result' = "err" /\ result \in {"none", "msg", "copyErr", "err"}
      BY <1>t, <2>0, <2>2 DEF ResultInv, TypeOK
    <3>5. CASE result = "err"
      <4>1. Outcome' = Outcome
        BY <3>4, <3>5 DEF Outcome
      <4> QED
        BY <1>1, <1>2, <2>0, <4>1, PromiseStutters
    <3>6. CASE result # "err"
      <4>1. Outcome = "open" /\ Outcome' = "err"
        BY <3>4, <3>6 DEF Outcome
      <4>2. Promise!End
        BY <1>1, <2>0, <3>2, <3>3, <4>1 DEF Promise!End, Complete
      <4> QED
        BY <4>2 DEF Promise!Next
    <3> QED
      BY <3>5, <3>6
  <2> QED
    BY <2>0, <2>1, <2>2
<1>9. CASE UNCHANGED <<reqSent, sendClosed, consumed, result>>
  BY <1>1, <1>2, <1>9, PromiseStutters DEF Outcome
<1> QED
  BY <1>3, <1>4, <1>5, <1>6, <1>7, <1>8, <1>9 DEF ClientCall, ClientStep, ClientSendMsg,
     Header, RecvMsg, SendMsgAbandons, ReadMessage, HeaderGetsFrame, HeaderGetsEOF,
     HeaderGetsCtxErr, RecvMsgGetsMetadata, recvVars, sendVars

(* The in-process stream implements RpcStream: messages arrive in order,   *)
(* each once; the client learns the handler's own outcome, after it has    *)
(* every message and nothing more can come; and it learns it once.         *)
THEOREM StreamKeepsPromise == Spec => KeepsPromise
<1>1. Init => Promise!Init
  <2> SUFFICES ASSUME Init PROVE Promise!Init
    OBVIOUS
  <2>1. Outcome = "open" /\ Len(consumed) = 0 /\ ~Complete
    BY ThreadsAssumption DEF Init, Outcome, Complete
  <2> QED
    BY <2>1 DEF Init, Promise!Init, Complete
<1>2. (Inv /\ ServerInv /\ ClientInv) /\ [Next]_vars => [Promise!Next]_(Promise!vars)
  BY PromiseServer, PromiseMain, PromiseClient DEF Next
<1> QED
  BY <1>1, <1>2, ClientInvariant, PTL DEF Spec, KeepsPromise, Promise!Spec
=============================================================================
