------------------------- MODULE InprocStreamProofs -------------------------
(***************************************************************************)
(* Theorems about InprocStream for any number of client and server threads *)
(* and any metadata: types, channels that stay closed, and what the        *)
(* server's half writes.                                                   *)
(***************************************************************************)
EXTENDS InprocStream, SequenceTheorems, FiniteSetTheorems, TLAPS

(* A thread that has taken a frame has one in its hand.                    *)
HasFrame ==
    \A t \in ClientThreads :
        cpc[t] \in {"peeked", "received", "checked"} => respRd > 0

TypeInv == TypeOK /\ HasFrame

LEMMA FramesAreFrames ==
    ASSUME NEW md \in SUBSET Keys, NEW n \in Nat
    PROVE  /\ HeadersFrame(md) \in Frame /\ DataFrame(n) \in Frame
           /\ TrailersFrame(md) \in Frame
           /\ ErrorFrame \in Frame /\ ManyFrame \in Frame /\ NoFrame \in Frame
  BY DEF Frame, HeadersFrame, DataFrame, TrailersFrame, ErrorFrame, ManyFrame,
         NoFrame

LEMMA FinalFramesType ==
    ASSUME TypeOK
    PROVE  FinalFrames \in Seq(Frame)
<1> DEFINE H == IF sState = "Headers" /\ headers # {}
                THEN <<HeadersFrame(headers)>> ELSE <<>>
           T == IF trailers # {} THEN <<TrailersFrame(trailers)>> ELSE <<>>
           E == IF hret = "err" THEN <<ErrorFrame>> ELSE <<>>
<1>1. headers \in SUBSET Keys /\ trailers \in SUBSET Keys
  BY DEF TypeOK
<1>2. H \in Seq(Frame) /\ T \in Seq(Frame) /\ E \in Seq(Frame)
  BY <1>1, FramesAreFrames
<1>3. (H \o T) \o E \in Seq(Frame)
  BY <1>2, ConcatProperties
<1> QED
  BY <1>3 DEF FinalFrames

LEMMA InHandType ==
    ASSUME TypeInv, NEW t \in ClientThreads,
           cpc[t] \in {"peeked", "received", "checked"}
    PROVE  /\ InHand \in Frame
           /\ InHand.md \in SUBSET Keys /\ InHand.n \in Nat
<1>1. respRd \in 1..Len(respLog)
  BY DEF TypeInv, TypeOK, HasFrame, Buffer
<1>2. InHand \in Frame
  BY <1>1, ElementOfSeq DEF TypeInv, TypeOK, InHand
<1> QED
  BY <1>2 DEF Frame

-----------------------------------------------------------------------------
(* Type correctness, one lemma per group of actions.                       *)

LEMMA AppendNat ==
    ASSUME NEW s \in Seq(Nat), NEW n \in Nat
    PROVE  Append(s, n) \in Seq(Nat)
  BY AppendProperties

LEMMA TypeInit == Init => TypeInv
<1> SUFFICES ASSUME Init PROVE TypeInv
  OBVIOUS
<1>1. NoFrame \in Frame
  BY FramesAreFrames
<1>2. /\ cpc \in [ClientThreads -> ClientPCs]
      /\ spc \in [ServerThreads -> ServerPCs]
      /\ taken \in [ServerThreads -> Nat]
  BY DEF Init, ClientPCs, ServerPCs
<1>3. HasFrame
  BY DEF Init, HasFrame
<1>4. /\ respLog \in Seq(Frame) /\ todo \in Seq(Frame) /\ consumed \in Seq(Nat)
      /\ Len(respLog) - respRd \in 0..Buffer
      /\ reqSent - reqRcvd \in 0..Buffer
  BY DEF Init, Buffer
<1>5. QED
  BY <1>1, <1>2, <1>3, <1>4 DEF Init, TypeInv, TypeOK

LEMMA TypeClientCall ==
    ASSUME TypeInv, NEW t \in ClientThreads, ClientCall(t)
    PROVE  TypeInv'
<1> USE FramesAreFrames DEF TypeInv, TypeOK, HasFrame, ClientPCs, ServerPCs, Buffer,
          ctxVars, sendVars, recvVars, outVars, inVars
<1>1. CASE ClientSendMsg(t)
  BY <1>1 DEF ClientSendMsg
<1>2. CASE CloseSend(t)
  BY <1>2 DEF CloseSend
<1>3. CASE Header(t)
  BY <1>3 DEF Header
<1>4. CASE RecvMsg(t)
  BY <1>4 DEF RecvMsg
<1>5. CASE RecvMsgPeekedData(t)
  <2>1. last.n \in Nat
    BY DEF Frame
  <2>2. consumed' \in Seq(Nat)
    <3>1. \/ consumed' = consumed
          \/ consumed' = Append(consumed, last.n)
      BY <1>5 DEF RecvMsgPeekedData
    <3>2. Append(consumed, last.n) \in Seq(Nat)
      BY <2>1, AppendNat
    <3> QED
      BY <3>1, <3>2
  <2>3. /\ cpc' \in [ClientThreads -> ClientPCs] /\ HasFrame'
        /\ respMu' \in ClientThreads \cup {Unlocked}
    <3>1. PICK pc \in {"idle", "checking", cpc[t]} : cpc' = [cpc EXCEPT ![t] = pc]
      BY <1>5 DEF RecvMsgPeekedData, MessageCopied, Unlock
    <3>2. respMu' \in {Unlocked, t, respMu} /\ respRd' = respRd
      BY <1>5 DEF RecvMsgPeekedData, MessageCopied, Unlock
    <3> QED
      BY <3>1, <3>2
  <2>4. /\ last' \in Frame /\ cState' \in {cState, "Closed"}
        /\ result' \in {result, "msg", "copyErr", "many"}
    BY <1>5 DEF RecvMsgPeekedData, MessageCopied, Unlock
  <2> QED
    BY <1>5, <2>2, <2>3, <2>4 DEF RecvMsgPeekedData
<1>6. CASE RecvMsgPeekedError(t)
  BY <1>6 DEF RecvMsgPeekedError
<1> QED
  BY <1>1, <1>2, <1>3, <1>4, <1>5, <1>6 DEF ClientCall

LEMMA TypeClientStep ==
    ASSUME TypeInv, NEW t \in ClientThreads, ClientStep(t)
    PROVE  TypeInv'
<1> USE FramesAreFrames DEF TypeInv, TypeOK, HasFrame, ClientPCs, ServerPCs, Buffer,
          ctxVars, sendVars, recvVars, outVars, inVars
<1>1. CASE SendMsgWrites(t)
  BY <1>1 DEF SendMsgWrites, RoomForRequest
<1>2. CASE SendMsgAbandons(t)
  BY <1>2 DEF SendMsgAbandons, SendMayStop
<1>3. CASE ReadMessage(t)
  <2>1. respRd' \in Nat /\ respRd' > 0 /\ Len(respLog') - respRd' \in 0..Buffer
    BY <1>3, LenProperties DEF ReadMessage, ResponseReady
  <2>2. cpc' \in [ClientThreads -> ClientPCs]
    BY <1>3 DEF ReadMessage
  <2> QED
    BY <1>3, <2>1, <2>2 DEF ReadMessage
<1>4. CASE HeaderGetsFrame(t)
  <2>1. /\ InHand \in Frame
        /\ InHand.md \in SUBSET Keys /\ InHand.n \in Nat
    BY <1>4, InHandType DEF HeaderGetsFrame
  <2> QED
    BY <1>4, <2>1 DEF HeaderGetsFrame, Kept, Unlock
<1>5. CASE HeaderGetsEOF(t)
  BY <1>5 DEF HeaderGetsEOF, Unlock
<1>6. CASE HeaderGetsCtxErr(t)
  BY <1>6 DEF HeaderGetsCtxErr, Unlock
<1>7. CASE RecvMsgGetsMetadata(t)
  <2>1. /\ InHand \in Frame
        /\ InHand.md \in SUBSET Keys /\ InHand.n \in Nat
    BY <1>7, InHandType DEF RecvMsgGetsMetadata
  <2> QED
    BY <1>7, <2>1 DEF RecvMsgGetsMetadata, Again
<1>8. CASE RecvMsgGetsData(t)
  <2>1. InHand.n \in Nat
    BY <1>8, InHandType DEF RecvMsgGetsData
  <2>2. consumed' \in Seq(Nat)
    <3>1. \/ consumed' = consumed
          \/ consumed' = Append(consumed, InHand.n)
      BY <1>8 DEF RecvMsgGetsData
    <3>2. Append(consumed, InHand.n) \in Seq(Nat)
      BY <2>1, AppendNat
    <3> QED
      BY <3>1, <3>2
  <2>3. /\ cpc' \in [ClientThreads -> ClientPCs] /\ HasFrame'
        /\ respMu' \in ClientThreads \cup {Unlocked}
    <3>1. PICK pc \in {"idle", "checking", cpc[t]} : cpc' = [cpc EXCEPT ![t] = pc]
      BY <1>8 DEF RecvMsgGetsData, Unlock, MessageCopied
    <3>2. respMu' \in {Unlocked, t, respMu} /\ respRd' = respRd
      BY <1>8 DEF RecvMsgGetsData, Unlock, MessageCopied
    <3> QED
      BY <3>1, <3>2
  <2>4. /\ last' \in Frame /\ cState' \in {cState, "Closed"}
        /\ result' \in {result, "msg", "copyErr", "many"}
    BY <1>8 DEF RecvMsgGetsData, Unlock, MessageCopied
  <2> QED
    BY <1>8, <2>2, <2>3, <2>4 DEF RecvMsgGetsData
<1>9. CASE CheckGetsData(t)
  <2>1. InHand.n \in Nat
    BY <1>9, InHandType DEF CheckGetsData
  <2>2. consumed' \in Seq(Nat)
    <3>1. \/ consumed' = consumed
          \/ consumed' = Append(consumed, InHand.n)
      BY <1>9 DEF CheckGetsData
    <3>2. Append(consumed, InHand.n) \in Seq(Nat)
      BY <2>1, AppendNat
    <3> QED
      BY <3>1, <3>2
  <2>3. /\ cpc' \in [ClientThreads -> ClientPCs] /\ HasFrame'
        /\ respMu' \in ClientThreads \cup {Unlocked}
    <3>1. PICK pc \in {"idle", "checking", cpc[t]} : cpc' = [cpc EXCEPT ![t] = pc]
      BY <1>9 DEF CheckGetsData, Unlock
    <3>2. respMu' \in {Unlocked, t, respMu} /\ respRd' = respRd
      BY <1>9 DEF CheckGetsData, Unlock
    <3> QED
      BY <3>1, <3>2
  <2>4. /\ last' \in Frame /\ cState' \in {cState, "Closed"}
        /\ result' \in {result, "msg", "copyErr", "many"}
    BY <1>9 DEF CheckGetsData, Unlock
  <2> QED
    BY <1>9, <2>2, <2>3, <2>4 DEF CheckGetsData
<1>10. CASE RecvMsgGetsError(t)
  <2>1. /\ InHand \in Frame
        /\ InHand.md \in SUBSET Keys /\ InHand.n \in Nat
    BY <1>10, InHandType DEF RecvMsgGetsError
  <2> QED
    BY <1>10, <2>1 DEF RecvMsgGetsError, Unlock
<1>11. CASE RecvMsgGetsEOF(t)
  BY <1>11 DEF RecvMsgGetsEOF, Unlock
<1>12. CASE RecvMsgGetsCtxErr(t)
  BY <1>12 DEF RecvMsgGetsCtxErr, Unlock
<1> QED
  BY <1>1, <1>2, <1>3, <1>4, <1>5, <1>6, <1>7, <1>8, <1>9, <1>10, <1>11, <1>12 DEF ClientStep

LEMMA TypeServerCall ==
    ASSUME TypeInv, NEW t \in ServerThreads, ServerCall(t)
    PROVE  TypeInv'
<1> USE DEF TypeInv, TypeOK, HasFrame, ClientPCs, ServerPCs, Buffer, ctxVars, sendVars, recvVars, outVars, inVars
<1>1. CASE \E md \in SUBSET Keys : SetHeader(t, md)
  BY <1>1 DEF SetHeader
<1>2. CASE \E md \in SUBSET Keys : SendHeader(t, md)
  <2>1. PICK md \in SUBSET Keys : SendHeader(t, md)
    BY <1>2
  <2>2. \/ sState' = "Messages" /\ mu' = mu /\ spc' = spc
        \/ sState' = sState /\ mu' = t /\ spc' = [spc EXCEPT ![t] = "header"]
    BY <2>1 DEF SendHeader
  <2>3. headers' \subseteq Keys /\ headersSet' \subseteq Keys
    BY <2>1 DEF SendHeader
  <2>4. /\ sState' \in {sState, "Messages"} /\ mu' \in {mu, t}
        /\ spc' \in [ServerThreads -> ServerPCs]
    BY <2>2
  <2>5. UNCHANGED <<ctxVars, sendVars, recvVars, respLog, respClosed, trailers,
                    todo, hret, hdrFrames, respSent, trailersSet, inVars, cpc>>
    BY <2>1 DEF SendHeader
  <2> QED
    BY <2>3, <2>4, <2>5
<1>3. CASE \E md \in SUBSET Keys : SetTrailer(t, md)
  BY <1>3 DEF SetTrailer
<1>4. CASE ServerSendMsg(t)
  <2>1. sState' \in {sState, "Messages"} /\ mu' = t
    BY <1>4 DEF ServerSendMsg
  <2>2. spc' \in [ServerThreads -> ServerPCs]
    BY <1>4 DEF ServerSendMsg
  <2> QED
    BY <1>4, <2>1, <2>2 DEF ServerSendMsg
<1>5. CASE ServerRecvMsg(t)
  BY <1>5 DEF ServerRecvMsg
<1> QED
  BY <1>1, <1>2, <1>3, <1>4, <1>5 DEF ServerCall

(* A frame goes to the end of the log, when the buffer has room for it.    *)
LEMMA TypeAppend ==
    ASSUME TypeOK, RoomForResponse, NEW f \in Frame,
           respLog' = Append(respLog, f), respRd' = respRd
    PROVE  respLog' \in Seq(Frame) /\ Len(respLog') - respRd' \in 0..Buffer
  BY AppendProperties DEF TypeOK, RoomForResponse, Buffer

LEMMA TypeServerStep ==
    ASSUME TypeInv, NEW t \in ServerThreads, ServerStep(t)
    PROVE  TypeInv'
<1> USE DEF TypeInv, TypeOK, HasFrame, ClientPCs, ServerPCs, Buffer, ctxVars, sendVars, recvVars, outVars, inVars
<1>1. CASE SendHeadersWrites(t)
  <2>1. HeadersFrame(headers) \in Frame
    BY FramesAreFrames
  <2>2. respLog' \in Seq(Frame) /\ Len(respLog') - respRd' \in 0..Buffer
    BY <1>1, <2>1, TypeAppend DEF SendHeadersWrites
  <2>3. spc' \in [ServerThreads -> ServerPCs]
    BY <1>1 DEF SendHeadersWrites
  <2> QED
    BY <1>1, <2>2, <2>3 DEF SendHeadersWrites
<1>2. CASE SendHeadersFails(t)
  BY <1>2 DEF SendHeadersFails
<1>3. CASE SendHeadersReturns(t)
  <2>1. mu' \in {mu, Unlocked} /\ spc' \in [ServerThreads -> ServerPCs]
    BY <1>3 DEF SendHeadersReturns
  <2> QED
    BY <1>3, <2>1 DEF SendHeadersReturns
<1>4. CASE ServerSendMsgWrites(t)
  <2>0. respSent' \in Nat
    BY <1>4 DEF ServerSendMsgWrites
  <2>1. DataFrame(respSent') \in Frame
    BY <2>0, FramesAreFrames
  <2>2. respLog' \in Seq(Frame) /\ Len(respLog') - respRd' \in 0..Buffer
    BY <1>4, <2>1, TypeAppend DEF ServerSendMsgWrites
  <2> QED
    BY <1>4, <2>0, <2>2 DEF ServerSendMsgWrites
<1>5. CASE ServerSendMsgAbandons(t)
  BY <1>5 DEF ServerSendMsgAbandons
<1>6. CASE ServerReadMessage(t)
  BY <1>6 DEF ServerReadMessage
<1>7. CASE ServerRecvMsgReturns(t)
  <2>1. handled' \subseteq Nat /\ taken' \in [ServerThreads -> Nat]
    BY <1>7 DEF ServerRecvMsgReturns
  <2> QED
    BY <1>7, <2>1 DEF ServerRecvMsgReturns
<1>8. CASE ServerRecvMsgFails(t)
  BY <1>8 DEF ServerRecvMsgFails
<1> QED
  BY <1>1, <1>2, <1>3, <1>4, <1>5, <1>6, <1>7, <1>8 DEF ServerStep

LEMMA TypeFinish ==
    ASSUME TypeInv, FinishStep
    PROVE  TypeInv'
<1> USE ThreadsAssumption DEF TypeInv, TypeOK, HasFrame, ClientPCs, ServerPCs, Buffer, ctxVars, sendVars, recvVars, outVars, inVars
<1>1. CASE FinishOnDone
  BY <1>1 DEF FinishOnDone
<1>2. CASE FinishLock
  BY <1>2, FinalFramesType DEF FinishLock
<1>3. CASE FinishWrites
  <2>1. Head(todo) \in Frame /\ todo' \in Seq(Frame)
    BY <1>3, HeadTailProperties DEF FinishWrites
  <2>2. respLog' \in Seq(Frame) /\ Len(respLog') - respRd' \in 0..Buffer
    BY <1>3, <2>1, TypeAppend DEF FinishWrites
  <2> QED
    BY <1>3, <2>1, <2>2 DEF FinishWrites
<1>4. CASE FinishCloses
  BY <1>4 DEF FinishCloses
<1>5. CASE SvrCancel
  BY <1>5 DEF SvrCancel
<1> QED
  BY <1>1, <1>2, <1>3, <1>4, <1>5 DEF FinishStep

LEMMA TypeNext == TypeInv /\ [Next]_vars => TypeInv'
<1> SUFFICES ASSUME TypeInv, [Next]_vars PROVE TypeInv'
  OBVIOUS
<1> USE ThreadsAssumption DEF TypeInv, TypeOK, HasFrame, ClientPCs, ServerPCs, Buffer, ctxVars, sendVars, recvVars, outVars, inVars
<1>1. CASE Cancel
  BY <1>1 DEF Cancel
<1>2. CASE Propagate
  BY <1>2 DEF Propagate
<1>3. CASE FinishStep
  BY <1>3, TypeFinish
<1>4. CASE Over
  BY <1>4 DEF Over, vars
<1>5. CASE \E err \in {"ok", "err"} : HandlerReturns(err)
  BY <1>5 DEF HandlerReturns
<1>6. CASE \E t \in ClientThreads : ClientCall(t) \/ ClientStep(t)
  BY <1>6, TypeClientCall, TypeClientStep
<1>7. CASE \E t \in ServerThreads : ServerCall(t) \/ ServerStep(t)
  BY <1>7, TypeServerCall, TypeServerStep
<1>8. CASE UNCHANGED vars
  BY <1>8 DEF vars
<1> QED
  BY <1>1, <1>2, <1>3, <1>4, <1>5, <1>6, <1>7, <1>8 DEF Next

(* Every variable keeps its type, neither Go channel holds more frames     *)
(* than NewStream made room for, and a thread that has taken a frame is    *)
(* looking at one that was written.                                        *)
THEOREM TypeCorrect == Spec => []TypeInv
<1>1. Init => TypeInv
  BY TypeInit
<1>2. TypeInv /\ [Next]_vars => TypeInv'
  BY TypeNext
<1> QED
  BY <1>1, <1>2, PTL DEF Spec

(* Every variable of the in-process stream keeps the type the code gives it. *)
THEOREM TypeSafe == Spec => []TypeOK
<1>1. TypeInv => TypeOK
  BY DEF TypeInv
<1> QED
  BY <1>1, TypeCorrect, PTL

-----------------------------------------------------------------------------
(* No write to a closed channel, and no second close.  The invariant adds  *)
(* who holds reqMu and mu, and that a closed response channel goes with a  *)
(* closed server stream and a goroutine that has left finish.              *)

InMu(t) == spc[t] \in {"header", "headerSent", "msgHeader", "msgHeaderSent",
                       "message", "finish"}

RequestSide ==
    /\ \A t \in ClientThreads : Sending(t) => reqMu = t
    /\ reqClosed => sendClosed /\ \A t \in ClientThreads : ~Sending(t)

ResponseSide ==
    /\ \A t \in ServerThreads : InMu(t) => mu = t
    /\ respClosed => /\ sState = "Closed" /\ spc[Main] \in {"exit", "gone"}
                     /\ \A t \in ServerThreads : ~InMu(t)

(* What both arguments use of TypeOK.                                      *)
PCsOK == /\ cpc \in [ClientThreads -> ClientPCs]
         /\ spc \in [ServerThreads -> ServerPCs]

(* Taking and releasing reqMu keeps a sender its only holder.              *)
LEMMA RequestSideClient ==
    ASSUME PCsOK, RequestSide, NEW t \in ClientThreads,
           ClientCall(t) \/ ClientStep(t)
    PROVE  RequestSide'
<1> USE ThreadsAssumption DEF PCsOK, RequestSide, Sending, ctxVars, sendVars
<1>1. CASE ClientSendMsg(t)
  BY <1>1 DEF ClientSendMsg
<1>2. CASE CloseSend(t)
  BY <1>2 DEF CloseSend
<1>3. CASE Header(t)
  BY <1>3 DEF Header
<1>4. CASE RecvMsg(t)
  BY <1>4 DEF RecvMsg
<1>5. CASE RecvMsgPeekedData(t)
  <2>1. PICK pc \in {"idle", "checking", cpc[t]} : cpc' = [cpc EXCEPT ![t] = pc]
    BY <1>5 DEF RecvMsgPeekedData, MessageCopied, Unlock
  <2>2. cpc[t] # "sending" /\ UNCHANGED sendVars
    BY <1>5 DEF RecvMsgPeekedData
  <2> QED
    BY <2>1, <2>2
<1>6. CASE RecvMsgPeekedError(t)
  BY <1>6 DEF RecvMsgPeekedError
<1>7. CASE SendMsgWrites(t)
  BY <1>7 DEF SendMsgWrites
<1>8. CASE SendMsgAbandons(t)
  BY <1>8 DEF SendMsgAbandons
<1>9. CASE ReadMessage(t)
  BY <1>9 DEF ReadMessage
<1>10. CASE HeaderGetsFrame(t)
  BY <1>10 DEF HeaderGetsFrame, Unlock
<1>11. CASE HeaderGetsEOF(t)
  BY <1>11 DEF HeaderGetsEOF, Unlock
<1>12. CASE HeaderGetsCtxErr(t)
  BY <1>12 DEF HeaderGetsCtxErr, Unlock
<1>13. CASE RecvMsgGetsMetadata(t)
  BY <1>13 DEF RecvMsgGetsMetadata, Again
<1>14. CASE RecvMsgGetsData(t)
  <2>1. PICK pc \in {"idle", "checking", cpc[t]} : cpc' = [cpc EXCEPT ![t] = pc]
    BY <1>14 DEF RecvMsgGetsData, Unlock, MessageCopied
  <2>2. cpc[t] # "sending" /\ UNCHANGED sendVars
    BY <1>14 DEF RecvMsgGetsData
  <2> QED
    BY <2>1, <2>2
<1>15. CASE CheckGetsData(t)
  BY <1>15 DEF CheckGetsData, Unlock
<1>16. CASE RecvMsgGetsError(t)
  BY <1>16 DEF RecvMsgGetsError, Unlock
<1>17. CASE RecvMsgGetsEOF(t)
  BY <1>17 DEF RecvMsgGetsEOF, Unlock
<1>18. CASE RecvMsgGetsCtxErr(t)
  BY <1>18 DEF RecvMsgGetsCtxErr, Unlock
<1> QED
    BY <1>1, <1>2, <1>3, <1>4, <1>5, <1>6, <1>7, <1>8, <1>9, <1>10, <1>11,
     <1>12, <1>13, <1>14, <1>15, <1>16, <1>17, <1>18 DEF ClientCall,
     ClientStep

(* Only a goroutine that holds mu writes; finish closes while it holds it, *)
(* and from then on the state lets nobody start to write.                  *)
LEMMA ResponseSideServer ==
    ASSUME PCsOK, ResponseSide, NEW t \in ServerThreads,
           ServerCall(t) \/ ServerStep(t)
    PROVE  ResponseSide'
<1> USE ThreadsAssumption DEF PCsOK, ResponseSide, InMu, outVars
<1>1. CASE \E md \in SUBSET Keys : SetHeader(t, md)
  BY <1>1 DEF SetHeader
<1>2. CASE \E md \in SUBSET Keys : SendHeader(t, md)
  BY <1>2 DEF SendHeader
<1>3. CASE \E md \in SUBSET Keys : SetTrailer(t, md)
  BY <1>3 DEF SetTrailer
<1>4. CASE ServerSendMsg(t)
  BY <1>4 DEF ServerSendMsg, ServerOpen
<1>5. CASE ServerRecvMsg(t)
  BY <1>5 DEF ServerRecvMsg
<1>6. CASE SendHeadersWrites(t)
  BY <1>6 DEF SendHeadersWrites
<1>7. CASE SendHeadersFails(t)
  BY <1>7 DEF SendHeadersFails
<1>8. CASE SendHeadersReturns(t)
  BY <1>8 DEF SendHeadersReturns
<1>9. CASE ServerSendMsgWrites(t)
  BY <1>9 DEF ServerSendMsgWrites
<1>10. CASE ServerSendMsgAbandons(t)
  BY <1>10 DEF ServerSendMsgAbandons
<1>11. CASE ServerReadMessage(t)
  BY <1>11 DEF ServerReadMessage
<1>12. CASE ServerRecvMsgReturns(t)
  BY <1>12 DEF ServerRecvMsgReturns
<1>13. CASE ServerRecvMsgFails(t)
  BY <1>13 DEF ServerRecvMsgFails
<1> QED
    BY <1>1, <1>2, <1>3, <1>4, <1>5, <1>6, <1>7, <1>8, <1>9, <1>10, <1>11,
     <1>12, <1>13 DEF ServerCall, ServerStep

LEMMA ResponseSideFinish ==
    ASSUME PCsOK, ResponseSide, FinishStep
    PROVE  ResponseSide'
<1> USE ThreadsAssumption DEF PCsOK, ResponseSide, InMu, outVars
<1>1. CASE FinishOnDone
  BY <1>1 DEF FinishOnDone
<1>2. CASE FinishLock
  BY <1>2 DEF FinishLock
<1>3. CASE FinishWrites
  BY <1>3 DEF FinishWrites
<1>4. CASE FinishCloses
  BY <1>4 DEF FinishCloses
<1>5. CASE SvrCancel
  BY <1>5 DEF SvrCancel
<1> QED
    BY <1>1, <1>2, <1>3, <1>4, <1>5 DEF FinishStep

(* Neither side's steps touch what the other side's argument is about.     *)
LEMMA ServerLeavesRequestSide ==
    ASSUME NEW t \in ServerThreads, ServerCall(t) \/ ServerStep(t)
    PROVE  UNCHANGED <<sendVars, cpc>>
  BY DEF ServerCall, ServerStep, SetHeader, SendHeader, SetTrailer,
         ServerSendMsg, ServerRecvMsg, SendHeadersWrites, SendHeadersFails,
         SendHeadersReturns, ServerSendMsgWrites, ServerSendMsgAbandons,
         ServerReadMessage, ServerRecvMsgReturns, ServerRecvMsgFails

LEMMA ClientLeavesResponseSide ==
    ASSUME NEW t \in ClientThreads, ClientCall(t) \/ ClientStep(t)
    PROVE  UNCHANGED <<outVars, spc>>
  BY DEF ClientCall, ClientStep, ClientSendMsg, CloseSend, Header, RecvMsg, RecvMsgPeekedData,
         RecvMsgPeekedError, SendMsgWrites, SendMsgAbandons, ReadMessage,
         HeaderGetsFrame, HeaderGetsEOF, HeaderGetsCtxErr,
         RecvMsgGetsMetadata, RecvMsgGetsData, CheckGetsData,
         RecvMsgGetsError, RecvMsgGetsEOF, RecvMsgGetsCtxErr

LEMMA FinishLeavesRequestSide ==
    ASSUME FinishStep
    PROVE  UNCHANGED <<sendVars, cpc>>
  BY DEF FinishStep, FinishOnDone, FinishLock, FinishWrites, FinishCloses,
         SvrCancel

LEMMA SidesNext ==
    ASSUME PCsOK, RequestSide, ResponseSide, [Next]_vars
    PROVE  RequestSide' /\ ResponseSide'
<1>1. ASSUME UNCHANGED <<sendVars, cpc>> PROVE RequestSide'
  BY <1>1 DEF RequestSide, Sending, sendVars
<1>2. ASSUME UNCHANGED <<outVars, spc>> PROVE ResponseSide'
  BY <1>2 DEF ResponseSide, InMu, outVars
<1>3. CASE Cancel \/ Propagate \/ Over \/ UNCHANGED vars
  BY <1>1, <1>2, <1>3 DEF Cancel, Propagate, Over, vars
<1>4. CASE FinishStep
  BY <1>1, <1>4, FinishLeavesRequestSide, ResponseSideFinish
<1>5. CASE \E err \in {"ok", "err"} : HandlerReturns(err)
  <2>1. RequestSide'
    BY <1>1, <1>5 DEF HandlerReturns
  <2>2. ResponseSide'
    BY <1>5, ThreadsAssumption DEF HandlerReturns, PCsOK, ResponseSide, InMu
  <2> QED
    BY <2>1, <2>2
<1>6. CASE \E t \in ClientThreads : ClientCall(t) \/ ClientStep(t)
  BY <1>2, <1>6, RequestSideClient, ClientLeavesResponseSide
<1>7. CASE \E t \in ServerThreads : ServerCall(t) \/ ServerStep(t)
  BY <1>1, <1>7, ResponseSideServer, ServerLeavesRequestSide
<1> QED
  BY <1>3, <1>4, <1>5, <1>6, <1>7 DEF Next

(* Whatever the helper goroutines of the handler and the threads of the    *)
(* client do, neither Go channel is written to, or closed again, after it  *)
(* was closed: what reqMu, sendClosed, mu and state are for.               *)
THEOREM ClosedChannelsStayClosed == Spec => []NoWriteAfterClose
<1>1. Init => RequestSide /\ ResponseSide
  BY ThreadsAssumption DEF Init, RequestSide, ResponseSide, Sending, InMu
<1>2. TypeOK /\ RequestSide /\ ResponseSide /\ [Next]_vars
        => RequestSide' /\ ResponseSide'
  BY SidesNext DEF TypeOK, PCsOK
<1>3. RequestSide /\ ResponseSide => NoWriteAfterClose
  BY DEF RequestSide, ResponseSide, NoWriteAfterClose, Writing, InMu
<1> QED
  BY <1>1, <1>2, <1>3, TypeSafe, PTL DEF Spec

-----------------------------------------------------------------------------
(* The server's half: the frames come in order, each message is numbered,  *)
(* and what finish has not written yet (todo) completes what is in the     *)
(* channel, as long as the call is not cancelled.                          *)

Returned == {"onDone", "lock", "finish", "exit", "gone"}
Finished == {"finish", "exit", "gone"}

InHeader(t)     == spc[t] \in {"header", "headerSent", "msgHeader", "msgHeaderSent"}
HeaderIsSent(t) == spc[t] \in {"headerSent", "msgHeaderSent"}

(* How far the goroutine of NewStream has come.                            *)
StageInv ==
    /\ hret = "none" <=> spc[Main] \notin Returned
    /\ \A t \in ServerThreads \ {Main} : spc[t] \notin Returned
    /\ spc[Main] \in {"exit", "gone"} => respClosed
    /\ sState = "Closed" => spc[Main] \in {"exit", "gone"}
    /\ todo # <<>> => spc[Main] = "finish"
    /\ svrDone => ctxDone \/ spc[Main] = "gone"

(* What the state of the server stream says about the frames written.      *)
WrittenInv ==
    /\ \A t \in ServerThreads :
          /\ InHeader(t) => sState = "Headers" /\ headers # {}
          /\ spc[t] = "message" => sState = "Messages"
    /\ spc[Main] \notin Finished =>
          \A i \in DOMAIN respLog : respLog[i].kind \in {"headers", "data"}
    /\ spc[Main] \notin Finished /\ sState = "Headers" =>
          \A i \in DOMAIN respLog : respLog[i].kind = "headers"
    /\ spc[Main] \notin Finished /\ sState = "Headers" /\ ~svrDone
       /\ (\A t \in ServerThreads : ~HeaderIsSent(t)) => respLog = <<>>

(* f may follow what is in the channel.                                    *)
MayFollow(f, log) ==
    \A i \in DOMAIN log :
        /\ Rank(log[i]) <= Rank(f)
        /\ f.kind \in {"trailers", "error"} => log[i].kind # f.kind
        /\ f.kind = "headers" => log[i].kind # "headers" \/ (svrDone /\ ctxDone)

Kinds == {"headers", "data", "trailers", "error"}

TodoInv ==
    /\ \A i \in DOMAIN respLog : respLog[i].kind \in Kinds
    /\ \A i \in DOMAIN todo :
          /\ todo[i].kind \in {"headers", "trailers", "error"}
          /\ MayFollow(todo[i], respLog)
    /\ \A i, j \in DOMAIN todo : i < j => Rank(todo[i]) < Rank(todo[j])

(* FramesInOrder, and a second headers frame only when cancelled.          *)
SortedInv ==
    /\ FramesInOrder
    /\ \A i, j \in DOMAIN respLog :
          i < j /\ respLog[i].kind = "headers" /\ respLog[j].kind = "headers"
              => ctxDone

OrderInv == StageInv /\ WrittenInv /\ TodoInv /\ SortedInv

DataIn(log, i) == {j \in 1..i : log[j].kind = "data"}
DataUpTo(i)    == DataIn(respLog, i)

(* Messages are numbered in the order in which they are written.           *)
CountInv ==
    /\ \A i \in DOMAIN respLog :
          respLog[i].kind = "data" => respLog[i].n = Cardinality(DataUpTo(i))
    /\ respSent = Cardinality(DataUpTo(Len(respLog)))

InLog(kind)  == \E i \in DOMAIN respLog : respLog[i].kind = kind
InTodo(kind) == \E i \in DOMAIN todo : todo[i].kind = kind
FramesCarry(kind, md) ==
    /\ \A i \in DOMAIN respLog : respLog[i].kind = kind => respLog[i].md = md
    /\ \A i \in DOMAIN todo : todo[i].kind = kind => todo[i].md = md

PendingInv ==
    /\ sState = "Headers" => headers = headersSet
    /\ sState = "Messages" => headers = {}
    /\ sState # "Closed" => trailers = trailersSet
    /\ \A t \in ServerThreads : HeaderIsSent(t) => InLog("headers")
    /\ InLog("error") \/ InTodo("error") => hret = "err"

(* Without a cancellation, all metadata the server stream accepted and the *)
(* handler's error are in the channel or still to be written by finish.    *)
MetadataInv ==
    ~ctxDone =>
        /\ FramesCarry("headers", headersSet)
        /\ FramesCarry("trailers", trailersSet)
        /\ headersSet # {} /\ (sState # "Headers" \/ spc[Main] \in Finished) =>
              InLog("headers") \/ InTodo("headers")
        /\ trailersSet # {} /\ spc[Main] \in Finished =>
              InLog("trailers") \/ InTodo("trailers")
        /\ hret = "err" /\ spc[Main] \in Finished => InLog("error") \/ InTodo("error")

(* Every request the handler's goroutines have taken is in one hand.       *)
RequestInv ==
    /\ handled \subseteq 1..reqRcvd
    /\ \A t \in ServerThreads :
          IF spc[t] = "received" THEN taken[t] \in (1..reqRcvd) \ handled
                                 ELSE taken[t] = 0
    /\ \A t, u \in ServerThreads : t # u /\ taken[t] = taken[u] => taken[t] = 0
    /\ ~svrDone => handled \cup ({taken[t] : t \in ServerThreads} \ {0}) = 1..reqRcvd

ServerInv == OrderInv /\ CountInv /\ PendingInv /\ MetadataInv /\ RequestInv

-----------------------------------------------------------------------------
(* Who holds mu, and what that excludes.                                   *)

Inv == TypeInv /\ RequestSide /\ ResponseSide

LEMMA RequestsStay ==
    ASSUME NEW t \in ServerThreads, ServerCall(t) \/ ServerStep(t)
    PROVE  UNCHANGED <<ctxVars, sendVars, recvVars, cpc, hret, todo, respClosed>>
  BY DEF ServerCall, ServerStep, SetHeader, SendHeader, SetTrailer,
         ServerSendMsg, ServerRecvMsg, SendHeadersWrites, SendHeadersFails,
         SendHeadersReturns, ServerSendMsgWrites, ServerSendMsgAbandons,
         ServerReadMessage, ServerRecvMsgReturns, ServerRecvMsgFails, outVars

LEMMA ClientLeavesServer ==
    ASSUME NEW t \in ClientThreads, ClientCall(t) \/ ClientStep(t)
    PROVE  UNCHANGED <<ctxVars, outVars, inVars, spc>>
  BY DEF ClientCall, ClientStep, ClientSendMsg, CloseSend, Header, RecvMsg,
         RecvMsgPeekedData, RecvMsgPeekedError, SendMsgWrites, SendMsgAbandons,
         ReadMessage, HeaderGetsFrame, HeaderGetsEOF, HeaderGetsCtxErr,
         RecvMsgGetsMetadata, RecvMsgGetsData, CheckGetsData,
         RecvMsgGetsError, RecvMsgGetsEOF, RecvMsgGetsCtxErr

(* A goroutine that holds mu is alone, and finish has not begun.           *)
LEMMA HolderIsAlone ==
    ASSUME TypeOK, ResponseSide, StageInv, NEW t \in ServerThreads,
           InHeader(t) \/ spc[t] = "message"
    PROVE  /\ spc[Main] \notin Finished /\ sState # "Closed" /\ mu = t /\ todo = <<>>
           /\ \A u \in ServerThreads : u # t => ~InMu(u)
<1>1. InMu(t)
  BY DEF InMu, InHeader
<1>2. mu = t /\ \A u \in ServerThreads : u # t => ~InMu(u)
  BY <1>1 DEF ResponseSide
<1>3. ~respClosed
  BY <1>1 DEF ResponseSide
<1>4. spc[Main] # "finish"
  BY <1>2, ThreadsAssumption DEF InMu, InHeader
<1> QED
  BY <1>2, <1>3, <1>4 DEF StageInv, Finished

(* So is one that has found mu free and the stream open.                   *)
LEMMA FreeMutex ==
    ASSUME TypeOK, ResponseSide, StageInv, mu = Unlocked
    PROVE  /\ \A u \in ServerThreads : ~InMu(u)
           /\ sState # "Closed" => spc[Main] \notin Finished
<1>1. \A u \in ServerThreads : ~InMu(u)
  BY ThreadsAssumption DEF ResponseSide
<1>2. spc[Main] # "finish"
  BY <1>1, ThreadsAssumption DEF InMu
<1>3. spc[Main] \in {"exit", "gone"} => sState = "Closed"
  BY DEF StageInv, ResponseSide
<1> QED
  BY <1>1, <1>2, <1>3 DEF Finished

LEMMA StageStep ==
    ASSUME TypeOK, ResponseSide, StageInv, [Next]_vars
    PROVE  StageInv'
<1> USE ThreadsAssumption DEF StageInv, Returned, TypeOK, ctxVars, outVars, inVars
<1>1. CASE Cancel \/ Propagate \/ Over \/ UNCHANGED vars
  BY <1>1 DEF Cancel, Propagate, Over, vars
<1>2. CASE \E t \in ClientThreads : ClientCall(t) \/ ClientStep(t)
  BY <1>2, ClientLeavesServer
<1>3. CASE \E t \in ServerThreads : ServerCall(t) \/ ServerStep(t)
  <2>1. PICK t \in ServerThreads : ServerCall(t) \/ ServerStep(t)
    BY <1>3
  <2>2. UNCHANGED <<ctxDone, svrDone, hret, todo, respClosed>>
    BY <2>1, RequestsStay
  <2>3. spc[t] \notin Returned /\ \E pc \in ServerPCs \ Returned :
            spc' = [spc EXCEPT ![t] = pc] \/ spc' = spc
    <3> USE DEF ServerPCs
    <3>1. CASE ServerCall(t)
      BY <3>1 DEF ServerCall, SetHeader, SendHeader, SetTrailer, ServerSendMsg, ServerRecvMsg
    <3>2. CASE ServerStep(t)
      BY <3>2 DEF ServerStep, SendHeadersWrites, SendHeadersFails, SendHeadersReturns,
         ServerSendMsgWrites, ServerSendMsgAbandons, ServerReadMessage,
         ServerRecvMsgReturns, ServerRecvMsgFails
    <3> QED
      BY <2>1, <3>1, <3>2
  <2>4. sState' = "Closed" => sState = "Closed"
    BY <2>1 DEF ServerCall, ServerStep, SetHeader, SendHeader, SetTrailer,
         ServerSendMsg, ServerRecvMsg, SendHeadersWrites, SendHeadersFails,
         SendHeadersReturns, ServerSendMsgWrites, ServerSendMsgAbandons,
         ServerReadMessage, ServerRecvMsgReturns, ServerRecvMsgFails
  <2>5. \A u \in ServerThreads : spc'[u] = spc[u] \/ (u = t /\ spc'[u] \notin Returned)
    BY <2>3
  <2> QED
    BY <2>1, <2>2, <2>3, <2>4, <2>5
<1>4. CASE \E err \in {"ok", "err"} : HandlerReturns(err)
  BY <1>4 DEF HandlerReturns
<1>5. CASE FinishOnDone
  BY <1>5 DEF FinishOnDone
<1>6. CASE FinishLock
  BY <1>6 DEF FinishLock
<1>7. CASE FinishWrites
  BY <1>7 DEF FinishWrites
<1>8. CASE FinishCloses
  BY <1>8 DEF FinishCloses
<1>9. CASE SvrCancel
  BY <1>9 DEF SvrCancel
<1> QED
  BY <1>1, <1>2, <1>3, <1>4, <1>5, <1>6, <1>7, <1>8, <1>9 DEF Next, FinishStep

-----------------------------------------------------------------------------
(* Adding a frame to the channel.                                          *)

LEMMA Appended ==
    ASSUME TypeOK, NEW f \in Frame, respLog' = Append(respLog, f)
    PROVE  /\ DOMAIN respLog = 1..Len(respLog) /\ Len(respLog) \in Nat
           /\ DOMAIN respLog' = 1..(Len(respLog) + 1)
           /\ Len(respLog') = Len(respLog) + 1
           /\ \A i \in 1..Len(respLog) : respLog'[i] = respLog[i]
           /\ respLog'[Len(respLog) + 1] = f
  BY AppendProperties DEF TypeOK

LEMMA SortedAppend ==
    ASSUME TypeOK, SortedInv, NEW f \in Frame, respLog' = Append(respLog, f),
           MayFollow(f, respLog), svrDone => svrDone', ctxDone => ctxDone'
    PROVE  SortedInv'
<1> DEFINE n == Len(respLog) + 1
<1>1. /\ \A i \in DOMAIN respLog' : i \in DOMAIN respLog \/ i = n
      /\ \A i \in DOMAIN respLog : respLog'[i] = respLog[i] /\ i < n
      /\ respLog'[n] = f
  BY Appended
<1>2. ASSUME NEW i \in DOMAIN respLog', NEW j \in DOMAIN respLog', i < j
      PROVE  i \in DOMAIN respLog /\ (j \in DOMAIN respLog \/ j = n)
  BY <1>2, Appended
<1> HIDE DEF n
<1>3. FramesInOrder'
  <2> SUFFICES ASSUME NEW i \in DOMAIN respLog', NEW j \in DOMAIN respLog', i < j
               PROVE  /\ Rank(respLog'[i]) <= Rank(respLog'[j])
                      /\ respLog'[i].kind \in {"trailers", "error"} =>
                            respLog'[i].kind # respLog'[j].kind
                      /\ respLog'[i].kind = "headers" /\ respLog'[j].kind = "headers"
                            => svrDone'
    BY DEF FramesInOrder, Rank
  <2>1. CASE j \in DOMAIN respLog
    BY <1>1, <1>2, <2>1 DEF SortedInv, FramesInOrder
  <2>2. CASE j = n
    BY <1>1, <1>2, <2>2 DEF MayFollow
  <2> QED
    BY <1>2, <2>1, <2>2
<1>4. \A i, j \in DOMAIN respLog' :
          i < j /\ respLog'[i].kind = "headers" /\ respLog'[j].kind = "headers"
              => ctxDone'
  BY <1>1, <1>2 DEF SortedInv, MayFollow
<1> QED
  BY <1>3, <1>4 DEF SortedInv

LEMMA FollowAppended ==
    ASSUME TypeOK, NEW f \in Frame, respLog' = Append(respLog, f), NEW g,
           MayFollow(g, respLog), Rank(f) <= Rank(g), f.kind # g.kind,
           svrDone => svrDone', ctxDone => ctxDone', g' = g
    PROVE  MayFollow(g, respLog)'
  BY Appended DEF MayFollow, Rank

(* Sequences of two and three elements, put together.                      *)
LEMMA AddOne ==
    ASSUME NEW a, NEW b, NEW c
    PROVE  <<a>> \o <<b>> = <<a, b>> /\ <<a, b>> \o <<c>> = <<a, b, c>>
<1> DEFINE S == {a, b, c}
<1>1. /\ <<a>> \in Seq(S) /\ <<b>> \in Seq(S) /\ <<c>> \in Seq(S) 
      /\ <<a, b>> \in Seq(S) /\ <<a, b, c>> \in Seq(S)
  OBVIOUS
<1> HIDE DEF S
<1>2. <<a>> \o <<b>> = <<a, b>>
  <2> DEFINE s == <<a>> \o <<b>>
  <2>1. s \in Seq(S) /\ Len(s) = 2 /\ s[1] = a /\ s[2] = b
    BY <1>1, ConcatProperties
  <2> HIDE DEF s
  <2>2. \A i \in 1..Len(s) : s[i] = <<a, b>>[i]
    BY <2>1
  <2>3. s = <<a, b>>
    BY <1>1, <2>1, <2>2, SeqEqual
  <2> QED
    BY <2>3 DEF s
<1>3. <<a, b>> \o <<c>> = <<a, b, c>>
  <2> DEFINE s == <<a, b>> \o <<c>>
  <2>1. s \in Seq(S) /\ Len(s) = 3 /\ s[1] = a /\ s[2] = b /\ s[3] = c
    BY <1>1, ConcatProperties
  <2> HIDE DEF s
  <2>2. \A i \in 1..Len(s) : s[i] = <<a, b, c>>[i]
    BY <2>1
  <2>3. s = <<a, b, c>>
    BY <1>1, <2>1, <2>2, SeqEqual
  <2> QED
    BY <2>3 DEF s
<1> QED
  BY <1>2, <1>3

(* What finish will write, whichever of the three frames there are.        *)
LEMMA FinalFramesShape ==
    ASSUME TypeOK
    PROVE  /\ \A i \in DOMAIN FinalFrames :
                 FinalFrames[i] \in {HeadersFrame(headers), TrailersFrame(trailers), ErrorFrame}
           /\ \A i, j \in DOMAIN FinalFrames :
                 i < j => Rank(FinalFrames[i]) < Rank(FinalFrames[j])
           /\ (\E i \in DOMAIN FinalFrames : FinalFrames[i] = HeadersFrame(headers))
                 <=> sState = "Headers" /\ headers # {}
           /\ (\E i \in DOMAIN FinalFrames : FinalFrames[i] = TrailersFrame(trailers))
                 <=> trailers # {}
           /\ (\E i \in DOMAIN FinalFrames : FinalFrames[i] = ErrorFrame)
                 <=> hret = "err"
<1> DEFINE H == HeadersFrame(headers)
           T == TrailersFrame(trailers)
           E == ErrorFrame
<1>1. H.kind = "headers" /\ T.kind = "trailers" /\ E.kind = "error"
  BY DEF HeadersFrame, TrailersFrame, ErrorFrame
<1>2. Rank(H) = 1 /\ Rank(T) = 3 /\ Rank(E) = 4
  BY <1>1 DEF Rank
<1>3. \/ sState = "Headers" /\ headers # {} /\ trailers # {} /\ hret = "err"
         /\ FinalFrames = <<H, T, E>>
      \/ sState = "Headers" /\ headers # {} /\ trailers # {} /\ hret # "err"
         /\ FinalFrames = <<H, T>>
      \/ sState = "Headers" /\ headers # {} /\ trailers = {} /\ hret = "err"
         /\ FinalFrames = <<H, E>>
      \/ sState = "Headers" /\ headers # {} /\ trailers = {} /\ hret # "err"
         /\ FinalFrames = <<H>>
      \/ ~(sState = "Headers" /\ headers # {}) /\ trailers # {} /\ hret = "err"
         /\ FinalFrames = <<T, E>>
      \/ ~(sState = "Headers" /\ headers # {}) /\ trailers # {} /\ hret # "err"
         /\ FinalFrames = <<T>>
      \/ ~(sState = "Headers" /\ headers # {}) /\ trailers = {} /\ hret = "err"
         /\ FinalFrames = <<E>>
      \/ ~(sState = "Headers" /\ headers # {}) /\ trailers = {} /\ hret # "err"
         /\ FinalFrames = <<>>
  <2> HIDE DEF H, T, E
  <2>1. /\ <<H>> \o <<T>> = <<H, T>> /\ <<H, T>> \o <<E>> = <<H, T, E>>
        /\ <<H>> \o <<E>> = <<H, E>> /\ <<T>> \o <<E>> = <<T, E>>
    BY AddOne
  <2>3. /\ <<H>> \o <<>> = <<H>> /\ <<H, T>> \o <<>> = <<H, T>>
        /\ <<>> \o <<T>> = <<T>> /\ <<T>> \o <<>> = <<T>> /\ <<>> \o <<E>> = <<E>>
        /\ <<>> \o <<>> = <<>>
    OBVIOUS
  <2>2. FinalFrames = ((IF sState = "Headers" /\ headers # {} THEN <<H>> ELSE <<>>)
                         \o (IF trailers # {} THEN <<T>> ELSE <<>>))
                         \o (IF hret = "err" THEN <<E>> ELSE <<>>)
    BY DEF FinalFrames, H, T, E
  <2> QED
    BY <2>1, <2>2, <2>3
<1> HIDE DEF H, T, E
<1>4. H # T /\ H # E /\ T # E
  BY <1>1
<1>5. /\ \A i \in DOMAIN FinalFrames : FinalFrames[i] \in {H, T, E}
      /\ \A i, j \in DOMAIN FinalFrames :
             i < j => Rank(FinalFrames[i]) < Rank(FinalFrames[j])
  BY <1>2, <1>3
<1>6. /\ (\E i \in DOMAIN FinalFrames : FinalFrames[i] = H)
             <=> sState = "Headers" /\ headers # {}
      /\ (\E i \in DOMAIN FinalFrames : FinalFrames[i] = T) <=> trailers # {}
      /\ (\E i \in DOMAIN FinalFrames : FinalFrames[i] = E) <=> hret = "err"
  BY <1>3, <1>4
<1> QED
  BY <1>5, <1>6 DEF H, T, E

-----------------------------------------------------------------------------
(* The frames come in order.                                               *)

LEMMA NothingWritten ==
    ASSUME TypeOK, TodoInv, SortedInv, UNCHANGED <<respLog, todo>>,
           svrDone => svrDone', ctxDone => ctxDone'
    PROVE  TodoInv' /\ SortedInv'
  BY DEF TodoInv, SortedInv, FramesInOrder, MayFollow, Rank

LEMMA NobodyInHeader ==
    ASSUME TypeOK, WrittenInv, UNCHANGED <<respLog, sState, headers>>,
           svrDone => svrDone',
           spc[Main] \in Finished => spc[Main]' \in Finished,
           \A t \in ServerThreads :
               /\ InHeader(t)' => InHeader(t)
               /\ HeaderIsSent(t) => HeaderIsSent(t)' \/ svrDone'
               /\ (spc[t] = "message")' => spc[t] = "message"
    PROVE  WrittenInv'
  BY DEF WrittenInv

(* A goroutine that holds mu writes a frame: finish has nothing to write   *)
(* yet.                                                                    *)
LEMMA HolderWrites ==
    ASSUME TypeOK, ResponseSide, OrderInv, NEW t \in ServerThreads,
           InHeader(t) \/ spc[t] = "message", NEW f \in Frame,
           respLog' = Append(respLog, f), UNCHANGED <<ctxVars, todo>>,
           f.kind \in Kinds, MayFollow(f, respLog)
    PROVE  TodoInv' /\ SortedInv'
<1>1. todo' = <<>>
  BY HolderIsAlone DEF OrderInv
<1>2. SortedInv'
  BY SortedAppend DEF OrderInv, ctxVars
<1>3. \A i \in DOMAIN respLog' : respLog'[i].kind \in Kinds
  BY Appended DEF OrderInv, TodoInv
<1> QED
  BY <1>1, <1>2, <1>3 DEF TodoInv

LEMMA OrderServer ==
    ASSUME TypeInv, ResponseSide, OrderInv, NEW t \in ServerThreads,
           ServerCall(t) \/ ServerStep(t)
    PROVE  WrittenInv' /\ TodoInv' /\ SortedInv'
<1> USE ThreadsAssumption
<1>t. TypeOK /\ spc \in [ServerThreads -> ServerPCs]
  BY DEF TypeInv, TypeOK
<1>0. UNCHANGED <<ctxVars, todo>> /\ svrDone' = svrDone /\ ctxDone' = ctxDone
  BY RequestsStay DEF ctxVars
<1>1. CASE UNCHANGED respLog
  <2>1. TodoInv' /\ SortedInv'
    BY <1>t, <1>0, <1>1, NothingWritten DEF OrderInv
  <2> SUFFICES WrittenInv'
    BY <2>1
  <2>3. CASE \E md \in SUBSET Keys : SetHeader(t, md)
    <3>1. /\ headers # {} => headers' # {}
          /\ UNCHANGED <<respLog, sState, spc, svrDone>>
      BY <1>0, <2>3 DEF SetHeader
    <3>2. \A u \in ServerThreads : (InHeader(u)' <=> InHeader(u))
                                    /\ (HeaderIsSent(u)' <=> HeaderIsSent(u))
      BY <3>1 DEF InHeader, HeaderIsSent
    <3> QED
      BY <3>1, <3>2 DEF OrderInv, WrittenInv
  <2>4. CASE \E md \in SUBSET Keys : SendHeader(t, md)
    <3>1. /\ spc[t] = "idle" /\ sState = "Headers" /\ mu = Unlocked
          /\ \/ headers' = {} /\ sState' = "Messages" /\ spc' = spc
             \/ headers' # {} /\ spc' = [spc EXCEPT ![t] = "header"] /\ sState' = sState
      BY <2>4 DEF SendHeader
    <3>2. \A u \in ServerThreads : ~InHeader(u) /\ spc[u] # "message"
      BY <1>t, <3>1, FreeMutex DEF OrderInv, InMu, InHeader
    <3>3. CASE headers' = {} /\ sState' = "Messages" /\ spc' = spc
      BY <1>1, <3>1, <3>2, <3>3 DEF OrderInv, WrittenInv, InHeader
    <3>4. CASE headers' # {} /\ spc' = [spc EXCEPT ![t] = "header"] /\ sState' = sState
      <4>1. /\ \A u \in ServerThreads : ~HeaderIsSent(u) /\ ~HeaderIsSent(u)'
                                         /\ spc'[u] # "message"
            /\ spc'[Main] \notin Finished => spc[Main] \notin Finished
        BY <1>t, <3>1, <3>2, <3>4 DEF HeaderIsSent, InHeader, Finished
      <4> QED
        BY <1>0, <1>1, <3>1, <3>4, <4>1 DEF OrderInv, WrittenInv
    <3> QED
      BY <3>1, <3>3, <3>4
  <2>5. CASE \E md \in SUBSET Keys : SetTrailer(t, md)
    <3>1. UNCHANGED <<respLog, sState, headers, spc, svrDone>>
      BY <1>0, <2>5 DEF SetTrailer
    <3>2. \A u \in ServerThreads : (InHeader(u)' <=> InHeader(u))
                                    /\ (HeaderIsSent(u)' <=> HeaderIsSent(u))
      BY <3>1 DEF InHeader, HeaderIsSent
    <3> QED
      BY <1>t, <3>1, <3>2, NobodyInHeader DEF OrderInv
  <2>6. CASE ServerSendMsg(t)
    <3>1. /\ spc[t] = "idle" /\ mu = Unlocked /\ sState # "Closed" /\ headers' = headers
          /\ \/ /\ sState = "Headers" /\ headers # {} /\ sState' = sState
                /\ spc' = [spc EXCEPT ![t] = "msgHeader"]
             \/ sState' = "Messages" /\ spc' = [spc EXCEPT ![t] = "message"]
      BY <2>6 DEF ServerSendMsg, ServerOpen
    <3>2. \A u \in ServerThreads : ~InHeader(u) /\ spc[u] # "message"
      BY <1>t, <3>1, FreeMutex DEF OrderInv, InMu, InHeader
    <3>3. \A u \in ServerThreads : ~HeaderIsSent(u) /\ ~HeaderIsSent(u)'
      BY <1>t, <3>1, <3>2 DEF HeaderIsSent, InHeader
    <3>4. spc[Main] \notin Finished
      BY <1>t, <3>1, FreeMutex DEF OrderInv
    <3>5. CASE /\ sState = "Headers" /\ headers # {} /\ sState' = sState
               /\ spc' = [spc EXCEPT ![t] = "msgHeader"]
      <4>1. \A u \in ServerThreads : spc'[u] # "message"
        BY <1>t, <3>2, <3>5
      <4> QED
        BY <1>0, <1>1, <3>1, <3>3, <3>4, <3>5, <4>1 DEF OrderInv, WrittenInv
    <3>6. CASE sState' = "Messages" /\ spc' = [spc EXCEPT ![t] = "message"]
      <4>1. \A u \in ServerThreads : ~InHeader(u)'
        BY <1>t, <3>2, <3>6 DEF InHeader
      <4> QED
        BY <1>1, <3>4, <3>6, <4>1 DEF OrderInv, WrittenInv
    <3> QED
      BY <3>1, <3>5, <3>6
  <2>7. CASE SendHeadersReturns(t)
    <3>1. /\ HeaderIsSent(t) /\ sState' = "Messages"
          /\ \E pc \in {"idle", "message"} : spc' = [spc EXCEPT ![t] = pc]
      BY <2>7 DEF SendHeadersReturns, HeaderIsSent
    <3>2. \A u \in ServerThreads : u # t => ~InHeader(u) /\ spc[u] # "message"
      BY <1>t, <3>1, HolderIsAlone DEF OrderInv, InMu, InHeader, HeaderIsSent
    <3>3. \A u \in ServerThreads : ~InHeader(u)'
      BY <1>t, <3>1, <3>2 DEF InHeader
    <3>4. spc[Main] \notin Finished
      BY <1>t, <3>1, HolderIsAlone DEF OrderInv, InHeader, HeaderIsSent
    <3> QED
      BY <1>1, <3>1, <3>3, <3>4 DEF OrderInv, WrittenInv
  <2>8. CASE SendHeadersFails(t) \/ ServerSendMsgAbandons(t) \/ ServerReadMessage(t)
             \/ ServerRecvMsgReturns(t) \/ ServerRecvMsgFails(t) \/ ServerRecvMsg(t)
    <3>1. /\ \E pc \in {"idle", "receiving", "received"} : spc' = [spc EXCEPT ![t] = pc]
          /\ UNCHANGED <<sState, headers>> /\ (HeaderIsSent(t) => svrDone)
          /\ spc[t] \notin Finished
      BY <2>8 DEF SendHeadersFails, ServerSendMsgAbandons, ServerReadMessage,
         ServerRecvMsgReturns, ServerRecvMsgFails, ServerRecvMsg, HeaderIsSent, Finished,
         outVars
    <3>2. \A u \in ServerThreads :
               /\ InHeader(u)' => InHeader(u)
               /\ HeaderIsSent(u) => HeaderIsSent(u)' \/ svrDone'
               /\ (spc[u] = "message")' => spc[u] = "message"
               /\ spc[u] \in Finished => spc[u]' \in Finished
      BY <1>t, <1>0, <3>1 DEF InHeader, HeaderIsSent, Finished
    <3> QED
      BY <1>t, <1>0, <1>1, <3>1, <3>2, NobodyInHeader DEF OrderInv
  <2>9. CASE SendHeadersWrites(t) \/ ServerSendMsgWrites(t)
    <3>1. \E f : respLog' = Append(respLog, f)
      BY <2>9 DEF SendHeadersWrites, ServerSendMsgWrites
    <3>2. Len(respLog') = Len(respLog) + 1 /\ Len(respLog) \in Nat
      BY <1>t, <3>1 DEF TypeOK
    <3> QED
      BY <1>1, <3>2
  <2> QED
    BY <2>3, <2>4, <2>5, <2>6, <2>7, <2>8, <2>9 DEF ServerCall, ServerStep
<1>2. CASE SendHeadersWrites(t)
  <2> DEFINE f == HeadersFrame(headers)
  <2>1. /\ InHeader(t) /\ ~HeaderIsSent(t) /\ respLog' = Append(respLog, f)
        /\ f \in Frame /\ f.kind = "headers"
        /\ \E pc \in {"headerSent", "msgHeaderSent"} : spc' = [spc EXCEPT ![t] = pc]
        /\ UNCHANGED <<sState, headers, svrDone>>
    BY <1>t, <1>0, <1>2, FramesAreFrames
       DEF SendHeadersWrites, InHeader, HeaderIsSent, HeadersFrame, TypeOK
  <2> HIDE DEF f
  <2>2. /\ spc[Main] \notin Finished /\ sState = "Headers" /\ headers # {}
        /\ \A u \in ServerThreads : u # t => ~InMu(u)
    BY <1>t, <2>1, HolderIsAlone DEF OrderInv, WrittenInv
  <2>3. \A i \in DOMAIN respLog : respLog[i].kind = "headers"
    BY <2>2 DEF OrderInv, WrittenInv
  <2>4. ~svrDone => respLog = <<>>
    BY <1>t, <2>1, <2>2 DEF OrderInv, WrittenInv, HeaderIsSent, InMu
  <2>5. svrDone => ctxDone
    BY <2>2 DEF OrderInv, StageInv, Finished
  <2>6. MayFollow(f, respLog)
    BY <2>1, <2>3, <2>4, <2>5 DEF MayFollow, Rank
  <2>7. TodoInv' /\ SortedInv'
    BY <1>t, <1>0, <2>1, <2>6, HolderWrites DEF Kinds
  <2>8. \A i \in DOMAIN respLog' : respLog'[i].kind = "headers"
    BY <1>t, <2>1, <2>3, Appended
  <2>9. HeaderIsSent(t)' /\ \A u \in ServerThreads : (spc[u] = "message")' => u # t
    BY <1>t, <2>1 DEF HeaderIsSent
  <2>10. \A u \in ServerThreads : (spc[u] = "message")' => spc[u] = "message"
    BY <1>t, <2>1
  <2> QED
    BY <1>t, <2>1, <2>2, <2>7, <2>8, <2>9, <2>10 DEF OrderInv, WrittenInv, InHeader
<1>3. CASE ServerSendMsgWrites(t)
  <2> DEFINE f == DataFrame(respSent + 1)
  <2>1. /\ spc[t] = "message" /\ respLog' = Append(respLog, f)
        /\ f \in Frame /\ f.kind = "data" /\ spc' = [spc EXCEPT ![t] = "idle"]
        /\ UNCHANGED <<sState, headers, svrDone>>
    <3>1. respSent + 1 \in Nat
      BY <1>t DEF TypeOK
    <3> QED
      BY <1>3, <1>0, <3>1, FramesAreFrames DEF ServerSendMsgWrites, DataFrame
  <2> HIDE DEF f
  <2>2. spc[Main] \notin Finished /\ sState = "Messages"
    BY <1>t, <2>1, HolderIsAlone DEF OrderInv, WrittenInv
  <2>3. \A i \in DOMAIN respLog : respLog[i].kind \in {"headers", "data"}
    BY <2>2 DEF OrderInv, WrittenInv
  <2>4. MayFollow(f, respLog)
    BY <2>1, <2>3 DEF MayFollow, Rank
  <2>5. TodoInv' /\ SortedInv'
    BY <1>t, <1>0, <2>1, <2>4, HolderWrites DEF Kinds
  <2>6. \A i \in DOMAIN respLog' : respLog'[i].kind \in {"headers", "data"}
    BY <1>t, <2>1, <2>3, Appended
  <2>7. WrittenInv'
    BY <1>t, <2>1, <2>2, <2>6 DEF OrderInv, WrittenInv, InHeader
  <2> QED
    BY <2>5, <2>7
<1>4. UNCHANGED respLog \/ SendHeadersWrites(t) \/ ServerSendMsgWrites(t)
  BY DEF outVars, ServerCall, ServerStep, SetHeader, SendHeader, SetTrailer,
     ServerSendMsg, ServerRecvMsg, SendHeadersFails, SendHeadersReturns,
     ServerSendMsgAbandons, ServerReadMessage, ServerRecvMsgReturns, ServerRecvMsgFails
<1> QED
  BY <1>1, <1>2, <1>3, <1>4

LEMMA OrderFinish ==
    ASSUME TypeInv, ResponseSide, OrderInv, FinishStep
    PROVE  WrittenInv' /\ TodoInv' /\ SortedInv'
<1> USE ThreadsAssumption
<1>t. TypeOK /\ spc \in [ServerThreads -> ServerPCs]
  BY DEF TypeInv, TypeOK
<1>1. CASE FinishOnDone \/ SvrCancel
  <2>1. /\ UNCHANGED <<respLog, todo, sState, headers>>
        /\ svrDone => svrDone'
        /\ ctxDone' = ctxDone
        /\ spc[Main] \in {"onDone", "exit"}
        /\ \E pc \in {"lock", "gone"} : spc' = [spc EXCEPT ![Main] = pc]
        /\ spc[Main] = "exit" => spc'[Main] = "gone"
    BY <1>t, <1>1 DEF FinishOnDone, SvrCancel, outVars
  <2>2. \A u \in ServerThreads :
             /\ InHeader(u)' => InHeader(u)
             /\ HeaderIsSent(u) => HeaderIsSent(u)' \/ svrDone'
             /\ (spc[u] = "message")' => spc[u] = "message"
    BY <1>t, <2>1 DEF InHeader, HeaderIsSent
  <2>3. spc[Main] \in Finished => spc[Main]' \in Finished
    BY <2>1 DEF Finished
  <2> QED
    BY <1>t, <2>1, <2>2, <2>3, NothingWritten, NobodyInHeader DEF OrderInv
<1>2. CASE FinishLock
  <2>1. /\ spc[Main] = "lock" /\ mu = Unlocked /\ todo' = FinalFrames
        /\ spc' = [spc EXCEPT ![Main] = "finish"]
        /\ UNCHANGED <<respLog, svrDone, ctxDone>>
    BY <1>2 DEF FinishLock, ctxVars
  <2>2. /\ spc[Main] \notin Finished /\ spc'[Main] \in Finished
        /\ \A u \in ServerThreads : ~InMu(u)
    BY <1>t, <2>1, FreeMutex DEF OrderInv, Finished
  <2>3. \A u \in ServerThreads : ~InHeader(u) /\ ~HeaderIsSent(u) /\ ~InHeader(u)'
                                /\ spc'[u] # "message"
    BY <1>t, <2>1, <2>2 DEF InHeader, HeaderIsSent, InMu
  <2>4. WrittenInv'
    BY <2>2, <2>3 DEF WrittenInv
  <2>5. SortedInv'
    BY <2>1 DEF OrderInv, SortedInv, FramesInOrder, Rank
  <2>6. ASSUME NEW i \in DOMAIN FinalFrames
        PROVE  /\ FinalFrames[i].kind \in {"headers", "trailers", "error"}
               /\ MayFollow(FinalFrames[i], respLog)
    <3> DEFINE f == FinalFrames[i]
    <3>1. /\ f.kind \in {"headers", "trailers", "error"}
          /\ f.kind = "headers" => sState = "Headers"
      BY <1>t, FinalFramesShape DEF HeadersFrame, TrailersFrame, ErrorFrame
    <3> HIDE DEF f
    <3>2. \A k \in DOMAIN respLog : respLog[k].kind \in {"headers", "data"}
      BY <2>2 DEF OrderInv, WrittenInv
    <3>3. CASE f.kind = "headers"
      <4>1. \A k \in DOMAIN respLog : respLog[k].kind = "headers"
        BY <2>2, <3>1, <3>3 DEF OrderInv, WrittenInv
      <4>2. respLog = <<>> \/ (svrDone /\ ctxDone)
        BY <2>2, <2>3, <3>1, <3>3 DEF OrderInv, WrittenInv, StageInv, Finished
      <4> QED
        BY <3>1, <3>3, <4>1, <4>2 DEF MayFollow, Rank, f
    <3>4. CASE f.kind \in {"trailers", "error"}
      BY <3>1, <3>2, <3>4 DEF MayFollow, Rank, f
    <3> QED
      BY <3>1, <3>3, <3>4 DEF f
  <2>7. \A i, j \in DOMAIN FinalFrames : i < j => Rank(FinalFrames[i]) < Rank(FinalFrames[j])
    BY <1>t, FinalFramesShape
  <2>8. TodoInv'
    BY <2>1, <2>6, <2>7 DEF OrderInv, TodoInv, MayFollow, Rank
  <2> QED
    BY <2>4, <2>5, <2>8
<1>3. CASE FinishWrites
  <2> DEFINE f == Head(todo)
  <2>1. /\ spc[Main] = "finish" /\ todo # <<>> /\ todo' = Tail(todo)
        /\ spc' = spc /\ UNCHANGED <<ctxDone, svrDone>>
        /\ respLog' = respLog \/ respLog' = Append(respLog, f)
    BY <1>3 DEF FinishWrites, ctxVars
  <2>2. /\ f = todo[1] /\ f \in Frame /\ 1 \in DOMAIN todo
        /\ \A i \in DOMAIN todo' : i + 1 \in DOMAIN todo /\ todo'[i] = todo[i + 1] /\ 1 < i + 1
        /\ \A i \in DOMAIN todo' : i \in Nat
    BY <1>t, <2>1, HeadTailProperties DEF TypeOK
  <2> HIDE DEF f
  <2>3. /\ f.kind \in Kinds /\ MayFollow(f, respLog)
        /\ \A i \in DOMAIN todo' : /\ Rank(f) < Rank(todo'[i])
                                   /\ MayFollow(todo'[i], respLog)
                                   /\ todo'[i].kind \in {"headers", "trailers", "error"}
    BY <2>2 DEF OrderInv, TodoInv, Kinds
  <2>4. \A i, j \in DOMAIN todo' : i < j => Rank(todo'[i]) < Rank(todo'[j])
    BY <2>2 DEF OrderInv, TodoInv
  <2>5. WrittenInv'
    <3>1. spc[Main]' \in Finished /\ spc[Main] \in Finished
      BY <2>1 DEF Finished
    <3>2. \A u \in ServerThreads : ~InHeader(u) /\ spc[u] # "message"
      BY <1>t, <3>1, HolderIsAlone DEF OrderInv
    <3>3. \A u \in ServerThreads : ~InHeader(u)' /\ spc'[u] # "message"
      BY <2>1, <3>2 DEF InHeader
    <3> QED
      BY <3>1, <3>3 DEF WrittenInv
  <2>6. CASE respLog' = respLog
    <3>1. SortedInv'
      BY <2>1, <2>6 DEF OrderInv, SortedInv, FramesInOrder, Rank
    <3>3. \A i \in DOMAIN respLog' : respLog'[i].kind \in Kinds
      BY <2>6 DEF OrderInv, TodoInv
    <3> QED
      BY <2>1, <2>3, <2>4, <2>5, <2>6, <3>1, <3>3 DEF TodoInv, MayFollow, Rank
  <2>7. CASE respLog' = Append(respLog, f)
    <3>1. SortedInv'
      BY <1>t, <2>1, <2>2, <2>3, <2>7, SortedAppend DEF OrderInv
    <3>2. /\ \A k \in DOMAIN respLog' : k \in DOMAIN respLog \/ respLog'[k] = f
          /\ \A k \in DOMAIN respLog : respLog'[k] = respLog[k]
      BY <1>t, <2>2, <2>7, Appended
    <3>3. \A i \in DOMAIN todo' : \A k \in DOMAIN respLog' :
              /\ Rank(respLog'[k]) <= Rank(todo'[i])
              /\ todo'[i].kind \in {"trailers", "error"} => respLog'[k].kind # todo'[i].kind
              /\ todo'[i].kind = "headers" => respLog'[k].kind # "headers" \/ (svrDone' /\ ctxDone')
      <4> SUFFICES ASSUME NEW i \in DOMAIN todo', NEW k \in DOMAIN respLog'
                   PROVE  /\ Rank(respLog'[k]) <= Rank(todo'[i])
                          /\ todo'[i].kind \in {"trailers", "error"} =>
                                respLog'[k].kind # todo'[i].kind
                          /\ todo'[i].kind = "headers" =>
                                respLog'[k].kind # "headers" \/ (svrDone' /\ ctxDone')
        OBVIOUS
      <4>1. CASE k \in DOMAIN respLog
        BY <2>1, <2>3, <3>2, <4>1 DEF MayFollow
      <4>2. CASE respLog'[k] = f
        <5>1. f.kind # todo'[i].kind /\ Rank(f) <= Rank(todo'[i])
          BY <2>3 DEF Rank, Kinds
        <5> QED
          BY <4>2, <5>1
      <4> QED
        BY <3>2, <4>1, <4>2
    <3>4. \A i \in DOMAIN respLog' : respLog'[i].kind \in Kinds
      BY <2>3, <3>2 DEF OrderInv, TodoInv
    <3>5. TodoInv'
      BY <2>3, <2>4, <3>3, <3>4 DEF TodoInv, MayFollow, Rank
    <3> QED
      BY <2>5, <3>1, <3>5
  <2> QED
    BY <2>1, <2>6, <2>7
<1>4. CASE FinishCloses
  <2>1. /\ spc[Main] = "finish" /\ spc' = [spc EXCEPT ![Main] = "exit"]
        /\ UNCHANGED <<respLog, todo, svrDone, ctxDone>>
    BY <1>4 DEF FinishCloses, ctxVars
  <2>2. spc[Main] \in Finished /\ spc'[Main] \in Finished
    BY <1>t, <2>1 DEF Finished
  <2>3. \A u \in ServerThreads : ~InHeader(u) /\ spc[u] # "message"
    BY <1>t, <2>2, HolderIsAlone DEF OrderInv
  <2>4. \A u \in ServerThreads : ~InHeader(u)' /\ spc'[u] # "message"
    BY <1>t, <2>1, <2>3 DEF InHeader
  <2> QED
    BY <1>t, <2>1, <2>2, <2>4, NothingWritten DEF OrderInv, WrittenInv
<1> QED
  BY <1>1, <1>2, <1>3, <1>4 DEF FinishStep

LEMMA OrderStep ==
    ASSUME TypeInv, ResponseSide, OrderInv, [Next]_vars
    PROVE  OrderInv'
<1>t. TypeOK
  BY DEF TypeInv
<1>1. StageInv'
  BY <1>t, StageStep DEF OrderInv
<1>2. ASSUME UNCHANGED <<respLog, todo, sState, headers>>, svrDone => svrDone',
             ctxDone => ctxDone',
             \/ spc' = spc
             \/ spc[Main] = "idle" /\ spc' = [spc EXCEPT ![Main] = "onDone"]
      PROVE  WrittenInv' /\ TodoInv' /\ SortedInv'
  <2>1. \A u \in ServerThreads :
             /\ InHeader(u)' => InHeader(u)
             /\ HeaderIsSent(u) => HeaderIsSent(u)' \/ svrDone'
             /\ (spc[u] = "message")' => spc[u] = "message"
    BY <1>2, ThreadsAssumption DEF InHeader, HeaderIsSent, TypeInv, TypeOK
  <2>2. spc[Main] \in Finished => spc[Main]' \in Finished
    BY <1>2 DEF Finished
  <2> QED
    BY <1>t, <1>2, <2>1, <2>2, NothingWritten, NobodyInHeader DEF OrderInv
<1>3. CASE Cancel \/ Propagate \/ Over \/ UNCHANGED vars
  <2>1. /\ UNCHANGED <<respLog, todo, sState, headers, spc>>
        /\ svrDone => svrDone'
        /\ ctxDone => ctxDone'
    BY <1>3 DEF Cancel, Propagate, Over, vars, ctxVars, outVars
  <2> QED
    BY <1>1, <1>2, <2>1 DEF OrderInv
<1>4. CASE \E t \in ClientThreads : ClientCall(t) \/ ClientStep(t)
  <2>1. UNCHANGED <<respLog, todo, sState, headers, spc, svrDone, ctxDone>>
    BY <1>4, ClientLeavesServer DEF ctxVars, outVars
  <2> QED
    BY <1>1, <1>2, <2>1 DEF OrderInv
<1>5. CASE \E err \in {"ok", "err"} : HandlerReturns(err)
  BY <1>1, <1>2, <1>5 DEF OrderInv, HandlerReturns, ctxVars
<1>6. CASE FinishStep
  BY <1>1, <1>6, OrderFinish DEF OrderInv
<1>7. CASE \E t \in ServerThreads : ServerCall(t) \/ ServerStep(t)
  BY <1>1, <1>7, OrderServer DEF OrderInv
<1> QED
  BY <1>3, <1>4, <1>5, <1>6, <1>7 DEF Next

-----------------------------------------------------------------------------
(* Messages are numbered.                                                  *)

LEMMA DataInType ==
    ASSUME NEW log, NEW i \in Nat
    PROVE  IsFiniteSet(DataIn(log, i)) /\ Cardinality(DataIn(log, i)) \in Nat
<1>1. IsFiniteSet(1..i)
  BY FS_Interval
<1>2. DataIn(log, i) \subseteq 1..i
  BY DEF DataIn
<1>3. IsFiniteSet(DataIn(log, i))
  BY <1>1, <1>2, FS_Subset
<1> QED
  BY <1>3, FS_CardinalityType

LEMMA DataInStep ==
    ASSUME NEW log, NEW i \in Nat
    PROVE  Cardinality(DataIn(log, i + 1)) =
             Cardinality(DataIn(log, i)) + (IF log[i + 1].kind = "data" THEN 1 ELSE 0)
<1>1. CASE log[i + 1].kind = "data"
  <2>1. DataIn(log, i + 1) = DataIn(log, i) \cup {i + 1} /\ i + 1 \notin DataIn(log, i)
    BY <1>1 DEF DataIn
  <2> QED
    BY <1>1, <2>1, DataInType, FS_AddElement
<1>2. CASE log[i + 1].kind # "data"
  <2>1. DataIn(log, i + 1) = DataIn(log, i)
    BY <1>2 DEF DataIn
  <2> QED
    BY <1>2, <2>1, DataInType
<1> QED
  BY <1>1, <1>2

LEMMA DataInEmpty == ASSUME NEW log PROVE Cardinality(DataIn(log, 0)) = 0
  BY FS_EmptySet DEF DataIn

LEMMA CountAppend ==
    ASSUME TypeOK, CountInv, NEW f \in Frame, respLog' = Append(respLog, f),
           f.kind = "data" => f.n = respSent + 1,
           respSent' = respSent + (IF f.kind = "data" THEN 1 ELSE 0)
    PROVE  CountInv'
<1> DEFINE n == Len(respLog)
<1>1. /\ DOMAIN respLog = 1..n /\ n \in Nat /\ DOMAIN respLog' = 1..(n + 1)
      /\ Len(respLog') = n + 1 /\ respLog'[n + 1] = f
      /\ \A i \in 1..n : respLog'[i] = respLog[i]
  BY Appended
<1> HIDE DEF n
<1>2. \A i \in 0..n : DataIn(respLog', i) = DataIn(respLog, i)
  BY <1>1 DEF DataIn
<1>3. Cardinality(DataIn(respLog', n + 1)) = respSent'
  <2>1. Cardinality(DataIn(respLog', n)) = respSent
    BY <1>1, <1>2 DEF CountInv, DataUpTo, n
  <2> QED
    BY <1>1, <2>1, DataInStep
<1>4. ASSUME NEW i \in DOMAIN respLog', respLog'[i].kind = "data"
      PROVE  respLog'[i].n = Cardinality(DataIn(respLog', i))
  <2>1. CASE i \in 1..n
    <3>1. respLog'[i] = respLog[i] /\ DataIn(respLog', i) = DataIn(respLog, i)
      BY <1>1, <1>2, <2>1
    <3> QED
      BY <1>1, <1>4, <2>1, <3>1 DEF CountInv, DataUpTo
  <2>2. CASE i = n + 1
    BY <1>1, <1>3, <1>4, <2>2
  <2> QED
    BY <1>1, <2>1, <2>2
<1> QED
  BY <1>1, <1>3, <1>4 DEF CountInv, DataUpTo

(* Three steps write to the channel.                                       *)
LEMMA Writers ==
    ASSUME [Next]_vars
    PROVE  \/ UNCHANGED <<respLog, respSent>> \/ FinishWrites
           \/ \E t \in ServerThreads : SendHeadersWrites(t) \/ ServerSendMsgWrites(t)
<1>1. CASE \E t \in ClientThreads : ClientCall(t) \/ ClientStep(t)
  BY <1>1, ClientLeavesServer DEF outVars
<1>2. CASE \E t \in ServerThreads : ServerCall(t) \/ ServerStep(t)
  BY <1>2 DEF outVars, ServerCall, ServerStep, SetHeader, SendHeader, SetTrailer,
     ServerSendMsg, ServerRecvMsg, SendHeadersFails, SendHeadersReturns,
     ServerSendMsgAbandons, ServerReadMessage, ServerRecvMsgReturns, ServerRecvMsgFails
<1>3. CASE Cancel \/ Propagate \/ Over \/ UNCHANGED vars \/ FinishStep
           \/ \E err \in {"ok", "err"} : HandlerReturns(err)
  BY <1>3 DEF Cancel, Propagate, Over, vars, outVars, FinishStep, FinishOnDone,
     FinishLock, FinishCloses, SvrCancel, HandlerReturns
<1> QED
  BY <1>1, <1>2, <1>3 DEF Next

LEMMA CountStep ==
    ASSUME TypeInv, OrderInv, CountInv, [Next]_vars
    PROVE  CountInv'
<1>t. TypeOK
  BY DEF TypeInv
<1>1. CASE UNCHANGED <<respLog, respSent>>
  BY <1>1 DEF CountInv, DataUpTo
<1>2. ASSUME NEW t \in ServerThreads, SendHeadersWrites(t) PROVE CountInv'
  <2>1. /\ HeadersFrame(headers) \in Frame /\ HeadersFrame(headers).kind # "data"
        /\ respLog' = Append(respLog, HeadersFrame(headers))
        /\ respSent' = respSent + 0
    <3>1. headers \in SUBSET Keys /\ respSent \in Nat /\ respSent' = respSent
      BY <1>t, <1>2 DEF SendHeadersWrites, TypeOK
    <3>2. HeadersFrame(headers) \in Frame /\ HeadersFrame(headers).kind # "data"
      BY <3>1, FramesAreFrames DEF HeadersFrame
    <3> QED
      BY <1>2, <3>1, <3>2 DEF SendHeadersWrites
  <2> QED
    BY <1>t, <2>1, CountAppend
<1>3. ASSUME NEW t \in ServerThreads, ServerSendMsgWrites(t) PROVE CountInv'
  <2> DEFINE f == DataFrame(respSent + 1)
  <2>1. /\ f \in Frame /\ f.kind = "data" /\ f.n = respSent + 1
        /\ respLog' = Append(respLog, f) /\ respSent' = respSent + 1
    <3>1. respSent + 1 \in Nat
      BY <1>t DEF TypeOK
    <3> QED
      BY <1>3, <3>1, FramesAreFrames DEF ServerSendMsgWrites, DataFrame
  <2> HIDE DEF f
  <2> QED
    BY <1>t, <2>1, CountAppend
<1>4. CASE FinishWrites
  <2> DEFINE f == Head(todo)
  <2>1. f \in Frame /\ f = todo[1] /\ 1 \in DOMAIN todo
    BY <1>t, <1>4, HeadTailProperties DEF TypeOK, FinishWrites
  <2>2. /\ f.kind # "data" /\ respSent' = respSent + 0
        /\ respLog' = respLog \/ respLog' = Append(respLog, f)
    <3>1. respSent \in Nat /\ respSent' = respSent
      BY <1>t, <1>4 DEF FinishWrites, TypeOK
    <3>2. f.kind # "data"
      BY <2>1 DEF OrderInv, TodoInv
    <3> QED
      BY <1>4, <3>1, <3>2 DEF FinishWrites
  <2> HIDE DEF f
  <2>3. respSent' = respSent
    BY <1>t, <2>2 DEF TypeOK
  <2> QED
    BY <1>t, <1>1, <2>1, <2>2, <2>3, CountAppend
<1> QED
  BY <1>1, <1>2, <1>3, <1>4, Writers

LEMMA LogGrows ==
    ASSUME TypeInv, [Next]_vars
    PROVE  /\ Len(respLog) \in Nat /\ Len(respLog') \in Nat
           /\ DOMAIN respLog = 1..Len(respLog) /\ DOMAIN respLog' = 1..Len(respLog')
           /\ Len(respLog) <= Len(respLog')
           /\ \A i \in DOMAIN respLog : i \in DOMAIN respLog' /\ respLog'[i] = respLog[i]
<1>1. respLog' = respLog \/ \E f : respLog' = Append(respLog, f)
  BY Writers DEF FinishWrites, SendHeadersWrites, ServerSendMsgWrites
<1>2. respLog \in Seq(Frame) /\ respLog' \in Seq(Frame)
  BY TypeNext DEF TypeInv, TypeOK
<1> QED
  BY <1>1, <1>2

-----------------------------------------------------------------------------
(* Metadata and the handler's error are kept until they are written.       *)

LEMMA InLogStays ==
    ASSUME TypeInv, [Next]_vars, NEW kind, InLog(kind)
    PROVE  InLog(kind)'
  BY LogGrows DEF InLog

LEMMA PendingServer ==
    ASSUME TypeInv, ResponseSide, OrderInv, PendingInv, NEW t \in ServerThreads,
           ServerCall(t) \/ ServerStep(t)
    PROVE  PendingInv'
<1>t. TypeOK /\ spc \in [ServerThreads -> ServerPCs] /\ [Next]_vars
  BY DEF TypeInv, TypeOK, Next
<1>0. UNCHANGED <<todo, hret>>
  BY RequestsStay
<1>1. /\ sState' = "Headers" => headers' = headersSet'
      /\ sState' = "Messages" => headers' = {}
      /\ sState' # "Closed" => trailers' = trailersSet'
  <2> USE DEF PendingInv
  <2>1. CASE \E md \in SUBSET Keys : SetHeader(t, md)
    BY <2>1 DEF SetHeader
  <2>2. CASE \E md \in SUBSET Keys : SendHeader(t, md)
    <3>1. PICK md \in SUBSET Keys : SendHeader(t, md)
      BY <2>2
    <3>2. /\ headers' = headers \cup md /\ headersSet' = headersSet \cup md
          /\ sState = "Headers" /\ UNCHANGED <<trailers, trailersSet>>
          /\ sState' = "Headers" \/ (sState' = "Messages" /\ headers' = {})
      BY <3>1 DEF SendHeader
    <3> QED
      BY <3>2
  <2>3. CASE \E md \in SUBSET Keys : SetTrailer(t, md)
    BY <2>3 DEF SetTrailer
  <2>4. CASE ServerSendMsg(t)
    <3>1. /\ UNCHANGED <<headers, headersSet, trailers, trailersSet>> /\ sState # "Closed"
          /\ sState' = sState \/ (sState' = "Messages" /\ (sState # "Headers" \/ headers = {}))
      BY <2>4 DEF ServerSendMsg, ServerOpen
    <3>2. sState # "Headers" => sState = "Messages"
      BY <1>t, <3>1 DEF TypeOK
    <3> QED
      BY <3>1, <3>2
  <2>5. CASE SendHeadersReturns(t)
    <3>1. HeaderIsSent(t) /\ sState' = "Messages" /\ headers' = {}
          /\ UNCHANGED <<trailers, trailersSet>>
      BY <2>5 DEF SendHeadersReturns, HeaderIsSent
    <3>2. sState = "Headers"
      BY <3>1 DEF OrderInv, WrittenInv, InHeader, HeaderIsSent
    <3> QED
      BY <3>1, <3>2
  <2>6. CASE UNCHANGED <<sState, headers, headersSet, trailers, trailersSet>>
    BY <2>6
  <2> QED
    BY <2>1, <2>2, <2>3, <2>4, <2>5, <2>6 DEF outVars, ServerCall, ServerStep,
       ServerRecvMsg, SendHeadersFails, SendHeadersWrites, ServerSendMsgWrites,
       ServerSendMsgAbandons, ServerReadMessage, ServerRecvMsgReturns, ServerRecvMsgFails
<1>2. \A u \in ServerThreads : HeaderIsSent(u)' => InLog("headers")'
  <2>1. CASE SendHeadersWrites(t)
    <3> DEFINE f == HeadersFrame(headers)
    <3>1. f.kind = "headers" /\ respLog' = Append(respLog, f)
      BY <2>1 DEF SendHeadersWrites, HeadersFrame
    <3>2. f \in Frame
      BY <1>t, FramesAreFrames DEF TypeOK
    <3> HIDE DEF f
    <3>3. InLog("headers")'
      BY <1>t, <3>1, <3>2, Appended DEF InLog
    <3> QED
      BY <3>3
  <2>2. CASE ~SendHeadersWrites(t)
    <3>1. \A u \in ServerThreads : HeaderIsSent(u)' => HeaderIsSent(u)
      <4>1. \/ spc' = spc
            \/ \E pc : pc \notin {"headerSent", "msgHeaderSent"} /\ spc' = [spc EXCEPT ![t] = pc]
        <5>1. CASE ServerCall(t)
          BY <5>1 DEF ServerCall, SetHeader, SendHeader, SetTrailer, ServerSendMsg,
             ServerRecvMsg
        <5>2. CASE ServerStep(t)
          BY <2>2, <5>2 DEF ServerStep, SendHeadersFails, SendHeadersReturns,
             ServerSendMsgWrites, ServerSendMsgAbandons, ServerReadMessage,
             ServerRecvMsgReturns, ServerRecvMsgFails
        <5> QED
          BY <5>1, <5>2
      <4> QED
        BY <1>t, <4>1 DEF HeaderIsSent
    <3> QED
      BY <1>t, <3>1, InLogStays DEF PendingInv
  <2> QED
    BY <2>1, <2>2
<1>3. InLog("error")' => InLog("error")
  <2>1. CASE SendHeadersWrites(t) \/ ServerSendMsgWrites(t)
    <3>1. \E f \in Frame : f.kind # "error" /\ respLog' = Append(respLog, f)
      <4>1. CASE SendHeadersWrites(t)
        BY <1>t, <4>1, FramesAreFrames DEF TypeOK, SendHeadersWrites, HeadersFrame
      <4>2. CASE ServerSendMsgWrites(t)
        <5>1. respSent' \in Nat
          BY <1>t, <4>2 DEF TypeOK, ServerSendMsgWrites
        <5> QED
          BY <4>2, <5>1, FramesAreFrames DEF ServerSendMsgWrites, DataFrame
      <4> QED
        BY <2>1, <4>1, <4>2
    <3> QED
      BY <1>t, <3>1, Appended DEF InLog
  <2>2. CASE respLog' = respLog
    BY <2>2 DEF InLog
  <2> QED
    BY <2>1, <2>2 DEF outVars, ServerCall, ServerStep, SetHeader, SendHeader, SetTrailer,
       ServerSendMsg, ServerRecvMsg, SendHeadersFails, SendHeadersReturns,
       ServerSendMsgAbandons, ServerReadMessage, ServerRecvMsgReturns, ServerRecvMsgFails
<1> QED
  BY <1>0, <1>1, <1>2, <1>3 DEF PendingInv, InTodo

LEMMA PendingStep ==
    ASSUME TypeInv, ResponseSide, OrderInv, PendingInv, [Next]_vars
    PROVE  PendingInv'
<1>t. TypeOK /\ spc \in [ServerThreads -> ServerPCs]
  BY DEF TypeInv, TypeOK
<1>1. ASSUME UNCHANGED <<sState, headers, headersSet, trailers, trailersSet>>
      PROVE  /\ sState' = "Headers" => headers' = headersSet'
             /\ sState' = "Messages" => headers' = {}
             /\ sState' # "Closed" => trailers' = trailersSet'
  BY <1>1 DEF PendingInv
<1>2. ASSUME spc' = spc \/ \E pc \in Returned : spc' = [spc EXCEPT ![Main] = pc]
      PROVE  \A u \in ServerThreads : HeaderIsSent(u)' => InLog("headers")'
  <2>1. \A u \in ServerThreads : HeaderIsSent(u)' => HeaderIsSent(u)
    BY <1>t, <1>2 DEF HeaderIsSent, Returned
  <2> QED
    BY <2>1, InLogStays DEF PendingInv
<1>3. CASE Cancel \/ Propagate \/ Over \/ UNCHANGED vars
           \/ \E t \in ClientThreads : ClientCall(t) \/ ClientStep(t)
  <2>1. UNCHANGED <<outVars, spc>>
    BY <1>3, ClientLeavesServer DEF Cancel, Propagate, Over, vars
  <2>2. UNCHANGED <<respLog, todo, hret, sState, headers, headersSet, trailers,
                    trailersSet, spc>>
    BY <2>1 DEF outVars
  <2> QED
    BY <1>1, <1>2, <2>2 DEF PendingInv, InLog, InTodo
<1>4. CASE \E err \in {"ok", "err"} : HandlerReturns(err)
  <2>1. /\ UNCHANGED <<respLog, todo, sState, headers, headersSet, trailers, trailersSet>>
        /\ spc[Main] = "idle" /\ \E pc \in Returned : spc' = [spc EXCEPT ![Main] = pc]
    BY <1>4 DEF HandlerReturns, Returned
  <2>2. ~InLog("error") /\ ~InTodo("error")
    BY <2>1 DEF OrderInv, WrittenInv, StageInv, Finished, InLog, InTodo
  <2> QED
    BY <1>1, <1>2, <2>1, <2>2 DEF PendingInv, InLog, InTodo
<1>5. CASE FinishOnDone \/ SvrCancel
  <2>1. /\ UNCHANGED <<respLog, todo, hret, sState, headers, headersSet, trailers, trailersSet>>
        /\ \E pc \in Returned : spc' = [spc EXCEPT ![Main] = pc]
    BY <1>5 DEF FinishOnDone, SvrCancel, Returned, outVars
  <2> QED
    BY <1>1, <1>2, <2>1 DEF PendingInv, InLog, InTodo
<1>6. CASE FinishLock
  <2>1. /\ UNCHANGED <<respLog, hret, sState, headers, headersSet, trailers, trailersSet>>
        /\ todo' = FinalFrames
        /\ \E pc \in Returned : spc' = [spc EXCEPT ![Main] = pc]
    BY <1>6 DEF FinishLock, Returned
  <2>2. InTodo("error")' => hret = "err"
    BY <1>t, <2>1, FinalFramesShape DEF InTodo, HeadersFrame, TrailersFrame
  <2> QED
    BY <1>1, <1>2, <2>1, <2>2 DEF PendingInv, InLog
<1>7. CASE FinishWrites
  <2>1. /\ UNCHANGED <<hret, sState, headers, headersSet, trailers, trailersSet, spc>>
        /\ todo' = Tail(todo) /\ todo # <<>>
        /\ respLog' = respLog \/ respLog' = Append(respLog, Head(todo))
    BY <1>7 DEF FinishWrites
  <2>2. /\ Head(todo) \in Frame /\ Head(todo) = todo[1] /\ 1 \in DOMAIN todo
        /\ \A i \in DOMAIN todo' : i + 1 \in DOMAIN todo /\ todo'[i] = todo[i + 1]
    BY <1>t, <2>1, HeadTailProperties DEF TypeOK
  <2>3. InTodo("error")' => InTodo("error")
    BY <2>2 DEF InTodo
  <2>4. InLog("error")' => InLog("error") \/ InTodo("error")
    BY <1>t, <2>1, <2>2, Appended DEF InLog, InTodo
  <2> QED
    BY <1>1, <1>2, <2>1, <2>3, <2>4 DEF PendingInv
<1>8. CASE FinishCloses
  <2>1. /\ UNCHANGED <<respLog, todo, hret>> /\ sState' = "Closed"
        /\ \E pc \in Returned : spc' = [spc EXCEPT ![Main] = pc]
    BY <1>8 DEF FinishCloses, Returned
  <2> QED
    BY <1>2, <2>1 DEF PendingInv, InLog, InTodo
<1>9. CASE \E t \in ServerThreads : ServerCall(t) \/ ServerStep(t)
  BY <1>9, PendingServer
<1> QED
  BY <1>3, <1>4, <1>5, <1>6, <1>7, <1>8, <1>9 DEF Next, FinishStep

(* What stays of MetadataInv when neither the metadata nor the state of    *)
(* the stream nor todo changes, and no metadata frame is added.            *)
LEMMA MetadataStays ==
    ASSUME TypeInv, [Next]_vars, MetadataInv, ctxDone => ctxDone',
           UNCHANGED <<todo, headersSet, trailersSet>>, 
           \A i \in DOMAIN respLog' :
               i \in DOMAIN respLog \/ respLog'[i].kind = "data",
           (sState' # "Headers" \/ spc'[Main] \in Finished) =>
               \/ sState # "Headers" \/ spc[Main] \in Finished
               \/ headersSet = {} \/ InLog("headers"),
           spc'[Main] \in Finished => spc[Main] \in Finished /\ hret' = hret
    PROVE  MetadataInv'
<1>1. \A i \in DOMAIN respLog : i \in DOMAIN respLog' /\ respLog'[i] = respLog[i]
  BY LogGrows
<1>2. \A kind \in {"headers", "trailers"} : \A i \in DOMAIN respLog' :
          respLog'[i].kind = kind => i \in DOMAIN respLog /\ respLog'[i] = respLog[i]
  BY <1>1
<1>3. \A kind : InLog(kind) => InLog(kind)'
  BY InLogStays
<1>4. \A kind : InTodo(kind) <=> InTodo(kind)'
  BY DEF InTodo
<1> SUFFICES ASSUME ~ctxDone'
             PROVE  /\ FramesCarry("headers", headersSet)'
                    /\ FramesCarry("trailers", trailersSet)'
                    /\ (headersSet # {} /\ (sState # "Headers" \/ spc[Main] \in Finished) =>
                          InLog("headers") \/ InTodo("headers"))'
                    /\ (trailersSet # {} /\ spc[Main] \in Finished =>
                          InLog("trailers") \/ InTodo("trailers"))'
                    /\ (hret = "err" /\ spc[Main] \in Finished =>
                          InLog("error") \/ InTodo("error"))'
  BY DEF MetadataInv
<1>5. FramesCarry("headers", headersSet)' /\ FramesCarry("trailers", trailersSet)'
  BY <1>2 DEF MetadataInv, FramesCarry
<1>6. (headersSet # {} /\ (sState # "Headers" \/ spc[Main] \in Finished) =>
          InLog("headers") \/ InTodo("headers"))'
  BY <1>3, <1>4 DEF MetadataInv
<1>7. (trailersSet # {} /\ spc[Main] \in Finished => InLog("trailers") \/ InTodo("trailers"))'
  BY <1>3, <1>4 DEF MetadataInv
<1>8. (hret = "err" /\ spc[Main] \in Finished => InLog("error") \/ InTodo("error"))'
  BY <1>3, <1>4 DEF MetadataInv
<1> QED
  BY <1>5, <1>6, <1>7, <1>8

LEMMA MetadataServer ==
    ASSUME TypeInv, ResponseSide, OrderInv, PendingInv, MetadataInv,
           NEW t \in ServerThreads, ServerCall(t) \/ ServerStep(t)
    PROVE  MetadataInv'
<1> USE ThreadsAssumption
<1>t. TypeOK /\ spc \in [ServerThreads -> ServerPCs] /\ [Next]_vars
  BY DEF TypeInv, TypeOK, Next
<1>0. UNCHANGED <<todo, hret, ctxDone>>
  BY RequestsStay DEF ctxVars
<1>p. spc'[Main] \in Finished <=> spc[Main] \in Finished
  <2>1. StageInv'
    BY <1>t, StageStep DEF OrderInv
  <2>2. spc' = spc \/ \E pc : spc' = [spc EXCEPT ![t] = pc]
    BY DEF ServerCall, ServerStep, SetHeader, SendHeader, SetTrailer, ServerSendMsg,
       ServerRecvMsg, SendHeadersWrites, SendHeadersFails, SendHeadersReturns,
       ServerSendMsgWrites, ServerSendMsgAbandons, ServerReadMessage,
       ServerRecvMsgReturns, ServerRecvMsgFails
  <2>3. spc[t] \notin Returned
    BY DEF Returned, ServerCall, ServerStep, SetHeader, SendHeader, SetTrailer, ServerSendMsg,
       ServerRecvMsg, SendHeadersWrites, SendHeadersFails, SendHeadersReturns,
       ServerSendMsgWrites, ServerSendMsgAbandons, ServerReadMessage,
       ServerRecvMsgReturns, ServerRecvMsgFails
  <2>4. spc'[t] \notin Returned
    BY <1>t, <2>1, <2>3, <1>0 DEF OrderInv, StageInv
  <2> QED
    BY <1>t, <2>2, <2>3, <2>4 DEF Returned, Finished
<1>1. CASE (\E md \in SUBSET Keys : SetHeader(t, md)) \/ (\E md \in SUBSET Keys : SendHeader(t, md))
  <2>1. /\ sState = "Headers" /\ mu = Unlocked /\ UNCHANGED <<respLog, trailersSet>>
        /\ sState' = "Headers" \/ (sState' = "Messages" /\ headers' = {})
        /\ headers' = headers => headersSet' = headersSet \/ headers' = headersSet'
    BY <1>1 DEF SetHeader, SendHeader, OrderInv, PendingInv
  <2>2. PendingInv'
    BY PendingServer
  <2>3. spc[Main] \notin Finished /\ \A u \in ServerThreads : ~HeaderIsSent(u)
    BY <1>t, <2>1, FreeMutex DEF OrderInv, HeaderIsSent, InMu
  <2>4. ~ctxDone => respLog = <<>> /\ todo = <<>>
    BY <2>1, <2>3 DEF OrderInv, WrittenInv, StageInv, Finished
  <2>5. sState' = "Messages" => headersSet' = {}
    <3>1. \E md \in SUBSET Keys : headers' = headers \cup md /\ headersSet' = headersSet \cup md
      BY <1>1 DEF SetHeader, SendHeader
    <3>2. headers = headersSet
      BY <2>1 DEF PendingInv
    <3> QED
      BY <2>1, <3>1, <3>2
  <2> QED
    BY <1>0, <1>p, <2>1, <2>3, <2>4, <2>5 DEF MetadataInv, FramesCarry
<1>2. CASE \E md \in SUBSET Keys : SetTrailer(t, md)
  <2>1. /\ sState # "Closed" /\ mu = Unlocked
        /\ UNCHANGED <<respLog, headersSet, sState>>
    BY <1>2 DEF SetTrailer
  <2>2. spc[Main] \notin Finished
    BY <1>t, <2>1, FreeMutex DEF OrderInv
  <2>3. /\ \A i \in DOMAIN respLog : respLog[i].kind \in {"headers", "data"}
        /\ todo = <<>>
    BY <2>2 DEF OrderInv, WrittenInv, StageInv, Finished
  <2>4. \A kind : (InLog(kind) <=> InLog(kind)') /\ (InTodo(kind) <=> InTodo(kind)')
    BY <1>0, <2>1 DEF InLog, InTodo
  <2>5. FramesCarry("headers", headersSet) => FramesCarry("headers", headersSet)'
    BY <1>0, <2>1 DEF FramesCarry
  <2>6. FramesCarry("trailers", trailersSet)'
    BY <1>0, <2>1, <2>3 DEF FramesCarry
  <2>7. spc'[Main] \notin Finished
    BY <1>p, <2>2
  <2> QED
    BY <1>0, <2>1, <2>2, <2>4, <2>5, <2>6, <2>7 DEF MetadataInv
<1>3. CASE SendHeadersWrites(t)
  <2> DEFINE f == HeadersFrame(headers)
  <2>1. /\ InHeader(t) /\ respLog' = Append(respLog, f)
        /\ UNCHANGED <<headers, headersSet, trailersSet, sState>>
        /\ f.kind = "headers" /\ f.md = headers
    BY <1>3 DEF SendHeadersWrites, InHeader, HeadersFrame
  <2>2. f \in Frame
    BY <1>t, FramesAreFrames DEF TypeOK
  <2>3. spc[Main] \notin Finished /\ headers = headersSet
    BY <1>t, <2>1, HolderIsAlone DEF OrderInv, WrittenInv, PendingInv
  <2> HIDE DEF f
  <2>4. /\ \A i \in DOMAIN respLog' : i \in DOMAIN respLog \/ respLog'[i] = f
        /\ \A i \in DOMAIN respLog : respLog'[i] = respLog[i]
        /\ InLog("headers")'
    BY <1>t, <2>1, <2>2, Appended DEF InLog
  <2>5. ~ctxDone => FramesCarry("headers", headersSet)' /\ FramesCarry("trailers", trailersSet)'
    BY <1>0, <2>1, <2>3, <2>4 DEF MetadataInv, FramesCarry
  <2> QED
    BY <1>0, <1>p, <2>3, <2>4, <2>5 DEF MetadataInv
<1>4. CASE ServerSendMsgWrites(t)
  <2> DEFINE f == DataFrame(respSent')
  <2>1. /\ respLog' = Append(respLog, f) /\ f.kind = "data"
        /\ UNCHANGED <<headersSet, trailersSet, sState>>
    BY <1>4 DEF ServerSendMsgWrites, DataFrame
  <2>2. f \in Frame
    BY <1>t, TypeNext, FramesAreFrames DEF TypeInv, TypeOK
  <2> HIDE DEF f
  <2>3. \A i \in DOMAIN respLog' : i \in DOMAIN respLog \/ respLog'[i].kind = "data"
    BY <1>t, <2>1, <2>2, Appended
  <2> QED
    BY <1>t, <1>0, <1>p, <2>1, <2>3, MetadataStays
<1>5. CASE SendHeadersReturns(t) \/ ServerSendMsg(t)
  <2>1. UNCHANGED <<respLog, headersSet, trailersSet>>
    BY <1>5 DEF SendHeadersReturns, ServerSendMsg
  <2>2. sState # "Headers" \/ headersSet = {} \/ InLog("headers") \/ sState' = "Headers"
    <3>1. CASE SendHeadersReturns(t)
      BY <3>1 DEF SendHeadersReturns, PendingInv, HeaderIsSent
    <3>2. CASE ServerSendMsg(t)
      BY <3>2 DEF ServerSendMsg, PendingInv
    <3> QED
      BY <1>5, <3>1, <3>2
  <2> QED
    BY <1>t, <1>0, <1>p, <2>1, <2>2, MetadataStays
<1>6. CASE UNCHANGED <<respLog, headersSet, trailersSet, sState>>
  BY <1>t, <1>0, <1>p, <1>6, MetadataStays
<1> QED
  BY <1>1, <1>2, <1>3, <1>4, <1>5, <1>6 DEF outVars, ServerCall, ServerStep,
     ServerRecvMsg, SendHeadersFails, ServerSendMsgAbandons, ServerReadMessage,
     ServerRecvMsgReturns, ServerRecvMsgFails

LEMMA MetadataStep ==
    ASSUME TypeInv, ResponseSide, OrderInv, PendingInv, MetadataInv, [Next]_vars
    PROVE  MetadataInv'
<1> USE ThreadsAssumption
<1>t. TypeOK /\ spc \in [ServerThreads -> ServerPCs]
  BY DEF TypeInv, TypeOK
<1>1. CASE Cancel \/ Propagate \/ Over \/ UNCHANGED vars
           \/ \E t \in ClientThreads : ClientCall(t) \/ ClientStep(t)
  <2>1. /\ UNCHANGED <<respLog, todo, hret, sState, headersSet, trailersSet, spc>>
        /\ ctxDone => ctxDone'
    BY <1>1, ClientLeavesServer DEF Cancel, Propagate, Over, vars, outVars, ctxVars
  <2> QED
    BY <1>t, <2>1, MetadataStays
<1>2. CASE \E err \in {"ok", "err"} : HandlerReturns(err)
  <2>1. /\ UNCHANGED <<respLog, todo, sState, headersSet, trailersSet, ctxDone>>
        /\ spc' = [spc EXCEPT ![Main] = "onDone"]
    BY <1>2 DEF HandlerReturns, ctxVars
  <2>2. spc'[Main] \notin Finished
    BY <1>t, <2>1 DEF Finished
  <2> QED
    BY <1>t, <2>1, <2>2, MetadataStays
<1>3. CASE FinishOnDone \/ SvrCancel
  <2>1. /\ UNCHANGED <<respLog, todo, hret, sState, headersSet, trailersSet, ctxDone>>
        /\ \/ spc' = [spc EXCEPT ![Main] = "lock"]
           \/ spc[Main] = "exit" /\ spc' = [spc EXCEPT ![Main] = "gone"]
    BY <1>3 DEF FinishOnDone, SvrCancel, outVars
  <2>2. spc'[Main] \in Finished => spc[Main] \in Finished
    BY <1>t, <2>1 DEF Finished
  <2> QED
    BY <1>t, <2>1, <2>2, MetadataStays
<1>4. CASE FinishLock
  <2>1. /\ spc[Main] = "lock" /\ todo' = FinalFrames
        /\ UNCHANGED <<respLog, hret, sState, headersSet, trailersSet, ctxDone>>
    BY <1>4 DEF FinishLock, ctxVars
  <2>2. todo = <<>> /\ sState # "Closed" /\ trailers = trailersSet
    BY <2>1 DEF OrderInv, StageInv, PendingInv
  <2>3. /\ \A i \in DOMAIN todo' : todo'[i].kind = "headers" => todo'[i].md = headersSet
        /\ \A i \in DOMAIN todo' : todo'[i].kind = "trailers" => todo'[i].md = trailersSet
    BY <1>t, <2>1, <2>2, FinalFramesShape
       DEF HeadersFrame, TrailersFrame, ErrorFrame, PendingInv
  <2>4. \A kind : InLog(kind) <=> InLog(kind)'
    BY <2>1 DEF InLog
  <2>5. /\ sState = "Headers" /\ headers # {} => InTodo("headers")'
        /\ trailers # {} => InTodo("trailers")'
        /\ hret = "err" => InTodo("error")'
    <3>1. /\ HeadersFrame(headers).kind = "headers"
          /\ TrailersFrame(trailers).kind = "trailers" /\ ErrorFrame.kind = "error"
      BY DEF HeadersFrame, TrailersFrame, ErrorFrame
    <3> QED
      BY <1>t, <2>1, <3>1, FinalFramesShape DEF InTodo
  <2>6. ~ctxDone => FramesCarry("headers", headersSet)' /\ FramesCarry("trailers", trailersSet)'
    BY <2>1, <2>3 DEF MetadataInv, FramesCarry
  <2>7. ~ctxDone /\ headersSet # {} => InLog("headers") \/ InTodo("headers")'
    <3>1. ~InTodo("headers")
      BY <2>2 DEF InTodo
    <3> QED
      BY <2>5, <3>1 DEF MetadataInv, PendingInv
  <2> QED
    BY <2>1, <2>2, <2>4, <2>5, <2>6, <2>7 DEF MetadataInv
<1>5. CASE FinishWrites
  <2> DEFINE f == Head(todo)
  <2>1. /\ todo' = Tail(todo) /\ todo # <<>> /\ spc[Main] = "finish"
        /\ UNCHANGED <<spc, hret, sState, headersSet, trailersSet, ctxDone, svrDone>>
        /\ respLog' = Append(respLog, f) \/ svrDone
    BY <1>5 DEF FinishWrites, ctxVars
  <2>2. CASE ctxDone
    BY <2>1, <2>2 DEF MetadataInv
  <2>3. CASE ~ctxDone
    <3>1. respLog' = Append(respLog, f)
      BY <2>1, <2>3 DEF OrderInv, StageInv
    <3>2. /\ f \in Frame /\ f = todo[1] /\ 1 \in DOMAIN todo
          /\ \A i \in DOMAIN todo' : i + 1 \in DOMAIN todo /\ todo'[i] = todo[i + 1]
          /\ \A i \in DOMAIN todo : i = 1 \/ (i - 1 \in DOMAIN todo' /\ todo[i] = todo'[i - 1])
      <4>1. todo \in Seq(Frame)
        BY <1>t DEF TypeOK
      <4>2. /\ f \in Frame /\ todo' \in Seq(Frame) /\ Len(todo') = Len(todo) - 1
            /\ \A i \in 1..Len(todo') : todo'[i] = todo[i + 1]
        BY <2>1, <4>1, HeadTailProperties
      <4>3. DOMAIN todo = 1..Len(todo) /\ DOMAIN todo' = 1..Len(todo') /\ Len(todo) \in Nat
        BY <4>1, <4>2, LenProperties
      <4>4. Len(todo) > 0
        BY <2>1, <4>1, EmptySeq
      <4>5. f = todo[1]
        BY <2>1, <4>1
      <4> QED
        BY <4>2, <4>3, <4>4, <4>5
    <3> HIDE DEF f
    <3>3. /\ \A i \in DOMAIN respLog' : i \in DOMAIN respLog \/ respLog'[i] = f
          /\ \A i \in DOMAIN respLog : i \in DOMAIN respLog' /\ respLog'[i] = respLog[i]
          /\ \E i \in DOMAIN respLog' : respLog'[i] = f
      BY <1>t, <3>1, <3>2, Appended
    <3>4. FramesCarry("headers", headersSet)' /\ FramesCarry("trailers", trailersSet)'
      BY <2>1, <2>3, <3>2, <3>3 DEF MetadataInv, FramesCarry
    <3>5. \A kind : InLog(kind) \/ InTodo(kind) => InLog(kind)' \/ InTodo(kind)'
      BY <3>2, <3>3 DEF InLog, InTodo
    <3> QED
      BY <2>1, <2>3, <3>4, <3>5 DEF MetadataInv
  <2> QED
    BY <2>2, <2>3
<1>6. CASE FinishCloses
  <2>1. /\ UNCHANGED <<respLog, todo, hret, headersSet, trailersSet, ctxDone>>
        /\ spc[Main] = "finish"
    BY <1>6 DEF FinishCloses, ctxVars
  <2> QED
    BY <1>t, <2>1, MetadataStays DEF Finished
<1>7. CASE \E t \in ServerThreads : ServerCall(t) \/ ServerStep(t)
  BY <1>7, MetadataServer
<1> QED
  BY <1>1, <1>2, <1>3, <1>4, <1>5, <1>6, <1>7 DEF Next, FinishStep

-----------------------------------------------------------------------------
(* Requests: the goroutines that read take the next one each, and keep it  *)
(* until RecvMsg returns it or fails.                                      *)

TakenNow == {taken[t] : t \in ServerThreads} \ {0}

LEMMA RequestStays ==
    ASSUME RequestInv, UNCHANGED inVars, svrDone => svrDone',
           spc \in [ServerThreads -> ServerPCs],
           \/ spc' = spc
           \/ \E t \in ServerThreads : \E pc \in ServerPCs \ {"received"} :
                  spc[t] # "received" /\ spc' = [spc EXCEPT ![t] = pc]
    PROVE  RequestInv'
<1>1. UNCHANGED <<reqRcvd, taken, handled>>
  BY DEF inVars
<1>2. \A t \in ServerThreads : spc'[t] = "received" <=> spc[t] = "received"
  OBVIOUS
<1> QED
  BY <1>1, <1>2 DEF RequestInv

LEMMA RequestReads ==
    ASSUME TypeOK, RequestInv, NEW t \in ServerThreads, ServerReadMessage(t)
    PROVE  RequestInv'
<1>1. /\ reqRcvd \in Nat /\ taken \in [ServerThreads -> Nat]
      /\ spc \in [ServerThreads -> ServerPCs]
  BY DEF TypeOK
<1>2. /\ reqRcvd' = reqRcvd + 1 /\ handled' = handled /\ svrDone' = svrDone
      /\ taken' = [taken EXCEPT ![t] = reqRcvd + 1]
      /\ spc' = [spc EXCEPT ![t] = "received"] /\ spc[t] = "receiving"
  BY DEF ServerReadMessage, ctxVars
<1>3. handled' \subseteq 1..reqRcvd'
  BY <1>1, <1>2 DEF RequestInv
<1>4. \A u \in ServerThreads : taken[u] \in 0..reqRcvd
  BY <1>1 DEF RequestInv
<1>5. reqRcvd + 1 \notin handled
  BY <1>1 DEF RequestInv
<1>6. \A u \in ServerThreads :
        IF spc'[u] = "received" THEN taken'[u] \in (1..reqRcvd') \ handled'
                                ELSE taken'[u] = 0
  <2> SUFFICES ASSUME NEW u \in ServerThreads
               PROVE  IF spc'[u] = "received" THEN taken'[u] \in (1..reqRcvd') \ handled'
                                              ELSE taken'[u] = 0
    OBVIOUS
  <2>1. CASE u = t
    BY <1>1, <1>2, <1>5, <2>1
  <2>2. CASE u # t
    <3>1. taken'[u] = taken[u] /\ spc'[u] = spc[u]
      BY <1>1, <1>2, <2>2
    <3>2. IF spc[u] = "received" THEN taken[u] \in (1..reqRcvd) \ handled ELSE taken[u] = 0
      BY DEF RequestInv
    <3> QED
      BY <1>1, <1>2, <3>1, <3>2
  <2> QED
    BY <2>1, <2>2
<1>7. \A u, v \in ServerThreads : u # v /\ taken'[u] = taken'[v] => taken'[u] = 0
  <2>1. \A u \in ServerThreads : u # t => taken'[u] = taken[u] /\ taken[u] # reqRcvd + 1
    BY <1>1, <1>2, <1>4
  <2>2. taken'[t] = reqRcvd + 1
    BY <1>1, <1>2
  <2> QED
    BY <2>1, <2>2 DEF RequestInv
<1>8. ~svrDone => handled' \cup TakenNow' = 1..reqRcvd'
  <2> SUFFICES ASSUME ~svrDone PROVE handled' \cup TakenNow' = 1..reqRcvd'
    OBVIOUS
  <2>1. taken[t] = 0
    BY <1>2 DEF RequestInv
  <2>2. TakenNow' = TakenNow \cup {reqRcvd + 1}
    BY <1>1, <1>2, <2>1 DEF TakenNow
  <2>3. handled \cup TakenNow = 1..reqRcvd
    BY DEF RequestInv, TakenNow
  <2>4. 1..(reqRcvd + 1) = (1..reqRcvd) \cup {reqRcvd + 1}
    BY <1>1
  <2> QED
    BY <1>2, <2>2, <2>3, <2>4
<1> QED
  BY <1>2, <1>3, <1>6, <1>7, <1>8 DEF RequestInv, TakenNow

(* The message in hand is handed over, or dropped after a cancellation.    *)
LEMMA RequestLetsGo ==
    ASSUME TypeOK, RequestInv, NEW t \in ServerThreads,
           ServerRecvMsgReturns(t) \/ ServerRecvMsgFails(t)
    PROVE  RequestInv'
<1>1. /\ reqRcvd \in Nat /\ taken \in [ServerThreads -> Nat]
      /\ spc \in [ServerThreads -> ServerPCs] /\ handled \subseteq Nat
  BY DEF TypeOK
<1>2. /\ reqRcvd' = reqRcvd /\ svrDone' = svrDone
      /\ taken' = [taken EXCEPT ![t] = 0] /\ spc' = [spc EXCEPT ![t] = "idle"]
  BY DEF ServerRecvMsgReturns, ServerRecvMsgFails, ctxVars
<1>3. \/ handled' = handled /\ (svrDone \/ taken[t] = 0)
      \/ handled' = handled \cup {taken[t]} /\ spc[t] = "received"
  BY DEF ServerRecvMsgReturns, ServerRecvMsgFails, RequestInv
<1>4. spc[t] = "received" => taken[t] \in 1..reqRcvd
  BY DEF RequestInv
<1>5. handled' \subseteq 1..reqRcvd
  BY <1>3, <1>4 DEF RequestInv
<1>6. \A u \in ServerThreads :
        IF spc'[u] = "received" THEN taken'[u] \in (1..reqRcvd) \ handled'
                                ELSE taken'[u] = 0
  <2> SUFFICES ASSUME NEW u \in ServerThreads
               PROVE  IF spc'[u] = "received" THEN taken'[u] \in (1..reqRcvd) \ handled'
                                              ELSE taken'[u] = 0
    OBVIOUS
  <2>1. CASE u = t
    BY <1>1, <1>2, <2>1
  <2>2. CASE u # t
    <3>1. taken'[u] = taken[u] /\ spc'[u] = spc[u]
      BY <1>1, <1>2, <2>2
    <3>2. IF spc[u] = "received" THEN taken[u] \in (1..reqRcvd) \ handled ELSE taken[u] = 0
      BY DEF RequestInv
    <3>3. spc[u] = "received" => taken[u] \notin handled'
      <4>1. spc[u] = "received" => taken[u] # 0
        BY <1>1, <3>2
      <4>2. taken[u] # 0 => taken[u] # taken[t]
        BY <2>2 DEF RequestInv
      <4> QED
        BY <1>3, <3>2, <4>1, <4>2
    <3> QED
      BY <3>1, <3>2, <3>3
  <2> QED
    BY <2>1, <2>2
<1>7. \A u, v \in ServerThreads : u # v /\ taken'[u] = taken'[v] => taken'[u] = 0
  <2>1. \A u \in ServerThreads : taken'[u] = IF u = t THEN 0 ELSE taken[u]
    BY <1>1, <1>2
  <2> QED
    BY <2>1 DEF RequestInv
<1>8. ~svrDone => handled' \cup TakenNow' = 1..reqRcvd
  <2> SUFFICES ASSUME ~svrDone PROVE handled' \cup TakenNow' = 1..reqRcvd
    OBVIOUS
  <2>1. handled \cup TakenNow = 1..reqRcvd
    BY DEF RequestInv, TakenNow
  <2>2. handled' = handled \cup ({taken[t]} \ {0})
    <3>1. CASE handled' = handled /\ taken[t] = 0
      BY <3>1
    <3>2. CASE handled' = handled \cup {taken[t]} /\ spc[t] = "received"
      <4>1. taken[t] # 0
        BY <1>1, <1>4, <3>2
      <4> QED
        BY <3>2, <4>1
    <3> QED
      BY <1>3, <3>1, <3>2
  <2>3. \A u \in ServerThreads : taken'[u] = IF u = t THEN 0 ELSE taken[u]
    BY <1>1, <1>2
  <2>4. TakenNow \subseteq TakenNow' \cup {taken[t]} /\ TakenNow' \subseteq TakenNow
    BY <2>3 DEF TakenNow
  <2>5. {taken[t]} \ {0} \subseteq TakenNow /\ 0 \notin TakenNow
    BY DEF TakenNow
  <2> QED
    BY <2>1, <2>2, <2>4, <2>5
<1> QED
  BY <1>2, <1>5, <1>6, <1>7, <1>8 DEF RequestInv, TakenNow

LEMMA RequestStep ==
    ASSUME TypeOK, RequestInv, [Next]_vars
    PROVE  RequestInv'
<1>t. spc \in [ServerThreads -> ServerPCs]
  BY DEF TypeOK
<1>1. CASE Cancel \/ Propagate \/ Over \/ UNCHANGED vars
           \/ \E t \in ClientThreads : ClientCall(t) \/ ClientStep(t)
  <2>1. UNCHANGED <<inVars, spc>> /\ (svrDone => svrDone')
    BY <1>1, ClientLeavesServer DEF Cancel, Propagate, Over, vars, ctxVars
  <2> QED
    BY <1>t, <2>1, RequestStays
<1>2. CASE FinishStep \/ \E err \in {"ok", "err"} : HandlerReturns(err)
  <2>1. UNCHANGED inVars /\ (svrDone => svrDone')
    BY <1>2 DEF HandlerReturns, FinishStep, FinishOnDone, FinishLock, FinishWrites,
       FinishCloses, SvrCancel, ctxVars
  <2>2. \/ spc' = spc
        \/ \E pc \in ServerPCs \ {"received"} :
              spc[Main] # "received" /\ spc' = [spc EXCEPT ![Main] = pc]
    BY <1>2 DEF HandlerReturns, FinishStep, FinishOnDone, FinishLock, FinishWrites,
       FinishCloses, SvrCancel, ServerPCs
  <2> QED
    BY <1>t, <2>1, <2>2, RequestStays, ThreadsAssumption
<1>3. CASE \E t \in ServerThreads : ServerCall(t) \/ ServerStep(t)
  <2>1. PICK t \in ServerThreads : ServerCall(t) \/ ServerStep(t)
    BY <1>3
  <2>2. CASE ServerReadMessage(t)
    BY <2>2, RequestReads
  <2>3. CASE ServerRecvMsgReturns(t) \/ ServerRecvMsgFails(t)
    BY <2>3, RequestLetsGo
  <2>4. CASE ServerCall(t) \/ SendHeadersWrites(t) \/ SendHeadersFails(t)
             \/ SendHeadersReturns(t) \/ ServerSendMsgWrites(t) \/ ServerSendMsgAbandons(t)
    <3>1. UNCHANGED <<inVars, svrDone>>
      BY <2>4 DEF ServerCall, SetHeader, SendHeader, SetTrailer, ServerSendMsg,
         ServerRecvMsg, SendHeadersWrites, SendHeadersFails, SendHeadersReturns,
         ServerSendMsgWrites, ServerSendMsgAbandons, ctxVars
    <3>2. \/ spc' = spc
          \/ \E pc \in ServerPCs \ {"received"} :
                spc[t] # "received" /\ spc' = [spc EXCEPT ![t] = pc]
      <4>1. spc' = spc \/ \E pc \in ServerPCs \ {"received"} : spc' = [spc EXCEPT ![t] = pc]
        BY <2>4 DEF ServerCall, SetHeader, SendHeader, SetTrailer, ServerSendMsg,
           ServerRecvMsg, SendHeadersWrites, SendHeadersFails, SendHeadersReturns,
           ServerSendMsgWrites, ServerSendMsgAbandons, ServerPCs
      <4>2. spc[t] # "received"
        BY <2>4 DEF ServerCall, SetHeader, SendHeader, SetTrailer, ServerSendMsg,
           ServerRecvMsg, SendHeadersWrites, SendHeadersFails, SendHeadersReturns,
           ServerSendMsgWrites, ServerSendMsgAbandons
      <4> QED
        BY <4>1, <4>2
    <3> QED
      BY <1>t, <3>1, <3>2, RequestStays
  <2> QED
    BY <2>1, <2>2, <2>3, <2>4 DEF ServerStep
<1> QED
  BY <1>1, <1>2, <1>3 DEF Next

-----------------------------------------------------------------------------

LEMMA ServerInit == Init => ServerInv
<1> SUFFICES ASSUME Init PROVE ServerInv
  OBVIOUS
<1> USE ThreadsAssumption DEF Init
<1>1. StageInv /\ WrittenInv
  BY DEF StageInv, WrittenInv, Returned, Finished, InHeader, HeaderIsSent
<1>2. TodoInv /\ SortedInv
  BY DEF TodoInv, SortedInv, FramesInOrder
<1>3. CountInv
  <2>1. respLog = <<>> /\ Len(respLog) = 0 /\ respSent = 0
    OBVIOUS
  <2>2. respSent = Cardinality(DataUpTo(Len(respLog)))
    BY <2>1, DataInEmpty DEF DataUpTo
  <2>3. DOMAIN respLog = {}
    BY <2>1
  <2> QED
    BY <2>2, <2>3 DEF CountInv
<1>4. PendingInv /\ MetadataInv
  BY DEF PendingInv, MetadataInv, InLog, InTodo, FramesCarry, HeaderIsSent, Finished
<1>5. RequestInv
  BY DEF RequestInv
<1> QED
  BY <1>1, <1>2, <1>3, <1>4, <1>5 DEF ServerInv, OrderInv

LEMMA ServerNext ==
    ASSUME Inv, ServerInv, [Next]_vars
    PROVE  Inv' /\ ServerInv'
<1>1. Inv'
  BY TypeNext, SidesNext DEF Inv, TypeInv, TypeOK, PCsOK
<1>2. OrderInv' /\ PendingInv' /\ MetadataInv'
  BY OrderStep, PendingStep, MetadataStep DEF Inv, TypeInv, ServerInv
<1>3. CountInv'
  BY CountStep DEF Inv, TypeInv, ServerInv
<1>4. RequestInv'
  BY RequestStep DEF Inv, TypeInv, ServerInv
<1> QED
  BY <1>1, <1>2, <1>3, <1>4 DEF ServerInv

(* What the goroutines of the handler and finish leave in the channel and  *)
(* still have to write: the frames come in order and each message has its  *)
(* number; without a cancellation every header and trailer the server      *)
(* stream accepted and the handler's error are among them; and each        *)
(* request taken from the other channel is in one hand.                    *)
THEOREM ServerInvariant == Spec => [](Inv /\ ServerInv)
<1>1. Init => RequestSide /\ ResponseSide
  BY ThreadsAssumption DEF Init, RequestSide, ResponseSide, Sending, InMu
<1>2. Init => Inv /\ ServerInv
  BY <1>1, TypeInit, ServerInit DEF Inv
<1>3. (Inv /\ ServerInv) /\ [Next]_vars => (Inv /\ ServerInv)'
  BY ServerNext
<1> QED
  BY <1>2, <1>3, PTL DEF Spec

(* Whichever goroutines race with each other and with finish, the frames   *)
(* are headers, messages, trailers and error in this order, trailers and   *)
(* error once, and headers once unless the call was cancelled.             *)
THEOREM ResponseFramesInOrder == Spec => []FramesInOrder
<1>1. Inv /\ ServerInv => FramesInOrder
  BY DEF ServerInv, OrderInv, SortedInv
<1> QED
  BY <1>1, ServerInvariant, PTL
=============================================================================
