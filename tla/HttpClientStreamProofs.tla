----------------------- MODULE HttpClientStreamProofs -----------------------
(***************************************************************************)
(* Theorems about HttpClientStream for any number of messages, whichever   *)
(* kinds of method there are.                                              *)
(*                                                                         *)
(* The invariant says what doHttpCall has in hand at each of its places.   *)
(* What rMu protects may only be read as the outcome of the call once      *)
(* doHttpCall is gone: until then done is set, as far as another goroutine *)
(* can see, by a RecvMsg that met a second message and by nothing else,    *)
(* and rErr then says so (EndInv).                                         *)
(***************************************************************************)
EXTENDS HttpClientStream, FiniteSetTheorems, SequenceTheorems, TLAPS

Frames == [kind : {"data", "ok", "err", "invalid"}, n : Nat]

(* The frame the goroutine has read last is the trailer.                   *)
GotTrailer == respRd > 0 /\ respLog[respRd].kind # "data"
OkTrailer  == respRd > 0 /\ respLog[respRd].kind = "ok"

(* Where the deferred function holds rMu.                                  *)
Reporting == {"closePipe", "closeRCh", "unlock"}

PlaceInv ==
    /\ hpc = "roundTrip" => ready = 1
    /\ hpc = "panic" => ready = -1
    /\ hpc \notin {"roundTrip", "panic"} => ready = 0
    /\ hpc = "replied" => reply # "none"
    /\ hpc \in {"roundTrip", "replied"} => respRd = 0 /\ hErr = "none"
    /\ hpc \in {"reading", "offering", "trailer"} => hErr = "none"
    /\ hpc = "offering" => respRd > 0 /\ ~GotTrailer
    /\ hpc = "trailer" => GotTrailer
    /\ GotTrailer =>
           /\ hpc \in {"trailer", "drain", "finish", "gone"} \cup Reporting
           /\ hErr = "none"
    /\ rChClosed <=> hpc \in {"unlock", "gone"}

(* The frames are messages, numbered, and a trailer can only be the last.  *)
LogInv ==
    /\ peer = "waiting" => reply = "none"
    /\ peer = "responding" => reply = "ok"
    /\ reply # "ok" => respLog = <<>>
    /\ \A i \in 1..Len(respLog) :
           respLog[i].kind # "data" =>
               i = Len(respLog) /\ peer \notin {"waiting", "responding"}
    /\ \A i \in 1..Len(respLog) : respLog[i].kind = "data" => respLog[i].n = i

(* Every message read from the reply has been handed to the receiver,      *)
(* except the one on offer.                                                *)
HandedOver ==
    hErr = "none" =>
        Len(consumed) = IF hpc = "offering" \/ GotTrailer
                        THEN respRd - 1 ELSE respRd

EndInv ==
    /\ rMu => hpc \in Reporting \/ (hpc \in {"drain", "finish"} /\ GotTrailer)
    /\ hpc \in Reporting => rMu
    /\ done /\ ~rMu /\ hpc # "gone" => rErr = "many"
    /\ rErr \notin {"none", "many"} => rMu \/ hpc = "gone"
    /\ hpc \in {"drain", "finish", "gone"} \cup Reporting /\ hErr = "none" =>
           tr # "unset"
    /\ hpc \in {"gone"} \cup Reporting =>
           done /\ (rErr = "none" => hErr = "none")
    /\ tr = "ok" => GotTrailer /\ respLog[respRd].kind \in {"ok", "invalid"}
    /\ tr = "ok" /\ respLog[respRd].kind = "invalid" => rErr # "none"
    /\ tr = "err" => Received("err") \/ reply = "badStatus"

(* What the receiver has been told.                                        *)
ResultInv ==
    /\ result = "EOF" => OkTrailer
    /\ result = "err" => tr = "err"
    /\ result \in {"EOF", "err", "net", "rawCtx"} =>
           /\ hpc = "gone" /\ done /\ Terminal = result
           /\ recv \in {"idle", "header", "check"}

(* A RecvMsg that found rCh closed has to wait for rMu, and no longer than *)
(* doHttpCall holds it.                                                    *)
ClosedInv ==
    /\ recv \in {"ended", "moreEnded"} => rChClosed
    /\ recv # "panic"

(* The message a RecvMsg has in hand is the last that was taken, and one   *)
(* that a successful call gave is the last of all.                         *)
GivenInv ==
    ~respStream =>
        /\ recv \in {"more", "moreEnded"} => inHand = <<Len(consumed)>>
        /\ result = "msg" => given # <<>>
        /\ given # <<>> =>
               /\ given = <<Len(consumed)>> /\ OkTrailer
               /\ hpc = "gone" /\ done
               /\ recv \in {"idle", "header", "check"}

IInv == /\ TypeOK /\ PlaceInv /\ LogInv /\ HandedOver
        /\ EndInv /\ ResultInv /\ ClosedInv /\ GivenInv

-----------------------------------------------------------------------------
(* The frames.                                                             *)

LEMMA IntervalCount ==
    ASSUME NEW n \in Nat PROVE Cardinality(1..n) = n
  BY FS_Interval

LEMMA DataCount ==
    ASSUME TypeOK, LogInv
    PROVE  Messages = IF Len(respLog) > 0 /\ respLog[Len(respLog)].kind # "data"
                      THEN Len(respLog) - 1 ELSE Len(respLog)
<1> DEFINE Data == {i \in 1..Len(respLog) : respLog[i].kind = "data"}
<1>1. Len(respLog) \in Nat
  BY DEF TypeOK
<1>2. CASE Len(respLog) > 0 /\ respLog[Len(respLog)].kind # "data"
  <2>1. Data = 1..(Len(respLog) - 1)
    BY <1>1, <1>2 DEF LogInv
  <2>2. Cardinality(1..(Len(respLog) - 1)) = Len(respLog) - 1
    BY <1>1, <1>2, IntervalCount
  <2> QED
    BY <1>2, <2>1, <2>2 DEF Messages
<1>3. CASE ~(Len(respLog) > 0 /\ respLog[Len(respLog)].kind # "data")
  <2>1. Data = 1..Len(respLog)
    BY <1>1, <1>3 DEF LogInv
  <2>2. Cardinality(1..Len(respLog)) = Len(respLog)
    BY <1>1, IntervalCount
  <2> QED
    BY <1>3, <2>1, <2>2 DEF Messages
<1> QED
  BY <1>2, <1>3

(* The trailer is the last frame, and nothing comes after it.              *)
LEMMA TrailerIsLast ==
    ASSUME TypeOK, LogInv, GotTrailer
    PROVE  respRd = Len(respLog) /\ peer \notin {"waiting", "responding"}
  BY DEF TypeOK, LogInv, GotTrailer

LEMMA PeerWrites ==
    ASSUME TypeOK, LogInv, PeerSends \/ PeerReturns
    PROVE  /\ respLog' \in Seq(Frames) /\ Len(respLog') >= Len(respLog)
           /\ \A i \in 1..Len(respLog) : respLog'[i] = respLog[i]
           /\ LogInv'
<1>1. respLog \in Seq(Frames) /\ Messages \in Nat
  BY DataCount DEF TypeOK, Frames
<1>2. CASE PeerSends
  <2>1. [kind |-> "data", n |-> Messages + 1] \in Frames
    BY <1>1 DEF Frames
  <2> DEFINE f == [kind |-> "data", n |-> Messages + 1]
  <2>2. /\ respLog' = Append(respLog, f) /\ peer = "responding"
        /\ peer' = peer /\ reply' = reply /\ f.kind = "data"
        /\ f.n = Len(respLog) + 1
    <3>1. Messages = Len(respLog)
      BY <1>2, DataCount DEF PeerSends, LogInv, TypeOK
    <3> QED
      BY <1>2, <3>1 DEF PeerSends
  <2> HIDE DEF f
  <2>3. /\ respLog' \in Seq(Frames) /\ Len(respLog') = Len(respLog) + 1
        /\ \A i \in 1..Len(respLog) : respLog'[i] = respLog[i]
        /\ respLog'[Len(respLog) + 1] = f
    BY <1>1, <2>1, <2>2, AppendProperties DEF f
  <2>4. LogInv'
    BY <1>1, <2>2, <2>3 DEF LogInv
  <2> QED
    BY <1>1, <2>3, <2>4
<1>3. CASE PeerReturns /\ respLog' = respLog
  BY <1>1, <1>3 DEF PeerReturns, LogInv
<1>4. CASE PeerReturns /\ respLog' # respLog
  <2>1. PICK kind \in {"ok", "err", "invalid"} :
            respLog' = Append(respLog, [kind |-> kind, n |-> 0])
    BY <1>4 DEF PeerReturns
  <2> DEFINE f == [kind |-> kind, n |-> 0]
  <2>2. /\ peer' = "ending" /\ reply' = reply /\ peer = "responding"
        /\ f \in Frames /\ f.kind # "data"
    BY <1>4 DEF PeerReturns, Frames
  <2> HIDE DEF f
  <2>3. /\ respLog' \in Seq(Frames) /\ Len(respLog') = Len(respLog) + 1
        /\ \A i \in 1..Len(respLog) : respLog'[i] = respLog[i]
        /\ respLog'[Len(respLog) + 1] = f
    BY <1>1, <2>1, <2>2, AppendProperties DEF f
  <2>4. LogInv'
    BY <1>1, <2>2, <2>3 DEF LogInv
  <2> QED
    BY <1>1, <2>3, <2>4
<1> QED
  BY <1>2, <1>3, <1>4

-----------------------------------------------------------------------------
(* Type correctness and the steps' effect on the frames.                   *)

LEMMA TypeStep ==
    ASSUME TypeOK, PlaceInv, LogInv, [Next]_vars
    PROVE  TypeOK'
<1> USE DEF callVars, pipeVars, appVars, msgVars, httpVars, rdVars, hdrVars,
           endVars, peerVars, Reporting
<1>1. CASE Cancel \/ SendMsg \/ CloseSend \/ Header \/ RecvMsg
  BY <1>1 DEF Cancel, SendMsg, CloseSend, Header, RecvMsg, TypeOK
<1>2. CASE SendStep
  BY <1>2 DEF SendStep, SendMsgChecks, SendMsgFails, TypeOK
<1>3. CASE RecvStep
  <2>1. CASE HeaderReturns \/ RecvMsgChecks \/ RecvMsgSeesClosed
             \/ RecvMsgGetsCtxDone
    <3>1. <<>> \in Seq(Nat)
      OBVIOUS
    <3> QED
      BY <2>1, <3>1 DEF HeaderReturns, RecvMsgChecks, RecvMsgSeesClosed,
         RecvMsgGetsCtxDone, Returns, Terminal, Results, TypeOK
  <2>2. CASE RecvMsgGetsMessage \/ RecvMsgGetsSecond
    <3>1. TakesFromRCh
      BY <2>2 DEF RecvMsgGetsMessage, RecvMsgGetsSecond
    <3>2. Offered \in Nat
      <4>1. respRd \in 1..Len(respLog) /\ respLog \in Seq(Frames)
        BY <3>1 DEF TakesFromRCh, PlaceInv, TypeOK, Frames
      <4>2. respLog[respRd] \in Frames
        BY <4>1
      <4> QED
        BY <4>2 DEF Frames, Offered
    <3> HIDE DEF Offered
    <3>3. consumed' \in Seq(Nat) /\ given' \in Seq(Nat) /\ inHand' \in Seq(Nat)
      <4>1. /\ <<>> \in Seq(Nat) /\ <<Offered>> \in Seq(Nat)
            /\ \A q \in Seq(Nat) : Append(q, Offered) \in Seq(Nat)
        BY <3>2
      <4> QED
        BY <2>2, <4>1 DEF RecvMsgGetsMessage, RecvMsgGetsSecond, TakesFromRCh,
           Returns, TypeOK
    <3>4. recv' \in {"idle", "more", "many"} /\ result' \in {result, "msg", "invalid"}
      BY <2>2 DEF RecvMsgGetsMessage, RecvMsgGetsSecond, Returns
    <3> QED
      BY <3>1, <3>3, <3>4 DEF TakesFromRCh, TypeOK
  <2>4. CASE RecvMsgGetsEnd
    <3>1. /\ given' = given \/ given' = given \o inHand
          /\ inHand' = inHand \/ inHand' = <<>>
          /\ recv' \in {"idle", "panic"}
          /\ result' \in {result, "EOF", "err", "msg", rErr}
          /\ UNCHANGED <<callVars, pipeVars, send, wErr, consumed, httpVars, endVars,
                         peerVars>>
      <4>1. CASE done
        BY <2>4, <4>1 DEF RecvMsgGetsEnd, Returns, Terminal, AfterLast
      <4>2. CASE ~done
        BY <2>4, <4>2 DEF RecvMsgGetsEnd
      <4> QED
        BY <4>1, <4>2
    <3>2. given' \in Seq(Nat) /\ inHand' \in Seq(Nat)
      <4>1. inHand \in Seq(Nat) /\ given \in Seq(Nat) /\ <<>> \in Seq(Nat)
        BY DEF TypeOK
      <4>2. given \o inHand \in Seq(Nat)
        BY <4>1
      <4> QED
        BY <3>1, <4>1, <4>2
    <3> QED
      BY <3>1, <3>2 DEF Results, TypeOK
  <2>3. CASE RecvMsgTooMany
    <3>1. /\ rErr' \in Results /\ done' \in BOOLEAN /\ ctxDone' \in BOOLEAN
          /\ result' = rErr' /\ recv' = "idle" /\ inHand' = <<>>
          /\ UNCHANGED <<respStream, pipeVars, send, wErr, consumed, given, httpVars,
                         rMu, tr, peerVars>>
      BY <2>3, Zenon DEF RecvMsgTooMany, Returns, Results, TypeOK
    <3> QED
      BY <3>1 DEF Results, TypeOK
  <2> QED
    BY <1>3, <2>1, <2>2, <2>3, <2>4 DEF RecvStep
<1>4. CASE HttpStep
  <2>1. CASE RoundTripFails \/ RoundTripReplies \/ ChecksReply
    <3>1. ready' \in -1..1
      BY <2>1 DEF RoundTripFails, RoundTripReplies, ChecksReply, OnReady, PlaceInv
    <3>2. /\ hErr' \in Results /\ hdr' \in {"none", "ok", "err"}
          /\ tr' \in {"unset", "ok", "err"}
          /\ hpc' \in {"finish", "drain", "replied", "reading", "panic"}
          /\ UNCHANGED <<callVars, pipeVars, appVars, rdVars, rMu, done, rErr,
                         peerVars>>
      BY <2>1 DEF RoundTripFails, RoundTripReplies, ChecksReply, OnReady, Results,
         TypeOK
    <3> QED
      BY <3>1, <3>2 DEF TypeOK
  <2>2. CASE ReadsFrame \/ ReadFails \/ OfferAbandoned
    BY <2>2 DEF ReadsFrame, ReadFails, OfferAbandoned, EndWithoutTrailer, Results,
                TypeOK
  <2>3. CASE ReadsTrailer \/ Drains \/ FinishStep
    BY <2>3 DEF ReadsTrailer, Drains, FinishStep, ReportsEnd,
         ClosesPipe, ClosesRCh, ReleasesRMu, Results, TypeOK
  <2> QED
    BY <1>4, <2>1, <2>2, <2>3 DEF HttpStep
<1>5. CASE ClosePipeOnCancel
  BY <1>5 DEF ClosePipeOnCancel, TypeOK
<1>6. CASE RequestTaken \/ PeerReplies \/ PeerCloses \/ PeerBreaks
  BY <1>6 DEF RequestTaken, PeerReplies, PeerCloses, PeerBreaks, TypeOK
<1>7. CASE PeerSends \/ PeerReturns
  <2>1. respLog' \in Seq(Frames) /\ Len(respLog') >= Len(respLog)
    BY <1>7, PeerWrites
  <2>2. peer' \in {"responding", "ending"} /\ reply' = reply
        /\ UNCHANGED <<callVars, pipeVars, appVars, httpVars, endVars>>
    BY <1>7 DEF PeerSends, PeerReturns
  <2> QED
    BY <2>1, <2>2 DEF TypeOK, Frames
<1>8. CASE Over \/ UNCHANGED vars
  BY <1>8 DEF Over, vars, TypeOK
<1> QED
  BY <1>1, <1>2, <1>3, <1>4, <1>5, <1>6, <1>7, <1>8 DEF Next, PeerStep

(* Only ReadsFrame moves on in the reply, and what was read stays.         *)
LEMMA FramesKept ==
    ASSUME TypeOK, PlaceInv, LogInv, [Next]_vars
    PROVE  /\ LogInv' /\ Len(respLog') >= Len(respLog)
           /\ \A i \in 1..Len(respLog) : respLog'[i] = respLog[i]
           /\ \/ respRd' = respRd
              \/ ReadsFrame
           /\ GotTrailer => respRd' = respRd /\ respLog' = respLog
<1> USE DEF callVars, pipeVars, appVars, msgVars, httpVars, rdVars, hdrVars,
           endVars, peerVars, Reporting
<1>1. CASE Cancel \/ SendMsg \/ CloseSend \/ Header \/ RecvMsg \/ SendStep
           \/ RecvStep \/ ClosePipeOnCancel \/ RequestTaken \/ Over
           \/ UNCHANGED vars
  <2>1. UNCHANGED <<respRd, peer, reply, respLog>>
    BY <1>1 DEF Cancel, SendMsg, CloseSend, Header, RecvMsg, SendStep, RecvStep,
           SendMsgChecks, SendMsgFails, HeaderReturns, RecvMsgChecks,
           RecvMsgGetsMessage, RecvMsgGetsSecond, TakesFromRCh, RecvMsgTooMany,
           RecvMsgSeesClosed, RecvMsgGetsEnd, RecvMsgGetsCtxDone, ClosePipeOnCancel,
           RequestTaken, Over, vars
  <2> QED
    BY <2>1 DEF LogInv, TypeOK
<1>2. CASE HttpStep
  <2>1. UNCHANGED <<peer, reply, respLog>> /\ (respRd' = respRd \/ ReadsFrame)
    <3>1. CASE ReadsFrame
      BY <3>1 DEF ReadsFrame
    <3> QED
      BY <1>2, <3>1 DEF HttpStep, RoundTripFails, RoundTripReplies, ChecksReply,
         ReadFails, OfferAbandoned, ReadsTrailer, Drains, FinishStep, ReportsEnd,
         ClosesPipe, ClosesRCh, ReleasesRMu
  <2>2. ReadsFrame => ~GotTrailer
    BY DEF ReadsFrame, PlaceInv
  <2> QED
    BY <2>1, <2>2 DEF LogInv, TypeOK
<1>3. CASE PeerSends \/ PeerReturns
  <2>1. respRd' = respRd /\ peer = "responding"
    BY <1>3 DEF PeerSends, PeerReturns
  <2>2. ~GotTrailer
    BY <2>1, TrailerIsLast
  <2> QED
    BY <1>3, <2>1, <2>2, PeerWrites
<1>4. CASE PeerReplies \/ PeerCloses \/ PeerBreaks
  <2>1. UNCHANGED <<respRd, respLog>>
    BY <1>4 DEF PeerReplies, PeerCloses, PeerBreaks
  <2>2. LogInv'
    BY <1>4 DEF PeerReplies, PeerCloses, PeerBreaks, LogInv
  <2> QED
    BY <2>1, <2>2 DEF TypeOK
<1> QED
  BY <1>1, <1>2, <1>3, <1>4 DEF Next, PeerStep

(* A step that does not read a frame does not change what the last was.    *)
LEMMA LastFrameKept ==
    ASSUME TypeOK, PlaceInv, LogInv, [Next]_vars, respRd' = respRd
    PROVE  /\ respRd > 0 => respLog'[respRd'] = respLog[respRd]
           /\ GotTrailer' = GotTrailer /\ OkTrailer' = OkTrailer
           /\ \A kind : Received(kind) => Received(kind)'
<1>1. \A i \in 1..respRd : respLog'[i] = respLog[i]
  BY FramesKept DEF TypeOK
<1>2. respRd > 0 => respLog'[respRd'] = respLog[respRd]
  <2>1. respRd \in Nat
    BY DEF TypeOK
  <2>2. respRd > 0 => respRd \in 1..respRd
    BY <2>1
  <2> QED
    BY <1>1, <2>2
<1>3. \A kind : Received(kind) => Received(kind)'
  BY <1>1 DEF Received
<1> QED
  BY <1>2, <1>3 DEF GotTrailer, OkTrailer

LEMMA PlaceStep ==
    ASSUME TypeOK, PlaceInv, LogInv, EndInv, [Next]_vars
    PROVE  PlaceInv'
<1> USE DEF callVars, pipeVars, appVars, msgVars, httpVars, rdVars, hdrVars,
           endVars, peerVars, Reporting
<1>1. CASE ReadsFrame
  <2>1. /\ hpc' = IF respLog[respRd'].kind = "data" THEN "offering" ELSE "trailer"
        /\ respRd' = respRd + 1 /\ respRd \in Nat /\ hErr = "none"
        /\ ready' = 0 /\ ~rChClosed' /\ UNCHANGED <<hErr, respLog>>
    BY <1>1 DEF ReadsFrame, PlaceInv, TypeOK
  <2>2. hpc' \in {"offering", "trailer"} /\ (GotTrailer' <=> hpc' = "trailer")
    BY <2>1 DEF GotTrailer
  <2> QED
    BY <2>1, <2>2 DEF PlaceInv
<1>2. CASE ~ReadsFrame
  <2>1. respRd' = respRd
    BY <1>2, FramesKept
  <2>2. GotTrailer' = GotTrailer
    BY <2>1, LastFrameKept
  <2>3. CASE RoundTripFails \/ RoundTripReplies \/ ChecksReply
    <3>1. ~GotTrailer
      BY <2>3 DEF RoundTripFails, RoundTripReplies, ChecksReply, PlaceInv
    <3>2. /\ rChClosed' = rChClosed /\ reply' = reply
          /\ hpc \in {"roundTrip", "replied"} /\ respRd = 0 /\ hErr = "none"
      BY <2>3 DEF RoundTripFails, RoundTripReplies, ChecksReply, PlaceInv
    <3>3. CASE RoundTripFails
      <4>1. ready' = 0 /\ hpc' = "finish"
        BY <3>3 DEF RoundTripFails, OnReady, PlaceInv
      <4> QED
        BY <2>1, <2>2, <3>1, <3>2, <4>1 DEF PlaceInv
    <3>4. CASE RoundTripReplies
      BY <2>1, <2>2, <3>1, <3>2, <3>4 DEF RoundTripReplies, OnReady, PlaceInv
    <3>5. CASE ChecksReply
      BY <2>1, <2>2, <3>1, <3>2, <3>5 DEF ChecksReply, OnReady, PlaceInv
    <3> QED
      BY <2>3, <3>3, <3>4, <3>5
  <2>4. CASE ReadFails \/ OfferAbandoned \/ RecvMsgGetsMessage \/ RecvMsgGetsSecond
    <3>1. ~GotTrailer
      BY <2>4 DEF ReadFails, OfferAbandoned, RecvMsgGetsMessage, RecvMsgGetsSecond,
         TakesFromRCh, PlaceInv
    <3> QED
      BY <2>1, <2>2, <2>4, <3>1 DEF ReadFails, OfferAbandoned, RecvMsgGetsMessage,
         RecvMsgGetsSecond, TakesFromRCh, PlaceInv
  <2>5. CASE ReadsTrailer \/ Drains \/ FinishStep
    BY <2>1, <2>2, <2>5 DEF ReadsTrailer, Drains, FinishStep, ReportsEnd,
         ClosesPipe, ClosesRCh, ReleasesRMu, PlaceInv
  <2>6. CASE PeerReplies
    BY <2>1, <2>2, <2>6 DEF PeerReplies, PlaceInv
  <2>7. CASE UNCHANGED <<hpc, hErr, ready, reply, rChClosed>>
    BY <2>1, <2>2, <2>7 DEF PlaceInv
  <2> QED
    BY <1>2, <2>3, <2>4, <2>5, <2>6, <2>7 DEF Next, SendStep, RecvStep, HttpStep,
       PeerStep, Cancel, SendMsg, CloseSend, Header, RecvMsg, SendMsgChecks,
       SendMsgFails, HeaderReturns, RecvMsgChecks, RecvMsgTooMany,
       RecvMsgSeesClosed,
       RecvMsgGetsEnd, RecvMsgGetsCtxDone, ClosePipeOnCancel, RequestTaken,
       PeerSends, PeerReturns,
       PeerCloses, PeerBreaks, Over, vars
<1> QED
  BY <1>1, <1>2

LEMMA HandedStep ==
    ASSUME TypeOK, PlaceInv, LogInv, HandedOver, [Next]_vars
    PROVE  HandedOver'
<1> USE DEF callVars, pipeVars, appVars, msgVars, httpVars, rdVars, hdrVars,
           endVars, peerVars, Reporting
<1>1. CASE ReadsFrame
  <2>1. /\ hpc' = IF respLog[respRd'].kind = "data" THEN "offering" ELSE "trailer"
        /\ respRd' = respRd + 1 /\ respRd \in Nat /\ hErr = "none" /\ hpc = "reading"
        /\ UNCHANGED <<hErr, respLog, consumed>>
    BY <1>1 DEF ReadsFrame, PlaceInv, TypeOK
  <2>2. hpc' = "offering" \/ GotTrailer'
    BY <2>1 DEF GotTrailer
  <2>3. ~GotTrailer
    BY <2>1 DEF PlaceInv
  <2> QED
    BY <2>1, <2>2, <2>3 DEF HandedOver
<1>2. CASE ~ReadsFrame
  <2>1. respRd' = respRd
    BY <1>2, FramesKept
  <2>2. GotTrailer' = GotTrailer
    BY <2>1, LastFrameKept
  <2>3. CASE RecvMsgGetsMessage \/ RecvMsgGetsSecond
    <3>1. /\ consumed' = Append(consumed, respLog[respRd].n) /\ hErr' = hErr
          /\ hpc = "offering" /\ hpc' = "reading"
      BY <2>3 DEF RecvMsgGetsMessage, RecvMsgGetsSecond, TakesFromRCh, Offered
    <3>2. Len(consumed') = Len(consumed) + 1 /\ Len(consumed) \in Nat
      BY <3>1 DEF TypeOK
    <3>3. ~GotTrailer
      BY <3>1 DEF PlaceInv
    <3> QED
      BY <2>1, <2>2, <3>1, <3>2, <3>3 DEF HandedOver, TypeOK
  <2>4. CASE RoundTripFails \/ RoundTripReplies \/ ChecksReply \/ ReadFails
             \/ OfferAbandoned \/ ReadsTrailer \/ Drains \/ FinishStep
    <3>1. hErr' = "none" => hErr = "none" /\ hpc # "offering" /\ hpc' # "offering"
      BY <2>4 DEF RoundTripFails, RoundTripReplies, ChecksReply, ReadFails, OnReady,
         OfferAbandoned, ReadsTrailer, Drains, FinishStep, ReportsEnd,
         ClosesPipe, ClosesRCh, ReleasesRMu, EndWithoutTrailer, PlaceInv
    <3>2. consumed' = consumed
      BY <2>4 DEF RoundTripFails, RoundTripReplies, ChecksReply, ReadFails,
         OfferAbandoned, ReadsTrailer, Drains, FinishStep, ReportsEnd,
         ClosesPipe, ClosesRCh, ReleasesRMu
    <3> QED
      BY <2>1, <2>2, <3>1, <3>2 DEF HandedOver
  <2>5. CASE UNCHANGED <<hpc, hErr, consumed>>
    BY <2>1, <2>2, <2>5 DEF HandedOver
  <2> QED
    BY <1>2, <2>3, <2>4, <2>5 DEF Next, SendStep, RecvStep, HttpStep,
       PeerStep, Cancel, SendMsg, CloseSend, Header, RecvMsg, SendMsgChecks,
       SendMsgFails, HeaderReturns, RecvMsgChecks, RecvMsgTooMany,
       RecvMsgSeesClosed,
       RecvMsgGetsEnd, RecvMsgGetsCtxDone, ClosePipeOnCancel, RequestTaken,
       PeerReplies, PeerSends,
       PeerReturns, PeerCloses, PeerBreaks, Over, vars
<1> QED
  BY <1>1, <1>2

LEMMA EndStep ==
    ASSUME TypeOK, PlaceInv, LogInv, EndInv, [Next]_vars
    PROVE  EndInv'
<1> USE DEF callVars, pipeVars, appVars, msgVars, httpVars, rdVars, hdrVars,
           endVars, peerVars, Reporting
<1>1. CASE ReadsFrame
  <2>1. /\ respRd' = respRd + 1 /\ respRd \in Nat /\ hpc = "reading"
        /\ hpc' \in {"offering", "trailer"}
        /\ UNCHANGED <<hErr, respLog, endVars, reply>>
    BY <1>1 DEF ReadsFrame, TypeOK
  <2>2. ~GotTrailer
    BY <2>1 DEF PlaceInv
  <2>3. Received("err") => Received("err")'
    BY <2>1 DEF Received
  <2> QED
    BY <2>1, <2>2, <2>3 DEF EndInv
<1>2. CASE ~ReadsFrame
  <2> DEFINE kind == respLog[respRd].kind
  <2>1. respRd' = respRd
    BY <1>2, FramesKept
  <2>2. /\ GotTrailer' = GotTrailer /\ (GotTrailer => kind' = kind)
        /\ Received("err") => Received("err")'
    BY <2>1, LastFrameKept DEF GotTrailer
  <2>3. CASE RecvMsgTooMany
    BY <2>1, <2>2, <2>3 DEF RecvMsgTooMany, EndInv
  <2>4. CASE RoundTripFails \/ RoundTripReplies \/ ReadFails \/ OfferAbandoned
    <3>1. /\ hpc' \in {"replied", "drain", "finish"}
          /\ hpc \in {"roundTrip", "reading", "offering"}
      BY <2>4 DEF RoundTripFails, RoundTripReplies, ReadFails, OfferAbandoned
    <3>2. hpc' = "replied" \/ hErr' # "none"
      BY <2>4 DEF RoundTripFails, RoundTripReplies, ReadFails, OfferAbandoned,
      OnReady,
         EndWithoutTrailer
    <3>3. UNCHANGED <<endVars, reply>>
      BY <2>4 DEF RoundTripFails, RoundTripReplies, ReadFails, OfferAbandoned
    <3> QED
      BY <2>1, <2>2, <3>1, <3>2, <3>3 DEF EndInv
  <2>5. CASE ChecksReply
    <3>1. ~GotTrailer /\ hErr = "none" /\ hpc = "replied"
      BY <2>5 DEF ChecksReply, PlaceInv
    <3> QED
      BY <2>1, <2>2, <2>5, <3>1 DEF ChecksReply, OnReady, EndInv
  <2>6. CASE ReadsTrailer
    <3>1. GotTrailer /\ hErr = "none" /\ hpc = "trailer" /\ hpc' = "drain" /\ ~rMu /\ rMu'
      BY <2>6 DEF ReadsTrailer, PlaceInv
    <3>2. /\ rErr' = IF kind = "invalid" THEN "net" ELSE "none"
          /\ tr' = IF kind = "err" THEN "err" ELSE "ok"
          /\ UNCHANGED <<hErr, done, reply, respLog, respRd>>
      BY <2>6 DEF ReadsTrailer
    <3>3. kind \in {"ok", "err", "invalid"}
      <4>1. respRd \in 1..Len(respLog) /\ respLog \in Seq(Frames)
        BY <3>1 DEF GotTrailer, TypeOK, Frames
      <4>2. respLog[respRd] \in Frames
        BY <4>1
      <4> QED
        BY <3>1, <4>2 DEF Frames, GotTrailer
    <3>4. kind = "err" => Received("err")
      BY <3>1 DEF Received, GotTrailer, TypeOK
    <3>5. hpc' # "gone" /\ hpc # "gone"
      BY <3>1
    <3> HIDE DEF kind
    <3>6. tr' = "ok" => kind \in {"ok", "invalid"}
      BY <3>2, <3>3
    <3>7. tr' = "ok" /\ kind = "invalid" => rErr' # "none"
      BY <3>2
    <3>8. tr' = "err" => Received("err")'
      BY <2>2, <3>2, <3>4
    <3>9. tr' # "unset"
      BY <3>2
    <3> QED
      BY <2>1, <2>2, <3>1, <3>5, <3>6, <3>7, <3>8, <3>9 DEF EndInv, kind
  <2>7. CASE Drains
    <3>1. hpc = "drain" /\ hpc' = "finish"
          /\ UNCHANGED <<hErr, endVars, reply>>
      BY <2>7 DEF Drains
    <3> QED
      BY <2>1, <2>2, <3>1 DEF EndInv
  <2>8. CASE FinishStep
    <3>1. CASE ReportsEnd
      <4>1. /\ hpc = "finish" /\ hpc' = "closePipe" /\ done' /\ rMu'
            /\ rErr' = (IF rErr = "none" THEN hErr ELSE rErr)
            /\ UNCHANGED <<hErr, tr, reply, respLog>>
        BY <3>1 DEF ReportsEnd
      <4>2. rErr' = "none" => hErr = "none" /\ rErr = "none"
        BY <4>1
      <4> QED
        BY <2>1, <2>2, <4>1, <4>2 DEF EndInv, Reporting
    <3>2. CASE ClosesPipe \/ ClosesRCh
      <4>1. /\ hpc \in Reporting /\ hpc' \in Reporting
            /\ UNCHANGED <<endVars, hErr, reply, respLog>>
        BY <3>2 DEF ClosesPipe, ClosesRCh, Reporting
      <4> QED
        BY <2>1, <2>2, <4>1 DEF EndInv, Reporting
    <3>3. CASE ReleasesRMu
      <4>1. /\ hpc \in Reporting /\ hpc' = "gone" /\ ~rMu'
            /\ UNCHANGED <<done, rErr, tr, hErr, reply, respLog>>
        BY <3>3 DEF ReleasesRMu, Reporting
      <4> QED
        BY <2>1, <2>2, <4>1 DEF EndInv, Reporting
    <3> QED
      BY <2>8, <3>1, <3>2, <3>3 DEF FinishStep
  <2>9. CASE ClosePipeOnCancel \/ PeerReplies
    BY <2>1, <2>2, <2>9 DEF ClosePipeOnCancel, PeerReplies, EndInv, LogInv
  <2>10. CASE RecvMsgGetsMessage \/ RecvMsgGetsSecond
    <3>1. hpc = "offering" /\ hpc' = "reading" /\ UNCHANGED <<hErr, endVars, reply>>
      BY <2>10 DEF RecvMsgGetsMessage, RecvMsgGetsSecond, TakesFromRCh
    <3> QED
      BY <2>1, <2>2, <3>1 DEF EndInv
  <2>11. CASE UNCHANGED <<hpc, hErr, endVars, reply>>
    BY <2>1, <2>2, <2>11 DEF EndInv
  <2> QED
    BY <1>2, <2>3, <2>4, <2>5, <2>6, <2>7, <2>8, <2>9, <2>10, <2>11 DEF Next,
    SendStep,
       RecvStep, HttpStep,
       PeerStep, Cancel, SendMsg, CloseSend, Header, RecvMsg, SendMsgChecks,
       SendMsgFails, HeaderReturns, RecvMsgChecks, RecvMsgSeesClosed,
       RecvMsgGetsEnd,
       RecvMsgGetsCtxDone, RequestTaken, PeerSends,
       PeerReturns, PeerCloses, PeerBreaks, Over, vars
<1> QED
  BY <1>1, <1>2

(* The outcome RecvMsg reads under rMu is final only once doHttpCall is    *)
(* gone, and an EOF then has an OK trailer behind it.                      *)
LEMMA TerminalMeaning ==
    ASSUME TypeOK, EndInv, done, ~rMu
    PROVE  /\ Terminal \in {"EOF", "err", "net", "rawCtx"} => hpc = "gone"
           /\ Terminal = "EOF" => OkTrailer
           /\ Terminal = "err" => tr = "err"
           /\ Terminal # "msg"
<1>1. hpc # "gone" => rErr = "many"
  BY DEF EndInv
<1>2. rErr \notin {"EOF", "err", "msg"}
  BY DEF TypeOK, Results
<1>3. Terminal = "EOF" => rErr = "none" /\ tr # "err" /\ hpc = "gone" /\ hErr = "none"
  BY <1>1, <1>2 DEF Terminal, EndInv
<1>4. Terminal = "EOF" => tr = "ok"
  BY <1>3 DEF EndInv, TypeOK
<1>5. Terminal = "EOF" => OkTrailer
  BY <1>3, <1>4 DEF EndInv, OkTrailer, GotTrailer
<1> QED
  BY <1>1, <1>2, <1>3, <1>5 DEF Terminal

LEMMA ResultStep ==
    ASSUME TypeOK, PlaceInv, LogInv, EndInv, ResultInv, [Next]_vars
    PROVE  ResultInv'
<1> USE DEF callVars, pipeVars, appVars, msgVars, httpVars, rdVars, hdrVars,
           endVars, peerVars, Reporting
<1> DEFINE Final == {"EOF", "err", "net", "rawCtx"}
<1>1. OkTrailer => OkTrailer'
  <2>1. OkTrailer => ~ReadsFrame
    BY DEF OkTrailer, ReadsFrame, PlaceInv, GotTrailer
  <2>2. OkTrailer => respRd' = respRd
    BY <2>1, FramesKept
  <2> QED
    BY <2>2, LastFrameKept
<1>2. CASE (RecvMsgChecks \/ RecvMsgGetsEnd) /\ done
  <2>1. ~rMu /\ UNCHANGED <<callVars, httpVars, endVars>>
    BY <1>2 DEF RecvMsgChecks, RecvMsgGetsEnd
  <2>2. Terminal' = Terminal
    BY <2>1 DEF Terminal
  <2>3. recv' = "idle" /\ result' \in {Terminal, "msg"}
    BY <1>2 DEF RecvMsgChecks, RecvMsgGetsEnd, Returns, AfterLast
  <2> QED
    BY <1>1, <1>2, <2>1, <2>2, <2>3, TerminalMeaning DEF ResultInv
<1>9. CASE ((RecvMsgChecks \/ RecvMsgGetsEnd) /\ ~done) \/ RecvMsgSeesClosed
  <2>1. result' = result /\ UNCHANGED <<callVars, httpVars, endVars>>
    BY <1>9 DEF RecvMsgChecks, RecvMsgGetsEnd, RecvMsgSeesClosed
  <2>2. ~done \/ recv \in {"wait", "more"}
    BY <1>9 DEF RecvMsgSeesClosed
  <2>3. result \notin Final
    BY <2>2 DEF ResultInv
  <2> QED
    BY <1>1, <2>1, <2>3 DEF ResultInv
<1>3. CASE RecvMsgTooMany
  <2>1. recv = "many" /\ ~rMu /\ recv' = "idle" /\ result' = rErr'
        /\ UNCHANGED <<hpc, respStream, tr, rMu>>
    BY <1>3 DEF RecvMsgTooMany, Returns
  <2>2. CASE rErr = "none"
    <3>1. result' = "many"
      BY <1>3, <2>1, <2>2 DEF RecvMsgTooMany
    <3> QED
      BY <3>1 DEF ResultInv
  <2>3. CASE rErr # "none"
    <3>1. rErr' = rErr /\ done' = done /\ result' = rErr
      BY <1>3, <2>1, <2>3 DEF RecvMsgTooMany
    <3>2. rErr \notin {"EOF", "err", "msg"}
      BY DEF TypeOK, Results
    <3>3. rErr = "many" \/ (hpc = "gone" /\ done)
      BY <2>1, <2>3 DEF EndInv
    <3>4. Terminal' = result'
      BY <2>3, <3>1 DEF Terminal
    <3> QED
      BY <2>1, <3>1, <3>2, <3>3, <3>4 DEF ResultInv
  <2> QED
    BY <2>2, <2>3
<1>4. CASE RecvMsgGetsMessage \/ RecvMsgGetsCtxDone
  <2>1. /\ recv \in {"wait", "more"} /\ UNCHANGED <<respStream, endVars>>
        /\ \/ result' \in {"invalid", "ctx"}
           \/ result' = "msg" /\ respStream
           \/ result' = result
    BY <1>4 DEF RecvMsgGetsMessage, RecvMsgGetsCtxDone, TakesFromRCh, Returns
  <2>2. result \notin Final
    BY <2>1 DEF ResultInv
  <2> QED
    BY <1>1, <2>1, <2>2 DEF ResultInv
<1>5. CASE RecvMsgGetsSecond
  <2>1. /\ recv = "more" /\ recv' = "many" /\ UNCHANGED <<respStream, endVars, result>>
    BY <1>5 DEF RecvMsgGetsSecond, TakesFromRCh
  <2>2. result \notin Final
    BY <2>1 DEF ResultInv
  <2> QED
    BY <1>1, <2>1, <2>2 DEF ResultInv
<1>6. CASE HeaderReturns \/ Header \/ RecvMsg
  <2>1. /\ UNCHANGED <<respStream, result, hpc, endVars>>
        /\ recv' \in {"idle", "header", "check"}
    BY <1>6 DEF HeaderReturns, Header, RecvMsg
  <2> QED
    BY <1>1, <2>1 DEF ResultInv, Terminal
<1>7. CASE HttpStep
  <2>1. UNCHANGED <<respStream, result, recv>> /\ hpc # "gone"
    BY <1>7 DEF HttpStep, RoundTripFails, RoundTripReplies, ChecksReply, ReadsFrame,
       ReadFails, OfferAbandoned, ReadsTrailer, Drains, FinishStep, ReportsEnd,
         ClosesPipe, ClosesRCh, ReleasesRMu, OnReady
  <2>2. result \notin Final
    BY <2>1 DEF ResultInv
  <2> QED
    BY <1>1, <2>1, <2>2 DEF ResultInv
<1>8. CASE UNCHANGED <<respStream, result, recv, hpc, endVars>>
  BY <1>1, <1>8 DEF ResultInv, Terminal
<1> QED
  BY <1>2, <1>3, <1>4, <1>5, <1>6, <1>7, <1>8, <1>9 DEF Next, SendStep,
     RecvStep, PeerStep, Cancel, SendMsg, CloseSend, SendMsgChecks, SendMsgFails,
     ClosePipeOnCancel,
     RequestTaken, PeerReplies, PeerSends, PeerReturns, PeerCloses, PeerBreaks,
     Over,
     vars

(* rCh is closed while rMu is held and after done was set, so that a       *)
(* RecvMsg that has found it closed and then gets rMu finds done.          *)
LEMMA ClosedStep ==
    ASSUME TypeOK, PlaceInv, LogInv, EndInv, ClosedInv, [Next]_vars
    PROVE  ClosedInv'
<1> USE DEF callVars, pipeVars, appVars, msgVars, httpVars, rdVars, hdrVars,
           endVars, peerVars, Reporting
<1>1. CASE RecvMsgGetsEnd
  <2>1. hpc = "gone"
    BY <1>1 DEF RecvMsgGetsEnd, ClosedInv, PlaceInv, EndInv
  <2> QED
    BY <1>1, <2>1 DEF RecvMsgGetsEnd, Returns, EndInv, ClosedInv
<1>2. CASE RecvStep /\ ~RecvMsgGetsEnd
  BY <1>2 DEF RecvStep, HeaderReturns, RecvMsgChecks, RecvMsgGetsMessage,
     RecvMsgGetsSecond, TakesFromRCh, RecvMsgTooMany, RecvMsgSeesClosed,
     RecvMsgGetsCtxDone, Returns, ClosedInv
<1>3. CASE Header \/ RecvMsg
  BY <1>3 DEF Header, RecvMsg, ClosedInv
<1>4. CASE HttpStep
  <2>1. recv' = recv /\ (rChClosed => rChClosed')
    BY <1>4 DEF HttpStep, RoundTripFails, RoundTripReplies, ChecksReply, ReadsFrame,
       ReadFails, OfferAbandoned, ReadsTrailer, Drains, FinishStep, ReportsEnd,
       ClosesPipe, ClosesRCh, ReleasesRMu
  <2> QED
    BY <2>1 DEF ClosedInv
<1>5. CASE UNCHANGED <<recv, rChClosed>>
  BY <1>5 DEF ClosedInv
<1> QED
  BY <1>1, <1>2, <1>3, <1>4, <1>5 DEF Next, SendStep, PeerStep, Cancel, SendMsg,
     CloseSend, SendMsgChecks, SendMsgFails, ClosePipeOnCancel, RequestTaken,
     PeerReplies, PeerSends, PeerReturns, PeerCloses, PeerBreaks, Over, vars

(* The message on offer carries its place in the reply, which is the       *)
(* number of messages taken with it.                                       *)
LEMMA OfferedNumber ==
    ASSUME TypeOK, PlaceInv, LogInv, HandedOver, TakesFromRCh
    PROVE  consumed' \in Seq(Nat) /\ Offered = Len(consumed')
<1>1. /\ hpc = "offering" /\ ~GotTrailer /\ hErr = "none"
      /\ respRd \in 1..Len(respLog) /\ consumed' = Append(consumed, Offered)
  BY DEF TakesFromRCh, PlaceInv, TypeOK
<1>2. Offered = respRd
  BY <1>1 DEF GotTrailer, LogInv, Offered
<1>3. Len(consumed) = respRd - 1 /\ consumed \in Seq(Nat) /\ respRd \in Nat
  BY <1>1 DEF HandedOver, TypeOK
<1> QED
  BY <1>1, <1>2, <1>3

LEMMA GivenStep ==
    ASSUME TypeOK, PlaceInv, LogInv, HandedOver, EndInv, ClosedInv, GivenInv,
           [Next]_vars
    PROVE  GivenInv'
<1> SUFFICES ASSUME ~respStream' PROVE GivenInv'
  BY DEF GivenInv
<1> USE DEF callVars, pipeVars, appVars, msgVars, httpVars, rdVars, hdrVars,
           endVars, peerVars, Reporting
<1>1. respStream' = respStream /\ (OkTrailer => OkTrailer')
  <2>1. OkTrailer => ~ReadsFrame
    BY DEF OkTrailer, ReadsFrame, PlaceInv, GotTrailer
  <2>2. OkTrailer => OkTrailer'
    BY <2>1, FramesKept, LastFrameKept
  <2>3. respStream' = respStream
    BY DEF Next, SendStep, RecvStep, HttpStep, PeerStep, Cancel, SendMsg, CloseSend,
       Header, RecvMsg, SendMsgChecks, SendMsgFails, HeaderReturns, RecvMsgChecks,
       RecvMsgGetsMessage, RecvMsgGetsSecond, TakesFromRCh, RecvMsgTooMany,
       RecvMsgSeesClosed, RecvMsgGetsEnd, RecvMsgGetsCtxDone, RoundTripFails,
       RoundTripReplies, ChecksReply, ReadsFrame, ReadFails, OfferAbandoned,
       ReadsTrailer, Drains, FinishStep, ReportsEnd, ClosesPipe, ClosesRCh,
       ReleasesRMu, ClosePipeOnCancel, RequestTaken, PeerReplies, PeerSends,
       PeerReturns, PeerCloses, PeerBreaks, Over, vars
  <2> QED
    BY <2>2, <2>3
<1>2. CASE RecvMsgChecks
  <2>1. CASE done
    <3>1. /\ ~rMu /\ result' = Terminal /\ recv' = "idle"
          /\ UNCHANGED <<consumed, given, hpc, done>>
      BY <1>2, <2>1 DEF RecvMsgChecks, Returns
    <3> QED
      BY <1>1, <2>1, <3>1, TerminalMeaning DEF GivenInv
  <2>2. CASE ~done
    BY <1>1, <1>2, <2>2 DEF RecvMsgChecks, GivenInv
  <2> QED
    BY <2>1, <2>2
<1>3. CASE RecvMsgGetsMessage \/ RecvMsgGetsSecond
  <2>1. TakesFromRCh /\ recv \in {"wait", "more"}
    BY <1>3 DEF RecvMsgGetsMessage, RecvMsgGetsSecond
  <2>2. Offered = Len(consumed')
    BY <2>1, OfferedNumber
  <2>3. given = <<>> /\ result # "msg"
    BY <1>1, <2>1 DEF GivenInv
  <2>4. given' = given /\ result' # "msg"
        /\ (recv' \in {"more", "moreEnded"} => inHand' = <<Offered>>)
    BY <1>1, <1>3, <2>3 DEF RecvMsgGetsMessage, RecvMsgGetsSecond, Returns
  <2> QED
    BY <2>2, <2>3, <2>4 DEF GivenInv
<1>4. CASE RecvMsgSeesClosed
  <2>1. /\ recv \in {"wait", "more"} /\ recv' \in {"ended", "moreEnded"}
        /\ (recv' = "moreEnded" => recv = "more")
        /\ UNCHANGED <<consumed, inHand, given, result>>
    BY <1>4 DEF RecvMsgSeesClosed
  <2> QED
    BY <1>1, <2>1 DEF GivenInv
<1>5. CASE RecvMsgGetsEnd
  <2>1. /\ recv \in {"ended", "moreEnded"} /\ ~rMu
        /\ UNCHANGED <<consumed, hpc, done>>
    BY <1>5 DEF RecvMsgGetsEnd
  <2>2. hpc = "gone" /\ done /\ given = <<>>
    BY <1>1, <2>1 DEF ClosedInv, PlaceInv, EndInv, GivenInv
  <2>3. recv' = "idle"
        /\ result' = (IF recv = "ended" THEN Terminal ELSE AfterLast)
        /\ given' = IF result' = "msg" THEN given \o inHand ELSE given
    BY <1>5, <2>2 DEF RecvMsgGetsEnd, Returns
  <2>4. CASE result' # "msg"
    BY <2>2, <2>3, <2>4 DEF GivenInv
  <2>5. CASE result' = "msg"
    <3>1. recv = "moreEnded" /\ Terminal = "EOF"
      BY <2>1, <2>2, <2>3, <2>5, TerminalMeaning DEF AfterLast
    <3>2. OkTrailer
      BY <2>1, <2>2, <3>1, TerminalMeaning
    <3>3. given' = <<Len(consumed)>>
      <4>1. inHand = <<Len(consumed)>>
        BY <1>1, <3>1 DEF GivenInv
      <4>2. given' = <<>> \o inHand
        BY <2>2, <2>3, <2>5
      <4> QED
        BY <4>1, <4>2
    <3>4. <<Len(consumed)>> # <<>>
      OBVIOUS
    <3> QED
      BY <1>1, <2>1, <2>2, <2>3, <3>2, <3>3, <3>4 DEF GivenInv
  <2> QED
    BY <2>4, <2>5
<1>6. CASE RecvMsgTooMany
  <2>1. recv = "many" /\ recv' = "idle" /\ result' = rErr' /\ given' = given
    BY <1>6 DEF RecvMsgTooMany, Returns
  <2>2. given = <<>> /\ rErr' # "msg"
    BY <1>1, <1>6, <2>1 DEF RecvMsgTooMany, GivenInv, TypeOK, Results
  <2> QED
    BY <2>1, <2>2 DEF GivenInv
<1>7. CASE RecvMsgGetsCtxDone
  <2>1. recv \in {"wait", "more"} /\ recv' = "idle" /\ result' = "ctx" /\ given' = given
    BY <1>7 DEF RecvMsgGetsCtxDone, Returns
  <2> QED
    BY <1>1, <2>1 DEF GivenInv
<1>8. CASE HeaderReturns \/ Header \/ RecvMsg
  <2>1. /\ UNCHANGED <<result, msgVars, hpc, done>>
        /\ recv' \in {"idle", "header", "check"}
    BY <1>8 DEF HeaderReturns, Header, RecvMsg
  <2> QED
    BY <1>1, <2>1 DEF GivenInv
<1>9. CASE HttpStep
  <2>1. UNCHANGED <<result, msgVars, recv>> /\ hpc # "gone"
    BY <1>9 DEF HttpStep, RoundTripFails, RoundTripReplies, ChecksReply, ReadsFrame,
       ReadFails, OfferAbandoned, ReadsTrailer, Drains, FinishStep, ReportsEnd,
       ClosesPipe, ClosesRCh, ReleasesRMu
  <2> QED
    BY <1>1, <2>1 DEF GivenInv
<1>10. CASE UNCHANGED <<result, msgVars, recv, hpc, done>>
  BY <1>1, <1>10 DEF GivenInv
<1> QED
  BY <1>2, <1>3, <1>4, <1>5, <1>6, <1>7, <1>8, <1>9, <1>10 DEF Next, SendStep,
     RecvStep, PeerStep, Cancel, SendMsg, CloseSend, SendMsgChecks, SendMsgFails,
     ClosePipeOnCancel, RequestTaken, PeerReplies, PeerSends, PeerReturns,
     PeerCloses, PeerBreaks, Over, vars

-----------------------------------------------------------------------------
(* The theorems.                                                           *)

THEOREM ClientInvariant == Spec => []IInv
<1>1. Init => IInv
  <2> SUFFICES ASSUME Init PROVE IInv
    OBVIOUS
  <2>1. /\ respLog = <<>> /\ consumed = <<>> /\ inHand = <<>> /\ given = <<>>
        /\ Len(respLog) = 0 /\ Len(consumed) = 0 /\ respRd = 0
    BY DEF Init
  <2>2. respLog \in Seq([kind : {"data", "ok", "err", "invalid"}, n : Nat])
        /\ consumed \in Seq(Nat) /\ inHand \in Seq(Nat) /\ given \in Seq(Nat)
    BY <2>1
  <2>3. \A b \in {respStream, ctxDone, pipeW, pipeR, wErr, rMu, done,
               rChClosed} : b \in BOOLEAN
    BY StreamAssumption, Zenon DEF Init
  <2>4. TypeOK
    BY <2>1, <2>2, <2>3 DEF Init, TypeOK, Results
  <2>5. PlaceInv /\ LogInv
    BY <2>1 DEF Init, PlaceInv, LogInv, GotTrailer
  <2>6. HandedOver /\ EndInv /\ ResultInv /\ ClosedInv /\ GivenInv
    BY <2>1 DEF Init, HandedOver, EndInv, ResultInv, ClosedInv, GivenInv,
    GotTrailer,
       Reporting
  <2> QED
    BY <2>4, <2>5, <2>6 DEF IInv
<1>2. IInv /\ [Next]_vars => IInv'
  BY TypeStep, FramesKept, PlaceStep, HandedStep, EndStep, ResultStep,
     ClosedStep, GivenStep DEF IInv
<1> QED
  BY <1>1, <1>2, PTL DEF Spec

(* Every variable keeps its type; in particular doHttpCall never calls     *)
(* ready.Done() more than twice.                                           *)
THEOREM ClientTypeSafe == Spec => []TypeOK
  BY ClientInvariant, PTL DEF IInv

(* The two panics of RecvMsg are impossible: a RecvMsg that has found rCh  *)
(* closed and then has rMu finds done set, a reason recorded and the       *)
(* headers settled.                                                        *)
THEOREM ClientClosedMeansDone == Spec => []ClosedMeansDone
<1>1. ASSUME IInv PROVE ClosedMeansDone
  <2>1. recv # "panic"
    BY <1>1 DEF IInv, ClosedInv
  <2>2. ASSUME recv \in {"ended", "moreEnded"}, ~rMu
        PROVE  ready = 0 /\ (rErr # "none" \/ tr # "unset")
    <3>1. hpc = "gone"
      BY <1>1, <2>2 DEF IInv, ClosedInv, PlaceInv, EndInv, Reporting
    <3> QED
      BY <1>1, <3>1 DEF IInv, PlaceInv, EndInv
  <2> QED
    BY <2>1, <2>2 DEF ClosedMeansDone
<1> QED
  BY <1>1, ClientInvariant, PTL

(* With an OK trailer in hand every message of the reply has been read and *)
(* handed over.                                                            *)
LEMMA OkIsComplete ==
    ASSUME IInv, OkTrailer
    PROVE  Received("ok") /\ Len(consumed) = Messages
<1>1. GotTrailer /\ respRd = Len(respLog) /\ hErr = "none"
  BY TrailerIsLast DEF OkTrailer, GotTrailer, IInv, PlaceInv
<1>2. Len(consumed) = respRd - 1
  BY <1>1 DEF IInv, HandedOver
<1>3. Messages = Len(respLog) - 1
  BY <1>1, DataCount DEF IInv, GotTrailer
<1>4. Received("ok")
  BY DEF OkTrailer, Received, IInv, TypeOK
<1> QED
  BY <1>1, <1>2, <1>3, <1>4

(* RecvMsg reports the end of the stream, or the server's error, on the    *)
(* strength of the server's own trailer (or status) alone, and an end      *)
(* after every message, wherever the reply is cut off.                     *)
THEOREM ClientEndIsComplete == Spec => []EndIsComplete
<1>1. IInv => EndIsComplete
  BY OkIsComplete DEF IInv, ResultInv, EndInv, EndIsComplete
<1> QED
  BY <1>1, ClientInvariant, PTL

(* Of a method with one response one RecvMsg at most succeeds, with one    *)
(* message, which is the last of the reply and followed by an OK trailer.  *)
THEOREM ClientOneResponse == Spec => []OneResponse
<1>1. IInv => OneResponse
  BY OkIsComplete DEF IInv, GivenInv, OneResponse
<1> QED
  BY <1>1, ClientInvariant, PTL

(* An end that RecvMsg has reported is the end for good: doHttpCall is     *)
(* gone by then, and what it left under rMu does not change.               *)
THEOREM ClientEndIsFinal == Spec => EndIsFinal
<1> DEFINE Final == result \in {"EOF", "err", "net", "rawCtx"}
<1>1. ASSUME IInv, [Next]_vars, Final PROVE result' = result
  <2>1. hpc = "gone" /\ done /\ Terminal = result /\ recv \in {"idle", "header", "check"}
    BY <1>1 DEF IInv, ResultInv
  <2>2. CASE RecvMsgChecks
    BY <2>1, <2>2 DEF RecvMsgChecks, Returns
  <2>3. CASE ~RecvMsgChecks
    <3> USE DEF callVars, pipeVars, appVars, msgVars, httpVars, rdVars, hdrVars,
                endVars, peerVars
    <3>1. CASE HttpStep
      BY <2>1, <3>1 DEF HttpStep, RoundTripFails, RoundTripReplies, ChecksReply,
         ReadsFrame, ReadFails, OfferAbandoned, ReadsTrailer, Drains, FinishStep,
         ReportsEnd,
         ClosesPipe, ClosesRCh, ReleasesRMu
    <3> QED
      BY <1>1, <2>1, <2>3, <3>1 DEF Next, SendStep, RecvStep, PeerStep, Cancel,
      SendMsg,
         CloseSend, Header, RecvMsg, SendMsgChecks, SendMsgFails, HeaderReturns,
         RecvMsgGetsMessage, RecvMsgGetsSecond, RecvMsgTooMany, RecvMsgSeesClosed,
         RecvMsgGetsEnd, RecvMsgGetsCtxDone, TakesFromRCh, ClosePipeOnCancel,
         RequestTaken, PeerReplies,
         PeerSends, PeerReturns, PeerCloses, PeerBreaks, Over, vars
  <2> QED
    BY <2>2, <2>3
<1> QED
  BY <1>1, ClientInvariant, PTL DEF Spec, EndIsFinal
=============================================================================
