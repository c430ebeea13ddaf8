---------------------------- MODULE FramingProofs ----------------------------
(***************************************************************************)
(* The readers of Framing, for messages of any number and size: a body     *)
(* that is cut anywhere is read right.  A frame lies in the body where the *)
(* messages before it end; a reader of a whole frame finds its message, a  *)
(* reader of less says so; and so, call by call, for the whole body.       *)
(***************************************************************************)
EXTENDS Framing, SequenceTheorems, WellFoundedInduction, TLAPS

Kinds == {"size", "data", "line", "open", "close", "data: ", "event: trailer"}
Tokens == [kind : Kinds, v : Int \cup (Nat \X Nat)]

(* Both parts of message n.                                                *)
Frame(format, n) == Parts(format, n).size \o Parts(format, n).bytes

(* r begins as frame does, as far as both go.                              *)
Agrees(r, frame) == \A q \in 1..Len(r) : q <= Len(frame) => r[q] = frame[q]

(* What is left of s after n tokens.                                       *)
Behind(s, n) == SubSeq(s, n + 1, Len(s))

(* No message is longer than what a reader of size prefaces accepts.       *)
SizesFit == \A n \in DOMAIN SizeOf : SizeOf[n] <= maxMessageSize

-----------------------------------------------------------------------------
(* Sequences, and where a kind of token is found first.                    *)
LEMMA PartOfSeq ==
    ASSUME NEW S, NEW s \in Seq(S), NEW a \in 1..(Len(s) + 1),
           NEW b \in (a - 1)..Len(s)
    PROVE  /\ SubSeq(s, a, b) \in Seq(S)
           /\ Len(SubSeq(s, a, b)) = b - a + 1
           /\ \A q \in 1..(b - a + 1) : SubSeq(s, a, b)[q] = s[a + q - 1]
<1>1. a \in Int /\ b \in Int
  OBVIOUS
<1>2. \A i \in a..b : s[i] \in S
  OBVIOUS
<1>3. /\ SubSeq(s, a, b) \in Seq(S)
      /\ Len(SubSeq(s, a, b)) = IF a <= b THEN b - a + 1 ELSE 0
      /\ \A i \in 1..(b - a + 1) : SubSeq(s, a, b)[i] = s[a + i - 1]
  BY <1>1, <1>2, SubSeqProperties
<1>4. (IF a <= b THEN b - a + 1 ELSE 0) = b - a + 1
  BY <1>1
<1> QED BY <1>3, <1>4

LEMMA BehindIs ==
    ASSUME NEW S, NEW s \in Seq(S), NEW n \in 0..Len(s)
    PROVE  /\ Behind(s, n) \in Seq(S) /\ Len(Behind(s, n)) = Len(s) - n
           /\ \A q \in 1..(Len(s) - n) : Behind(s, n)[q] = s[n + q]
<1>1. PICK a \in 1..(Len(s) + 1) : a = n + 1
  OBVIOUS
<1>2. Len(s) \in (a - 1)..Len(s) /\ Len(s) - a + 1 = Len(s) - n
  BY <1>1
<1>3. /\ SubSeq(s, a, Len(s)) \in Seq(S)
      /\ Len(SubSeq(s, a, Len(s))) = Len(s) - n
      /\ \A q \in 1..(Len(s) - n) : SubSeq(s, a, Len(s))[q] = s[a + q - 1]
  BY <1>2, PartOfSeq
<1>4. \A q \in 1..(Len(s) - n) : a + q - 1 = n + q
  BY <1>1
<1> QED BY <1>1, <1>3, <1>4 DEF Behind

LEMMA BehindBehind ==
    ASSUME NEW S, NEW s \in Seq(S), NEW m \in 0..Len(s),
           NEW n \in 0..(Len(s) - m)
    PROVE  Behind(Behind(s, m), n) = Behind(s, m + n)
<1>1. Len(s) \in Nat
  OBVIOUS
<1>2. PICK tail : tail = Behind(s, m)
  OBVIOUS
<1>3. PICK l \in 0..Len(s) : l = m + n
  BY <1>1
<1>4. /\ tail \in Seq(S) /\ Len(tail) = Len(s) - m
      /\ \A q \in 1..(Len(s) - m) : tail[q] = s[m + q]
  BY <1>2, BehindIs
<1>5. n \in 0..Len(tail) /\ Len(tail) - n = Len(s) - l
  BY <1>1, <1>3, <1>4
<1>6. /\ Behind(tail, n) \in Seq(S) /\ Len(Behind(tail, n)) = Len(tail) - n
      /\ \A q \in 1..(Len(tail) - n) : Behind(tail, n)[q] = tail[n + q]
  BY <1>4, <1>5, BehindIs
<1>7. /\ Behind(s, l) \in Seq(S) /\ Len(Behind(s, l)) = Len(s) - l
      /\ \A q \in 1..(Len(s) - l) : Behind(s, l)[q] = s[l + q]
  BY BehindIs
<1>8. ASSUME NEW q \in 1..(Len(s) - l) PROVE tail[n + q] = s[l + q]
  <2>1. n + q \in 1..(Len(s) - m) /\ m + (n + q) = l + q
    BY <1>1, <1>3
  <2> QED BY <1>4, <2>1
<1>9. Behind(tail, n) = Behind(s, l)
  <2>1. Len(Behind(tail, n)) = Len(Behind(s, l))
    BY <1>5, <1>6, <1>7
  <2>2. \A q \in 1..Len(Behind(tail, n)) : Behind(tail, n)[q] = Behind(s, l)[q]
    BY <1>5, <1>6, <1>7, <1>8
  <2> QED BY <1>6, <1>7, <2>1, <2>2, SeqEqual
<1> QED BY <1>2, <1>3, <1>9

LEMMA Joined ==
    ASSUME NEW S, NEW s \in Seq(S), NEW t \in Seq(S)
    PROVE  /\ s \o t \in Seq(S) /\ Len(s \o t) = Len(s) + Len(t)
           /\ \A q \in 1..Len(s) : (s \o t)[q] = s[q]
           /\ \A q \in 1..Len(t) : (s \o t)[Len(s) + q] = t[q]
<1>1. /\ s \o t \in Seq(S) /\ Len(s \o t) = Len(s) + Len(t)
      /\ \A i \in 1 .. Len(s) + Len(t) :
             (s \o t)[i] = IF i <= Len(s) THEN s[i] ELSE t[i - Len(s)]
  BY ConcatProperties
<1>2. Len(s) \in Nat /\ Len(t) \in Nat
  OBVIOUS
<1>3. ASSUME NEW q \in 1..Len(s) PROVE (s \o t)[q] = s[q]
  <2>1. q \in 1 .. Len(s) + Len(t) /\ q <= Len(s)
    BY <1>2
  <2> QED BY <1>1, <2>1
<1>4. ASSUME NEW q \in 1..Len(t) PROVE (s \o t)[Len(s) + q] = t[q]
  <2>1. PICK i \in 1 .. Len(s) + Len(t) : i = Len(s) + q
    BY <1>2
  <2>2. ~(i <= Len(s)) /\ i - Len(s) = q
    BY <1>2, <2>1
  <2> QED BY <1>1, <2>1, <2>2
<1> QED BY <1>1, <1>3, <1>4

LEMMA Sizes ==
    ASSUME NEW n \in DOMAIN SizeOf
    PROVE  /\ SizeOf[n] \in Nat
           /\ Len(Data(n)) = SizeOf[n]
           /\ \A q \in 1..SizeOf[n] : Data(n)[q] = Token("data", <<n, q>>)
BY SizeAssumption DEF Data

LEMMA DataTokens ==
    ASSUME NEW n \in DOMAIN SizeOf, n \in Nat
    PROVE  Data(n) \in Seq(Tokens)
<1>1. SizeOf[n] \in Nat
  BY SizeAssumption
<1>2. \A q \in 1..SizeOf[n] : Token("data", <<n, q>>) \in Tokens
  BY <1>1 DEF Tokens, Token, Kinds
<1>3. PICK s \in Nat : s = SizeOf[n]
  BY <1>1
<1>4. Data(n) \in [1..s -> Tokens]
  BY <1>2, <1>3 DEF Data
<1> QED BY <1>4

LEMMA FindFirst ==
    ASSUME NEW in \in Seq(Tokens), NEW kind, NEW p \in 1..Len(in),
           in[p].kind = kind, \A j \in 1..(p - 1) : in[j].kind # kind
    PROVE  Find(in, kind) = p
<1>1. DOMAIN in = 1..Len(in)
  OBVIOUS
<1>2. ASSUME NEW i \in DOMAIN in, in[i].kind = kind,
             \A j \in 1..(i - 1) : in[j].kind # kind
      PROVE  i = p
  BY <1>1, <1>2
<1> QED BY <1>1, <1>2 DEF Find

LEMMA FindNone ==
    ASSUME NEW in \in Seq(Tokens), NEW kind,
           \A p \in 1..Len(in) : in[p].kind # kind
    PROVE  Find(in, kind) = 0
<1>1. DOMAIN in = 1..Len(in)
  OBVIOUS
<1> QED BY <1>1 DEF Find

LEMMA JoinedTokens ==
    \A s, t \in Seq(Tokens) :
        /\ s \o t \in Seq(Tokens) /\ Len(s \o t) = Len(s) + Len(t)
        /\ \A q \in 1..Len(s) : (s \o t)[q] = s[q]
        /\ \A q \in 1..Len(t) : (s \o t)[Len(s) + q] = t[q]
BY Joined

-----------------------------------------------------------------------------
(* Size prefaces.                                                          *)
LEMMA ProtoFrame ==
    ASSUME NEW n \in DOMAIN SizeOf, n \in Nat
    PROVE  LET f  == Frame("proto", n)
               sz == IF n = 0 THEN -SizeOf[n] ELSE SizeOf[n]
           IN  /\ f \in Seq(Tokens) /\ Len(f) = SizeOf[n] + 2
               /\ f[1] = Token("size", sz) /\ f[2] = Token("size", sz)
               /\ \A q \in 1..SizeOf[n] : f[2 + q] = Data(n)[q]
<1> DEFINE sz == IF n = 0 THEN -SizeOf[n] ELSE SizeOf[n]
           size == <<Token("size", sz), Token("size", sz)>>
<1>1. Frame("proto", n) = size \o Data(n)
  BY DEF Frame, Parts, ProtoParts, SizePreface
<1>2. SizeOf[n] \in Nat /\ sz \in Int
  BY Sizes
<1>3. size \in Seq(Tokens) /\ Len(size) = 2
  BY <1>2 DEF Token, Tokens, Kinds
<1>4. size[1] = Token("size", sz) /\ size[2] = Token("size", sz)
  OBVIOUS
<1> HIDE DEF size
<1>5. Data(n) \in Seq(Tokens) /\ Len(Data(n)) = SizeOf[n]
  BY Sizes, DataTokens
<1>6. /\ size \o Data(n) \in Seq(Tokens) /\ Len(size \o Data(n)) = SizeOf[n] + 2
      /\ (size \o Data(n))[1] = size[1] /\ (size \o Data(n))[2] = size[2]
      /\ \A q \in 1..SizeOf[n] : (size \o Data(n))[2 + q] = Data(n)[q]
  <2> DEFINE d == Data(n)
  <2> HIDE DEF d
  <2>1. /\ size \o d \in Seq(Tokens) /\ Len(size \o d) = Len(size) + Len(d)
        /\ \A q \in 1..Len(size) : (size \o d)[q] = size[q]
        /\ \A q \in 1..Len(d) : (size \o d)[Len(size) + q] = d[q]
    <3>1. d \in Seq(Tokens)
      BY <1>5 DEF d
    <3> QED BY <1>3, <3>1, JoinedTokens
  <2> QED BY <1>2, <1>3, <1>5, <2>1 DEF d
<1> QED BY <1>1, <1>4, <1>6

LEMMA ProtoWhole ==
    ASSUME SizesFit, NEW n \in DOMAIN SizeOf, n \in Nat, NEW r \in Seq(Tokens),
           Len(Frame("proto", n)) <= Len(r), Agrees(r, Frame("proto", n))
    PROVE  Read("proto", r) =
               Found(Data(n), n = 0, Behind(r, Len(Frame("proto", n))))
<1> DEFINE f == Frame("proto", n)
           sz == IF n = 0 THEN -SizeOf[n] ELSE SizeOf[n]
           size == SizeOf[n]
           tail == SubSeq(r, 3, Len(r))
<1>1. /\ Len(f) = size + 2 /\ size \in Nat /\ Len(r) \in Nat /\ Len(r) >= 2
      /\ size <= maxMessageSize /\ maxMessageSize \in Nat
      /\ f[1].v = sz /\ \A q \in 1..size : f[2 + q] = Data(n)[q]
  <2>1. size \in Nat /\ Len(r) \in Nat /\ maxMessageSize \in Nat
    BY SizeAssumption
  <2>2. size <= maxMessageSize
    BY DEF SizesFit
  <2>3. /\ Len(f) = size + 2 /\ f[1] = Token("size", sz)
        /\ \A q \in 1..size : f[2 + q] = Data(n)[q]
    BY ProtoFrame
  <2>4. f[1].v = sz
    <3> HIDE DEF f, sz
    <3> QED BY <2>3 DEF Token
  <2>5. Len(f) <= Len(r)
    OBVIOUS
  <2> HIDE DEF f, sz
  <2> QED BY <2>1, <2>2, <2>3, <2>4, <2>5
<1>2. /\ r[1].v = sz /\ \A q \in 1..size : r[2 + q] = Data(n)[q]
  <2>1. r[1] = f[1]
    BY <1>1 DEF Agrees
  <2>2. ASSUME NEW q \in 1..size PROVE r[2 + q] = f[2 + q]
    <3>1. 2 + q \in 1..Len(r) /\ 2 + q <= Len(f)
      BY <1>1
    <3> QED BY <3>1 DEF Agrees
  <2> QED BY <1>1, <2>1, <2>2
<1>3. (sz < 0) = (n = 0) /\ (IF sz < 0 THEN -sz ELSE sz) = size
  <2>1. SizeOf[0] > 0
    BY SizeAssumption
  <2> QED BY <1>1, <2>1
<1>4. /\ tail \in Seq(Tokens) /\ Len(tail) = Len(r) - 2
      /\ \A q \in 1..(Len(r) - 2) : tail[q] = r[2 + q]
  <2>1. 2 \in 0..Len(r) /\ tail = Behind(r, 2)
    BY <1>1 DEF Behind
  <2> HIDE DEF tail
  <2> QED BY <2>1, BehindIs
<1>5. ReadAtLeast(r, 2) = "none" /\ ReadAtLeast(tail, size) = "none"
  <2> HIDE DEF tail
  <2> QED BY <1>1, <1>4 DEF ReadAtLeast
<1> HIDE DEF sz, tail
<1>6. SubSeq(tail, 1, size) = Data(n)
  <2>1. size \in (1 - 1)..Len(tail) /\ 1 \in 1..(Len(tail) + 1) /\ size - 1 + 1 = size
    BY <1>1, <1>4
  <2>2. /\ SubSeq(tail, 1, size) \in Seq(Tokens)
        /\ Len(SubSeq(tail, 1, size)) = size
        /\ \A q \in 1..size : SubSeq(tail, 1, size)[q] = tail[1 + q - 1]
    BY <1>4, <2>1, PartOfSeq
  <2>3. \A q \in 1..size : SubSeq(tail, 1, size)[q] = Data(n)[q]
    BY <1>1, <1>2, <1>4, <2>2
  <2>4. Data(n) \in Seq(Tokens) /\ Len(Data(n)) = size
    BY Sizes, DataTokens
  <2> QED BY <2>2, <2>3, <2>4, SeqEqual
<1>7. SubSeq(tail, size + 1, Len(tail)) = Behind(r, Len(f))
  <2>1. 2 \in 0..Len(r) /\ size \in 0..(Len(r) - 2) /\ 2 + size = Len(f)
    BY <1>1
  <2>2. Behind(Behind(r, 2), size) = Behind(r, 2 + size)
    BY <2>1, BehindBehind
  <2>3. tail = Behind(r, 2)
    BY DEF Behind, tail
  <2>4. Behind(tail, size) = Behind(r, Len(f))
    <3> HIDE DEF f
    <3> QED BY <2>1, <2>2, <2>3
  <2> HIDE DEF f
  <2> QED BY <2>4 DEF Behind
<1>8. ReadProto(r) = Found(Data(n), n = 0, Behind(r, Len(f)))
  <2>1. /\ ReadAtLeast(r, 2) = "none" /\ r[1].v = sz
        /\ (IF sz < 0 THEN -sz ELSE sz) = size /\ ~(size > maxMessageSize)
        /\ ReadAtLeast(SubSeq(r, 3, Len(r)), size) = "none"
    BY <1>1, <1>2, <1>3, <1>5 DEF tail
  <2>2. ReadProto(r) = Found(SubSeq(tail, 1, size), sz < 0,
                             SubSeq(tail, size + 1, Len(tail)))
    BY <2>1 DEF ReadProto, tail
  <2> QED BY <1>3, <1>6, <1>7, <2>2
<1> QED BY <1>8 DEF Read

LEMMA ProtoCut ==
    ASSUME SizesFit, NEW n \in DOMAIN SizeOf, n \in Nat, NEW r \in Seq(Tokens),
           Len(r) < Len(Frame("proto", n)), Agrees(r, Frame("proto", n))
    PROVE  Read("proto", r) = Fails(IF r = <<>> THEN "EOF" ELSE "cut")
<1> DEFINE f == Frame("proto", n)
           sz == IF n = 0 THEN -SizeOf[n] ELSE SizeOf[n]
           size == SizeOf[n]
           tail == SubSeq(r, 3, Len(r))
<1>1. /\ Len(f) = size + 2 /\ size \in Nat /\ Len(r) \in Nat
      /\ size <= maxMessageSize /\ maxMessageSize \in Nat
      /\ f[1].v = sz
  <2>1. size \in Nat /\ Len(r) \in Nat /\ maxMessageSize \in Nat
    BY SizeAssumption
  <2>2. size <= maxMessageSize
    BY DEF SizesFit
  <2>3. /\ Len(f) = size + 2 /\ f[1] = Token("size", sz)
        /\ \A q \in 1..size : f[2 + q] = Data(n)[q]
    BY ProtoFrame
  <2>4. f[1].v = sz
    <3> HIDE DEF f, sz
    <3> QED BY <2>3 DEF Token
  <2> HIDE DEF f, sz
  <2> QED BY <2>1, <2>2, <2>3, <2>4
<1>2. CASE Len(r) < 2
  <2>1. ReadAtLeast(r, 2) = IF r = <<>> THEN "EOF" ELSE "cut"
    BY <1>1, <1>2 DEF ReadAtLeast
  <2> QED BY <2>1 DEF Read, ReadProto
<1>3. CASE Len(r) >= 2
  <2>1. r[1].v = sz
    BY <1>1, <1>3 DEF Agrees
  <2>2. (IF sz < 0 THEN -sz ELSE sz) = size
    <3>1. SizeOf[0] > 0
      BY SizeAssumption
    <3> QED BY <1>1, <3>1
  <2>3. tail \in Seq(Tokens) /\ Len(tail) = Len(r) - 2
    <3>1. 2 \in 0..Len(r) /\ tail = Behind(r, 2)
      BY <1>1, <1>3 DEF Behind
    <3> HIDE DEF tail
    <3> QED BY <3>1, BehindIs
  <2>4. /\ ReadAtLeast(r, 2) = "none"
        /\ ReadAtLeast(tail, size) \in {"EOF", "cut"}
    <3> HIDE DEF tail
    <3> QED BY <1>1, <1>3, <2>3 DEF ReadAtLeast
  <2>5. r # <<>>
    BY <1>3
  <2>6. AfterPreface(ReadAtLeast(tail, size)) = "cut"
    BY <2>4 DEF AfterPreface
  <2> HIDE DEF sz
  <2>7. ReadProto(r) = Fails("cut")
    BY <1>1, <2>1, <2>2, <2>4, <2>6 DEF ReadProto
  <2> QED BY <2>5, <2>7 DEF Read
<1> QED BY <1>1, <1>2, <1>3

-----------------------------------------------------------------------------
LEMMA Wrapped ==
    ASSUME NEW a \in Tokens, NEW d \in Seq(Tokens), NEW z \in Seq(Tokens)
    PROVE  /\ <<a>> \o d \o z \in Seq(Tokens)
           /\ Len(<<a>> \o d \o z) = 1 + Len(d) + Len(z)
           /\ (<<a>> \o d \o z)[1] = a
           /\ \A q \in 1..Len(d) : (<<a>> \o d \o z)[1 + q] = d[q]
           /\ \A q \in 1..Len(z) : (<<a>> \o d \o z)[1 + Len(d) + q] = z[q]
<1>1. <<a>> \in Seq(Tokens) /\ Len(<<a>>) = 1 /\ <<a>>[1] = a
  OBVIOUS
<1>2. PICK b : b = <<a>>
  OBVIOUS
<1>3. Len(d) \in Nat /\ Len(z) \in Nat
  OBVIOUS
<1>4. /\ b \o d \in Seq(Tokens) /\ Len(b \o d) = 1 + Len(d)
      /\ (b \o d)[1] = a /\ \A q \in 1..Len(d) : (b \o d)[1 + q] = d[q]
  <2>1. b \in Seq(Tokens) /\ Len(b) = 1 /\ b[1] = a
    BY <1>1, <1>2
  <2>2. /\ b \o d \in Seq(Tokens) /\ Len(b \o d) = Len(b) + Len(d)
        /\ \A q \in 1..Len(b) : (b \o d)[q] = b[q]
        /\ \A q \in 1..Len(d) : (b \o d)[Len(b) + q] = d[q]
    BY <2>1, JoinedTokens
  <2>3. 1 \in 1..Len(b)
    BY <2>1
  <2> QED BY <2>1, <2>2, <2>3
<1>5. PICK c : c = b \o d
  OBVIOUS
<1>6. /\ c \o z \in Seq(Tokens) /\ Len(c \o z) = 1 + Len(d) + Len(z)
      /\ \A q \in 1..(1 + Len(d)) : (c \o z)[q] = c[q]
      /\ \A q \in 1..Len(z) : (c \o z)[1 + Len(d) + q] = z[q]
  <2>1. c \in Seq(Tokens) /\ Len(c) = 1 + Len(d)
    BY <1>4, <1>5
  <2>2. /\ c \o z \in Seq(Tokens) /\ Len(c \o z) = Len(c) + Len(z)
        /\ \A q \in 1..Len(c) : (c \o z)[q] = c[q]
        /\ \A q \in 1..Len(z) : (c \o z)[Len(c) + q] = z[q]
    BY <2>1, JoinedTokens
  <2> QED BY <2>1, <2>2
<1>7. 1 \in 1..(1 + Len(d)) /\ \A q \in 1..Len(d) : 1 + q \in 1..(1 + Len(d))
  BY <1>3
<1>8. c \o z = <<a>> \o d \o z
  BY <1>2, <1>5
<1>9. /\ (c \o z)[1] = a
      /\ \A q \in 1..Len(d) : (c \o z)[1 + q] = d[q]
  BY <1>4, <1>5, <1>6, <1>7
<1> QED BY <1>6, <1>8, <1>9

LEMMA FindNothing == \A kind : Find(<<>>, kind) = 0
BY DEF Find

(* The parts of a frame that are not data, and the data.                   *)
LEMMA PlainToken ==
    ASSUME NEW kind \in Kinds
    PROVE  Token(kind, 0) \in Tokens /\ Token(kind, 0).kind = kind
<1>1. PICK v \in Int : v = 0
  OBVIOUS
<1>2. [kind |-> kind, v |-> v] \in Tokens
  BY DEF Tokens
<1> QED BY <1>1, <1>2 DEF Token

LEMMA DataIs ==
    ASSUME NEW n \in DOMAIN SizeOf, n \in Nat
    PROVE  \E d \in Seq(Tokens) : d = Data(n) /\ Len(d) = SizeOf[n]
<1>1. Data(n) \in Seq(Tokens)
  BY DataTokens
<1>2. Len(Data(n)) = SizeOf[n]
  BY Sizes
<1> QED BY <1>1, <1>2

LEMMA JSONFrame ==
    ASSUME NEW n \in DOMAIN SizeOf, n \in Nat
    PROVE  LET f  == Frame("json", n)
           IN  /\ f \in Seq(Tokens) /\ Len(f) = SizeOf[n] + 2
               /\ f[1].kind = "open" /\ f[SizeOf[n] + 2].kind = "close"
               /\ \A q \in 1..SizeOf[n] : f[1 + q] = Data(n)[q]
<1>1. PICK d \in Seq(Tokens) : d = Data(n) /\ Len(d) = SizeOf[n]
  BY DataIs
<1>2. PICK a \in Tokens : a = Token("open", 0) /\ a.kind = "open"
  <2>1. Token("open", 0) \in Tokens /\ Token("open", 0).kind = "open"
    BY PlainToken DEF Kinds
  <2> QED BY <2>1
<1>3. PICK z \in Seq(Tokens) :
          z = <<Token("close", 0)>> /\ Len(z) = 1 /\ z[1].kind = "close"
  <2>1. Token("close", 0) \in Tokens /\ Token("close", 0).kind = "close"
    BY PlainToken DEF Kinds
  <2>2. PICK y \in Tokens : y = Token("close", 0) /\ y.kind = "close"
    BY <2>1
  <2>3. <<y>> \in Seq(Tokens) /\ Len(<<y>>) = 1 /\ <<y>>[1] = y
    OBVIOUS
  <2> QED BY <2>2, <2>3
<1>4. PICK f : f = <<a>> \o d \o z
  OBVIOUS
<1>5. /\ f \in Seq(Tokens) /\ Len(f) = 1 + Len(d) + 1
      /\ f[1] = a /\ \A q \in 1..Len(d) : f[1 + q] = d[q]
      /\ f[1 + Len(d) + 1] = z[1]
  BY <1>3, <1>4, Wrapped
<1>6. Frame("json", n) = <<>> \o f
  BY <1>1, <1>2, <1>3, <1>4 DEF Frame, Parts, JSONParts
<1>7. <<>> \o f = f
  BY <1>5, ConcatEmptySeq
<1>8. SizeOf[n] \in Nat
  BY Sizes
<1>9. 1 + Len(d) + 1 = SizeOf[n] + 2
  BY <1>1, <1>8
<1> QED BY <1>1, <1>2, <1>3, <1>5, <1>6, <1>7, <1>9

(* Tokens of data are neither the end of a line nor of a value.            *)
LEMMA DataKinds ==
    ASSUME NEW n \in DOMAIN SizeOf
    PROVE  \A q \in 1..SizeOf[n] : Data(n)[q].kind = "data"
<1>1. \A v : Token("data", v).kind = "data"
  BY DEF Token
<1> QED BY Sizes, <1>1

LEMMA JSONWhole ==
    ASSUME NEW n \in DOMAIN SizeOf, n \in Nat, NEW r \in Seq(Tokens),
           Len(Frame("json", n)) <= Len(r), Agrees(r, Frame("json", n))
    PROVE  Read("json", r) =
               Found(Data(n), FALSE, Behind(r, Len(Frame("json", n))))
<1>1. PICK f : f = Frame("json", n)
  OBVIOUS
<1>2. PICK size \in Nat : size = SizeOf[n]
  BY Sizes
<1>3. /\ f \in Seq(Tokens) /\ Len(f) = size + 2
      /\ f[1].kind = "open" /\ f[size + 2].kind = "close"
      /\ \A q \in 1..size : f[1 + q] = Data(n)[q]
  BY <1>1, <1>2, JSONFrame
<1>4. Len(r) \in Nat /\ size + 2 <= Len(r)
  BY <1>1, <1>3
<1>5. \A q \in 1..(size + 2) : r[q] = f[q]
  BY <1>1, <1>3, <1>4 DEF Agrees
<1>6. ASSUME NEW q \in 1..size PROVE r[1 + q] = Data(n)[q]
  <2>1. 1 + q \in 1..(size + 2)
    OBVIOUS
  <2> QED BY <1>3, <1>5, <2>1
<1>7. Find(r, "close") = size + 2
  <2>1. ASSUME NEW q \in 1..(size + 1) PROVE r[q].kind # "close"
    <3>1. CASE q = 1
      BY <1>3, <1>5, <3>1
    <3>2. CASE q # 1
      <4>1. q - 1 \in 1..size /\ 1 + (q - 1) = q
        BY <3>2
      <4>2. r[q] = Data(n)[q - 1]
        BY <1>6, <4>1
      <4> QED BY <1>2, <4>1, <4>2, DataKinds
    <3> QED BY <3>1, <3>2
  <2>2. PICK p \in 1..Len(r) : p = size + 2
    BY <1>4
  <2>3. r[p].kind = "close" /\ \A q \in 1..(p - 1) : r[q].kind # "close"
    BY <1>3, <1>5, <2>1, <2>2
  <2> QED BY <2>2, <2>3, FindFirst
<1>8. SubSeq(r, 2, size + 1) = Data(n)
  <2>1. 2 \in 1..(Len(r) + 1) /\ size + 1 \in (2 - 1)..Len(r) /\ size + 1 - 2 + 1 = size
    BY <1>4
  <2>2. /\ SubSeq(r, 2, size + 1) \in Seq(Tokens)
        /\ Len(SubSeq(r, 2, size + 1)) = size
        /\ \A q \in 1..size : SubSeq(r, 2, size + 1)[q] = r[2 + q - 1]
    BY <2>1, PartOfSeq
  <2>3. \A q \in 1..size : SubSeq(r, 2, size + 1)[q] = Data(n)[q]
    BY <1>6, <2>2
  <2>4. Data(n) \in Seq(Tokens) /\ Len(Data(n)) = size
    BY <1>2, Sizes, DataTokens
  <2> QED BY <2>2, <2>3, <2>4, SeqEqual
<1>9. /\ size + 2 - 1 = size + 1 /\ size + 2 > 0 /\ r # <<>>
      /\ ~(size + 2 = 0)
  BY <1>4
<1>10. ReadJSON(r) = Found(SubSeq(r, 2, size + 1), FALSE,
                           SubSeq(r, size + 2 + 1, Len(r)))
  <2>1. PICK last : last = Find(r, "close") /\ last = size + 2
    BY <1>7
  <2>2. ReadJSON(r) = Found(SubSeq(r, 2, last - 1), FALSE,
                            SubSeq(r, last + 1, Len(r)))
    <3>1. last > 0 /\ last # 0 /\ r # <<>>
      BY <1>9, <2>1
    <3> QED BY <2>1, <3>1, Zenon DEF ReadJSON
  <2> QED BY <1>9, <2>1, <2>2
<1> QED BY <1>1, <1>3, <1>8, <1>10 DEF Read, Behind

LEMMA JSONCut ==
    ASSUME NEW n \in DOMAIN SizeOf, n \in Nat, NEW r \in Seq(Tokens),
           Len(r) < Len(Frame("json", n)), Agrees(r, Frame("json", n))
    PROVE  Read("json", r) = Fails(IF r = <<>> THEN "EOF" ELSE "cut")
<1>1. PICK f : f = Frame("json", n)
  OBVIOUS
<1>2. PICK size \in Nat : size = SizeOf[n]
  BY Sizes
<1>3. /\ f \in Seq(Tokens) /\ Len(f) = size + 2
      /\ f[1].kind = "open" /\ f[size + 2].kind = "close"
      /\ \A q \in 1..size : f[1 + q] = Data(n)[q]
  BY <1>1, <1>2, JSONFrame
<1>4. Len(r) \in Nat /\ Len(r) < size + 2
  BY <1>1, <1>3
<1>5. ASSUME NEW q \in 1..Len(r) PROVE r[q].kind # "close"
  <2>1. r[q] = f[q]
    BY <1>1, <1>3, <1>4 DEF Agrees
  <2>2. CASE q = 1
    BY <1>3, <2>1, <2>2
  <2>3. CASE q # 1
    <3>1. q - 1 \in 1..size /\ 1 + (q - 1) = q
      BY <1>4, <2>3
    <3>2. r[q] = Data(n)[q - 1]
      BY <1>3, <2>1, <3>1
    <3> QED BY <1>2, <3>1, <3>2, DataKinds
  <2> QED BY <2>2, <2>3
<1>6. Find(r, "close") = 0
  BY <1>5, FindNone
<1>7. Read("json", r) = ReadJSON(r)
  BY DEF Read
<1>8. Find(r, "close") = 0 /\ ~(Find(r, "close") > 0)
  BY <1>6
<1>9. CASE r = <<>>
  <2>1. ReadJSON(r) = Fails("EOF")
    BY <1>8, <1>9, Zenon DEF ReadJSON
  <2> QED BY <1>7, <1>9, <2>1
<1>10. CASE r # <<>>
  <2>1. ReadJSON(r) = Fails("cut")
    BY <1>8, <1>10, Zenon DEF ReadJSON
  <2> QED BY <1>7, <1>10, <2>1
<1> QED BY <1>9, <1>10

-----------------------------------------------------------------------------
Turn(event, rest, result) == [event |-> event, rest |-> rest, result |-> result]

LEMMA LineOver ==
    ASSUME NEW d, d.result # Pending
    PROVE  DecodeLine(d) = d
BY Zenon DEF DecodeLine

LEMMA LineCut ==
    ASSUME NEW e, NEW r, Find(r, "line") = 0, r # <<>>
    PROVE  DecodeLine(Turn(e, r, Pending)) = Turn(e, r, Fails("cut"))
<1>1. PICK d : d = Turn(e, r, Pending)
  OBVIOUS
<1>2. d.event = e /\ d.rest = r /\ d.result = Pending
  BY <1>1 DEF Turn
<1>3. Find(d.rest, "line") = 0 /\ ~(Find(d.rest, "line") > 1)
      /\ Find(d.rest, "line") # 1
  BY <1>2
<1>4. DecodeLine(d) = [d EXCEPT !.result = Fails("cut")]
  BY <1>2, <1>3, Zenon DEF DecodeLine
<1>5. [d EXCEPT !.result = Fails("cut")] = Turn(e, r, Fails("cut"))
  BY <1>1 DEF Turn
<1> QED BY <1>1, <1>4, <1>5

LEMMA LineEnd ==
    ASSUME NEW e, NEW r, r = <<>> \/ Find(r, "line") = 1, e.some
    PROVE  DecodeLine(Turn(e, r, Pending)).result =
               Found(e.data, e.isTrailer, SubSeq(r, Find(r, "line") + 1, Len(r)))
<1>1. PICK d : d = Turn(e, r, Pending)
  OBVIOUS
<1>2. d.event = e /\ d.rest = r /\ d.result = Pending
  BY <1>1 DEF Turn
<1>3. r = <<>> => Find(r, "line") = 0
  BY FindNothing
<1>4. /\ ~(Find(r, "line") = 0 /\ r # <<>>) /\ ~(Find(r, "line") > 1)
  BY <1>3
<1>5. DecodeLine(d) = [d EXCEPT !.result =
          Found(e.data, e.isTrailer, SubSeq(r, Find(r, "line") + 1, Len(r)))]
  BY <1>2, <1>4, Zenon DEF DecodeLine
<1>6. DecodeLine(d) = Turn(e, r,
          Found(e.data, e.isTrailer, SubSeq(r, Find(r, "line") + 1, Len(r))))
  BY <1>1, <1>5 DEF Turn
<1> QED BY <1>1, <1>6 DEF Turn

LEMMA LineEOF ==
    ASSUME NEW e, ~e.some
    PROVE  DecodeLine(Turn(e, <<>>, Pending)) = Turn(e, <<>>, Fails("EOF"))
<1>1. PICK d : d = Turn(e, <<>>, Pending)
  OBVIOUS
<1>2. d.event = e /\ d.rest = <<>> /\ d.result = Pending
  BY <1>1 DEF Turn
<1>3. Find(<<>>, "line") = 0
  BY FindNothing
<1>4. ~(Find(<<>>, "line") > 1) /\ Find(<<>>, "line") # 1
  BY <1>3
<1>5. DecodeLine(d) = [d EXCEPT !.result = Fails("EOF")]
  BY <1>2, <1>3, <1>4, Zenon DEF DecodeLine
<1> QED BY <1>1, <1>5 DEF Turn

LEMMA MoreThanOne == \A eol \in Nat \ {0, 1} : eol # 0 /\ eol # 1 /\ eol > 1
OBVIOUS

LEMMA LineData ==
    ASSUME NEW e, NEW r, NEW eol \in Nat \ {0, 1}, Find(r, "line") = eol,
           r # <<>>, r[1].kind = "data: "
    PROVE  DecodeLine(Turn(e, r, Pending)) =
               Turn(Event(e.data \o SubSeq(r, 2, eol - 1), e.isTrailer),
                    SubSeq(r, eol + 1, Len(r)), Pending)
<1>1. PICK d : d = Turn(e, r, Pending)
  OBVIOUS
<1>2. d.event = e /\ d.rest = r /\ d.result = Pending
  BY <1>1 DEF Turn
<1>3. /\ eol # 0 /\ eol # 1 /\ eol > 1 /\ r[1].kind # "event: trailer"
  <2>1. eol # 0 /\ eol # 1 /\ eol > 1
    BY MoreThanOne, Zenon
  <2>2. "data: " # "event: trailer"
    OBVIOUS
  <2> QED BY <2>1, <2>2, Zenon
<1>4. DecodeLine(d) =
          [d EXCEPT !.rest = SubSeq(r, eol + 1, Len(r)),
                    !.event = Event(e.data \o SubSeq(r, 2, eol - 1), e.isTrailer)]
  BY <1>2, <1>3, Zenon DEF DecodeLine
<1> QED BY <1>1, <1>4 DEF Turn

LEMMA LineTrailer ==
    ASSUME NEW e, NEW r, NEW eol \in Nat \ {0, 1}, Find(r, "line") = eol,
           r # <<>>, r[1].kind = "event: trailer"
    PROVE  DecodeLine(Turn(e, r, Pending)) =
               Turn(Event(e.data, TRUE),
                    SubSeq(r, eol + 1, Len(r)), Pending)
<1>1. PICK d : d = Turn(e, r, Pending)
  OBVIOUS
<1>2. d.event = e /\ d.rest = r /\ d.result = Pending
  BY <1>1 DEF Turn
<1>3. /\ eol # 0 /\ eol # 1 /\ eol > 1 /\ r[1].kind # "data: "
  <2>1. eol # 0 /\ eol # 1 /\ eol > 1
    BY MoreThanOne, Zenon
  <2>2. "data: " # "event: trailer"
    OBVIOUS
  <2> QED BY <2>1, <2>2, Zenon
<1>4. DecodeLine(d) =
          [d EXCEPT !.rest = SubSeq(r, eol + 1, Len(r)),
                    !.event = Event(e.data, TRUE)]
  BY <1>2, <1>3, Zenon DEF DecodeLine
<1> QED BY <1>1, <1>4 DEF Turn

SSEBytes(n) == Parts("sse", n).bytes

LEMMA SSEBytesAre ==
    ASSUME NEW n \in DOMAIN SizeOf, n \in Nat
    PROVE  LET b == SSEBytes(n)
               size == SizeOf[n]
           IN  /\ b \in Seq(Tokens) /\ Len(b) = size + 3
               /\ b[1].kind = "data: "
               /\ b[size + 2].kind = "line" /\ b[size + 3].kind = "line"
               /\ \A q \in 1..size : b[1 + q] = Data(n)[q]
<1>1. PICK d \in Seq(Tokens) : d = Data(n) /\ Len(d) = SizeOf[n]
  BY DataIs
<1>2. PICK a \in Tokens : a = Token("data: ", 0) /\ a.kind = "data: "
  <2>1. Token("data: ", 0) \in Tokens /\ Token("data: ", 0).kind = "data: "
    BY PlainToken DEF Kinds
  <2> QED BY <2>1
<1>3. PICK z \in Seq(Tokens) :
          z = <<Line, Line>> /\ Len(z) = 2 /\ z[1].kind = "line" /\ z[2].kind = "line"
  <2>1. Line \in Tokens /\ Line.kind = "line"
    BY PlainToken DEF Kinds, Line
  <2>2. PICK y \in Tokens : y = Line /\ y.kind = "line"
    BY <2>1
  <2>3. <<y, y>> \in Seq(Tokens) /\ Len(<<y, y>>) = 2 /\ <<y, y>>[1] = y
        /\ <<y, y>>[2] = y
    OBVIOUS
  <2> QED BY <2>2, <2>3
<1>4. PICK f : f = <<a>> \o d \o z
  OBVIOUS
<1>5. /\ f \in Seq(Tokens) /\ Len(f) = 1 + Len(d) + 2
      /\ f[1] = a /\ \A q \in 1..Len(d) : f[1 + q] = d[q]
      /\ f[1 + Len(d) + 1] = z[1] /\ f[1 + Len(d) + 2] = z[2]
  BY <1>3, <1>4, Wrapped
<1>6. SSEBytes(n) = f
  BY <1>1, <1>2, <1>3, <1>4 DEF SSEBytes, Parts, SSEParts
<1>8. SizeOf[n] \in Nat
  BY Sizes
<1>9. /\ 1 + Len(d) + 1 = SizeOf[n] + 2 /\ 1 + Len(d) + 2 = SizeOf[n] + 3
  BY <1>1, <1>8
<1> QED BY <1>1, <1>2, <1>3, <1>5, <1>6, <1>9

(* What the decoder makes of the rest of an event whose prefixes are in e, *)
(* if r is all there is behind them.                                       *)
EventOf(n, e, r) ==
    IF r = <<>> THEN IF e.some THEN Found(<<>>, e.isTrailer, <<>>) ELSE Fails("EOF")
    ELSE IF Len(r) < SizeOf[n] + 2 THEN Fails("cut")
    ELSE Found(Data(n), e.isTrailer, Behind(r, SizeOf[n] + 3))

LEMMA TwoTurns ==
    ASSUME NEW n \in DOMAIN SizeOf, n \in Nat, NEW r \in Seq(Tokens),
           Agrees(r, SSEBytes(n)),
           NEW e, e.data = <<>>
    PROVE  LET d == Turn(e, r, Pending)
           IN  /\ DecodeLine(DecodeLine(d)).result = EventOf(n, e, r)
               /\ r = <<>> => DecodeLine(d).result = EventOf(n, e, r)
<1>1. PICK b : b = SSEBytes(n)
  OBVIOUS
<1>2. PICK size \in Nat : size = SizeOf[n]
  BY Sizes
<1>3. /\ b \in Seq(Tokens) /\ Len(b) = size + 3
      /\ b[1].kind = "data: "
      /\ b[size + 2].kind = "line" /\ b[size + 3].kind = "line"
      /\ \A q \in 1..size : b[1 + q] = Data(n)[q]
  BY <1>1, <1>2, SSEBytesAre
<1>4. Len(r) \in Nat /\ \A q \in 1..Len(r) : q <= size + 3 => r[q] = b[q]
  <2>1. \A q \in 1..Len(r) : q <= Len(b) => r[q] = b[q]
    BY <1>1, Zenon DEF Agrees
  <2>2. Len(b) = size + 3
    BY <1>3
  <2> QED BY <2>1, <2>2
<1>5. ASSUME NEW q \in 1..Len(r), q <= size + 1 PROVE r[q].kind # "line"
  <2>1. q <= size + 3
    BY <1>5
  <2>2. r[q] = b[q]
    BY <1>4, <2>1
  <2>3. CASE q = 1
    BY <1>3, <2>2, <2>3
  <2>4. CASE q # 1
    <3>1. q - 1 \in 1..size /\ 1 + (q - 1) = q
      BY <1>5, <2>4
    <3>2. r[q] = Data(n)[q - 1]
      BY <1>3, <2>2, <3>1
    <3> QED BY <1>2, <3>1, <3>2, DataKinds
  <2> QED BY <2>3, <2>4
<1>6. Pending # Fails("cut") /\ Pending # Fails("EOF")
      /\ \A data, is, rest : Found(data, is, rest) # Pending
  BY DEF Pending, Fails, Found
<1>7. CASE r = <<>>
  <2>1. CASE e.some
    <3>1. DecodeLine(Turn(e, r, Pending)).result = Found(<<>>, e.isTrailer, <<>>)
      <4>1. SubSeq(r, Find(r, "line") + 1, Len(r)) = <<>>
        <5>1. Find(r, "line") = 0 /\ Len(r) = 0
          BY <1>7, FindNothing
        <5> QED BY <5>1, <1>7, SubSeqEmpty
      <4>2. e.data = <<>>
        OBVIOUS
      <4> QED BY <1>7, <2>1, <4>1, <4>2, LineEnd
    <3> QED BY <1>6, <1>7, <2>1, <3>1, LineOver DEF EventOf
  <2>2. CASE ~e.some
    <3>1. DecodeLine(Turn(e, r, Pending)) = Turn(e, r, Fails("EOF"))
      BY <1>7, <2>2, LineEOF
    <3>2. Turn(e, r, Fails("EOF")).result = Fails("EOF")
      BY DEF Turn
    <3> QED BY <1>6, <1>7, <2>2, <3>1, <3>2, LineOver DEF EventOf
  <2> QED BY <2>1, <2>2
<1>8. CASE r # <<>> /\ Len(r) < size + 2
  <2>1. \A q \in 1..Len(r) : r[q].kind # "line"
    BY <1>4, <1>5, <1>8
  <2>2. Find(r, "line") = 0
    BY <2>1, FindNone
  <2>3. DecodeLine(Turn(e, r, Pending)) = Turn(e, r, Fails("cut"))
    BY <1>8, <2>2, LineCut
  <2>4. Turn(e, r, Fails("cut")).result = Fails("cut")
    BY DEF Turn
  <2> QED BY <1>2, <1>6, <1>8, <2>3, <2>4, LineOver DEF EventOf
<1>9. CASE r # <<>> /\ ~(Len(r) < size + 2)
  <2>1. Find(r, "line") = size + 2
    <3>1. PICK p \in 1..Len(r) : p = size + 2
      BY <1>4, <1>9
    <3>2. r[p].kind = "line"
      <4>1. r[p] = b[p]
        BY <1>4, <3>1
      <4>2. b[p].kind = "line"
        BY <1>3, <3>1
      <4> QED BY <4>1, <4>2
    <3>3. \A q \in 1..(p - 1) : r[q].kind # "line"
      BY <1>5, <3>1
    <3> QED BY <3>1, <3>2, <3>3, FindFirst
  <2>2. SubSeq(r, 2, size + 1) = Data(n)
    <3>1. 2 \in 1..(Len(r) + 1) /\ size + 1 \in (2 - 1)..Len(r)
          /\ size + 1 - 2 + 1 = size
      BY <1>4, <1>9
    <3>2. /\ SubSeq(r, 2, size + 1) \in Seq(Tokens)
          /\ Len(SubSeq(r, 2, size + 1)) = size
          /\ \A q \in 1..size : SubSeq(r, 2, size + 1)[q] = r[2 + q - 1]
      BY <3>1, PartOfSeq
    <3>3. ASSUME NEW q \in 1..size PROVE r[2 + q - 1] = Data(n)[q]
      <4>1. 2 + q - 1 \in 1..Len(r) /\ 2 + q - 1 <= size + 3 /\ 2 + q - 1 = 1 + q
        BY <1>4, <1>9
      <4> QED BY <1>3, <1>4, <4>1
    <3>4. Data(n) \in Seq(Tokens) /\ Len(Data(n)) = size
      BY <1>2, Sizes, DataTokens
    <3> QED BY <3>2, <3>3, <3>4, SeqEqual
  <2>3. PICK eol \in Nat \ {0, 1} : eol = size + 2 /\ eol - 1 = size + 1
    <3>1. size + 2 \in Nat \ {0, 1} /\ size + 2 - 1 = size + 1
      OBVIOUS
    <3> QED BY <3>1
  <2>4. r[1].kind = "data: "
    <3>1. 1 \in 1..Len(r) /\ 1 <= size + 3
      BY <1>4, <1>9
    <3> QED BY <1>3, <1>4, <3>1
  <2>5. PICK tail : tail = Behind(r, size + 2)
    OBVIOUS
  <2>6. PICK f : f = Event(e.data \o Data(n), e.isTrailer)
    OBVIOUS
  <2>7. f.some /\ f.data = Data(n) /\ f.isTrailer = e.isTrailer
    <3>1. <<>> \o Data(n) = Data(n)
      <4>1. Data(n) \in Seq(Tokens)
        BY DataTokens
      <4> QED BY <4>1, ConcatEmptySeq
    <3> QED BY <2>6, <3>1 DEF Event
  <2>8. DecodeLine(Turn(e, r, Pending)) = Turn(f, tail, Pending)
    <3>1. Find(r, "line") = eol /\ r # <<>>
      BY <1>9, <2>1, <2>3
    <3>2. DecodeLine(Turn(e, r, Pending)) =
              Turn(Event(e.data \o SubSeq(r, 2, eol - 1), e.isTrailer),
                   SubSeq(r, eol + 1, Len(r)), Pending)
      BY <2>4, <3>1, LineData
    <3>3. SubSeq(r, 2, eol - 1) = Data(n) /\ SubSeq(r, eol + 1, Len(r)) = tail
      BY <2>2, <2>3, <2>5 DEF Behind
    <3> QED BY <2>6, <3>2, <3>3
  <2>9. /\ tail \in Seq(Tokens) /\ Len(tail) = Len(r) - (size + 2)
        /\ \A q \in 1..(Len(r) - (size + 2)) : tail[q] = r[size + 2 + q]
    <3>1. PICK m \in 0..Len(r) : m = size + 2
      BY <1>4, <1>9
    <3> QED BY <2>5, <3>1, BehindIs
  <2>10. CASE Len(r) = size + 2
    <3>1. tail = <<>>
      BY <2>9, <2>10
    <3>2. SubSeq(tail, Find(tail, "line") + 1, Len(tail)) = <<>>
      <4>1. Find(tail, "line") = 0 /\ Len(tail) = 0
        BY <3>1, FindNothing
      <4> QED BY <4>1, <3>1, SubSeqEmpty
    <3>3. Behind(r, size + 3) = <<>>
      <4>1. size + 3 + 1 \in Int /\ Len(r) \in Int /\ size + 3 + 1 > Len(r)
        BY <2>10
      <4> QED BY <4>1, SubSeqEmpty DEF Behind
    <3>4. DecodeLine(Turn(f, tail, Pending)).result =
              Found(Data(n), e.isTrailer, <<>>)
      BY <2>7, <3>1, <3>2, LineEnd
    <3> QED BY <1>2, <1>9, <2>8, <3>3, <3>4 DEF EventOf
  <2>11. CASE Len(r) # size + 2
    <3>1. 1 \in 1..Len(tail) /\ tail[1] = r[size + 3]
      <4>1. 1 \in 1..(Len(r) - (size + 2)) /\ size + 2 + 1 = size + 3
        BY <1>4, <1>9, <2>11
      <4> QED BY <2>9, <4>1
    <3>2. r[size + 3] = b[size + 3]
      <4>1. size + 3 \in 1..Len(r)
        BY <1>4, <1>9, <2>11
      <4> QED BY <1>4, <4>1
    <3>3. Find(tail, "line") = 1
      <4>1. PICK p \in 1..Len(tail) : p = 1
        BY <3>1
      <4>2. tail[p].kind = "line" /\ \A q \in 1..(p - 1) : tail[q].kind # "line"
        <5>1. b[size + 3].kind = "line"
          BY <1>3
        <5>2. tail[p].kind = "line"
          BY <3>1, <3>2, <4>1, <5>1
        <5>3. \A q \in 1..(p - 1) : FALSE
          BY <4>1
        <5> QED BY <5>2, <5>3
      <4> QED BY <2>9, <4>1, <4>2, FindFirst
    <3>4. SubSeq(tail, Find(tail, "line") + 1, Len(tail)) = Behind(r, size + 3)
      <4>1. PICK m \in 0..Len(r) : m = size + 2
        BY <1>4, <1>9
      <4>2. 1 \in 0..(Len(r) - m) /\ m + 1 = size + 3
        BY <1>4, <1>9, <2>11, <4>1
      <4>3. Behind(Behind(r, m), 1) = Behind(r, size + 3)
        BY <4>2, BehindBehind
      <4>4. Behind(tail, 1) = Behind(r, size + 3)
        BY <2>5, <4>1, <4>3
      <4> QED BY <3>3, <4>4 DEF Behind
    <3>5. DecodeLine(Turn(f, tail, Pending)).result =
              Found(Data(n), e.isTrailer, Behind(r, size + 3))
      BY <2>7, <3>3, <3>4, LineEnd
    <3> QED BY <1>2, <1>9, <2>8, <3>5 DEF EventOf
  <2> QED BY <2>10, <2>11
<1> QED BY <1>7, <1>8, <1>9

-----------------------------------------------------------------------------
(* Complete induction, over a set in place of a predicate: the loops of the   *)
(* readers consume at least one byte a turn.                                 *)
LEMMA Induction ==
    ASSUME NEW S, \A n \in Nat : (\A m \in 0..(n - 1) : m \in S) => n \in S
    PROVE  Nat \subseteq S
<1> DEFINE R == {r \in Nat \X Nat : r[1] < r[2]}
<1>1. IsWellFoundedOn(R, Nat)
  BY NatLessThanWellFounded, Zenon DEF OpToRel
<1> SUFFICES ASSUME Nat \ S # {} PROVE FALSE
  OBVIOUS
<1>2. \E n \in Nat \ S : \A m \in Nat \ S : <<m, n>> \notin R
  <2> HIDE DEF R
  <2> QED BY <1>1, WFMin
<1>3. PICK n \in Nat \ S : \A m \in Nat \ S : <<m, n>> \notin R
  BY <1>2
<1>4. ASSUME NEW m \in 0..(n - 1), m \notin S PROVE FALSE
  <2>1. <<m, n>> \in R
    OBVIOUS
  <2> QED BY <1>3, <1>4, <2>1
<1> QED BY <1>3, <1>4

(* Steps one at a time, up to a number.                                    *)
LEMMA UpTo ==
    ASSUME NEW S, NEW N \in Nat, 0 \in S,
           \A k \in 1..N : k - 1 \in S => k \in S
    PROVE  0..N \subseteq S
<1> DEFINE T == {k \in Nat : k <= N => k \in S}
<1>1. ASSUME NEW n \in Nat, \A m \in 0..(n - 1) : m \in T PROVE n \in T
  <2>1. CASE n = 0
    BY <2>1
  <2>2. CASE n # 0 /\ n <= N
    <3>1. n - 1 \in 0..(n - 1) /\ n \in 1..N /\ n - 1 <= N
      BY <2>2
    <3>2. n - 1 \in S
      BY <1>1, <3>1
    <3> QED BY <3>1, <3>2
  <2>3. CASE ~(n <= N)
    BY <2>3
  <2> QED BY <2>1, <2>2, <2>3
<1>2. Nat \subseteq T
  <2> HIDE DEF T
  <2> QED BY <1>1, Induction
<1> QED BY <1>2

LEMMA TurnsEquation ==
    ASSUME NEW in, NEW N \in Nat, N = Len(in) + 1
    PROVE  DecodeTurns(in) =
               [k \in 0..N |->
                   IF k = 0 THEN [event |-> NoEvent, rest |-> in, result |-> Pending]
                            ELSE DecodeLine(DecodeTurns(in)[k - 1])]
<1> DEFINE first == [event |-> NoEvent, rest |-> in, result |-> Pending]
           Upto(g, n) == g = [k \in 0..n |->
                                 IF k = 0 THEN first ELSE DecodeLine(g[k - 1])]
           S == {n \in Nat : \E g : Upto(g, n)}
<1> HIDE DEF first
<1>1. 0 \in S
  <2>1. Upto([k \in 0..0 |-> first], 0)
    OBVIOUS
  <2> QED BY <2>1
<1>2. ASSUME NEW n \in 1..N, n - 1 \in S PROVE n \in S
  <2>1. PICK g : Upto(g, n - 1)
    BY <1>2
  <2> DEFINE f == [k \in 0..n |-> IF k = n THEN DecodeLine(g[n - 1]) ELSE g[k]]
  <2>2. ASSUME NEW k \in 0..n
        PROVE  f[k] = IF k = 0 THEN first ELSE DecodeLine(f[k - 1])
    <3>1. CASE k = n
      <4>1. f[n] = DecodeLine(g[n - 1]) /\ f[n - 1] = g[n - 1]
        OBVIOUS
      <4> QED BY <4>1, <3>1
    <3>2. CASE k # n
      <4>1. k \in 0..(n - 1)
        BY <3>2
      <4>2. f[k] = g[k] /\ (k # 0 => f[k - 1] = g[k - 1])
        BY <4>1
      <4>3. g[k] = IF k = 0 THEN first ELSE DecodeLine(g[k - 1])
        BY <4>1, <2>1
      <4> QED BY <4>2, <4>3
    <3> QED BY <3>1, <3>2
  <2>3. Upto(f, n) /\ n \in Nat
    BY <2>2
  <2> HIDE DEF f, Upto
  <2> QED BY <2>3
<1>3. N \in S
  <2> HIDE DEF S
  <2>1. 0..N \subseteq S
    BY <1>1, <1>2, UpTo, Zenon
  <2>2. N \in 0..N
    OBVIOUS
  <2> QED BY <2>1, <2>2
<1>4. PICK g : Upto(g, N)
  BY <1>3
<1> QED BY <1>4 DEF DecodeTurns, first

LEMMA CallsEquation ==
    ASSUME NEW format, NEW in, NEW N \in Nat, N = Len(in) + 1
    PROVE  ReadCalls(format, in) =
               [k \in 0..N |->
                   IF k = 0 THEN [data |-> <<>>, end |-> "pending", trailer |-> <<>>,
                                  rest |-> in]
                            ELSE ReadNext(format, ReadCalls(format, in)[k - 1])]
<1> DEFINE first == [data |-> <<>>, end |-> "pending", trailer |-> <<>>,
                     rest |-> in]
           Upto(g, n) == g = [k \in 0..n |->
                                 IF k = 0 THEN first ELSE ReadNext(format, g[k - 1])]
           S == {n \in Nat : \E g : Upto(g, n)}
<1> HIDE DEF first
<1>1. 0 \in S
  <2>1. Upto([k \in 0..0 |-> first], 0)
    OBVIOUS
  <2> QED BY <2>1
<1>2. ASSUME NEW n \in 1..N, n - 1 \in S PROVE n \in S
  <2>1. PICK g : Upto(g, n - 1)
    BY <1>2
  <2> DEFINE f == [k \in 0..n |-> IF k = n THEN ReadNext(format, g[n - 1]) ELSE g[k]]
  <2>2. ASSUME NEW k \in 0..n
        PROVE  f[k] = IF k = 0 THEN first ELSE ReadNext(format, f[k - 1])
    <3>1. CASE k = n
      <4>1. f[n] = ReadNext(format, g[n - 1]) /\ f[n - 1] = g[n - 1]
        OBVIOUS
      <4> QED BY <4>1, <3>1
    <3>2. CASE k # n
      <4>1. k \in 0..(n - 1)
        BY <3>2
      <4>2. f[k] = g[k] /\ (k # 0 => f[k - 1] = g[k - 1])
        BY <4>1
      <4>3. g[k] = IF k = 0 THEN first ELSE ReadNext(format, g[k - 1])
        BY <4>1, <2>1
      <4> QED BY <4>2, <4>3
    <3> QED BY <3>1, <3>2
  <2>3. Upto(f, n) /\ n \in Nat
    BY <2>2
  <2> HIDE DEF f, Upto
  <2> QED BY <2>3
<1>3. N \in S
  <2> HIDE DEF S
  <2>1. 0..N \subseteq S
    BY <1>1, <1>2, UpTo, Zenon
  <2>2. N \in 0..N
    OBVIOUS
  <2> QED BY <2>1, <2>2
<1>4. PICK g : Upto(g, N)
  BY <1>3
<1> QED BY <1>4 DEF ReadCalls, first

LEMMA BodyGrows ==
    ASSUME NEW format, NEW parts, Len(parts) \in Nat
    PROVE  /\ Bodies(format, parts)[0] = <<>>
           /\ \A i \in 1..Len(parts) : Bodies(format, parts)[i] =
                  Bodies(format, parts)[i - 1]
                      \o Written(format, parts[i])
<1>0. PICK N \in Nat : N = Len(parts)
  OBVIOUS
<1> DEFINE Piece(i) == Written(format, parts[i])
           Upto(g, n) == g = [i \in 0..n |->
                                 IF i = 0 THEN <<>> ELSE g[i - 1] \o Piece(i)]
           S == {n \in Nat : \E g : Upto(g, n)}
<1> HIDE DEF Piece
<1>1. 0 \in S
  <2>1. Upto([i \in 0..0 |-> <<>>], 0)
    OBVIOUS
  <2> QED BY <2>1
<1>2. ASSUME NEW n \in 1..N, n - 1 \in S PROVE n \in S
  <2>1. PICK g : Upto(g, n - 1)
    BY <1>2
  <2> DEFINE f == [i \in 0..n |-> IF i = n THEN g[n - 1] \o Piece(n) ELSE g[i]]
  <2>2. ASSUME NEW i \in 0..n
        PROVE  f[i] = IF i = 0 THEN <<>> ELSE f[i - 1] \o Piece(i)
    <3>1. CASE i = n
      <4>1. f[n] = g[n - 1] \o Piece(n) /\ f[n - 1] = g[n - 1] /\ n # 0
        OBVIOUS
      <4> QED BY <4>1, <3>1
    <3>2. CASE i # n
      <4>1. i \in 0..(n - 1)
        BY <3>2
      <4>2. f[i] = g[i] /\ (i # 0 => f[i - 1] = g[i - 1])
        BY <4>1
      <4>3. g[i] = IF i = 0 THEN <<>> ELSE g[i - 1] \o Piece(i)
        BY <4>1, <2>1
      <4> QED BY <4>2, <4>3
    <3> QED BY <3>1, <3>2
  <2>3. Upto(f, n) /\ n \in Nat
    BY <2>2
  <2> HIDE DEF f, Upto
  <2> QED BY <2>3
<1>3. N \in S
  <2> HIDE DEF S
  <2>1. 0..N \subseteq S
    BY <1>1, <1>2, UpTo, Zenon
  <2>2. N \in 0..N
    OBVIOUS
  <2> QED BY <2>1, <2>2
<1>4. PICK g : Upto(g, N)
  BY <1>3
<1>5. PICK b : b = Bodies(format, parts)
  OBVIOUS
<1>6. Upto(b, N)
  BY <1>0, <1>4, <1>5 DEF Bodies, Piece
<1>7. \A i \in 1..N : i \in 0..N /\ i # 0
  OBVIOUS
<1>8. b[0] = <<>>
  BY <1>6
<1>9. ASSUME NEW i \in 1..N PROVE b[i] = b[i - 1] \o Piece(i)
  BY <1>6, <1>7
<1> QED BY <1>0, <1>5, <1>8, <1>9 DEF Piece

-----------------------------------------------------------------------------
(* The decoder's turns, from the first that has a result on.               *)
LEMMA TurnsSettle ==
    ASSUME NEW in, NEW N \in Nat, N = Len(in) + 1, NEW K \in 0..N,
           DecodeTurns(in)[K].result # Pending
    PROVE  DecodeLines(in) = DecodeTurns(in)[K].result
<1>1. PICK turn : turn = DecodeTurns(in)
  OBVIOUS
<1>2. \A k \in 1..N : turn[k] = DecodeLine(turn[k - 1])
  <2>1. turn = [k \in 0..N |->
                   IF k = 0 THEN [event |-> NoEvent, rest |-> in, result |-> Pending]
                            ELSE DecodeLine(turn[k - 1])]
    BY <1>1, TurnsEquation
  <2>2. \A k \in 1..N : k \in 0..N /\ k # 0
    OBVIOUS
  <2> QED BY <2>1, <2>2
<1> DEFINE S == {j \in Nat : K + j <= N => turn[K + j] = turn[K]}
<1>3. 0 \in S
  <2>1. K + 0 = K
    OBVIOUS
  <2> QED BY <2>1
<1>4. ASSUME NEW j \in 1..(N - K), j - 1 \in S PROVE j \in S
  <2>1. PICK k \in 1..N : k = K + j /\ k - 1 = K + (j - 1)
    OBVIOUS
  <2>2. turn[k - 1] = turn[K]
    BY <1>4, <2>1
  <2>3. turn[k] = turn[K]
    BY <1>1, <1>2, <2>2, LineOver
  <2> QED BY <2>1, <2>3
<1>5. N - K \in Nat /\ K + (N - K) = N
  OBVIOUS
<1>6. N - K \in S
  <2> HIDE DEF S
  <2>1. 0..(N - K) \subseteq S
    BY <1>3, <1>4, <1>5, UpTo, Zenon
  <2>2. N - K \in 0..(N - K)
    BY <1>5
  <2> QED BY <2>1, <2>2
<1>7. turn[N] = turn[K]
  BY <1>5, <1>6
<1> QED BY <1>1, <1>7 DEF DecodeLines

LEMMA EventDecoded ==
    ASSUME NEW n \in DOMAIN SizeOf, n \in Nat, NEW in \in Seq(Tokens),
           NEW r \in Seq(Tokens), Agrees(r, SSEBytes(n)),
           NEW e, e.data = <<>>,
           NEW K \in Nat, K + Len(r) <= Len(in),
           DecodeTurns(in)[K] = Turn(e, r, Pending)
    PROVE  DecodeLines(in) = EventOf(n, e, r)
<1>1. PICK N \in Nat : N = Len(in) + 1
  OBVIOUS
<1>2. Len(r) \in Nat /\ (r # <<>> => Len(r) >= 1)
  OBVIOUS
<1>3. PICK turn : turn = DecodeTurns(in)
  OBVIOUS
<1>4. \A k \in 1..N : turn[k] = DecodeLine(turn[k - 1])
  <2>1. turn = [k \in 0..N |->
                   IF k = 0 THEN [event |-> NoEvent, rest |-> in, result |-> Pending]
                            ELSE DecodeLine(turn[k - 1])]
    BY <1>1, <1>3, TurnsEquation
  <2>2. \A k \in 1..N : k \in 0..N /\ k # 0
    OBVIOUS
  <2> QED BY <2>1, <2>2
<1>5. EventOf(n, e, r) # Pending
  BY DEF EventOf, Pending, Fails, Found
<1>6. /\ DecodeLine(DecodeLine(Turn(e, r, Pending))).result = EventOf(n, e, r)
      /\ r = <<>> => DecodeLine(Turn(e, r, Pending)).result = EventOf(n, e, r)
  BY TwoTurns
<1>7. K + 1 \in 1..N /\ K + 1 - 1 = K
  BY <1>1, <1>2
<1>8. turn[K + 1] = DecodeLine(Turn(e, r, Pending))
  BY <1>3, <1>4, <1>7
<1>9. CASE r = <<>>
  <2>1. turn[K + 1].result = EventOf(n, e, r)
    BY <1>6, <1>8, <1>9
  <2>2. K + 1 \in 0..N
    BY <1>7
  <2> QED BY <1>1, <1>3, <1>5, <2>1, <2>2, TurnsSettle
<1>10. CASE r # <<>>
  <2>1. K + 2 \in 1..N /\ K + 2 - 1 = K + 1 /\ K + 2 \in 0..N
    BY <1>1, <1>2, <1>10
  <2>2. turn[K + 2] = DecodeLine(turn[K + 1])
    BY <1>4, <2>1
  <2>3. turn[K + 2].result = EventOf(n, e, r)
    BY <1>6, <1>8, <2>2
  <2> QED BY <1>1, <1>3, <1>5, <2>1, <2>3, TurnsSettle
<1> QED BY <1>9, <1>10

LEMMA FirstTurn ==
    ASSUME NEW in \in Seq(Tokens)
    PROVE  /\ DecodeTurns(in)[0] = Turn(NoEvent, in, Pending)
           /\ DecodeTurns(in)[1] = DecodeLine(Turn(NoEvent, in, Pending))
<1>1. PICK N \in Nat : N = Len(in) + 1 /\ N >= 1
  OBVIOUS
<1>2. PICK turn : turn = DecodeTurns(in)
  OBVIOUS
<1>3. turn = [k \in 0..N |->
                   IF k = 0 THEN [event |-> NoEvent, rest |-> in, result |-> Pending]
                            ELSE DecodeLine(turn[k - 1])]
  BY <1>1, <1>2, TurnsEquation
<1>4. 0 \in 0..N /\ 1 \in 0..N /\ 1 # 0 /\ 1 - 1 = 0
  BY <1>1
<1>5. turn[0] = [event |-> NoEvent, rest |-> in, result |-> Pending]
  BY <1>3, <1>4
<1>6. turn[1] = DecodeLine(turn[0])
  BY <1>3, <1>4
<1> QED BY <1>2, <1>5, <1>6 DEF Turn

LEMMA MessageFrame ==
    ASSUME NEW n \in DOMAIN SizeOf, n \in Nat, n # 0
    PROVE  /\ Frame("sse", n) = SSEBytes(n)
           /\ Frame("sse", n) \in Seq(Tokens)
           /\ Len(Frame("sse", n)) = SizeOf[n] + 3
<1>1. PICK b : b = SSEBytes(n)
  OBVIOUS
<1>2. b \in Seq(Tokens) /\ Len(b) = SizeOf[n] + 3
  BY <1>1, SSEBytesAre
<1>3. Parts("sse", n).size = <<>>
  BY DEF Parts, SSEParts
<1>4. Frame("sse", n) = <<>> \o b
  BY <1>1, <1>3 DEF Frame, SSEBytes
<1>5. <<>> \o b = b
  BY <1>2, ConcatEmptySeq
<1> QED BY <1>1, <1>2, <1>4, <1>5

LEMMA TrailerFrame ==
    LET f == Frame("sse", 0)
    IN  /\ f \in Seq(Tokens) /\ Len(f) = SizeOf[0] + 5
        /\ f[1].kind = "event: trailer" /\ f[2].kind = "line"
        /\ \A q \in 1..(SizeOf[0] + 3) : f[2 + q] = SSEBytes(0)[q]
<1>1. PICK b : b = SSEBytes(0)
  OBVIOUS
<1>2. b \in Seq(Tokens) /\ Len(b) = SizeOf[0] + 3 /\ SizeOf[0] \in Nat
  <2>1. 0 \in DOMAIN SizeOf /\ 0 \in Nat
    BY SizeAssumption
  <2> QED BY <1>1, <2>1, SSEBytesAre, Sizes
<1>3. PICK a \in Seq(Tokens) :
          /\ a = <<Token("event: trailer", 0), Line>> /\ Len(a) = 2
          /\ a[1].kind = "event: trailer" /\ a[2].kind = "line"
  <2>1. /\ Token("event: trailer", 0) \in Tokens
        /\ Token("event: trailer", 0).kind = "event: trailer"
    BY PlainToken DEF Kinds
  <2>2. Line \in Tokens /\ Line.kind = "line"
    BY PlainToken DEF Kinds, Line
  <2>3. PICK x, y \in Tokens : /\ x = Token("event: trailer", 0) /\ y = Line
                               /\ x.kind = "event: trailer" /\ y.kind = "line"
    BY <2>1, <2>2
  <2>4. <<x, y>> \in Seq(Tokens) /\ Len(<<x, y>>) = 2 /\ <<x, y>>[1] = x
        /\ <<x, y>>[2] = y
    OBVIOUS
  <2> QED BY <2>3, <2>4
<1>4. Frame("sse", 0) = a \o b
  BY <1>1, <1>3 DEF Frame, SSEBytes, Parts, SSEParts
<1>5. /\ a \o b \in Seq(Tokens) /\ Len(a \o b) = Len(a) + Len(b)
      /\ \A q \in 1..Len(a) : (a \o b)[q] = a[q]
      /\ \A q \in 1..Len(b) : (a \o b)[Len(a) + q] = b[q]
  BY <1>2, <1>3, JoinedTokens
<1>6. /\ Len(a \o b) = SizeOf[0] + 5
      /\ (a \o b)[1] = a[1] /\ (a \o b)[2] = a[2]
      /\ \A q \in 1..(SizeOf[0] + 3) : (a \o b)[2 + q] = b[q]
  <2>0. PICK f : f = a \o b
    OBVIOUS
  <2>1. PICK size \in Nat : size = SizeOf[0]
    BY <1>2
  <2>2. /\ Len(f) = 2 + (size + 3)
        /\ \A q \in 1..2 : f[q] = a[q]
        /\ \A q \in 1..(size + 3) : f[2 + q] = b[q]
    BY <1>2, <1>3, <1>5, <2>0, <2>1
  <2>3. 2 + (size + 3) = size + 5 /\ 1 \in 1..2 /\ 2 \in 1..2
    OBVIOUS
  <2> QED BY <2>0, <2>1, <2>2, <2>3
<1> QED BY <1>1, <1>3, <1>4, <1>5, <1>6

LEMMA MessageDecoded ==
    ASSUME NEW n \in DOMAIN SizeOf, n \in Nat, n # 0, NEW r \in Seq(Tokens),
           Agrees(r, Frame("sse", n))
    PROVE  Read("sse", r) = EventOf(n, NoEvent, r)
<1>1. Agrees(r, SSEBytes(n))
  BY MessageFrame
<1>2. NoEvent.data = <<>>
  BY DEF NoEvent
<1>3. DecodeTurns(r)[0] = Turn(NoEvent, r, Pending)
  BY FirstTurn
<1>4. 0 \in Nat /\ 0 + Len(r) <= Len(r)
  OBVIOUS
<1>5. DecodeLines(r) = EventOf(n, NoEvent, r)
  BY <1>1, <1>2, <1>3, <1>4, EventDecoded
<1> QED BY <1>5 DEF Read

LEMMA TrailerDecoded ==
    ASSUME NEW r \in Seq(Tokens), Agrees(r, Frame("sse", 0)), Len(r) >= 2
    PROVE  Read("sse", r) = EventOf(0, Event(<<>>, TRUE), Behind(r, 2))
<1>1. PICK f : f = Frame("sse", 0)
  OBVIOUS
<1>2. PICK size \in Nat : size = SizeOf[0]
  BY SizeAssumption
<1>3. /\ f \in Seq(Tokens) /\ Len(f) = size + 5
      /\ f[1].kind = "event: trailer" /\ f[2].kind = "line"
      /\ \A q \in 1..(size + 3) : f[2 + q] = SSEBytes(0)[q]
  BY <1>1, <1>2, TrailerFrame
<1>4. Len(r) \in Nat /\ \A q \in 1..Len(r) : q <= size + 5 => r[q] = f[q]
  <2>1. \A q \in 1..Len(r) : q <= Len(f) => r[q] = f[q]
    BY <1>1, Zenon DEF Agrees
  <2>2. Len(f) = size + 5
    BY <1>3
  <2> QED BY <2>1, <2>2
<1>5. r[1].kind = "event: trailer" /\ r[2].kind = "line" /\ r # <<>>
  <2>1. 1 \in 1..Len(r) /\ 2 \in 1..Len(r) /\ 1 <= size + 5 /\ 2 <= size + 5
    BY <1>4
  <2>2. r[1] = f[1] /\ r[2] = f[2]
    BY <1>4, <2>1
  <2>3. r # <<>>
    BY <2>1
  <2> QED BY <1>3, <2>2, <2>3, Zenon
<1>6. PICK eol \in Nat \ {0, 1} : eol = 2 /\ eol + 1 = 3
  <2>1. 2 \in Nat \ {0, 1} /\ 2 + 1 = 3
    OBVIOUS
  <2> QED BY <2>1
<1>7. Find(r, "line") = eol
  <2>1. PICK p \in 1..Len(r) : p = 2
    BY <1>4
  <2>2. ASSUME NEW q \in 1..(p - 1) PROVE r[q].kind # "line"
    <3>1. q = 1
      BY <2>1
    <3> QED BY <1>5, <3>1
  <2>3. r[p].kind = "line"
    BY <1>5, <2>1
  <2> QED BY <1>6, <2>1, <2>2, <2>3, FindFirst
<1>8. PICK tail : tail = Behind(r, 2)
  OBVIOUS
<1>9. SubSeq(r, eol + 1, Len(r)) = tail
  <2>1. 2 + 1 = 3
    OBVIOUS
  <2> QED BY <1>6, <1>8, <2>1 DEF Behind
<1>10. NoEvent.data = <<>>
  BY DEF NoEvent
<1>11. DecodeTurns(r)[1] = Turn(Event(<<>>, TRUE), tail, Pending)
  <2>1. DecodeLine(Turn(NoEvent, r, Pending)) =
            Turn(Event(NoEvent.data, TRUE),
                 SubSeq(r, eol + 1, Len(r)), Pending)
    BY <1>5, <1>7, LineTrailer
  <2> QED BY <1>9, <1>10, <2>1, FirstTurn
<1>12. /\ tail \in Seq(Tokens) /\ Len(tail) = Len(r) - 2
       /\ \A q \in 1..(Len(r) - 2) : tail[q] = r[2 + q]
  <2>1. 2 \in 0..Len(r)
    BY <1>4
  <2> QED BY <1>8, <2>1, BehindIs
<1>13. Agrees(tail, SSEBytes(0))
  <2>1. Len(SSEBytes(0)) = size + 3
    <3>1. 0 \in DOMAIN SizeOf /\ 0 \in Nat
      BY SizeAssumption
    <3> QED BY <1>2, <3>1, SSEBytesAre
  <2>2. ASSUME NEW q \in 1..Len(tail), q <= size + 3
        PROVE  tail[q] = SSEBytes(0)[q]
    <3>1. q \in 1..(Len(r) - 2) /\ q \in 1..(size + 3)
      BY <1>12, <2>2
    <3>2. 2 + q \in 1..Len(r) /\ 2 + q <= size + 5
      BY <1>4, <3>1
    <3>3. tail[q] = r[2 + q] /\ r[2 + q] = f[2 + q] /\ f[2 + q] = SSEBytes(0)[q]
      BY <1>3, <1>4, <1>12, <3>1, <3>2
    <3> QED BY <3>3
  <2> QED BY <2>1, <2>2 DEF Agrees
<1>14. Event(<<>>, TRUE).data = <<>>
  BY DEF Event
<1>15. 1 \in Nat /\ 1 + Len(tail) <= Len(r)
  BY <1>4, <1>12
<1>16. 0 \in DOMAIN SizeOf /\ 0 \in Nat
  BY SizeAssumption
<1>17. DecodeLines(r) = EventOf(0, Event(<<>>, TRUE), tail)
  BY <1>11, <1>12, <1>13, <1>14, <1>15, <1>16, EventDecoded
<1> QED BY <1>8, <1>17 DEF Read

LEMMA TrailerCut ==
    ASSUME NEW r \in Seq(Tokens), Agrees(r, Frame("sse", 0)), Len(r) < 2
    PROVE  Read("sse", r) = Fails(IF r = <<>> THEN "EOF" ELSE "cut")
<1>1. PICK N \in Nat : N = Len(r) + 1 /\ 1 \in 0..N
  OBVIOUS
<1>2. Pending # Fails("cut") /\ Pending # Fails("EOF")
  BY DEF Pending, Fails
<1>3. CASE r = <<>>
  <2>1. DecodeLine(Turn(NoEvent, r, Pending)) = Turn(NoEvent, r, Fails("EOF"))
    BY <1>3, LineEOF DEF NoEvent
  <2>2. DecodeTurns(r)[1].result = Fails("EOF")
    BY <2>1, FirstTurn DEF Turn
  <2>3. DecodeLines(r) = Fails("EOF")
    BY <1>1, <1>2, <2>2, TurnsSettle
  <2> QED BY <1>3, <2>3 DEF Read
<1>4. CASE r # <<>>
  <2>1. Len(r) = 1
    <3>1. PICK l \in Nat : l = Len(r) /\ l # 0 /\ l < 2
      BY <1>4
    <3>2. l = 1
      BY <3>1
    <3> QED BY <3>1, <3>2
  <2>2. r[1].kind = "event: trailer"
    <3>1. r[1] = Frame("sse", 0)[1]
      <4>1. 1 \in 1..Len(r) /\ 1 <= Len(Frame("sse", 0))
        <5>1. PICK size \in Nat : size = SizeOf[0]
          BY SizeAssumption
        <5>2. Len(Frame("sse", 0)) = size + 5
          BY <5>1, TrailerFrame
        <5> QED BY <2>1, <5>2
      <4> QED BY <4>1 DEF Agrees
    <3> QED BY <3>1, TrailerFrame
  <2>3. Find(r, "line") = 0
    <3>1. \A p \in 1..Len(r) : r[p].kind # "line"
      <4>1. \A p \in 1..Len(r) : p = 1
        BY <2>1
      <4> QED BY <2>2, <4>1
    <3> QED BY <3>1, FindNone
  <2>4. DecodeLine(Turn(NoEvent, r, Pending)) = Turn(NoEvent, r, Fails("cut"))
    BY <1>4, <2>3, LineCut
  <2>5. DecodeTurns(r)[1].result = Fails("cut")
    BY <2>4, FirstTurn DEF Turn
  <2>6. DecodeLines(r) = Fails("cut")
    BY <1>1, <1>2, <2>5, TurnsSettle
  <2> QED BY <1>4, <2>6 DEF Read
<1> QED BY <1>3, <1>4

-----------------------------------------------------------------------------
(* All formats.                                                            *)
Names == {"proto", "json", "sse"}

LEMMA FrameIs ==
    ASSUME NEW format \in Names, NEW n \in DOMAIN SizeOf, n \in Nat
    PROVE  Frame(format, n) \in Seq(Tokens) /\ Len(Frame(format, n)) >= 2
<1>1. PICK size \in Nat : size = SizeOf[n]
  BY Sizes
<1>2. PICK f : f = Frame(format, n)
  OBVIOUS
<1>3. CASE format = "proto"
  <2>1. f \in Seq(Tokens) /\ Len(f) = size + 2
    BY <1>1, <1>2, <1>3, ProtoFrame
  <2> QED BY <1>2, <2>1
<1>4. CASE format = "json"
  <2>1. f \in Seq(Tokens) /\ Len(f) = size + 2
    BY <1>1, <1>2, <1>4, JSONFrame
  <2> QED BY <1>2, <2>1
<1>5. CASE format = "sse" /\ n # 0
  <2>1. f \in Seq(Tokens) /\ Len(f) = size + 3
    BY <1>1, <1>2, <1>5, MessageFrame
  <2> QED BY <1>2, <2>1
<1>6. CASE format = "sse" /\ n = 0
  <2>1. f \in Seq(Tokens) /\ Len(f) = size + 5
    BY <1>1, <1>2, <1>6, TrailerFrame
  <2> QED BY <1>2, <2>1
<1> QED BY <1>3, <1>4, <1>5, <1>6 DEF Names

(* A reader of a whole frame finds its message.                            *)
LEMMA WholeRead ==
    ASSUME SizesFit, NEW format \in Names, NEW n \in DOMAIN SizeOf, n \in Nat,
           format = "json" => n # 0, NEW r \in Seq(Tokens),
           Len(Frame(format, n)) <= Len(r), Agrees(r, Frame(format, n))
    PROVE  Read(format, r) = Found(Data(n), n = 0, Behind(r, Len(Frame(format, n))))
<1>1. PICK size \in Nat : size = SizeOf[n]
  BY Sizes
<1>2. CASE format = "proto"
  BY <1>2, ProtoWhole
<1>3. CASE format = "json"
  <2>1. (n = 0) = FALSE
    BY <1>3
  <2> QED BY <1>3, <2>1, JSONWhole
<1>4. CASE format = "sse" /\ n # 0
  <2>1. Read("sse", r) = EventOf(n, NoEvent, r)
    BY <1>4, MessageDecoded
  <2>2. Len(Frame("sse", n)) = size + 3
    BY <1>1, <1>4, MessageFrame
  <2>3. r # <<>> /\ ~(Len(r) < size + 2)
    <3>1. PICK l \in Nat : l = Len(r) /\ size + 3 <= l
      BY <1>4, <2>2
    <3>2. l # 0 /\ ~(l < size + 2)
      BY <3>1
    <3> QED BY <3>1, <3>2
  <2>4. NoEvent.isTrailer = (n = 0)
    BY <1>4 DEF NoEvent
  <2>5. EventOf(n, NoEvent, r) = Found(Data(n), NoEvent.isTrailer, Behind(r, size + 3))
    BY <1>1, <2>3, Zenon DEF EventOf
  <2> QED BY <1>4, <2>1, <2>2, <2>4, <2>5
<1>5. CASE format = "sse" /\ n = 0
  <2>1. PICK l \in Nat : l = Len(r) /\ Len(Frame("sse", 0)) = size + 5 /\ size + 5 <= l
    <3>1. Len(Frame("sse", 0)) = size + 5
      BY <1>1, <1>5, TrailerFrame
    <3>2. Len(Frame("sse", 0)) <= Len(r) /\ Len(r) \in Nat
      BY <1>5
    <3> QED BY <3>1, <3>2
  <2>2. PICK tail : tail = Behind(r, 2)
    OBVIOUS
  <2>3. tail \in Seq(Tokens) /\ Len(tail) = l - 2
    <3>1. 2 \in 0..Len(r)
      BY <2>1
    <3> QED BY <2>1, <2>2, <3>1, BehindIs
  <2>4. Read("sse", r) = EventOf(0, Event(<<>>, TRUE), tail)
    <3>1. Len(r) >= 2
      BY <2>1
    <3> QED BY <1>5, <2>2, <3>1, TrailerDecoded
  <2>5. tail # <<>> /\ ~(Len(tail) < size + 2)
    <3>1. l - 2 # 0 /\ ~(l - 2 < size + 2)
      BY <2>1
    <3> QED BY <2>3, <3>1
  <2>6. EventOf(0, Event(<<>>, TRUE), tail) = Found(Data(0), TRUE, Behind(tail, size + 3))
    <3>1. Event(<<>>, TRUE).isTrailer = TRUE
      BY DEF Event
    <3> QED BY <1>1, <1>5, <2>5, <3>1, Zenon DEF EventOf
  <2>7. Behind(tail, size + 3) = Behind(r, size + 5)
    <3>1. 2 \in 0..Len(r) /\ size + 3 \in 0..(Len(r) - 2)
          /\ 2 + (size + 3) = size + 5
      BY <2>1
    <3>2. Behind(Behind(r, 2), size + 3) = Behind(r, 2 + (size + 3))
      BY <3>1, BehindBehind
    <3> QED BY <2>2, <3>1, <3>2
  <2>8. (n = 0) = TRUE
    BY <1>5
  <2> QED BY <1>5, <2>1, <2>4, <2>6, <2>7, <2>8
<1> QED BY <1>2, <1>3, <1>4, <1>5 DEF Names

(* A reader of a frame that was cut reports it, except that an event that  *)
(* lacks no more than its empty line counts, and one that consists of its  *)
(* name alone.                                                             *)
LEMMA CutRead ==
    ASSUME SizesFit, NEW format \in Names, NEW n \in DOMAIN SizeOf, n \in Nat,
           NEW r \in Seq(Tokens),
           Len(r) < Len(Frame(format, n)), Agrees(r, Frame(format, n))
    PROVE  \/ r = <<>> /\ Read(format, r) = Fails("EOF")
           \/ r # <<>> /\ Read(format, r) = Fails("cut")
           \/ /\ r # <<>> /\ format = "sse" /\ Len(r) = Len(Frame(format, n)) - 1
              /\ Read(format, r) = Found(Data(n), n = 0, <<>>)
           \/ /\ r # <<>> /\ format = "sse" /\ n = 0
              /\ Read(format, r) = Found(<<>>, TRUE, <<>>)
<1>1. PICK size \in Nat : size = SizeOf[n]
  BY Sizes
<1>2. CASE format = "proto"
  BY <1>2, ProtoCut
<1>3. CASE format = "json"
  BY <1>3, JSONCut
<1>4. CASE format = "sse" /\ n # 0
  <2>1. Read("sse", r) = EventOf(n, NoEvent, r)
    BY <1>4, MessageDecoded
  <2>2. Len(Frame("sse", n)) = size + 3
    BY <1>1, <1>4, MessageFrame
  <2>3. PICK l \in Nat : l = Len(r) /\ l < size + 3
    BY <1>4, <2>2
  <2>4. CASE r = <<>>
    BY <1>4, <2>1, <2>4 DEF EventOf, NoEvent
  <2>5. CASE r # <<>> /\ l < size + 2
    <3>1. Len(r) < SizeOf[n] + 2
      BY <1>1, <2>3, <2>5
    <3>2. EventOf(n, NoEvent, r) = Fails("cut")
      BY <2>5, <3>1, Zenon DEF EventOf
    <3> QED BY <1>4, <2>1, <2>5, <3>2
  <2>6. CASE r # <<>> /\ ~(l < size + 2)
    <3>1. ~(Len(r) < SizeOf[n] + 2) /\ l = size + 3 - 1
      BY <1>1, <2>3, <2>6
    <3>2. EventOf(n, NoEvent, r) = Found(Data(n), NoEvent.isTrailer, Behind(r, SizeOf[n] + 3))
      BY <2>6, <3>1, Zenon DEF EventOf
    <3>3. Behind(r, SizeOf[n] + 3) = <<>>
      <4>1. SizeOf[n] + 3 + 1 \in Int /\ Len(r) \in Int /\ SizeOf[n] + 3 + 1 > Len(r)
        BY <1>1, <2>3
      <4> QED BY <4>1, SubSeqEmpty DEF Behind
    <3>4. NoEvent.isTrailer = (n = 0)
      BY <1>4 DEF NoEvent
    <3>5. Len(r) = Len(Frame(format, n)) - 1
      BY <1>4, <2>2, <2>3, <3>1
    <3>6. Read(format, r) = Found(Data(n), n = 0, <<>>)
      BY <1>4, <2>1, <3>2, <3>3, <3>4
    <3> QED BY <1>4, <2>6, <3>5, <3>6
  <2> QED BY <2>4, <2>5, <2>6
<1>5. CASE format = "sse" /\ n = 0 /\ Len(r) < 2
  BY <1>5, TrailerCut
<1>6. CASE format = "sse" /\ n = 0 /\ ~(Len(r) < 2)
  <2>1. PICK l \in Nat : l = Len(r) /\ Len(Frame("sse", 0)) = size + 5
                         /\ l < size + 5 /\ l >= 2
    <3>1. Len(Frame("sse", 0)) = size + 5
      BY <1>1, <1>6, TrailerFrame
    <3>2. Len(r) < Len(Frame("sse", 0)) /\ Len(r) \in Nat /\ ~(Len(r) < 2)
      BY <1>6
    <3> QED BY <3>1, <3>2
  <2>2. PICK tail : tail = Behind(r, 2)
    OBVIOUS
  <2>3. tail \in Seq(Tokens) /\ Len(tail) = l - 2
    <3>1. 2 \in 0..Len(r)
      BY <2>1
    <3> QED BY <2>1, <2>2, <3>1, BehindIs
  <2>4. Read("sse", r) = EventOf(0, Event(<<>>, TRUE), tail)
    <3>1. Len(r) >= 2
      BY <2>1
    <3> QED BY <1>6, <2>2, <3>1, TrailerDecoded
  <2>5. r # <<>>
    BY <2>1
  <2>6. Event(<<>>, TRUE).isTrailer = TRUE /\ Event(<<>>, TRUE).some = TRUE
    BY DEF Event
  <2>7. CASE tail = <<>>
    <3>1. EventOf(0, Event(<<>>, TRUE), tail) = Found(<<>>, TRUE, <<>>)
      BY <2>6, <2>7, Zenon DEF EventOf
    <3> QED BY <1>6, <2>4, <2>5, <3>1
  <2>8. CASE tail # <<>> /\ l - 2 < size + 2
    <3>1. Len(tail) < SizeOf[0] + 2
      BY <1>1, <1>6, <2>3, <2>8
    <3>2. EventOf(0, Event(<<>>, TRUE), tail) = Fails("cut")
      BY <2>8, <3>1, Zenon DEF EventOf
    <3> QED BY <1>6, <2>4, <2>5, <3>2
  <2>9. CASE tail # <<>> /\ ~(l - 2 < size + 2)
    <3>1. ~(Len(tail) < SizeOf[0] + 2) /\ l = size + 5 - 1
      BY <1>1, <1>6, <2>1, <2>3, <2>9
    <3>2. EventOf(0, Event(<<>>, TRUE), tail) =
              Found(Data(0), TRUE, Behind(tail, SizeOf[0] + 3))
      BY <2>6, <2>9, <3>1, Zenon DEF EventOf
    <3>3. Behind(tail, SizeOf[0] + 3) = <<>>
      <4>1. SizeOf[0] + 3 + 1 \in Int /\ Len(tail) \in Int
            /\ SizeOf[0] + 3 + 1 > Len(tail)
        BY <1>1, <1>6, <2>1, <2>3
      <4> QED BY <4>1, SubSeqEmpty DEF Behind
    <3>4. (n = 0) = TRUE
      BY <1>6
    <3>5. Len(r) = Len(Frame(format, n)) - 1
      BY <1>6, <2>1, <3>1
    <3>6. Read(format, r) = Found(Data(n), n = 0, <<>>)
      BY <1>6, <2>4, <3>2, <3>3, <3>4
    <3> QED BY <1>6, <2>5, <3>5, <3>6
  <2> QED BY <2>7, <2>8, <2>9
<1> QED BY <1>2, <1>3, <1>4, <1>5, <1>6 DEF Names

LEMMA EmptyRead ==
    ASSUME SizesFit, NEW format \in Names
    PROVE  Read(format, <<>>) = Fails("EOF")
<1>1. 0 \in DOMAIN SizeOf /\ 0 \in Nat
  BY SizeAssumption
<1>2. PICK r \in Seq(Tokens) : r = <<>> /\ Len(r) = 0
  <2>1. <<>> \in Seq(Tokens) /\ Len(<<>>) = 0
    OBVIOUS
  <2> QED BY <2>1
<1>3. Len(r) < Len(Frame(format, 0))
  <2>1. PICK l \in Nat : l = Len(Frame(format, 0)) /\ l >= 2
    BY <1>1, FrameIs
  <2> QED BY <1>2, <2>1
<1>4. Agrees(r, Frame(format, 0))
  BY <1>2 DEF Agrees
<1> QED BY <1>1, <1>2, <1>3, <1>4, CutRead

-----------------------------------------------------------------------------
(* A stream of c messages and the trailer: message j of it, its parts.     *)
Number(c, j) == IF j <= c THEN j ELSE 0

Stream(c) ==
    [i \in 1..(2 * c + 2) |-> [part |-> IF i % 2 = 1 THEN "size" ELSE "bytes",
                               n    |-> Number(c, (i + 1) \div 2)]]

(* Part i of the stream, in tokens.                                        *)
Piece(format, c, i) == Written(format, Stream(c)[i])

LEMMA PiecesAre ==
    ASSUME NEW format \in Names, NEW c \in Nat, 1..c \subseteq DOMAIN SizeOf,
           NEW j \in 1..(c + 1)
    PROVE  /\ Number(c, j) \in DOMAIN SizeOf /\ Number(c, j) \in Nat
           /\ Piece(format, c, 2 * j - 1) = Parts(format, Number(c, j)).size
           /\ Piece(format, c, 2 * j) = Parts(format, Number(c, j)).bytes
<1>1. 0 \in DOMAIN SizeOf
  BY SizeAssumption
<1>2. Number(c, j) \in DOMAIN SizeOf /\ Number(c, j) \in Nat
  BY <1>1 DEF Number
<1>3. /\ 2 * j - 1 \in 1..(2 * c + 2) /\ 2 * j \in 1..(2 * c + 2)
      /\ (2 * j - 1 + 1) \div 2 = j /\ (2 * j + 1) \div 2 = j
      /\ (2 * j - 1) % 2 = 1 /\ (2 * j) % 2 # 1
  OBVIOUS
<1>4. /\ Stream(c)[2 * j - 1] = [part |-> "size", n |-> Number(c, j)]
      /\ Stream(c)[2 * j] = [part |-> "bytes", n |-> Number(c, j)]
  BY <1>3 DEF Stream
<1> QED BY <1>2, <1>4 DEF Piece, Written

LEMMA PartsInSeq ==
    ASSUME NEW format \in Names, NEW n \in DOMAIN SizeOf, n \in Nat
    PROVE  /\ Parts(format, n).size \in Seq(Tokens)
           /\ Parts(format, n).bytes \in Seq(Tokens)
<1>1. CASE format = "proto"
  <2>1. Parts(format, n).size = SizePreface(n) /\ Parts(format, n).bytes = Data(n)
    BY <1>1 DEF Parts, ProtoParts
  <2>2. SizePreface(n) \in Seq(Tokens)
    <3>1. PICK sz \in Int : sz = IF n = 0 THEN -SizeOf[n] ELSE SizeOf[n]
      BY Sizes
    <3>2. PICK t \in Tokens : t = Token("size", sz)
      <4>1. Token("size", sz) \in Tokens
        BY DEF Token, Tokens, Kinds
      <4> QED BY <4>1
    <3>3. <<t, t>> \in Seq(Tokens)
      OBVIOUS
    <3> QED BY <3>1, <3>2, <3>3 DEF SizePreface
  <2> QED BY <2>1, <2>2, DataTokens
<1>2. CASE format = "json"
  <2>1. PICK d \in Seq(Tokens) : d = Data(n)
    BY DataTokens
  <2>2. PICK a, z \in Tokens : a = Token("open", 0) /\ z = Token("close", 0)
    <3>1. Token("open", 0) \in Tokens /\ Token("close", 0) \in Tokens
      BY PlainToken DEF Kinds
    <3> QED BY <3>1
  <2>3. PICK y \in Seq(Tokens) : y = <<z>>
    <3>1. <<z>> \in Seq(Tokens)
      OBVIOUS
    <3> QED BY <3>1
  <2>4. <<a>> \o d \o y \in Seq(Tokens)
    BY Wrapped
  <2>5. Parts(format, n).size = <<>> /\ Parts(format, n).bytes = <<a>> \o d \o y
    BY <1>2, <2>1, <2>2, <2>3 DEF Parts, JSONParts
  <2> QED BY <2>4, <2>5
<1>3. CASE format = "sse"
  <2>1. Parts(format, n).bytes \in Seq(Tokens)
    BY <1>3, SSEBytesAre DEF SSEBytes
  <2>2. PICK x, y \in Tokens : x = Token("event: trailer", 0) /\ y = Line
    <3>1. Token("event: trailer", 0) \in Tokens /\ Line \in Tokens
      BY PlainToken DEF Kinds, Line
    <3> QED BY <3>1
  <2>3. <<x, y>> \in Seq(Tokens) /\ <<>> \in Seq(Tokens)
    OBVIOUS
  <2>4. Parts(format, n).size = IF n = 0 THEN <<x, y>> ELSE <<>>
    BY <1>3, <2>2 DEF Parts, SSEParts
  <2> QED BY <2>1, <2>3, <2>4
<1> QED BY <1>1, <1>2, <1>3 DEF Names

(* The tokens of the stream's first parts.                                 *)
LEMMA StreamGrows ==
    ASSUME NEW format, NEW c \in Nat, NEW N \in Nat, N = 2 * c + 2
    PROVE  /\ Bodies(format, Stream(c))[0] = <<>>
           /\ \A i \in 1..N :
                  Bodies(format, Stream(c))[i] =
                      Bodies(format, Stream(c))[i - 1] \o Piece(format, c, i)
<1>1. Len(Stream(c)) = N
  BY DEF Stream
<1>2. PICK s : s = Stream(c)
  OBVIOUS
<1>3. Len(s) \in Nat
  BY <1>1, <1>2
<1>4. /\ Bodies(format, s)[0] = <<>>
      /\ \A i \in 1..Len(s) : Bodies(format, s)[i] =
             Bodies(format, s)[i - 1] \o Written(format, s[i])
  BY <1>3, BodyGrows
<1> QED BY <1>1, <1>2, <1>4 DEF Piece

(* They are the start of the whole stream: a frame lies where the messages *)
(* before it end.                                                          *)
LEMMA StreamPrefix ==
    ASSUME NEW format \in Names, NEW c \in Nat, 1..c \subseteq DOMAIN SizeOf
    PROVE  LET b == Bodies(format, Stream(c))
           IN  /\ \A i \in 0..(2 * c + 2) : b[i] \in Seq(Tokens)
               /\ \A i \in 0..(2 * c + 2) : \A k \in i..(2 * c + 2) :
                      /\ Len(b[i]) <= Len(b[k])
                      /\ \A q \in 1..Len(b[i]) : b[k][q] = b[i][q]
<1>1. PICK N \in Nat : N = 2 * c + 2
  OBVIOUS
<1>2. PICK b : b = Bodies(format, Stream(c))
  OBVIOUS
<1>3. b[0] = <<>> /\ \A i \in 1..N : b[i] = b[i - 1] \o Piece(format, c, i)
  BY <1>1, <1>2, StreamGrows
<1>4. ASSUME NEW i \in 1..N PROVE Piece(format, c, i) \in Seq(Tokens)
  <2>1. PICK j \in 1..(c + 1) : i = 2 * j - 1 \/ i = 2 * j
    <3>1. (i + 1) \div 2 \in 1..(c + 1)
      BY <1>1
    <3>2. i = 2 * ((i + 1) \div 2) - 1 \/ i = 2 * ((i + 1) \div 2)
      BY <1>1
    <3> QED BY <3>1, <3>2
  <2>2. PICK n \in DOMAIN SizeOf : n = Number(c, j) /\ n \in Nat
    BY PiecesAre
  <2>3. Parts(format, n).size \in Seq(Tokens) /\ Parts(format, n).bytes \in Seq(Tokens)
    BY <2>2, PartsInSeq
  <2>4. /\ Piece(format, c, 2 * j - 1) = Parts(format, n).size
        /\ Piece(format, c, 2 * j) = Parts(format, n).bytes
    BY <2>2, PiecesAre
  <2> QED BY <2>1, <2>3, <2>4
<1>5. \A i \in 0..N : b[i] \in Seq(Tokens)
  <2> DEFINE S == {i \in Nat : b[i] \in Seq(Tokens)}
  <2>1. 0 \in S
    <3>1. <<>> \in Seq(Tokens)
      OBVIOUS
    <3> QED BY <1>3, <3>1
  <2>2. ASSUME NEW i \in 1..N, i - 1 \in S PROVE i \in S
    <3>1. PICK s, t \in Seq(Tokens) : s = b[i - 1] /\ t = Piece(format, c, i)
      BY <1>4, <2>2
    <3>2. s \o t \in Seq(Tokens)
      BY JoinedTokens
    <3>3. b[i] = s \o t
      BY <1>3, <3>1, Zenon
    <3>4. b[i] \in Seq(Tokens)
      BY <3>2, <3>3, Zenon
    <3> QED BY <3>4
  <2>3. 0..N \subseteq S
    <3> HIDE DEF S
    <3> QED BY <2>1, <2>2, UpTo, Zenon
  <2> QED BY <2>3
<1>6. ASSUME NEW i \in 1..N
      PROVE  /\ Len(b[i - 1]) <= Len(b[i])
             /\ \A q \in 1..Len(b[i - 1]) : b[i][q] = b[i - 1][q]
  <2>1. PICK s, t \in Seq(Tokens) : s = b[i - 1] /\ t = Piece(format, c, i)
    <3>1. i - 1 \in 0..N
      OBVIOUS
    <3> QED BY <1>4, <1>5, <3>1
  <2>2. b[i] = s \o t
    BY <1>3, <2>1
  <2>3. /\ Len(s \o t) = Len(s) + Len(t)
        /\ \A q \in 1..Len(s) : (s \o t)[q] = s[q]
    BY JoinedTokens
  <2>4. Len(s) <= Len(s) + Len(t)
    OBVIOUS
  <2> QED BY <2>1, <2>2, <2>3, <2>4
<1>7. ASSUME NEW i \in 0..N
      PROVE  \A k \in i..N : /\ Len(b[i]) <= Len(b[k])
                             /\ \A q \in 1..Len(b[i]) : b[k][q] = b[i][q]
  <2> DEFINE Begins(k) == /\ Len(b[i]) <= Len(b[k])
                          /\ \A q \in 1..Len(b[i]) : b[k][q] = b[i][q]
             S == {d \in Nat : Begins(i + d)}
  <2>1. 0 \in S
    <3>1. i + 0 = i /\ Len(b[i]) \in Nat
      BY <1>5
    <3>2. Begins(i)
      BY <3>1
    <3> QED BY <3>1, <3>2
  <2>2. ASSUME NEW d \in 1..(N - i), d - 1 \in S PROVE d \in S
    <3>1. PICK k \in 1..N : k = i + d /\ k - 1 = i + (d - 1) /\ k - 1 \in 0..N
      OBVIOUS
    <3>2. Begins(k - 1)
      BY <2>2, <3>1
    <3>3. Len(b[i]) \in Nat /\ Len(b[k - 1]) \in Nat /\ Len(b[k]) \in Nat
      BY <1>5, <3>1
    <3>4. Begins(k)
      BY <1>6, <3>2, <3>3
    <3> HIDE DEF Begins
    <3> QED BY <3>1, <3>4
  <2>3. N - i \in Nat
    OBVIOUS
  <2>4. 0..(N - i) \subseteq S
    <3> HIDE DEF S
    <3> QED BY <2>1, <2>2, <2>3, UpTo, Zenon
  <2>5. ASSUME NEW k \in i..N PROVE Begins(k)
    <3>1. k - i \in 0..(N - i) /\ i + (k - i) = k
      OBVIOUS
    <3> HIDE DEF Begins
    <3> QED BY <2>4, <3>1
  <2> QED BY <2>5
<1> QED BY <1>1, <1>2, <1>5, <1>7

(* Where message j of the stream ends.                                     *)
End(format, c, j) == Len(Bodies(format, Stream(c))[2 * j])

LEMMA FramesFollow ==
    ASSUME NEW format \in Names, NEW c \in Nat, 1..c \subseteq DOMAIN SizeOf,
           NEW j \in 1..(c + 1)
    PROVE  LET W == Bodies(format, Stream(c))[2 * c + 2]
               f == Frame(format, Number(c, j))
               E == End(format, c, j - 1)
           IN  /\ E \in Nat /\ End(format, c, j) = E + Len(f)
               /\ \A q \in 1..Len(f) : W[E + q] = f[q]
<1>1. PICK N \in Nat : N = 2 * c + 2
  OBVIOUS
<1>2. PICK b : b = Bodies(format, Stream(c))
  OBVIOUS
<1>3. PICK i \in 0..N : i = 2 * (j - 1) /\ i + 1 = 2 * j - 1 /\ i + 2 = 2 * j
                        /\ i + 2 \in 1..N /\ i + 1 \in 1..N
  <2>1. 2 * (j - 1) \in 0..N /\ 2 * (j - 1) + 1 = 2 * j - 1
        /\ 2 * (j - 1) + 2 = 2 * j /\ 2 * (j - 1) + 2 \in 1..N
        /\ 2 * (j - 1) + 1 \in 1..N
    BY <1>1
  <2> QED BY <2>1
<1>4. \A x \in 1..N : b[x] = b[x - 1] \o Piece(format, c, x)
  BY <1>1, <1>2, StreamGrows
<1>5. PICK n : n = Number(c, j)
  OBVIOUS
<1>6. n \in DOMAIN SizeOf /\ n \in Nat
  BY <1>5, PiecesAre
<1>7. PICK s, t \in Seq(Tokens) : s = Parts(format, n).size /\ t = Parts(format, n).bytes
  BY <1>6, PartsInSeq
<1>8. Frame(format, n) = s \o t
  BY <1>7 DEF Frame
<1>9. b[i + 1] = b[i] \o s
  <2>1. i + 1 - 1 = i
    OBVIOUS
  <2>2. Piece(format, c, i + 1) = s
    BY <1>3, <1>5, <1>7, PiecesAre
  <2>3. PICK x \in 1..N : x = i + 1
    BY <1>3
  <2>4. b[x] = b[x - 1] \o Piece(format, c, x)
    BY <1>4, Zenon
  <2>5. x - 1 = i
    BY <2>3
  <2> QED BY <1>3, <2>2, <2>3, <2>4, <2>5, Zenon
<1>10. b[i + 2] = b[i + 1] \o t
  <2>1. i + 2 - 1 = i + 1
    OBVIOUS
  <2>2. Piece(format, c, i + 2) = t
    BY <1>3, <1>5, <1>7, PiecesAre
  <2> QED BY <1>3, <1>4, <2>1, <2>2
<1>11. PICK a \in Seq(Tokens) : a = b[i]
  <2>1. b[i] \in Seq(Tokens)
    BY <1>1, <1>2, <1>3, StreamPrefix
  <2> QED BY <2>1
<1>12. b[i + 2] = a \o (s \o t)
  <2>1. (a \o s) \o t = a \o (s \o t)
    BY ConcatAssociative
  <2> QED BY <1>9, <1>10, <1>11, <2>1
<1>13. PICK f \in Seq(Tokens) : f = s \o t
  BY JoinedTokens
<1>14. /\ Len(b[i + 2]) = Len(a) + Len(f) /\ Len(a) \in Nat
       /\ \A q \in 1..Len(f) : b[i + 2][Len(a) + q] = f[q]
  BY <1>12, <1>13, JoinedTokens
<1>15. \A q \in 1..Len(b[i + 2]) : b[N][q] = b[i + 2][q]
  <2>1. i + 2 \in 0..N /\ N \in (i + 2)..N
    BY <1>3
  <2> QED BY <1>1, <1>2, <2>1, StreamPrefix
<1>16. ASSUME NEW q \in 1..Len(f) PROVE b[N][Len(a) + q] = f[q]
  <2>1. Len(a) + q \in 1..(Len(a) + Len(f))
    BY <1>14
  <2> QED BY <1>14, <1>15, <2>1
<1>17. /\ End(format, c, j - 1) = Len(a)
       /\ End(format, c, j) = Len(b[i + 2])
  BY <1>2, <1>3, <1>11 DEF End
<1> QED BY <1>1, <1>2, <1>5, <1>8, <1>13, <1>14, <1>16, <1>17

LEMMA EndsGrow ==
    ASSUME NEW format \in Names, NEW c \in Nat, 1..c \subseteq DOMAIN SizeOf
    PROVE  /\ End(format, c, 0) = 0
           /\ \A j \in 0..(c + 1) : End(format, c, j) \in Nat
           /\ \A j \in 0..(c + 1) : 2 * j <= End(format, c, j)
           /\ \A i \in 0..(c + 1) : \A j \in i..(c + 1) :
                  End(format, c, i) <= End(format, c, j)
<1>1. PICK N \in Nat : N = 2 * c + 2
  OBVIOUS
<1>2. PICK b : b = Bodies(format, Stream(c))
  OBVIOUS
<1>3. \A j \in 0..(c + 1) : 2 * j \in 0..N
  BY <1>1
<1>4. \A j \in 0..(c + 1) : End(format, c, j) = Len(b[2 * j])
  BY <1>2 DEF End
<1>5. \A j \in 0..(c + 1) : End(format, c, j) \in Nat
  <2>1. \A j \in 0..(c + 1) : b[2 * j] \in Seq(Tokens)
    BY <1>1, <1>2, <1>3, StreamPrefix
  <2> QED BY <1>4, <2>1
<1>6. End(format, c, 0) = 0
  <2>1. b[0] = <<>>
    BY <1>2, StreamGrows
  <2>2. 2 * 0 = 0 /\ Len(<<>>) = 0
    OBVIOUS
  <2> QED BY <1>2, <2>1, <2>2 DEF End
<1>7. ASSUME NEW i \in 0..(c + 1), NEW j \in i..(c + 1)
      PROVE  End(format, c, i) <= End(format, c, j)
  <2>1. j \in 0..(c + 1) /\ 2 * i \in 0..N /\ 2 * j \in (2 * i)..N
    BY <1>1
  <2>2. Len(b[2 * i]) <= Len(b[2 * j])
    BY <1>1, <1>2, <2>1, StreamPrefix
  <2> QED BY <1>4, <2>1, <2>2
<1>8. \A j \in 0..(c + 1) : 2 * j <= End(format, c, j)
  <2> DEFINE S == {j \in Nat : 2 * j <= End(format, c, j)}
  <2>1. 0 \in S
    BY <1>6
  <2>2. ASSUME NEW j \in 1..(c + 1), j - 1 \in S PROVE j \in S
    <3>1. PICK n \in DOMAIN SizeOf : n = Number(c, j) /\ n \in Nat
      BY PiecesAre
    <3>2. PICK l \in Nat : l = Len(Frame(format, n)) /\ l >= 2
      BY <3>1, FrameIs
    <3>3. PICK e \in Nat : e = End(format, c, j - 1) /\ End(format, c, j) = e + l
      BY <3>1, <3>2, FramesFollow
    <3>4. 2 * (j - 1) <= e
      BY <2>2, <3>3
    <3>5. 2 * j <= e + l
      BY <3>2, <3>4
    <3> QED BY <3>3, <3>5
  <2>3. 0..(c + 1) \subseteq S
    <3>1. c + 1 \in Nat
      OBVIOUS
    <3> HIDE DEF S
    <3> QED BY <2>1, <2>2, <3>1, UpTo, Zenon
  <2> QED BY <2>3
<1> QED BY <1>5, <1>6, <1>7, <1>8

(* A body of the stream's first parts is the start of it.                  *)
LEMMA PrefixBody ==
    ASSUME NEW format, NEW c \in Nat, NEW m \in 0..(2 * c + 2), NEW parts,
           Len(parts) = m, \A x \in 1..m : parts[x] = Stream(c)[x]
    PROVE  Body(format, parts) = Bodies(format, Stream(c))[m]
<1>1. PICK N \in Nat : N = 2 * c + 2
  OBVIOUS
<1>2. PICK b : b = Bodies(format, Stream(c))
  OBVIOUS
<1>3. PICK a : a = Bodies(format, parts)
  OBVIOUS
<1>4. b[0] = <<>> /\ \A i \in 1..N : b[i] = b[i - 1] \o Piece(format, c, i)
  BY <1>1, <1>2, StreamGrows
<1>5. a[0] = <<>> /\ \A i \in 1..m : a[i] = a[i - 1] \o Written(format, parts[i])
  <2>1. Len(parts) \in Nat
    OBVIOUS
  <2> QED BY <1>3, <2>1, BodyGrows
<1> DEFINE S == {i \in Nat : a[i] = b[i]}
<1>6. 0 \in S
  BY <1>4, <1>5
<1>7. ASSUME NEW i \in 1..m, i - 1 \in S PROVE i \in S
  <2>1. a[i - 1] = b[i - 1]
    BY <1>7
  <2>2. i \in 1..N
    BY <1>1
  <2>3. Written(format, parts[i]) = Piece(format, c, i)
    BY Zenon DEF Piece
  <2>4. a[i] = b[i]
    BY <1>4, <1>5, <2>1, <2>2, <2>3, Zenon
  <2> QED BY <2>4
<1>8. m \in Nat /\ m \in 0..m
  BY <1>1
<1>9. m \in S
  <2> HIDE DEF S
  <2>1. 0..m \subseteq S
    BY <1>6, <1>7, <1>8, UpTo, Zenon
  <2> QED BY <1>8, <2>1
<1>10. a[m] = b[m]
  BY <1>9
<1> QED BY <1>2, <1>3, <1>10 DEF Body

-----------------------------------------------------------------------------
(* What the calls of a reader have found so far.                           *)
Got(data, end, trailer, rest) ==
    [data |-> data, end |-> end, trailer |-> trailer, rest |-> rest]

LEMMA NextMessage ==
    ASSUME NEW format, NEW data, NEW in, NEW r, Read(format, in) = r,
           r.err = "none", ~r.isTrailer
    PROVE  ReadNext(format, Got(data, "pending", <<>>, in)) =
               Got(Append(data, r.data), "pending", <<>>, r.rest)
<1>1. PICK g : g = Got(data, "pending", <<>>, in)
  OBVIOUS
<1>2. g.data = data /\ g.end = "pending" /\ g.rest = in
  BY <1>1 DEF Got
<1>3. ReadNext(format, g) = [g EXCEPT !.data = Append(data, r.data), !.rest = r.rest]
  BY <1>2, Zenon DEF ReadNext
<1> QED BY <1>1, <1>3 DEF Got

LEMMA NextEnd ==
    ASSUME NEW format, NEW data, NEW in, NEW r, Read(format, in) = r,
           r.err # "none" \/ r.isTrailer
    PROVE  ReadNext(format, Got(data, "pending", <<>>, in)) =
               Got(data, r.err, r.data, in)
<1>1. PICK g : g = Got(data, "pending", <<>>, in)
  OBVIOUS
<1>2. g.end = "pending" /\ g.rest = in
  BY <1>1 DEF Got
<1>3. ReadNext(format, g) = [g EXCEPT !.end = r.err, !.trailer = r.data]
  BY <1>2, Zenon DEF ReadNext
<1> QED BY <1>1, <1>3 DEF Got

LEMMA CallsSettle ==
    ASSUME NEW format, NEW in, NEW N \in Nat, N = Len(in) + 1, NEW K \in 0..N,
           ReadCalls(format, in)[K].end # "pending"
    PROVE  ReadAll(format, in) = ReadCalls(format, in)[K]
<1>1. PICK call : call = ReadCalls(format, in)
  OBVIOUS
<1>2. \A k \in 1..N : call[k] = ReadNext(format, call[k - 1])
  <2>1. call = [k \in 0..N |->
                   IF k = 0 THEN [data |-> <<>>, end |-> "pending", trailer |-> <<>>,
                                  rest |-> in]
                            ELSE ReadNext(format, call[k - 1])]
    BY <1>1, CallsEquation
  <2>2. \A k \in 1..N : k \in 0..N /\ k # 0
    OBVIOUS
  <2> QED BY <2>1, <2>2
<1> DEFINE S == {j \in Nat : K + j <= N => call[K + j] = call[K]}
<1>3. 0 \in S
  <2>1. K + 0 = K
    OBVIOUS
  <2> QED BY <2>1
<1>4. ASSUME NEW j \in 1..(N - K), j - 1 \in S PROVE j \in S
  <2>1. PICK k \in 1..N : k = K + j /\ k - 1 = K + (j - 1)
    OBVIOUS
  <2>2. call[k - 1] = call[K]
    BY <1>4, <2>1
  <2>3. ReadNext(format, call[K]) = call[K]
    BY <1>1, Zenon DEF ReadNext
  <2>4. call[k] = call[K]
    BY <1>2, <2>2, <2>3, Zenon
  <2> QED BY <2>1, <2>4
<1>5. N - K \in Nat /\ K + (N - K) = N
  OBVIOUS
<1>6. N - K \in S
  <2> HIDE DEF S
  <2>1. 0..(N - K) \subseteq S
    BY <1>3, <1>4, <1>5, UpTo, Zenon
  <2>2. N - K \in 0..(N - K)
    BY <1>5
  <2> QED BY <2>1, <2>2
<1>7. call[N] = call[K]
  BY <1>5, <1>6
<1> QED BY <1>1, <1>7 DEF ReadAll

(* A body that a cut leaves of the stream.                                 *)
Starts(format, c, in) ==
    LET W == Bodies(format, Stream(c))[2 * c + 2]
    IN  Len(in) <= Len(W) /\ \A q \in 1..Len(in) : in[q] = W[q]

(* Behind message j - 1, it agrees with the frame of message j.            *)
LEMMA RestAgrees ==
    ASSUME NEW format \in Names, NEW c \in Nat, 1..c \subseteq DOMAIN SizeOf,
           NEW in \in Seq(Tokens), Starts(format, c, in), NEW j \in 1..(c + 1),
           NEW E \in 0..Len(in), E = End(format, c, j - 1)
    PROVE  /\ Behind(in, E) \in Seq(Tokens) /\ Len(Behind(in, E)) = Len(in) - E
           /\ Agrees(Behind(in, E), Frame(format, Number(c, j)))
<1>1. PICK W : W = Bodies(format, Stream(c))[2 * c + 2]
  OBVIOUS
<1>2. PICK f : f = Frame(format, Number(c, j))
  OBVIOUS
<1>3. \A q \in 1..Len(f) : W[E + q] = f[q]
  BY <1>1, <1>2, FramesFollow
<1>4. PICK r : r = Behind(in, E)
  OBVIOUS
<1>5. /\ r \in Seq(Tokens) /\ Len(r) = Len(in) - E
      /\ \A q \in 1..(Len(in) - E) : r[q] = in[E + q]
  BY <1>4, BehindIs
<1>6. Len(f) \in Nat
  <2>1. PICK n \in DOMAIN SizeOf : n = Number(c, j) /\ n \in Nat
    BY PiecesAre
  <2> QED BY <1>2, <2>1, FrameIs
<1>7. \A q \in 1..Len(in) : in[q] = W[q]
  BY <1>1 DEF Starts
<1>8. ASSUME NEW q \in 1..Len(r), q <= Len(f) PROVE r[q] = f[q]
  <2>1. q \in 1..Len(f) /\ q \in 1..(Len(in) - E) /\ E + q \in 1..Len(in)
    BY <1>5, <1>6, <1>8
  <2> QED BY <1>3, <1>5, <1>7, <2>1
<1>9. Agrees(r, f)
  BY <1>8 DEF Agrees
<1> QED BY <1>2, <1>4, <1>5, <1>9

(* The data of the first j messages.                                       *)
Datas(j) == [i \in 1..j |-> Data(i)]

LEMMA DatasGrow ==
    ASSUME NEW j \in Nat \ {0}
    PROVE  Append(Datas(j - 1), Data(j)) = Datas(j)
BY DEF Datas

LEMMA NoDatas == Datas(0) = <<>>
BY DEF Datas

(* A call that finds all of message j.                                     *)
LEMMA CallGoes ==
    ASSUME SizesFit, NEW format \in Names, NEW c \in Nat,
           1..c \subseteq DOMAIN SizeOf,
           NEW in \in Seq(Tokens), Starts(format, c, in), NEW j \in 1..c,
           NEW E \in Nat, E = End(format, c, j - 1),
           NEW F \in Nat, F = End(format, c, j), F <= Len(in)
    PROVE  ReadNext(format, Got(Datas(j - 1), "pending", <<>>, Behind(in, E))) =
               Got(Datas(j), "pending", <<>>, Behind(in, F))
<1>1. j \in 1..(c + 1) /\ Number(c, j) = j /\ j \in Nat /\ j # 0
      /\ j \in DOMAIN SizeOf
  BY DEF Number
<1>2. PICK f : f = Frame(format, j)
  OBVIOUS
<1>3. PICK l \in Nat : l = Len(f) /\ F = E + l
  <2>1. F = E + Len(f)
    BY <1>1, <1>2, FramesFollow
  <2>2. Len(f) \in Nat
    BY <1>1, <1>2, FrameIs
  <2> QED BY <2>1, <2>2
<1>4. E \in 0..Len(in) /\ l <= Len(in) - E /\ l \in 0..(Len(in) - E)
  BY <1>3
<1>5. PICK r \in Seq(Tokens) : /\ r = Behind(in, E) /\ Len(r) = Len(in) - E
                               /\ Agrees(r, f)
  BY <1>1, <1>2, <1>4, RestAgrees
<1>6. l <= Len(r)
  BY <1>4, <1>5
<1>7. Read(format, r) = Found(Data(j), j = 0, Behind(r, l))
  BY <1>1, <1>2, <1>3, <1>5, <1>6, WholeRead
<1>8. (j = 0) = FALSE
  BY <1>1
<1>9. Behind(r, l) = Behind(in, F)
  BY <1>3, <1>4, <1>5, BehindBehind
<1>10. Read(format, r) = Found(Data(j), FALSE, Behind(in, F))
  BY <1>7, <1>8, <1>9
<1>11. ReadNext(format, Got(Datas(j - 1), "pending", <<>>, r)) =
           Got(Append(Datas(j - 1), Data(j)), "pending", <<>>, Behind(in, F))
  <2>1. PICK found : found = Found(Data(j), FALSE, Behind(in, F))
    OBVIOUS
  <2>2. /\ found.err = "none" /\ ~found.isTrailer
        /\ found.data = Data(j) /\ found.rest = Behind(in, F)
    BY <2>1 DEF Found
  <2>3. Read(format, r) = found
    BY <1>10, <2>1
  <2>4. ReadNext(format, Got(Datas(j - 1), "pending", <<>>, r)) =
            Got(Append(Datas(j - 1), found.data), "pending", <<>>, found.rest)
    BY <2>2, <2>3, NextMessage
  <2> QED BY <2>2, <2>4
<1>12. Append(Datas(j - 1), Data(j)) = Datas(j)
  BY <1>1, DatasGrow
<1> QED BY <1>5, <1>11, <1>12

(* As many calls as there are whole messages find them.                    *)
LEMMA CallsGo ==
    ASSUME SizesFit, NEW format \in Names, NEW c \in Nat,
           1..c \subseteq DOMAIN SizeOf,
           NEW in \in Seq(Tokens), Starts(format, c, in), NEW k \in 0..c,
           End(format, c, k) <= Len(in)
    PROVE  ReadCalls(format, in)[k] =
               Got(Datas(k), "pending", <<>>, Behind(in, End(format, c, k)))
<1>1. PICK call : call = ReadCalls(format, in)
  OBVIOUS
<1>2. PICK N \in Nat : N = Len(in) + 1
  OBVIOUS
<1>3. call = [x \in 0..N |->
                 IF x = 0 THEN [data |-> <<>>, end |-> "pending", trailer |-> <<>>,
                                rest |-> in]
                          ELSE ReadNext(format, call[x - 1])]
  BY <1>1, <1>2, CallsEquation
<1>4. /\ End(format, c, 0) = 0
      /\ \A j \in 0..(c + 1) : End(format, c, j) \in Nat
      /\ \A j \in 0..(c + 1) : 2 * j <= End(format, c, j)
      /\ \A i \in 0..(c + 1) : \A j \in i..(c + 1) :
             End(format, c, i) <= End(format, c, j)
  BY EndsGrow
<1>5. k \in Nat /\ k <= N
  <2>1. PICK e \in Nat : e = End(format, c, k) /\ 2 * k <= e /\ e <= Len(in)
    <3>1. k \in 0..(c + 1)
      OBVIOUS
    <3> QED BY <1>4, <3>1
  <2> QED BY <1>2, <2>1
<1> DEFINE Here(j) == Got(Datas(j), "pending", <<>>, Behind(in, End(format, c, j)))
           S == {j \in Nat : call[j] = Here(j)}
<1>6. 0 \in S
  <2>1. call[0] = Got(<<>>, "pending", <<>>, in)
    <3>1. 0 \in 0..N
      OBVIOUS
    <3> QED BY <1>3, <3>1 DEF Got
  <2>2. Behind(in, 0) = in
    <3>1. 0 \in 0..Len(in) /\ Len(in) - 0 = Len(in)
      OBVIOUS
    <3>2. /\ Behind(in, 0) \in Seq(Tokens) /\ Len(Behind(in, 0)) = Len(in) - 0
          /\ \A q \in 1..(Len(in) - 0) : Behind(in, 0)[q] = in[0 + q]
      BY <3>1, BehindIs
    <3>3. \A q \in 1..Len(in) : 0 + q = q
      OBVIOUS
    <3>4. \A q \in 1..Len(in) : Behind(in, 0)[q] = in[q]
      BY <3>1, <3>2, <3>3
    <3> QED BY <3>1, <3>2, <3>4, SeqEqual
  <2>3. call[0] = Here(0)
    BY <1>4, <2>1, <2>2, NoDatas
  <2> HIDE DEF Here
  <2> QED BY <2>3
<1>7. ASSUME NEW j \in 1..k, j - 1 \in S PROVE j \in S
  <2>1. j \in 1..c /\ j \in 0..(c + 1) /\ j - 1 \in 0..(c + 1) /\ k \in j..(c + 1)
        /\ j \in 0..N /\ j # 0 /\ j \in Nat
    BY <1>5
  <2>2. PICK E \in Nat : E = End(format, c, j - 1)
    BY <1>4, <2>1
  <2>3. PICK F \in Nat : F = End(format, c, j)
    BY <1>4, <2>1
  <2>4. F <= Len(in)
    <3>1. PICK e \in Nat : e = End(format, c, k) /\ F <= e
      <4>1. k \in 0..(c + 1)
        OBVIOUS
      <4> QED BY <1>4, <2>1, <2>3, <4>1
    <3> QED BY <3>1
  <2>5. ReadNext(format, Here(j - 1)) = Here(j)
    BY <2>1, <2>2, <2>3, <2>4, CallGoes
  <2>6. call[j - 1] = Here(j - 1)
    BY <1>7
  <2> HIDE DEF Here
  <2>7. call[j] = ReadNext(format, call[j - 1])
    BY <1>3, <2>1
  <2>8. call[j] = Here(j)
    BY <2>5, <2>6, <2>7, Zenon
  <2> QED BY <2>1, <2>8
<1>8. k \in S
  <2> HIDE DEF S
  <2>1. 0..k \subseteq S
    BY <1>5, <1>6, <1>7, UpTo, Zenon
  <2>2. k \in 0..k
    OBVIOUS
  <2> QED BY <2>1, <2>2
<1>9. call[k] = Here(k)
  BY <1>8
<1> QED BY <1>1, <1>9

LEMMA CallsNext ==
    ASSUME NEW format, NEW in \in Seq(Tokens), NEW k \in 0..Len(in)
    PROVE  ReadCalls(format, in)[k + 1] = ReadNext(format, ReadCalls(format, in)[k])
<1>1. PICK N \in Nat : N = Len(in) + 1
  OBVIOUS
<1>2. PICK call : call = ReadCalls(format, in)
  OBVIOUS
<1>3. call = [x \in 0..N |->
                 IF x = 0 THEN [data |-> <<>>, end |-> "pending", trailer |-> <<>>,
                                rest |-> in]
                          ELSE ReadNext(format, call[x - 1])]
  BY <1>1, <1>2, CallsEquation
<1>4. PICK x \in 0..N : x = k + 1 /\ x # 0 /\ x - 1 = k
  BY <1>1
<1> QED BY <1>2, <1>3, <1>4

(* The call that finds the end.                                            *)
LEMMA CallEnds ==
    ASSUME NEW format, NEW in \in Seq(Tokens), NEW k \in 0..Len(in),
           NEW data, NEW rest, NEW r,
           ReadCalls(format, in)[k] = Got(data, "pending", <<>>, rest),
           Read(format, rest) = r,
           r.err # "none" \/ r.isTrailer, r.err # "pending"
    PROVE  /\ ReadAll(format, in).data = data
           /\ ReadAll(format, in).end = r.err
           /\ ReadAll(format, in).trailer = r.data
<1>1. ReadCalls(format, in)[k + 1] = Got(data, r.err, r.data, rest)
  BY CallsNext, NextEnd
<1>2. PICK N \in Nat : N = Len(in) + 1 /\ k + 1 \in 0..N
  OBVIOUS
<1>3. Got(data, r.err, r.data, rest).end = r.err
  BY DEF Got
<1>4. ReadAll(format, in) = Got(data, r.err, r.data, rest)
  BY <1>1, <1>2, <1>3, CallsSettle
<1> QED BY <1>4 DEF Got

(* What the calls that read a cut of the stream make of it.                *)
ReadsRight(format, c, in) ==
    LET got == ReadAll(format, in)
    IN  \E n \in 0..c :
            /\ got.data = Datas(n)
            /\ got.end = "none" =>
                   /\ n = c /\ Len(in) > End(format, c, c)
                   /\ got.trailer \in {Data(0), <<>>}
            /\ got.end = "EOF" =>
                   \/ Len(in) = End(format, c, n)
                   \/ format = "sse" /\ Len(in) = End(format, c, n) - 1
            /\ Len(in) = End(format, c, c + 1) =>
                   n = c /\ got.end = "none" /\ got.trailer = Data(0)

LEMMA WholeIsRight ==
    ASSUME SizesFit, NEW format \in Names, NEW c \in Nat,
           1..c \subseteq DOMAIN SizeOf,
           NEW in \in Seq(Tokens), Starts(format, c, in),
           Len(in) = End(format, c, c + 1), format # "json"
    PROVE  ReadsRight(format, c, in)
<1>1. c + 1 \in 1..(c + 1) /\ Number(c, c + 1) = 0 /\ c + 1 - 1 = c /\ c \in 0..c
  BY DEF Number
<1>2. 0 \in DOMAIN SizeOf /\ 0 \in Nat
  BY SizeAssumption
<1>3. PICK l \in Nat : l = Len(Frame(format, 0)) /\ l >= 2
  BY <1>2, FrameIs
<1>4. PICK E \in Nat : E = End(format, c, c) /\ Len(in) = E + l /\ 2 * c <= E
  <2>1. PICK j \in 1..(c + 1) : j = c + 1 /\ j - 1 = c /\ Number(c, j) = 0
    BY <1>1
  <2>2. End(format, c, j - 1) \in Nat
        /\ End(format, c, j) = End(format, c, j - 1) + Len(Frame(format, Number(c, j)))
    BY FramesFollow
  <2>3. c \in 0..(c + 1)
    OBVIOUS
  <2>4. 2 * c <= End(format, c, c)
    BY <2>3, EndsGrow
  <2> QED BY <1>3, <2>1, <2>2, <2>4
<1>5. E \in 0..Len(in) /\ E <= Len(in) /\ c \in 0..Len(in) /\ Len(in) > E
      /\ Len(in) - E = l
  BY <1>3, <1>4
<1>6. PICK r \in Seq(Tokens) : /\ r = Behind(in, E) /\ Len(r) = Len(in) - E
                               /\ Agrees(r, Frame(format, 0))
  <2>1. PICK j \in 1..(c + 1) : j = c + 1 /\ j - 1 = c /\ Number(c, j) = 0
    BY <1>1
  <2>2. E = End(format, c, j - 1)
    BY <1>4, <2>1
  <2>3. PICK f : f = Frame(format, Number(c, j))
    OBVIOUS
  <2>4. /\ Behind(in, E) \in Seq(Tokens) /\ Len(Behind(in, E)) = Len(in) - E
        /\ Agrees(Behind(in, E), f)
    BY <1>5, <2>2, <2>3, RestAgrees
  <2>5. f = Frame(format, 0)
    BY <2>1, <2>3
  <2> QED BY <2>4, <2>5
<1>7. Len(Frame(format, 0)) <= Len(r)
  BY <1>3, <1>5, <1>6
<1>8. PICK found : found = Found(Data(0), TRUE, Behind(r, Len(Frame(format, 0))))
  OBVIOUS
<1>9. found.err = "none" /\ found.isTrailer /\ found.data = Data(0)
  BY <1>8 DEF Found
<1>10. Read(format, r) = found
  <2>1. Read(format, r) =
            Found(Data(0), 0 = 0, Behind(r, Len(Frame(format, 0))))
    BY <1>2, <1>6, <1>7, WholeRead
  <2>2. (0 = 0) = TRUE
    OBVIOUS
  <2> QED BY <1>8, <2>1, <2>2
<1>11. ReadCalls(format, in)[c] = Got(Datas(c), "pending", <<>>, r)
  BY <1>1, <1>4, <1>5, <1>6, CallsGo
<1>12. /\ ReadAll(format, in).data = Datas(c)
       /\ ReadAll(format, in).end = "none"
       /\ ReadAll(format, in).trailer = Data(0)
  <2>1. "none" # "pending"
    OBVIOUS
  <2>2. /\ ReadAll(format, in).data = Datas(c)
        /\ ReadAll(format, in).end = found.err
        /\ ReadAll(format, in).trailer = found.data
    BY <1>5, <1>9, <1>10, <1>11, <2>1, CallEnds
  <2> QED BY <1>9, <2>2
<1> QED BY <1>1, <1>4, <1>5, <1>12 DEF ReadsRight

LEMMA CutIsRight ==
    ASSUME SizesFit, NEW format \in Names, NEW c \in Nat,
           1..c \subseteq DOMAIN SizeOf,
           NEW in \in Seq(Tokens), Starts(format, c, in), NEW k \in 0..c,
           End(format, c, k) <= Len(in), Len(in) < End(format, c, k + 1)
    PROVE  ReadsRight(format, c, in)
<1>1. PICK j \in 1..(c + 1) : j = k + 1 /\ j - 1 = k
  OBVIOUS
<1>2. PICK n \in DOMAIN SizeOf : n = Number(c, j) /\ n \in Nat
  BY PiecesAre
<1>3. PICK f : f = Frame(format, n)
  OBVIOUS
<1>4. PICK l \in Nat : l = Len(f) /\ l >= 2
  BY <1>2, <1>3, FrameIs
<1>5. PICK E \in Nat : E = End(format, c, k) /\ End(format, c, j) = E + l
  <2>1. End(format, c, j - 1) \in Nat /\ End(format, c, j) = End(format, c, j - 1) + Len(f)
    BY <1>2, <1>3, FramesFollow
  <2> QED BY <1>1, <1>4, <2>1
<1>6. 2 * k <= E /\ E <= Len(in) /\ Len(in) < E + l /\ End(format, c, c) \in Nat
      /\ E + l <= End(format, c, c + 1) /\ End(format, c, c + 1) \in Nat
  <2>1. k \in 0..(c + 1) /\ c \in 0..(c + 1) /\ c + 1 \in 0..(c + 1)
        /\ j \in 0..(c + 1) /\ c + 1 \in j..(c + 1)
    OBVIOUS
  <2>2. /\ 2 * k <= End(format, c, k) /\ End(format, c, c) \in Nat
        /\ End(format, c, c + 1) \in Nat
        /\ End(format, c, j) <= End(format, c, c + 1)
    BY <2>1, EndsGrow
  <2> QED BY <1>1, <1>5, <2>2
<1>7. E \in 0..Len(in) /\ k \in 0..Len(in) /\ Len(in) # End(format, c, c + 1)
  BY <1>6
<1>8. PICK r \in Seq(Tokens) : r = Behind(in, E) /\ Len(r) = Len(in) - E /\ Agrees(r, f)
  BY <1>1, <1>2, <1>3, <1>5, <1>7, RestAgrees
<1>9. Len(r) < Len(f)
  BY <1>4, <1>6, <1>8
<1>10. ReadCalls(format, in)[k] = Got(Datas(k), "pending", <<>>, r)
  BY <1>5, <1>8, CallsGo
<1>11. PICK found : found = Read(format, r)
  OBVIOUS
<1>12. /\ "none" # "pending" /\ "EOF" # "pending" /\ "cut" # "pending"
       /\ "EOF" # "none" /\ "cut" # "none" /\ "cut" # "EOF"
  OBVIOUS
<1>13. ASSUME found.err # "none" \/ found.isTrailer, found.err # "pending"
       PROVE  /\ ReadAll(format, in).data = Datas(k)
              /\ ReadAll(format, in).end = found.err
              /\ ReadAll(format, in).trailer = found.data
  BY <1>7, <1>10, <1>11, <1>13, CallEnds
<1>14. CASE r = <<>> /\ found = Fails("EOF")
  <2>1. found.err = "EOF"
    BY <1>14 DEF Fails
  <2>2. ReadAll(format, in).data = Datas(k) /\ ReadAll(format, in).end = "EOF"
    BY <1>12, <1>13, <2>1
  <2>3. Len(in) = E
    BY <1>8, <1>14
  <2> QED BY <1>5, <1>7, <1>12, <2>2, <2>3 DEF ReadsRight
<1>15. CASE r # <<>> /\ found = Fails("cut")
  <2>1. found.err = "cut"
    BY <1>15 DEF Fails
  <2>2. ReadAll(format, in).data = Datas(k) /\ ReadAll(format, in).end = "cut"
    BY <1>12, <1>13, <2>1
  <2> QED BY <1>7, <1>12, <2>2 DEF ReadsRight
<1>16. CASE /\ r # <<>> /\ format = "sse" /\ Len(r) = Len(f) - 1
            /\ found = Found(Data(n), n = 0, <<>>)
  <2>1. Len(in) = E + l - 1
    BY <1>4, <1>6, <1>8, <1>16
  <2>2. found.err = "none" /\ found.data = Data(n) /\ found.rest = <<>>
    BY <1>16 DEF Found
  <2>3. CASE k < c
    <3>1. j \in 1..c /\ n = j /\ n # 0 /\ j \in Nat \ {0}
      BY <1>1, <1>2, <2>3 DEF Number
    <3>2. ~found.isTrailer
      <4>1. (n = 0) = FALSE
        BY <3>1
      <4> QED BY <1>16, <4>1 DEF Found
    <3>3. ReadNext(format, Got(Datas(k), "pending", <<>>, r)) =
              Got(Append(Datas(k), found.data), "pending", <<>>, found.rest)
      BY <1>11, <2>2, <3>2, NextMessage
    <3>4. Append(Datas(k), Data(j)) = Datas(j)
      <4>1. Append(Datas(j - 1), Data(j)) = Datas(j)
        BY <3>1, DatasGrow
      <4> QED BY <1>1, <4>1
    <3>5. ReadCalls(format, in)[j] = Got(Datas(j), "pending", <<>>, <<>>)
      <4>1. ReadCalls(format, in)[k + 1] = ReadNext(format, ReadCalls(format, in)[k])
        BY <1>7, CallsNext
      <4>2. ReadCalls(format, in)[j] =
                Got(Append(Datas(k), found.data), "pending", <<>>, found.rest)
        BY <1>1, <1>10, <3>3, <4>1
      <4>3. Append(Datas(k), found.data) = Datas(j)
        BY <2>2, <3>1, <3>4
      <4> QED BY <2>2, <4>2, <4>3, Zenon
    <3>6. PICK eof : eof = Fails("EOF") /\ eof.err = "EOF"
      <4>1. Fails("EOF").err = "EOF"
        BY DEF Fails
      <4> QED BY <4>1
    <3>7. Read(format, <<>>) = eof
      BY <3>6, EmptyRead
    <3>8. j \in 0..Len(in)
      BY <1>1, <1>4, <1>6, <2>1
    <3>9. ReadAll(format, in).data = Datas(j) /\ ReadAll(format, in).end = "EOF"
      BY <1>12, <3>5, <3>6, <3>7, <3>8, CallEnds
    <3>10. Len(in) = End(format, c, j) - 1
      BY <1>5, <2>1
    <3>11. j \in 0..c
      BY <3>1
    <3> QED BY <1>7, <1>12, <1>16, <3>9, <3>10, <3>11 DEF ReadsRight
  <2>4. CASE ~(k < c)
    <3>1. k = c /\ n = 0
      BY <1>1, <1>2, <2>4 DEF Number
    <3>2. found.isTrailer
      <4>1. (n = 0) = TRUE
        BY <3>1
      <4> QED BY <1>16, <4>1 DEF Found
    <3>3. /\ ReadAll(format, in).data = Datas(c) /\ ReadAll(format, in).end = "none"
          /\ ReadAll(format, in).trailer = Data(0)
      BY <1>12, <1>13, <2>2, <3>1, <3>2
    <3>4. Len(in) > End(format, c, c)
      BY <1>4, <1>5, <2>1, <3>1
    <3> QED BY <1>7, <1>12, <3>1, <3>3, <3>4 DEF ReadsRight
  <2> QED BY <2>3, <2>4
<1>17. CASE /\ r # <<>> /\ format = "sse" /\ n = 0
            /\ found = Found(<<>>, TRUE, <<>>)
  <2>1. k = c
    <3>1. ~(j <= c)
      BY <1>2, <1>17 DEF Number
    <3> QED BY <1>1, <3>1
  <2>2. found.err = "none" /\ found.isTrailer /\ found.data = <<>>
    BY <1>17 DEF Found
  <2>3. /\ ReadAll(format, in).data = Datas(c) /\ ReadAll(format, in).end = "none"
        /\ ReadAll(format, in).trailer = <<>>
    BY <1>12, <1>13, <2>1, <2>2
  <2>4. Len(in) > End(format, c, c)
    <3>1. Len(r) \in Nat /\ Len(r) # 0
      BY <1>17
    <3>2. Len(in) > E
      BY <1>6, <1>8, <3>1
    <3> QED BY <1>5, <2>1, <3>2
  <2> QED BY <1>7, <1>12, <2>1, <2>3, <2>4 DEF ReadsRight
<1> QED
  <2>1. \/ r = <<>> /\ Read(format, r) = Fails("EOF")
        \/ r # <<>> /\ Read(format, r) = Fails("cut")
        \/ /\ r # <<>> /\ format = "sse" /\ Len(r) = Len(f) - 1
           /\ Read(format, r) = Found(Data(n), n = 0, <<>>)
        \/ /\ r # <<>> /\ format = "sse" /\ n = 0
           /\ Read(format, r) = Found(<<>>, TRUE, <<>>)
    BY <1>2, <1>3, <1>8, <1>9, CutRead
  <2> QED BY <1>11, <1>14, <1>15, <1>16, <1>17, <2>1

(* Wherever a body of c messages and the trailer is cut, a reader finds a  *)
(* prefix of the messages, each with its own data, and then the trailer    *)
(* only behind all of them, or io.EOF only where a message ends (io.go,    *)
(* sse.go); what is not cut is read to the end.                            *)
THEOREM ReadsPrefix ==
    ASSUME SizesFit, NEW format \in Names, NEW c \in Nat,
           1..c \subseteq DOMAIN SizeOf,
           NEW in \in Seq(Tokens), Starts(format, c, in),
           format = "json" => Len(in) <= End(format, c, c)
    PROVE  ReadsRight(format, c, in)
<1>1. \A j \in 0..(c + 1) : End(format, c, j) \in Nat
  BY EndsGrow
<1>2. CASE \E k \in 0..c : /\ End(format, c, k) <= Len(in)
                           /\ Len(in) < End(format, c, k + 1)
  BY <1>2, CutIsRight
<1>3. CASE \A k \in 0..c : ~(/\ End(format, c, k) <= Len(in)
                             /\ Len(in) < End(format, c, k + 1))
  <2> DEFINE S == {k \in Nat : End(format, c, k) <= Len(in)}
  <2>1. 0 \in S
    <3>1. End(format, c, 0) = 0
      BY EndsGrow
    <3> QED BY <3>1
  <2>2. ASSUME NEW k \in 1..(c + 1), k - 1 \in S PROVE k \in S
    <3>1. PICK i \in 0..c : i = k - 1 /\ i + 1 = k
      OBVIOUS
    <3>2. ~(Len(in) < End(format, c, k))
      <4>1. End(format, c, i) <= Len(in)
        BY <2>2, <3>1
      <4>2. ~(Len(in) < End(format, c, i + 1))
        BY <1>3, <4>1
      <4> QED BY <3>1, <4>2
    <3>3. End(format, c, k) \in Nat
      BY <1>1
    <3>4. PICK e \in Nat : e = End(format, c, k) /\ ~(Len(in) < e)
      BY <3>2, <3>3
    <3>5. e <= Len(in)
      BY <3>4
    <3> QED BY <3>4, <3>5
  <2>3. c + 1 \in S
    <3> HIDE DEF S
    <3>1. c + 1 \in Nat /\ c + 1 \in 0..(c + 1)
      OBVIOUS
    <3>2. 0..(c + 1) \subseteq S
      BY <2>1, <2>2, <3>1, UpTo, Zenon
    <3> QED BY <3>1, <3>2
  <2>4. PICK W : W = Bodies(format, Stream(c))[2 * c + 2]
    OBVIOUS
  <2>5. Len(W) = End(format, c, c + 1)
    <3>1. 2 * (c + 1) = 2 * c + 2
      OBVIOUS
    <3> QED BY <2>4, <3>1 DEF End
  <2>6. Len(in) = End(format, c, c + 1)
    <3>1. Len(in) <= Len(W)
      BY <2>4 DEF Starts
    <3>2. PICK e \in Nat : e = End(format, c, c + 1) /\ e <= Len(in)
      BY <1>1, <2>3
    <3> QED BY <2>5, <3>1, <3>2
  <2>7. format # "json"
    <3>1. PICK j \in 1..(c + 1) : j = c + 1 /\ j - 1 = c
      OBVIOUS
    <3>2. PICK n \in DOMAIN SizeOf : n = Number(c, j) /\ n \in Nat
      BY PiecesAre
    <3>3. PICK l \in Nat : l = Len(Frame(format, n)) /\ l >= 2
      BY <3>2, FrameIs
    <3>4. PICK e \in Nat : e = End(format, c, c) /\ End(format, c, c + 1) = e + l
      <4>1. End(format, c, j - 1) \in Nat
            /\ End(format, c, j) = End(format, c, j - 1) + Len(Frame(format, n))
        BY <3>2, FramesFollow
      <4> QED BY <3>1, <3>3, <4>1
    <3>5. ~(Len(in) <= e)
      BY <2>6, <3>3, <3>4
    <3> QED BY <3>4, <3>5
  <2> QED BY <2>6, <2>7, WholeIsRight
<1> QED BY <1>2, <1>3
=============================================================================
