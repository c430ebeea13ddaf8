------------------------- MODULE InterceptorsProofs -------------------------
(***************************************************************************)
(* Theorems about Interceptors for any interceptors, slices and lists, if  *)
(* no slice of the caller's has room behind it: calls pass what their view *)
(* was wrapped in, however often it was wrapped, merged or registered.     *)
(***************************************************************************)
EXTENDS Interceptors, SequenceTheorems, FiniteSetTheorems,
        WellFoundedInduction, TLAPS

-----------------------------------------------------------------------------
(* What a call passes is defined recursively, on the depth of chains and   *)
(* on the views.  Both recursions are taken apart by complete induction,   *)
(* here for a set: the least number outside of it cannot exist.            *)
LEMMA Induction ==
    ASSUME NEW S, \A n \in Nat : (\A m \in 0..(n - 1) : m \in S) => n \in S
    PROVE  Nat \subseteq S
<1> DEFINE R == {r \in Nat \X Nat : r[1] < r[2]}
<1>1. IsWellFoundedOn(R, Nat)
  BY NatLessThanWellFounded, Zenon DEF OpToRel
<1> SUFFICES ASSUME Nat \ S # {} PROVE FALSE
  OBVIOUS
<1>2. \E n \in Nat \ S : \A m \in Nat \ S : <<m, n>> \notin R
  <2> HIDE DEF R
  <2> QED BY <1>1, WFMin
<1>3. PICK n \in Nat \ S : \A m \in Nat \ S : <<m, n>> \notin R
  BY <1>2
<1>4. ASSUME NEW m \in 0..(n - 1), m \notin S PROVE FALSE
  <2>1. <<m, n>> \in R
    OBVIOUS
  <2> QED BY <1>3, <1>4, <2>1
<1> QED BY <1>3, <1>4

(* There is a function that is what its recursive definition says.         *)
LEMMA SlicesEquation ==
    ASSUME NEW h, Len(h) \in Nat
    PROVE  CalledBySlices(h) =
               [depth \in 0..Len(h) |->
                   IF depth = 0 THEN Shallow
                   ELSE Deeper(h, CalledBySlices(h)[depth - 1])]
<1> DEFINE Upto(g, n) == g = [depth \in 0..n |->
                                  IF depth = 0 THEN Shallow
                                  ELSE Deeper(h, g[depth - 1])]
           S == {n \in Nat : \E g : Upto(g, n)}
<1>1. ASSUME NEW n \in Nat, \A m \in 0..(n - 1) : m \in S
      PROVE  n \in S
  <2>1. CASE n = 0
    <3>1. Upto([depth \in 0..0 |-> Shallow], 0)
      OBVIOUS
    <3> QED BY <2>1, <3>1
  <2>2. CASE n # 0
    <3>1. n - 1 \in S
      BY <1>1, <2>2
    <3>2. PICK g : Upto(g, n - 1)
      BY <3>1
    <3> DEFINE f == [depth \in 0..n |->
                        IF depth = n THEN Deeper(h, g[n - 1]) ELSE g[depth]]
    <3>3. ASSUME NEW depth \in 0..n
          PROVE  f[depth] = IF depth = 0 THEN Shallow
                            ELSE Deeper(h, f[depth - 1])
      <4>1. CASE depth = n
        <5>1. f[n] = Deeper(h, g[n - 1]) /\ f[n - 1] = g[n - 1]
          BY <2>2
        <5> QED BY <5>1, <4>1, <2>2
      <4>2. CASE depth # n
        <5>1. depth \in 0..(n - 1)
          BY <4>2
        <5>2. f[depth] = g[depth] /\ (depth # 0 => f[depth - 1] = g[depth - 1])
          BY <5>1, <2>2
        <5>3. g[depth] = IF depth = 0 THEN Shallow ELSE Deeper(h, g[depth - 1])
          BY <5>1, <3>2
        <5> QED BY <5>2, <5>3
      <4> QED BY <4>1, <4>2
    <3>4. Upto(f, n)
      BY <3>3
    <3> QED BY <3>4
  <2> QED BY <2>1, <2>2
<1>2. Len(h) \in S
  <2> HIDE DEF S
  <2> QED BY <1>1, Induction
<1>3. PICK g : Upto(g, Len(h))
  BY <1>2
<1> QED BY <1>3 DEF CalledBySlices

-----------------------------------------------------------------------------
(* Memory that is in order.  A function in it:                             *)
Functions == [type : {"func"}, name : Names]
                 \cup [type : {"chain"}, at : Nat, len : Nat]

(* The slice of a chain is in the first n cells of memory.                 *)
Within(f, n) == f.type = "chain" => 0 < f.at /\ f.at + f.len - 1 <= n

(* A chain in memory follows a slice of older cells.                       *)
Ordered(h) ==
    /\ h \in Seq(Functions)
    /\ \A p \in 1..Len(h) : Within(h[p], p - 1)

(* Memory h is the old memory, with more behind it or not.                 *)
Extends(h, old) ==
    /\ Len(old) <= Len(h)
    /\ \A p \in 1..Len(old) : h[p] = old[p]

(* The slice of memory h at address at has functions of these names.       *)
Holds(h, at, names) ==
    /\ at \in Nat \ {0} /\ at + Len(names) - 1 <= Len(h)
    /\ \A i \in 1..Len(names) : h[at + i - 1] = Func(names[i])

(* The last function of a slice.                                           *)
Last(h, at, len) == h[at + len - 1]

(* A slice calls nothing if it is empty, and otherwise its last function   *)
(* after the others.                                                       *)
LEMMA EmptySlice ==
    ASSUME NEW h, Len(h) \in Nat,
           NEW d \in 0..Len(h), NEW at \in Nat
    PROVE  CalledBySlices(h)[d][at][0] = <<>>
<1> DEFINE c == CalledBySlices(h)
<1>1. c[d] = IF d = 0 THEN Shallow ELSE Deeper(h, c[d - 1])
  <2> HIDE DEF c
  <2>1. c = [depth \in 0..Len(h) |->
                IF depth = 0 THEN Shallow ELSE Deeper(h, c[depth - 1])]
    BY SlicesEquation DEF c
  <2> QED BY <2>1
<1> HIDE DEF c
<1>2. Shallow[at][0] = <<>>
  BY DEF Shallow
<1>3. \A called : Deeper(h, called)[at][0] = <<>>
  BY DEF Deeper
<1>4. c[d][at][0] = <<>>
  BY <1>1, <1>2, <1>3
<1> QED BY <1>4 DEF c

LEMMA LongerSlice ==
    ASSUME NEW h, Len(h) \in Nat,
           NEW d \in 1..Len(h), NEW at \in Nat, NEW len \in Nat \ {0}
    PROVE  LET c == CalledBySlices(h)[d - 1]
               f == Last(h, at, len)
           IN  CalledBySlices(h)[d][at][len] =
                   c[at][len - 1] \o IF f.type = "chain" THEN c[f.at][f.len]
                                                         ELSE <<f.name>>
<1> DEFINE c == CalledBySlices(h)
<1>1. c[d] = Deeper(h, c[d - 1])
  <2> HIDE DEF c
  <2>1. c = [depth \in 0..Len(h) |->
                IF depth = 0 THEN Shallow ELSE Deeper(h, c[depth - 1])]
    BY SlicesEquation DEF c
  <2> QED BY <2>1
<1> HIDE DEF c
<1>2. c[d][at][len] = Deeper(h, c[d - 1])[at][len]
  BY <1>1
<1> QED BY <1>2 DEF c, Deeper, Last

(* A slice stays within memory that is added to.                           *)
LEMMA WithinMore ==
    ASSUME NEW f \in Functions \cup {Nil}, NEW m \in Nat, NEW n \in Nat,
           m <= n, Within(f, m)
    PROVE  Within(f, n)
<1> SUFFICES ASSUME f.type = "chain"
             PROVE  0 < f.at /\ f.at + f.len - 1 <= n
  BY DEF Within
<1>1. f.at \in Nat /\ f.len \in Nat
  BY DEF Functions, Nil
<1>2. 0 < f.at /\ f.at + f.len - 1 <= m
  BY DEF Within
<1> QED BY <1>1, <1>2

(* Memory that is added later changes nothing for the slices there are:    *)
(* they call the same, at any depth that is enough for them.               *)
SameCalls(h, old, at, len, d, e) ==
    /\ CalledBySlices(h)[d][at][len] \in Seq(Names)
    /\ CalledBySlices(h)[d][at][len] = CalledBySlices(old)[e][at][len]

(* As many calls of a chain as there are cells up to r are enough.         *)
Deep(h, r, d) == d \in Nat /\ r <= d /\ d <= Len(h)

SameUpTo(h, old, r) ==
    \A at \in Nat \ {0}, len \in Nat, d \in Nat, e \in Nat :
        /\ at + len - 1 <= r /\ at + len - 1 <= Len(old)
        /\ Deep(h, r, d) /\ Deep(old, r, e)
        => SameCalls(h, old, at, len, d, e)

(* If they do for slices that end before address r, they do for those that *)
(* end there: their functions follow slices that end before.               *)
LEMMA SameNext ==
    ASSUME NEW h, NEW old, Ordered(h), Ordered(old), Extends(h, old),
           NEW r \in Nat, \A m \in 0..(r - 1) : SameUpTo(h, old, m)
    PROVE  SameUpTo(h, old, r)
<1> SUFFICES ASSUME NEW at \in Nat \ {0}, NEW len \in Nat,
                    NEW d \in Nat, NEW e \in Nat,
                    at + len - 1 <= r, at + len - 1 <= Len(old),
                    Deep(h, r, d), Deep(old, r, e)
             PROVE  SameCalls(h, old, at, len, d, e)
  BY DEF SameUpTo
<1>1. Len(h) \in Nat /\ Len(old) \in Nat /\ Len(old) <= Len(h)
  BY DEF Ordered, Extends
<1>2. CASE len = 0
  <2>1. d \in 0..Len(h) /\ e \in 0..Len(old)
    BY <1>1 DEF Deep
  <2>2. CalledBySlices(h)[d][at][0] = <<>> /\ CalledBySlices(old)[e][at][0] = <<>>
    BY EmptySlice, <1>1, <2>1
  <2>3. <<>> \in Seq(Names)
    OBVIOUS
  <2> QED BY <2>2, <2>3, <1>2 DEF SameCalls
<1>3. CASE len # 0
  <2> DEFINE f == Last(old, at, len)
             One(c) == IF f.type = "chain" THEN c[f.at][f.len] ELSE <<f.name>>
  <2>1. /\ r - 1 \in 0..(r - 1) /\ d \in 1..Len(h) /\ e \in 1..Len(old)
        /\ len \in Nat \ {0} /\ at + len - 1 \in 1..Len(old)
        /\ d - 1 \in Nat /\ e - 1 \in Nat /\ len - 1 \in Nat
        /\ at + (len - 1) - 1 <= r - 1 /\ at + (len - 1) - 1 <= Len(old)
    BY <1>1, <1>3 DEF Deep
  <2>2. Deep(h, r - 1, d - 1) /\ Deep(old, r - 1, e - 1)
    BY <2>1, <1>1 DEF Deep
  <2>3. SameUpTo(h, old, r - 1)
    BY <2>1
  <2>4. Last(h, at, len) = f
    BY <2>1 DEF Last, Extends
  <2>5. f \in Functions /\ Within(f, at + len - 2)
    BY <2>1 DEF Last, Ordered
  <2>6. CalledBySlices(h)[d][at][len] =
            CalledBySlices(h)[d - 1][at][len - 1] \o One(CalledBySlices(h)[d - 1])
    <3> DEFINE g == Last(h, at, len)
               c == CalledBySlices(h)[d - 1]
    <3>1. CalledBySlices(h)[d][at][len] =
              c[at][len - 1] \o IF g.type = "chain" THEN c[g.at][g.len]
                                                    ELSE <<g.name>>
      BY LongerSlice, <1>1, <2>1
    <3> QED BY <3>1, <2>4
  <2>7. CalledBySlices(old)[e][at][len] =
            CalledBySlices(old)[e - 1][at][len - 1] \o One(CalledBySlices(old)[e - 1])
    BY LongerSlice, <1>1, <2>1
  <2> HIDE DEF f
  <2>8. SameCalls(h, old, at, len - 1, d - 1, e - 1)
    BY <2>1, <2>2, <2>3 DEF SameUpTo
  <2>9. /\ One(CalledBySlices(h)[d - 1]) \in Seq(Names)
        /\ One(CalledBySlices(h)[d - 1]) = One(CalledBySlices(old)[e - 1])
    <3>1. CASE f.type = "chain"
      <4>1. /\ f.at \in Nat \ {0} /\ f.len \in Nat
            /\ f.at + f.len - 1 <= r - 1 /\ f.at + f.len - 1 <= Len(old)
        BY <2>5, <2>1, <1>1, <3>1 DEF Functions, Within
      <4>2. SameCalls(h, old, f.at, f.len, d - 1, e - 1)
        BY <2>1, <2>2, <2>3, <4>1 DEF SameUpTo
      <4> QED BY <4>2, <3>1 DEF SameCalls
    <3>2. CASE f.type # "chain"
      <4>1. f.name \in Names
        BY <2>5, <3>2 DEF Functions
      <4> QED BY <4>1, <3>2
    <3> QED BY <3>1, <3>2
  <2> HIDE DEF One
  <2> QED BY <2>6, <2>7, <2>8, <2>9, ConcatProperties DEF SameCalls
<1> QED BY <1>2, <1>3

(* So they do for all slices that were in the old memory.                  *)
LEMMA SlicesStay ==
    ASSUME NEW h, NEW old, Ordered(h), Ordered(old), Extends(h, old),
           NEW at \in Nat \ {0}, NEW len \in Nat,
           at + len - 1 <= Len(old),
           NEW d \in Nat, NEW e \in Nat,
           Deep(h, at + len - 1, d), Deep(old, at + len - 1, e)
    PROVE  SameCalls(h, old, at, len, d, e)
<1> DEFINE S == {r \in Nat : SameUpTo(h, old, r)}
<1>1. ASSUME NEW r \in Nat, \A m \in 0..(r - 1) : m \in S PROVE r \in S
  BY <1>1, SameNext
<1>2. Nat \subseteq S
  <2> HIDE DEF S
  <2> QED BY <1>1, Induction
<1>3. at + len - 1 \in Nat
  OBVIOUS
<1>4. SameUpTo(h, old, at + len - 1)
  BY <1>2, <1>3
<1> QED BY <1>3, <1>4 DEF SameUpTo

(* A function calls what it called before memory was added.                *)
LEMMA CallsStay ==
    ASSUME NEW h, NEW old, Ordered(h), Ordered(old), Extends(h, old),
           NEW f \in Functions \cup {Nil}, Within(f, Len(old))
    PROVE  Calls(h, f) \in Seq(Names) /\ Calls(h, f) = Calls(old, f)
<1>1. Len(h) \in Nat /\ Len(old) \in Nat /\ Len(old) <= Len(h)
  BY DEF Ordered, Extends
<1>2. CASE f.type = "chain"
  <2>1. /\ f.at \in Nat \ {0} /\ f.len \in Nat /\ f.at + f.len - 1 <= Len(old)
    BY <1>2 DEF Functions, Within, Nil
  <2>2. Deep(h, f.at + f.len - 1, Len(h)) /\ Deep(old, f.at + f.len - 1, Len(old))
    BY <2>1, <1>1 DEF Deep
  <2>3. SameCalls(h, old, f.at, f.len, Len(h), Len(old))
    BY <2>1, <2>2, <1>1, SlicesStay
  <2> QED BY <2>3, <1>2 DEF SameCalls, Calls
<1>3. CASE f.type = "func"
  BY <1>3 DEF Calls, Functions, Nil
<1>4. CASE f.type = "nil"
  BY <1>4 DEF Calls
<1> QED BY <1>2, <1>3, <1>4 DEF Functions, Nil

(* A slice of the application's functions calls them in their order.       *)
LEMMA HeldCalls ==
    ASSUME NEW h, Ordered(h), NEW names \in Seq(Names), NEW at \in Nat \ {0},
           Holds(h, at, names), NEW len \in 0..Len(names)
    PROVE  \A d \in len..Len(h) :
               CalledBySlices(h)[d][at][len] = SubSeq(names, 1, len)
<1> DEFINE Is(n) == n <= Len(names) =>
                        \A d \in n..Len(h) : CalledBySlices(h)[d][at][n] =
                                                 SubSeq(names, 1, n)
           S == {n \in Nat : Is(n)}
<1>1. Len(h) \in Nat /\ Len(names) \in Nat /\ at + Len(names) - 1 <= Len(h)
  BY DEF Ordered, Holds
<1>2. ASSUME NEW n \in Nat, \A m \in 0..(n - 1) : m \in S PROVE n \in S
  <2> SUFFICES ASSUME n <= Len(names), NEW d \in n..Len(h)
               PROVE  CalledBySlices(h)[d][at][n] = SubSeq(names, 1, n)
    OBVIOUS
  <2>1. CASE n = 0
    <3>1. d \in 0..Len(h) /\ at \in Nat
      BY <2>1
    <3>2. CalledBySlices(h)[d][at][0] = <<>>
      BY EmptySlice, <1>1, <3>1
    <3>3. SubSeq(names, 1, 0) = <<>>
      BY SubSeqEmpty
    <3> QED BY <3>2, <3>3, <2>1
  <2>2. CASE n # 0
    <3>1. n - 1 \in 0..(n - 1) /\ d \in 1..Len(h) /\ n \in 1..Len(names)
      BY <2>2
    <3>2. n - 1 \in S
      <4> HIDE DEF S
      <4> QED BY <3>1, <1>2
    <3>8. d - 1 \in (n - 1)..Len(h)
      BY <3>1, <1>1
    <3>3. CalledBySlices(h)[d - 1][at][n - 1] = SubSeq(names, 1, n - 1)
      BY <3>1, <3>2, <3>8
    <3>4. Last(h, at, n) = Func(names[n])
      BY <3>1 DEF Last, Holds
    <3>5. CalledBySlices(h)[d][at][n] =
              CalledBySlices(h)[d - 1][at][n - 1] \o <<names[n]>>
      <4>1. n \in Nat \ {0}
        BY <2>2
      <4> DEFINE g == Last(h, at, n)
                 c == CalledBySlices(h)[d - 1]
      <4>2. CalledBySlices(h)[d][at][n] =
                c[at][n - 1] \o IF g.type = "chain" THEN c[g.at][g.len]
                                                    ELSE <<g.name>>
        BY LongerSlice, <1>1, <3>1, <4>1
      <4>3. g.type = "func" /\ g.name = names[n]
        BY <3>4 DEF Func
      <4> QED BY <4>2, <4>3
    <3>6. 1 \in 1..Len(names) /\ n \in 1..Len(names)
      BY <3>1
    <3>7. SubSeq(names, 1, n) = SubSeq(names, 1, n - 1) \o <<names[n]>>
      BY <3>6, SubSeqRecursiveSecond
    <3> QED BY <3>3, <3>5, <3>7
  <2> QED BY <2>1, <2>2
<1>3. len \in S
  <2>1. Nat \subseteq S
    <3> HIDE DEF S
    <3> QED BY <1>2, Induction
  <2> QED BY <2>1
<1> QED BY <1>3

(* The chain over such a slice calls them, also when it is one function    *)
(* and no chain; one that append has made longer calls what was there      *)
(* before after them.                                                      *)
LEMMA ChainCalls ==
    ASSUME NEW h, Ordered(h), NEW names \in Seq(Names) \ {<<>>},
           NEW at, Holds(h, at, names)
    PROVE  LET f == chain(h, at, Len(names))
           IN  /\ f \in Functions /\ Within(f, Len(h))
               /\ Calls(h, f) = names
<1>1. /\ Len(h) \in Nat /\ Len(names) \in Nat \ {0} /\ at \in Nat \ {0}
      /\ at + Len(names) - 1 <= Len(h)
  BY EmptySeq DEF Ordered, Holds
<1>2. CASE Len(names) = 1
  <2>1. h[at + 1 - 1] = Func(names[1])
    BY <1>2, <1>1 DEF Holds
  <2>2. chain(h, at, Len(names)) = Func(names[1])
    BY <2>1, <1>1, <1>2 DEF chain
  <2>3. names = <<names[1]>> /\ names[1] \in Names
    BY <1>2
  <2> QED BY <2>2, <2>3 DEF Func, Functions, Within, Calls
<1>3. CASE Len(names) # 1
  <2>1. chain(h, at, Len(names)) = Chain(at, Len(names))
    BY <1>3 DEF chain
  <2>2. /\ Len(names) \in 0..Len(names) /\ Len(h) \in Len(names)..Len(h)
    BY <1>1
  <2>3. CalledBySlices(h)[Len(h)][at][Len(names)] = SubSeq(names, 1, Len(names))
    BY <2>2, <1>1, HeldCalls
  <2>4. SubSeq(names, 1, Len(names)) = names
    BY SubSeqFull
  <2>5. Calls(h, Chain(at, Len(names))) = names
    BY <2>3, <2>4 DEF Calls, Chain
  <2>6. Chain(at, Len(names)) \in Functions /\ Within(Chain(at, Len(names)), Len(h))
    BY <1>1 DEF Chain, Functions, Within
  <2> QED BY <2>1, <2>5, <2>6
<1> QED BY <1>2, <1>3

LEMMA LongerChainCalls ==
    ASSUME NEW h, Ordered(h), NEW names \in Seq(Names) \ {<<>>},
           NEW at, Holds(h, at, names), at + Len(names) <= Len(h)
    PROVE  LET f == chain(h, at, Len(names) + 1)
           IN  /\ f \in Functions /\ Within(f, Len(h))
               /\ Calls(h, f) = names \o Calls(h, h[at + Len(names)])
<1> DEFINE n == Len(names)
           last == h[at + n]
           c == CalledBySlices(h)[Len(h) - 1]
           One == IF last.type = "chain" THEN c[last.at][last.len]
                                         ELSE <<last.name>>
<1>1. Len(h) \in Nat /\ n \in Nat \ {0} /\ at \in Nat \ {0}
  BY EmptySeq DEF Ordered, Holds
<1>2. last \in Functions /\ Within(last, at + n - 1)
  BY <1>1 DEF Ordered
<1>3. chain(h, at, n + 1) = Chain(at, n + 1)
  BY <1>1 DEF chain
<1>4. Calls(h, Chain(at, n + 1)) = CalledBySlices(h)[Len(h)][at][n + 1]
  BY DEF Calls, Chain
<1>5. CalledBySlices(h)[Len(h)][at][n + 1] = c[at][n] \o One
  <2>1. PICK m \in Nat \ {0} : m = n + 1
    BY <1>1
  <2>2. Len(h) \in 1..Len(h) /\ at \in Nat /\ m - 1 = n
    BY <1>1, <2>1
  <2>3. Last(h, at, m) = last
    BY <1>1, <2>1 DEF Last
  <2> DEFINE g == Last(h, at, m)
  <2>4. CalledBySlices(h)[Len(h)][at][m] =
            c[at][m - 1] \o IF g.type = "chain" THEN c[g.at][g.len]
                                                ELSE <<g.name>>
    BY LongerSlice, <1>1, <2>2
  <2> HIDE DEF c, g, last
  <2>5. CalledBySlices(h)[Len(h)][at][m] = c[at][n] \o One
    BY <2>2, <2>3, <2>4 DEF g
  <2> QED BY <2>1, <2>5
<1>6. c[at][n] = names
  <2>1. n \in 0..Len(names) /\ Len(h) - 1 \in n..Len(h)
    BY <1>1
  <2>2. c[at][n] = SubSeq(names, 1, n)
    BY <2>1, <1>1, HeldCalls
  <2> QED BY <2>2, SubSeqFull
<1>7. One = Calls(h, last)
  <2>1. CASE last.type = "chain"
    <3>1. /\ last.at \in Nat \ {0} /\ last.len \in Nat
          /\ last.at + last.len - 1 <= Len(h) - 1
      BY <1>1, <1>2, <2>1 DEF Functions, Within
    <3>2. /\ Deep(h, last.at + last.len - 1, Len(h) - 1)
          /\ Deep(h, last.at + last.len - 1, Len(h))
          /\ Extends(h, h) /\ Len(h) - 1 \in Nat
          /\ last.at + last.len - 1 <= Len(h)
      BY <3>1, <1>1 DEF Deep, Extends
    <3>3. SameCalls(h, h, last.at, last.len, Len(h) - 1, Len(h))
      BY <3>1, <3>2, <1>1, SlicesStay
    <3> QED BY <3>3, <2>1 DEF SameCalls, Calls
  <2>2. CASE last.type # "chain"
    BY <1>2, <2>2 DEF Functions, Calls
  <2> QED BY <2>1, <2>2
<1>8. Chain(at, n + 1) \in Functions /\ Within(Chain(at, n + 1), Len(h))
  BY <1>1 DEF Chain, Functions, Within
<1> QED BY <1>3, <1>4, <1>5, <1>6, <1>7, <1>8

(* The memory of a list in a call, and that of append, are added behind.   *)
LEMMA ListMemory ==
    ASSUME NEW h, Ordered(h), NEW names \in Seq(Names)
    PROVE  LET new == h \o Funcs(names)
           IN  /\ Ordered(new) /\ Extends(new, h)
               /\ Holds(new, Len(h) + 1, names)
<1> DEFINE new == h \o Funcs(names)
<1>1. Funcs(names) \in Seq(Functions) /\ Len(Funcs(names)) = Len(names)
  BY DEF Funcs, Func, Functions
<1>2. h \in Seq(Functions) /\ Len(h) \in Nat /\ Len(names) \in Nat
  BY DEF Ordered
<1>3. /\ new \in Seq(Functions) /\ Len(new) = Len(h) + Len(names)
      /\ \A p \in 1..Len(h) : new[p] = h[p]
      /\ \A i \in 1..Len(names) : new[Len(h) + 1 + i - 1] = Func(names[i])
  <2>1. \A i \in 1..Len(names) : Funcs(names)[i] = Func(names[i])
    BY DEF Funcs
  <2> DEFINE more == Funcs(names)
  <2> HIDE DEF more
  <2>2. more \in Seq(Functions) /\ Len(more) = Len(names)
    BY <1>1 DEF more
  <2>3. h \o more \in Seq(Functions) /\ Len(h \o more) = Len(h) + Len(more)
    BY <1>2, <2>2, ConcatProperties
  <2>4. \A p \in 1..Len(h) : (h \o more)[p] = h[p]
    BY <1>2, <2>2
  <2>5. \A i \in 1..Len(more) : (h \o more)[Len(h) + i] = more[i]
    BY <1>2, <2>2
  <2>6. ASSUME NEW i \in 1..Len(names)
        PROVE  (h \o more)[Len(h) + 1 + i - 1] = Func(names[i])
    <3>1. Len(h) + 1 + i - 1 = Len(h) + i
      BY <1>2
    <3>2. more[i] = Func(names[i])
      BY <2>1 DEF more
    <3> QED BY <2>2, <2>5, <3>1, <3>2
  <2> QED BY <2>2, <2>3, <2>4, <2>6 DEF more
<1> HIDE DEF new
<1>4. \A p \in 1..Len(new) : Within(new[p], p - 1)
  <2> SUFFICES ASSUME NEW p \in 1..Len(new) PROVE Within(new[p], p - 1)
    OBVIOUS
  <2>1. CASE p <= Len(h)
    BY <2>1, <1>2, <1>3 DEF Ordered
  <2>2. CASE p > Len(h)
    <3>1. p - Len(h) \in 1..Len(names) /\ Len(h) + 1 + (p - Len(h)) - 1 = p
      BY <2>2, <1>2, <1>3
    <3>2. new[p] = Func(names[p - Len(h)])
      BY <3>1, <1>3
    <3> QED BY <3>2 DEF Func, Within
  <2> QED BY <2>1, <2>2, <1>2, <1>3
<1>5. Ordered(new) /\ Extends(new, h) /\ Holds(new, Len(h) + 1, names)
  BY <1>2, <1>3, <1>4 DEF Ordered, Extends, Holds
<1> QED BY <1>5 DEF new

(* A part of a sequence.                                                   *)
LEMMA PartOfSeq ==
    ASSUME NEW S, NEW s \in Seq(S), NEW at \in Nat \ {0}, NEW n \in Nat,
           at + n - 1 <= Len(s)
    PROVE  LET part == SubSeq(s, at, at + n - 1)
           IN  /\ part \in Seq(S) /\ Len(part) = n
               /\ \A i \in 1..n : part[i] = s[at + i - 1]
<1> DEFINE to == at + n - 1
           part == SubSeq(s, at, to)
<1>1. at \in Int /\ to \in Int /\ to - at + 1 = n
  OBVIOUS
<1>2. \A i \in at..to : s[i] \in S
  OBVIOUS
<1> HIDE DEF to
<1>3. /\ part \in Seq(S)
      /\ Len(part) = IF at <= to THEN to - at + 1 ELSE 0
      /\ \A i \in 1..(to - at + 1) : part[i] = s[at + i - 1]
  BY <1>1, <1>2, SubSeqProperties
<1> HIDE DEF part
<1>4. Len(part) = n
  BY <1>1, <1>3 DEF to
<1> QED BY <1>1, <1>3, <1>4 DEF part, to

(* The array append makes of a slice without room, and an older function.  *)
LEMMA AppendedMemory ==
    ASSUME NEW h, Ordered(h), NEW names \in Seq(Names), NEW slice,
           slice.len = Len(names), Holds(h, slice.at, names), ~HasRoom(slice),
           NEW old \in Functions, Within(old, Len(h))
    PROVE  LET new == Appended(h, slice, old)
           IN  /\ Ordered(new) /\ Extends(new, h)
               /\ Holds(new, Len(h) + 1, names)
               /\ Len(h) + 1 + Len(names) <= Len(new)
               /\ new[Len(h) + 1 + Len(names)] = old
<1> DEFINE copy == SubSeq(h, slice.at, slice.at + slice.len - 1)
           more == Append(copy, old)
           new == h \o more
           n == Len(names)
<1>1. /\ h \in Seq(Functions) /\ Len(h) \in Nat /\ n \in Nat
      /\ slice.at \in Nat \ {0} /\ slice.at + n - 1 <= Len(h) /\ slice.len = n
      /\ \A i \in 1..n : h[slice.at + i - 1] = Func(names[i])
  BY DEF Ordered, Holds
<1>2. /\ copy \in Seq(Functions) /\ Len(copy) = n
      /\ \A i \in 1..n : copy[i] = Func(names[i])
  <2>1. /\ copy \in Seq(Functions) /\ Len(copy) = n
        /\ \A i \in 1..n : copy[i] = h[slice.at + i - 1]
    <3>1. PICK at \in Nat \ {0}, len \in Nat : at = slice.at /\ len = n
      BY <1>1
    <3>2. at + len - 1 <= Len(h)
      BY <1>1, <3>1
    <3>3. LET part == SubSeq(h, at, at + len - 1)
          IN  /\ part \in Seq(Functions) /\ Len(part) = len
              /\ \A i \in 1..len : part[i] = h[at + i - 1]
      BY <1>1, <3>2, PartOfSeq
    <3> QED BY <1>1, <3>1, <3>3
  <2> HIDE DEF copy
  <2> QED BY <1>1, <2>1
<1> HIDE DEF copy
<1>3. /\ more \in Seq(Functions) /\ Len(more) = n + 1 /\ more[n + 1] = old
      /\ \A i \in 1..n : more[i] = Func(names[i])
  BY <1>1, <1>2
<1> HIDE DEF more
<1>4. /\ new \in Seq(Functions) /\ Len(new) = Len(h) + n + 1
      /\ \A p \in 1..Len(h) : new[p] = h[p]
      /\ \A i \in 1..n : new[Len(h) + 1 + i - 1] = Func(names[i])
      /\ new[Len(h) + 1 + n] = old
  <2>1. new \in Seq(Functions) /\ Len(new) = Len(h) + n + 1
    <3>1. new \in Seq(Functions) /\ Len(new) = Len(h) + Len(more)
      BY <1>1, <1>3, ConcatProperties
    <3> QED BY <1>1, <1>3, <3>1
  <2>2. \A p \in 1..Len(h) : new[p] = h[p]
    BY <1>1, <1>3
  <2>3. \A i \in 1..(n + 1) : new[Len(h) + i] = more[i]
    BY <1>1, <1>3
  <2> HIDE DEF new
  <2>4. \A i \in 1..n : new[Len(h) + 1 + i - 1] = Func(names[i])
    <3>1. ASSUME NEW i \in 1..n PROVE Len(h) + 1 + i - 1 = Len(h) + i
      BY <1>1
    <3> QED BY <1>1, <1>3, <2>3, <3>1
  <2>5. new[Len(h) + 1 + n] = old
    <3>1. Len(h) + 1 + n = Len(h) + (n + 1) /\ n + 1 \in 1..(n + 1)
      BY <1>1
    <3> QED BY <1>3, <2>3, <3>1
  <2> QED BY <2>1, <2>2, <2>4, <2>5
<1>5. Appended(h, slice, old) = new
  BY DEF Appended, more, copy
<1> HIDE DEF new
<1>6. \A p \in 1..Len(new) : Within(new[p], p - 1)
  <2> SUFFICES ASSUME NEW p \in 1..Len(new) PROVE Within(new[p], p - 1)
    OBVIOUS
  <2>1. CASE p <= Len(h)
    BY <2>1, <1>1, <1>4 DEF Ordered
  <2>2. CASE p > Len(h) /\ p # Len(h) + 1 + n
    <3>1. p - Len(h) \in 1..n /\ Len(h) + 1 + (p - Len(h)) - 1 = p
      <4>1. Len(h) \in Nat /\ n \in Nat /\ Len(new) = Len(h) + n + 1
        BY <1>1, <1>4
      <4> HIDE DEF n
      <4> QED BY <2>2, <4>1
    <3>2. new[p] = Func(names[p - Len(h)])
      BY <3>1, <1>4
    <3> QED BY <3>2 DEF Func, Within
  <2>3. CASE p = Len(h) + 1 + n
    <3>1. p - 1 >= Len(h) /\ new[p] = old
      BY <2>3, <1>1, <1>4
    <3>2. old.type = "chain" => old.at \in Nat /\ old.len \in Nat
      BY DEF Functions
    <3> QED BY <3>1, <3>2, <1>1 DEF Within
  <2> QED BY <2>1, <2>2, <2>3
<1> QED BY <1>1, <1>4, <1>5, <1>6 DEF Ordered, Extends, Holds

(* Memory added to what was added to is memory added.                      *)
LEMMA ExtendsFurther ==
    ASSUME NEW a, NEW b, NEW c, Len(a) \in Nat, Len(b) \in Nat, Len(c) \in Nat,
           Extends(b, a), Extends(c, b)
    PROVE  Extends(c, a)
BY DEF Extends

-----------------------------------------------------------------------------
(* The invariant.  A view lies on an older one, and what it was asked for  *)
(* is what its own functions call and then what was asked of the one       *)
(* below, which is never another intercepted one: those are merged.        *)
Views == [type  : {"root", "intercepted", "foreign"},
          under : Nat,
          ints  : [Kinds -> Functions \cup {Nil}],
          asked : [Kinds -> Seq(Names)],
          plain : BOOLEAN]

AskedBelow(vs, v, kind) ==
    IF vs[v].type = "root" THEN <<>> ELSE vs[vs[v].under].asked[kind]

ViewInv(h, vs, v) ==
    /\ vs[v].type # "root" => vs[v].under \in 1..(v - 1)
    /\ vs[v].type # "intercepted" => vs[v].ints = NoInts
    /\ vs[v].type = "foreign" => ~vs[v].plain
    /\ vs[v].type = "intercepted" =>
           /\ vs[vs[v].under].type # "intercepted"
           /\ vs[v].plain = vs[vs[v].under].plain
    /\ \A kind \in Kinds :
           /\ Within(vs[v].ints[kind], Len(h))
           /\ vs[v].asked[kind] =
                  Calls(h, vs[v].ints[kind]) \o AskedBelow(vs, v, kind)

(* Memory is in order, and the caller's arrays are as they were.           *)
MemoryInv == Ordered(heap) /\ Extends(heap, Funcs(Memory))

(* The memory, the views, and the services.                                *)
Inv ==
    /\ MemoryInv
    /\ views \in Seq(Views)
    /\ \A v \in 1..Len(views) : ViewInv(heap, views, v)
    /\ services \in Seq([name : Services, view : Nat])
    /\ \A s \in 1..Len(services) : services[s].view \in 1..Len(views)

(* What the invariant says of one view, for the steps below.               *)
LEMMA ViewTypes ==
    ASSUME Inv, NEW v \in 1..Len(views), NEW kind \in Kinds
    PROVE  /\ Len(views) \in Nat /\ v \in Nat /\ views[v] \in Views
           /\ views[v].type \in {"root", "intercepted", "foreign"}
           /\ views[v].under \in Nat /\ views[v].plain \in BOOLEAN
           /\ views[v].ints \in [Kinds -> Functions \cup {Nil}]
           /\ views[v].asked \in [Kinds -> Seq(Names)]
           /\ views[v].ints[kind] \in Functions \cup {Nil}
           /\ views[v].asked[kind] \in Seq(Names)
           /\ ViewInv(heap, views, v)
<1>1. views \in Seq(Views) /\ ViewInv(heap, views, v)
  BY DEF Inv
<1>2. Len(views) \in Nat /\ v \in Nat /\ views[v] \in Views
  BY <1>1
<1>3. /\ views[v].type \in {"root", "intercepted", "foreign"}
      /\ views[v].under \in Nat /\ views[v].plain \in BOOLEAN
      /\ views[v].ints \in [Kinds -> Functions \cup {Nil}]
      /\ views[v].asked \in [Kinds -> Seq(Names)]
  BY <1>2 DEF Views
<1> QED BY <1>1, <1>2, <1>3

(* The views there are stay what they were when one is added and memory is *)
(* only added to.                                                          *)
LEMMA OldViews ==
    ASSUME Inv, NEW h, NEW vs, Ordered(h), Extends(h, heap),
           NEW view \in Views, vs = Append(views, view),
           NEW v \in 1..Len(views)
    PROVE  vs[v] = views[v] /\ ViewInv(h, vs, v)
<1>1. views \in Seq(Views) /\ Len(views) \in Nat /\ Ordered(heap)
  BY DEF Inv, MemoryInv
<1>2. \A w \in 1..Len(views) : vs[w] = views[w]
  BY <1>1
<1>3. v \in Nat /\ ViewInv(heap, views, v) /\ vs[v] = views[v]
  BY <1>1, <1>2 DEF Inv
<1>4. views[v].type # "root" =>
          vs[views[v].under] = views[views[v].under]
  BY <1>1, <1>2, <1>3 DEF ViewInv
<1>5. ASSUME NEW kind \in Kinds
      PROVE  /\ Within(views[v].ints[kind], Len(h))
             /\ views[v].asked[kind] = Calls(h, views[v].ints[kind])
                                           \o AskedBelow(vs, v, kind)
  <2>1. /\ views[v].ints[kind] \in Functions \cup {Nil}
        /\ Within(views[v].ints[kind], Len(heap))
        /\ views[v].asked[kind] =
               Calls(heap, views[v].ints[kind]) \o AskedBelow(views, v, kind)
    BY <1>3, ViewTypes DEF ViewInv
  <2>2. Calls(h, views[v].ints[kind]) = Calls(heap, views[v].ints[kind])
    BY <1>1, <2>1, CallsStay
  <2>3. AskedBelow(vs, v, kind) = AskedBelow(views, v, kind)
    BY <1>3, <1>4 DEF AskedBelow
  <2>4. Within(views[v].ints[kind], Len(h))
    <3>1. Len(heap) \in Nat /\ Len(h) \in Nat /\ Len(heap) <= Len(h)
      BY <1>1 DEF Ordered, Extends
    <3> QED BY <2>1, <3>1, WithinMore
  <2> QED BY <2>1, <2>2, <2>3, <2>4
<1>6. /\ views[v].type # "root" => views[v].under \in 1..(v - 1)
      /\ views[v].type # "intercepted" => views[v].ints = NoInts
      /\ views[v].type = "foreign" => ~views[v].plain
      /\ views[v].type = "intercepted" =>
             /\ views[views[v].under].type # "intercepted"
             /\ views[v].plain = views[views[v].under].plain
  BY <1>3 DEF ViewInv
<1> QED BY <1>3, <1>4, <1>5, <1>6 DEF ViewInv

(* Adding a view and memory keeps the invariant, if the new view does.     *)
LEMMA ViewAdded ==
    ASSUME Inv, Ordered(heap'), Extends(heap', heap),
           NEW view \in Views, views' = Append(views, view),
           ViewInv(heap', views', Len(views) + 1),
           UNCHANGED services
    PROVE  Inv'
<1>1. MemoryInv'
  <2>1. /\ Len(heap) \in Nat /\ Len(heap') \in Nat
        /\ Extends(heap, Funcs(Memory))
    BY DEF Inv, MemoryInv, Ordered
  <2>2. Len(Funcs(Memory)) \in Nat
    BY NamesAssumption DEF Funcs
  <2> QED BY <2>1, <2>2, ExtendsFurther DEF MemoryInv
<1>2. /\ views \in Seq(Views) /\ Len(views) \in Nat
      /\ views' \in Seq(Views) /\ Len(views') = Len(views) + 1
  BY DEF Inv
<1>3. ASSUME NEW v \in 1..Len(views') PROVE ViewInv(heap', views', v)
  <2>1. CASE v = Len(views) + 1
    BY <2>1
  <2>2. CASE v # Len(views) + 1
    <3>1. v \in 1..Len(views)
      BY <1>2, <2>2
    <3> QED BY <3>1, OldViews
  <2> QED BY <2>1, <2>2
<1>4. \A s \in 1..Len(services') : services'[s].view \in 1..Len(views')
  BY <1>2 DEF Inv
<1> QED BY <1>1, <1>2, <1>3, <1>4 DEF Inv

(* Joining sequences is associative.                                       *)
LEMMA Regroup ==
    \A a, b, c \in Seq(Names) : a \o (b \o c) = (a \o b) \o c
<1> SUFFICES ASSUME NEW a \in Seq(Names), NEW b \in Seq(Names),
                    NEW c \in Seq(Names)
             PROVE  a \o (b \o c) = (a \o b) \o c
  OBVIOUS
<1>1. /\ a \o (b \o c) \in Seq(Names) /\ (a \o b) \o c \in Seq(Names)
      /\ Len(a \o (b \o c)) = Len((a \o b) \o c)
  OBVIOUS
<1>2. ASSUME NEW i \in 1..Len(a \o (b \o c))
      PROVE  (a \o (b \o c))[i] = ((a \o b) \o c)[i]
  OBVIOUS
<1> QED BY <1>1, <1>2, SeqEqual

(* A view made with a function that calls the new names and then what the  *)
(* view it is made of called.                                              *)
LEMMA MadeKeeps ==
    ASSUME Inv, Ordered(heap'), Extends(heap', heap), UNCHANGED services,
           NEW v \in 1..Len(views), NEW kind \in Kinds,
           NEW names \in Seq(Names), NEW f \in Functions,
           Within(f, Len(heap')),
           Calls(heap', f) = names \o Calls(heap, views[v].ints[kind]),
           Made(v, kind, f, names)
    PROVE  Inv'
<1> DEFINE merge == views[v].type = "intercepted"
           view == View("intercepted",
                        IF merge THEN views[v].under ELSE v,
                        [views[v].ints EXCEPT ![kind] = f],
                        [views[v].asked EXCEPT ![kind] = names \o @],
                        views[v].plain)
           n == Len(views) + 1
<1>1. /\ Len(views) \in Nat /\ v \in Nat /\ views \in Seq(Views)
      /\ views[v].under \in Nat /\ views[v].plain \in BOOLEAN
      /\ views[v].ints \in [Kinds -> Functions \cup {Nil}]
      /\ views[v].asked \in [Kinds -> Seq(Names)]
      /\ views[v].asked[kind] \in Seq(Names)
      /\ views[v].ints[kind] \in Functions \cup {Nil}
      /\ ViewInv(heap, views, v)
  BY ViewTypes DEF Inv
<1>2. view \in Views
  <2>1. [views[v].ints EXCEPT ![kind] = f] \in [Kinds -> Functions \cup {Nil}]
    BY <1>1
  <2>2. [views[v].asked EXCEPT ![kind] = names \o @] \in [Kinds -> Seq(Names)]
    BY <1>1
  <2> QED BY <1>1, <2>1, <2>2 DEF Views, View
<1>3. views' = Append(views, view)
  BY DEF Made
<1> DEFINE below == IF merge THEN views[v].under ELSE v
<1>4. below \in 1..Len(views) /\ views[below].type # "intercepted"
      /\ views[v].plain = views[below].plain
  BY <1>1 DEF ViewInv
<1>5. /\ views'[n] = view /\ views'[below] = views[below]
      /\ view.under = below /\ view.type = "intercepted"
      /\ view.plain = views[v].plain
      /\ view.ints = [views[v].ints EXCEPT ![kind] = f]
      /\ view.asked = [views[v].asked EXCEPT ![kind] = names \o @]
  BY <1>1, <1>2, <1>3, <1>4 DEF View
<1> HIDE DEF view
<1>6. ASSUME NEW k \in Kinds
      PROVE  /\ Within(view.ints[k], Len(heap'))
             /\ view.asked[k] = Calls(heap', view.ints[k])
                                    \o views[below].asked[k]
  <2>1. /\ views[v].ints[k] \in Functions \cup {Nil}
        /\ views[v].asked[k] \in Seq(Names)
        /\ views[below].asked[k] \in Seq(Names)
        /\ Within(views[v].ints[k], Len(heap))
    BY <1>1, <1>4, ViewTypes DEF ViewInv
  <2>2. views[v].asked[k] =
            Calls(heap, views[v].ints[k]) \o views[below].asked[k]
    <3>1. CASE merge
      BY <1>1, <3>1 DEF ViewInv, AskedBelow
    <3>2. CASE ~merge
      <4>1. Calls(heap, views[v].ints[k]) = <<>>
        <5>1. views[v].ints = NoInts
          BY <1>1, <3>2 DEF ViewInv
        <5>2. views[v].ints[k].type = "nil"
          BY <5>1 DEF NoInts, Nil
        <5> QED BY <5>2 DEF Calls
      <4> QED BY <4>1, <3>2, <2>1
    <3> QED BY <3>1, <3>2
  <2>3. /\ Calls(heap', views[v].ints[k]) = Calls(heap, views[v].ints[k])
        /\ Calls(heap', views[v].ints[k]) \in Seq(Names)
    <3>1. Ordered(heap)
      BY DEF Inv, MemoryInv
    <3> QED BY <3>1, <2>1, CallsStay
  <2>4. CASE k = kind
    <3>1. view.ints[k] = f /\ view.asked[k] = names \o views[v].asked[k]
      BY <1>1, <1>5, <2>4
    <3>2. names \o (Calls(heap, views[v].ints[k]) \o views[below].asked[k])
              = (names \o Calls(heap, views[v].ints[k])) \o views[below].asked[k]
      <4>1. Calls(heap, views[v].ints[k]) \in Seq(Names)
        BY <2>3
      <4> QED BY <2>1, <4>1, Regroup
    <3> QED BY <3>1, <3>2, <2>2, <2>4
  <2>5. CASE k # kind
    <3>1. view.ints[k] = views[v].ints[k] /\ view.asked[k] = views[v].asked[k]
      BY <1>1, <1>5, <2>5
    <3>2. Within(view.ints[k], Len(heap'))
      <4>1. Len(heap) \in Nat /\ Len(heap') \in Nat /\ Len(heap) <= Len(heap')
        BY DEF Inv, MemoryInv, Ordered, Extends
      <4>2. Within(views[v].ints[k], Len(heap'))
        BY <2>1, <4>1, WithinMore
      <4> QED BY <3>1, <4>2
    <3> QED BY <3>1, <3>2, <2>2, <2>3
  <2> QED BY <2>4, <2>5
<1>7. ViewInv(heap', views', n)
  <2>1. below \in 1..(n - 1)
    BY <1>1, <1>4
  <2> HIDE DEF below, n
  <2> QED BY <1>4, <1>5, <1>6, <2>1 DEF ViewInv, AskedBelow
<1> QED BY <1>2, <1>3, <1>7, ViewAdded

(* Wrapping makes such a function of a slice without room, whether the     *)
(* view had functions of this kind or not.                                 *)
LEMMA WrapsKeeps ==
    ASSUME Inv, NEW v \in 1..Len(views), NEW kind \in Kinds,
           NEW h, Ordered(h), Extends(h, heap),
           NEW names \in Seq(Names) \ {<<>>}, NEW slice,
           slice.len = Len(names), Holds(h, slice.at, names), ~HasRoom(slice),
           Wraps(h, v, kind, slice, names), UNCHANGED services
    PROVE  Inv'
<1> DEFINE old == views[v].ints[kind]
<1>1. /\ old \in Functions \cup {Nil} /\ Within(old, Len(heap))
      /\ Ordered(heap)
  BY ViewTypes DEF ViewInv, Inv, MemoryInv
<1>2. CASE old.type = "nil"
  <2> DEFINE f == chain(h, slice.at, slice.len)
  <2>1. heap' = h /\ Made(v, kind, f, names)
    BY <1>2 DEF Wraps
  <2>2. f \in Functions /\ Within(f, Len(h)) /\ Calls(h, f) = names
    BY ChainCalls
  <2>3. Calls(heap, old) = <<>> /\ names \o <<>> = names
    BY <1>2 DEF Calls
  <2> HIDE DEF f
  <2> QED BY <2>1, <2>2, <2>3, MadeKeeps
<1>3. CASE old.type # "nil"
  <2> DEFINE new == Appended(h, slice, old)
             f == chain(new, Len(h) + 1, Len(names) + 1)
  <2>1. AppendedAt(h, slice) = Len(h) + 1
    BY DEF AppendedAt
  <2>2. heap' = new /\ Made(v, kind, f, names)
    BY <1>3, <2>1 DEF Wraps
  <2>3. old \in Functions /\ Within(old, Len(h))
    <3>1. old \in Functions
      BY <1>1, <1>3 DEF Nil
    <3>2. Len(heap) \in Nat /\ Len(h) \in Nat /\ Len(heap) <= Len(h)
      BY <1>1 DEF Ordered, Extends
    <3> HIDE DEF old
    <3> QED BY <1>1, <3>1, <3>2, WithinMore
  <2>4. /\ Ordered(new) /\ Extends(new, h)
        /\ Holds(new, Len(h) + 1, names)
        /\ Len(h) + 1 + Len(names) <= Len(new)
        /\ new[Len(h) + 1 + Len(names)] = old
    <3> HIDE DEF old
    <3> QED BY <2>3, AppendedMemory
  <2> HIDE DEF new
  <2>5. /\ f \in Functions /\ Within(f, Len(new))
        /\ Calls(new, f) = names \o Calls(new, old)
    <3> HIDE DEF old
    <3> QED BY <2>4, LongerChainCalls
  <2>6. Extends(new, heap)
    <3>1. Len(heap) \in Nat /\ Len(h) \in Nat /\ Len(new) \in Nat
      BY <1>1, <2>4 DEF Ordered
    <3> QED BY <2>4, <3>1, ExtendsFurther
  <2>7. Calls(new, old) = Calls(heap, old)
    <3> HIDE DEF old
    <3> QED BY <1>1, <2>4, <2>6, CallsStay
  <2> HIDE DEF f
  <2> QED BY <2>2, <2>4, <2>5, <2>6, <2>7, MadeKeeps
<1> QED BY <1>2, <1>3

-----------------------------------------------------------------------------
(* None of the caller's slices has room behind it.                         *)
Full == \A s \in CallerSlices : s.len = s.cap

(* The arrays hold functions and no chains, and the root has none.         *)
LEMMA InitInv == Init => Inv
<1> SUFFICES ASSUME Init PROVE Inv
  OBVIOUS
<1>1. /\ Funcs(Memory) \in Seq(Functions) /\ Len(Funcs(Memory)) \in Nat
      /\ \A p \in 1..Len(Funcs(Memory)) : Funcs(Memory)[p].type = "func"
  BY NamesAssumption DEF Funcs, Func, Functions
<1>2. MemoryInv
  BY <1>1 DEF Init, MemoryInv, Ordered, Extends, Within
<1> DEFINE root == View("root", 0, NoInts, [kind \in Kinds |-> <<>>], TRUE)
<1>3. root \in Views
  <2>1. NoInts \in [Kinds -> Functions \cup {Nil}]
    BY DEF NoInts
  <2>2. [kind \in Kinds |-> <<>>] \in [Kinds -> Seq(Names)]
    OBVIOUS
  <2> QED BY <2>1, <2>2 DEF Views, View
<1>4. views = <<root>>
  BY DEF Init
<1>5. ViewInv(heap, views, 1)
  <2>1. /\ views[1].type = "root" /\ views[1].ints = NoInts
        /\ views[1].asked = [kind \in Kinds |-> <<>>]
    BY <1>4 DEF View
  <2>2. ASSUME NEW kind \in Kinds
        PROVE  /\ Within(views[1].ints[kind], Len(heap))
               /\ views[1].asked[kind] = Calls(heap, views[1].ints[kind])
                                             \o AskedBelow(views, 1, kind)
    <3>1. views[1].ints[kind].type = "nil" /\ views[1].asked[kind] = <<>>
      BY <2>1 DEF NoInts, Nil
    <3>2. Calls(heap, views[1].ints[kind]) = <<>> /\ AskedBelow(views, 1, kind) = <<>>
      BY <2>1, <3>1 DEF Calls, AskedBelow
    <3> QED BY <3>1, <3>2 DEF Within
  <2> QED BY <2>1, <2>2 DEF ViewInv
<1>6. views \in Seq(Views) /\ Len(views) = 1
  <2> HIDE DEF root
  <2> QED BY <1>3, <1>4
<1>7. services = <<>>
  BY DEF Init
<1> QED BY <1>2, <1>5, <1>6, <1>7 DEF Inv

(* A slice of the caller's still holds what the caller put there.          *)
LEMMA InterceptSliceInv ==
    ASSUME Inv, Full, NEW v \in 1..Len(views), NEW s \in CallerSlices,
           InterceptSlice(v, s)
    PROVE  Inv'
<1> DEFINE names == SubSeq(Memory, s.at, s.at + s.len - 1)
<1>1. /\ s.kind \in Kinds /\ s.at \in Nat \ {0} /\ s.len \in Nat \ {0}
      /\ s.at + s.len - 1 <= Len(Memory) /\ ~HasRoom(s)
  BY SlicesAssumption DEF Full, HasRoom
<1>2. /\ names \in Seq(Names) /\ Len(names) = s.len
      /\ \A i \in 1..s.len : names[i] = Memory[s.at + i - 1]
  <2>1. PICK at \in Nat \ {0}, n \in Nat : at = s.at /\ n = s.len
    BY <1>1
  <2>2. Memory \in Seq(Names) /\ at + n - 1 <= Len(Memory)
    BY <1>1, <2>1, NamesAssumption
  <2>3. LET part == SubSeq(Memory, at, at + n - 1)
        IN  /\ part \in Seq(Names) /\ Len(part) = n
            /\ \A i \in 1..n : part[i] = Memory[at + i - 1]
    BY <2>2, PartOfSeq
  <2> QED BY <2>1, <2>3
<1> HIDE DEF names
<1>3. names # <<>>
  BY <1>1, <1>2
<1>4. /\ Ordered(heap) /\ Len(heap) \in Nat /\ Len(Memory) <= Len(heap)
      /\ \A p \in 1..Len(Memory) : heap[p] = Func(Memory[p])
  <2>1. Len(Funcs(Memory)) = Len(Memory) /\ Len(Memory) \in Nat
    BY NamesAssumption DEF Funcs
  <2>2. \A p \in 1..Len(Memory) : Funcs(Memory)[p] = Func(Memory[p])
    BY DEF Funcs
  <2>3. Ordered(heap) /\ Extends(heap, Funcs(Memory))
    BY DEF Inv, MemoryInv
  <2> QED BY <2>1, <2>2, <2>3 DEF Ordered, Extends
<1>5. Holds(heap, s.at, names)
  <2>1. s.at + Len(names) - 1 <= Len(heap)
    BY <1>1, <1>2, <1>4, NamesAssumption
  <2>2. ASSUME NEW i \in 1..Len(names)
        PROVE  heap[s.at + i - 1] = Func(names[i])
    <3>1. s.at + i - 1 \in 1..Len(Memory) /\ i \in 1..s.len
      BY <1>1, <1>2, NamesAssumption
    <3> QED BY <1>2, <1>4, <3>1
  <2> QED BY <1>1, <2>1, <2>2 DEF Holds
<1>6. Extends(heap, heap)
  BY <1>4 DEF Extends
<1>7. Wraps(heap, v, s.kind, s, names) /\ UNCHANGED services
  BY DEF InterceptSlice, names
<1> QED BY <1>1, <1>2, <1>3, <1>4, <1>5, <1>6, <1>7, WrapsKeeps

(* A list has memory of its own.                                           *)
LEMMA InterceptListInv ==
    ASSUME Inv, NEW v \in 1..Len(views), NEW kind \in Kinds,
           NEW names \in Lists, InterceptList(v, kind, names)
    PROVE  Inv'
<1> DEFINE h == heap \o Funcs(names)
           slice == ListSlice(names)
<1>1. names \in Seq(Names) \ {<<>>} /\ Ordered(heap)
  BY NamesAssumption DEF Inv, MemoryInv
<1>2. /\ Ordered(h) /\ Extends(h, heap)
      /\ Holds(h, Len(heap) + 1, names)
  BY <1>1, ListMemory
<1>3. /\ slice.len = Len(names) /\ slice.at = Len(heap) + 1
      /\ ~HasRoom(slice)
  BY <1>1 DEF ListSlice, HasRoom
<1>4. Wraps(h, v, kind, slice, names) /\ UNCHANGED services
  BY DEF InterceptList
<1> HIDE DEF h, slice
<1> QED BY <1>1, <1>2, <1>3, <1>4, WrapsKeeps

(* A wrapper of the application's adds nothing to what is below.           *)
LEMMA WrapForeignInv ==
    ASSUME Inv, NEW v \in 1..Len(views), WrapForeign(v)
    PROVE  Inv'
<1> DEFINE view == View("foreign", v, NoInts, views[v].asked, FALSE)
           n == Len(views) + 1
<1>1. /\ Len(views) \in Nat /\ v \in Nat /\ views \in Seq(Views)
      /\ views[v].asked \in [Kinds -> Seq(Names)] /\ Ordered(heap)
  BY ViewTypes DEF Inv, MemoryInv, Kinds
<1>2. view \in Views
  <2>1. NoInts \in [Kinds -> Functions \cup {Nil}]
    BY DEF NoInts
  <2> QED BY <1>1, <2>1 DEF Views, View
<1>3. views' = Append(views, view) /\ heap' = heap /\ UNCHANGED services
  BY DEF WrapForeign
<1>4. /\ views'[n] = view /\ views'[v] = views[v] /\ view.under = v
      /\ view.type = "foreign" /\ view.ints = NoInts /\ ~view.plain
      /\ view.asked = views[v].asked
  BY <1>1, <1>2, <1>3 DEF View
<1> HIDE DEF view
<1>5. ViewInv(heap', views', n)
  <2>1. v \in 1..(n - 1)
    BY <1>1
  <2> HIDE DEF n
  <2>2. ASSUME NEW kind \in Kinds
        PROVE  /\ Within(view.ints[kind], Len(heap'))
               /\ view.asked[kind] = Calls(heap', view.ints[kind])
                                         \o views[v].asked[kind]
    <3>1. view.ints[kind].type = "nil" /\ views[v].asked[kind] \in Seq(Names)
      BY <1>1, <1>4 DEF NoInts, Nil
    <3>2. Calls(heap', view.ints[kind]) = <<>>
      BY <3>1 DEF Calls
    <3> QED BY <1>4, <3>1, <3>2 DEF Within
  <2> QED BY <1>4, <2>1, <2>2 DEF ViewInv, AskedBelow
<1>6. Ordered(heap') /\ Extends(heap', heap)
  BY <1>1, <1>3 DEF Ordered, Extends
<1> QED BY <1>2, <1>3, <1>5, <1>6, ViewAdded

(* A service is registered through a view there is.                        *)
LEMMA RegisterServiceInv ==
    ASSUME Inv, NEW v \in 1..Len(views), NEW name \in Services,
           RegisterService(name, v)
    PROVE  Inv'
<1> DEFINE Valid(ss) == /\ ss \in Seq([name : Services, view : Nat])
                        /\ \A s \in 1..Len(ss) : ss[s].view \in 1..Len(views)
<1>1. Valid(services) /\ Len(views) \in Nat /\ UNCHANGED <<heap, views>>
  BY DEF Inv, RegisterService
<1>2. CASE UNCHANGED services
  BY <1>1, <1>2 DEF Inv, MemoryInv
<1>3. CASE services' = Append(services, [name |-> name, view |-> v])
  <2>1. [name |-> name, view |-> v] \in [name : Services, view : Nat]
    BY <1>1
  <2>2. Valid(services')
    BY <1>1, <1>3, <2>1
  <2> QED BY <1>1, <2>2 DEF Inv, MemoryInv
<1> QED BY <1>2, <1>3 DEF RegisterService

(* Where append cannot write into the caller's arrays, memory is only      *)
(* added to and every view keeps what it was asked for.                    *)
THEOREM InterceptorsInvariant == Full => (Spec => []Inv)
<1> SUFFICES ASSUME Full PROVE Spec => []Inv
  OBVIOUS
<1>1. Init => Inv
  BY InitInv
<1>2. Inv /\ [Next]_vars => Inv'
  <2> SUFFICES ASSUME Inv, [Next]_vars PROVE Inv'
    OBVIOUS
  <2>1. ASSUME NEW v \in 1..Len(views), WrapForeign(v) PROVE Inv'
    BY <2>1, WrapForeignInv
  <2>2. ASSUME NEW v \in 1..Len(views), NEW name \in Services,
               RegisterService(name, v)
        PROVE  Inv'
    BY <2>2, RegisterServiceInv
  <2>3. ASSUME NEW v \in 1..Len(views), NEW s \in CallerSlices,
               InterceptSlice(v, s)
        PROVE  Inv'
    BY <2>3, InterceptSliceInv
  <2>4. ASSUME NEW v \in 1..Len(views), NEW kind \in Kinds,
               NEW names \in Lists, InterceptList(v, kind, names)
        PROVE  Inv'
    BY <2>4, InterceptListInv
  <2>5. CASE UNCHANGED vars
    BY <2>5 DEF vars, Inv, MemoryInv
  <2> QED BY <2>1, <2>2, <2>3, <2>4, <2>5 DEF Next
<1> QED BY <1>1, <1>2, PTL DEF Spec
-----------------------------------------------------------------------------
(* What a call on a channel passes, view by view.  That every view passes  *)
(* what it was asked for is a solution; there is only one.                 *)
LEMMA ClientEquation ==
    ASSUME Inv, NEW kind \in Kinds
    PROVE  \A v \in 1..Len(views) :
               ClientCalls(kind)[v] =
                   IF views[v].type = "root" THEN <<>>
                   ELSE Calls(heap, views[v].ints[kind])
                            \o ClientCalls(kind)[views[v].under]
<1> DEFINE Solves(g) ==
        g = [v \in 1..Len(views) |->
                IF views[v].type = "root" THEN <<>>
                ELSE Calls(heap, views[v].ints[kind]) \o g[views[v].under]]
<1> DEFINE g == [v \in 1..Len(views) |-> views[v].asked[kind]]
<1>1. ASSUME NEW v \in 1..Len(views)
      PROVE  g[v] = IF views[v].type = "root" THEN <<>>
                    ELSE Calls(heap, views[v].ints[kind]) \o g[views[v].under]
  <2>1. /\ ViewInv(heap, views, v) /\ v \in Nat /\ Len(views) \in Nat
        /\ g[v] = views[v].asked[kind]
    BY ViewTypes
  <2>2. CASE views[v].type = "root"
    <3>1. views[v].ints[kind].type = "nil"
      BY <2>1, <2>2 DEF ViewInv, NoInts, Nil
    <3>2. Calls(heap, views[v].ints[kind]) = <<>>
      BY <3>1 DEF Calls
    <3>3. g[v] = <<>> \o <<>>
      BY <2>1, <2>2, <3>2 DEF ViewInv, AskedBelow
    <3> QED BY <2>2, <3>3
  <2>3. CASE views[v].type # "root"
    <3>1. views[v].under \in 1..Len(views)
      BY <2>1, <2>3 DEF ViewInv
    <3>2. g[views[v].under] = views[views[v].under].asked[kind]
      BY <3>1
    <3> HIDE DEF g
    <3> QED BY <2>1, <2>3, <3>2 DEF ViewInv, AskedBelow
  <2> QED BY <2>2, <2>3
<1>2. Solves(g)
  BY <1>1
<1>3. \E f : Solves(f)
  <2> HIDE DEF g, Solves
  <2> QED BY <1>2
<1>4. Solves(ClientCalls(kind))
  BY <1>3 DEF ClientCalls
<1> DEFINE c == ClientCalls(kind)
<1> HIDE DEF c
<1>5. Solves(c)
  BY <1>4 DEF c
<1>6. \A v \in 1..Len(views) :
          c[v] = IF views[v].type = "root" THEN <<>>
                 ELSE Calls(heap, views[v].ints[kind]) \o c[views[v].under]
  BY <1>5
<1> QED BY <1>6 DEF c

(* From the root up, the calls are what was asked.                         *)
LEMMA InvCallsPass == Inv => CallsPassAllInterceptors
<1> SUFFICES ASSUME Inv, NEW kind \in Kinds
             PROVE  \A v \in 1..Len(views) :
                        ClientCalls(kind)[v] = views[v].asked[kind]
  BY DEF CallsPassAllInterceptors
<1> DEFINE Right(v) == v \in 1..Len(views) =>
                           ClientCalls(kind)[v] = views[v].asked[kind]
           S == {v \in Nat : Right(v)}
<1>1. ASSUME NEW v \in Nat, \A m \in 0..(v - 1) : m \in S PROVE v \in S
  <2> SUFFICES ASSUME v \in 1..Len(views)
               PROVE  ClientCalls(kind)[v] = views[v].asked[kind]
    OBVIOUS
  <2>1. ViewInv(heap, views, v) /\ Len(views) \in Nat
    BY ViewTypes
  <2>2. CASE views[v].type = "root"
    <3>1. views[v].ints[kind].type = "nil"
      BY <2>1, <2>2 DEF ViewInv, NoInts, Nil
    <3>2. Calls(heap, views[v].ints[kind]) = <<>>
      BY <3>1 DEF Calls
    <3>3. views[v].asked[kind] = <<>> \o <<>>
      BY <2>1, <2>2, <3>2 DEF ViewInv, AskedBelow
    <3> QED BY <2>2, <3>3, ClientEquation
  <2>3. CASE views[v].type # "root"
    <3>1. views[v].under \in 0..(v - 1) /\ views[v].under \in 1..Len(views)
      BY <2>1, <2>3 DEF ViewInv
    <3>2. views[v].under \in S
      <4> HIDE DEF S
      <4> QED BY <1>1, <3>1
    <3>3. ClientCalls(kind)[views[v].under] = views[views[v].under].asked[kind]
      BY <3>1, <3>2
    <3>4. ClientCalls(kind)[v] = Calls(heap, views[v].ints[kind])
                                     \o ClientCalls(kind)[views[v].under]
      BY <2>3, ClientEquation
    <3> QED BY <2>1, <2>3, <3>3, <3>4 DEF ViewInv, AskedBelow
  <2> QED BY <2>2, <2>3
<1>2. Nat \subseteq S
  <2> HIDE DEF S
  <2> QED BY <1>1, Induction
<1>3. ASSUME NEW v \in 1..Len(views) PROVE Right(v)
  <2>1. v \in Nat
    OBVIOUS
  <2> QED BY <1>2, <2>1
<1> QED BY <1>3

(* A call on a channel passes every interceptor it was wrapped in, in      *)
(* order, whatever was wrapped since, if no slice has room behind it       *)
(* (intercept.go:118-140).                                                 *)
THEOREM CallsPass == Full => (Spec => []CallsPassAllInterceptors)
BY InterceptorsInvariant, InvCallsPass, PTL

-----------------------------------------------------------------------------
(* How often an interceptor is in two sequences, one after the other.      *)
LEMMA TimesJoined ==
    ASSUME NEW name, NEW s \in Seq(Names), NEW t \in Seq(Names)
    PROVE  /\ Times(name, s) \in Nat
           /\ Times(name, s \o t) = Times(name, s) + Times(name, t)
<1> DEFINE In(seq) == {i \in 1..Len(seq) : seq[i] = name}
           Behind == {i \in (Len(s) + 1)..(Len(s) + Len(t)) :
                          (s \o t)[i] = name}
<1>1. Len(s) \in Nat /\ Len(t) \in Nat
  OBVIOUS
<1>2. \A seq \in Seq(Names) : IsFiniteSet(In(seq))
  <2> SUFFICES ASSUME NEW seq \in Seq(Names) PROVE IsFiniteSet(In(seq))
    OBVIOUS
  <2>1. Len(seq) \in Int /\ 1 \in Int
    OBVIOUS
  <2>2. IsFiniteSet(1..Len(seq))
    BY <2>1, FS_Interval
  <2> QED BY <2>2, FS_Subset
<1>3. In(s \o t) = In(s) \cup Behind /\ In(s) \cap Behind = {}
  OBVIOUS
<1>4. ExistsBijection(In(t), Behind)
  <2> DEFINE f == [i \in In(t) |-> Len(s) + i]
  <2>1. \A i \in In(t) : Len(s) + i \in Behind
    OBVIOUS
  <2>2. \A j \in Behind : \E i \in In(t) : Len(s) + i = j
    <3> SUFFICES ASSUME NEW j \in Behind
                 PROVE  j - Len(s) \in In(t) /\ Len(s) + (j - Len(s)) = j
      OBVIOUS
    <3> QED OBVIOUS
  <2>3. \A i, j \in In(t) : Len(s) + i = Len(s) + j => i = j
    BY <1>1
  <2> HIDE DEF In, Behind
  <2>4. f \in [In(t) -> Behind]
    BY <2>1
  <2>5. f \in Injection(In(t), Behind)
    BY <2>3, <2>4 DEF Injection, IsInjective
  <2>6. f \in Surjection(In(t), Behind)
    BY <2>2, <2>4 DEF Surjection
  <2> QED BY <2>5, <2>6 DEF ExistsBijection, Bijection
<1>5. IsFiniteSet(In(s)) /\ IsFiniteSet(In(t))
  BY <1>2
<1> HIDE DEF In, Behind
<1>6. IsFiniteSet(Behind) /\ Cardinality(Behind) = Cardinality(In(t))
  BY <1>4, <1>5, FS_Bijection
<1>7. Cardinality(In(s \o t)) = Cardinality(In(s)) + Cardinality(In(t))
  <2>1. Cardinality(In(s)) \in Nat /\ Cardinality(In(t)) \in Nat
    BY <1>5, FS_CardinalityType
  <2>2. Cardinality(In(s) \cup Behind) =
            Cardinality(In(s)) + Cardinality(Behind) - Cardinality(In(s) \cap Behind)
    BY <1>5, <1>6, FS_Union
  <2>3. Cardinality(In(s) \cap Behind) = 0
    BY <1>3, FS_EmptySet
  <2>4. In(s \o t) = In(s) \cup Behind
    BY <1>3
  <2> QED BY <1>6, <2>1, <2>2, <2>3, <2>4
<1>8. Cardinality(In(s)) \in Nat
  BY <1>5, FS_CardinalityType
<1> QED BY <1>7, <1>8 DEF In, Times

(* On the server's side, the registrars' functions the other way round. No *)
(* view is known beforehand to be a solution, so one is built up.          *)
LEMMA DescribedEquation ==
    ASSUME Inv, NEW kind \in Kinds
    PROVE  \A v \in 1..Len(views) :
               Described(kind)[v] =
                   IF views[v].type = "root" THEN <<>>
                   ELSE Described(kind)[views[v].under]
                            \o Calls(heap, views[v].ints[kind])
<1> DEFINE At(g, v) == IF views[v].type = "root" THEN <<>>
                       ELSE g[views[v].under] \o Calls(heap, views[v].ints[kind])
           Upto(g, n) == g = [v \in 1..n |-> At(g, v)]
           S == {n \in Nat : n <= Len(views) => \E g : Upto(g, n)}
<1>1. Len(views) \in Nat
  BY DEF Inv
<1>2. ASSUME NEW n \in Nat, \A m \in 0..(n - 1) : m \in S PROVE n \in S
  <2> SUFFICES ASSUME n <= Len(views) PROVE \E g : Upto(g, n)
    OBVIOUS
  <2>1. CASE n = 0
    <3>1. [v \in 1..0 |-> <<>>] = [v \in 1..0 |-> At([w \in 1..0 |-> <<>>], v)]
      OBVIOUS
    <3> QED BY <2>1, <3>1
  <2>2. CASE n # 0
    <3>1. n - 1 \in S /\ n - 1 <= Len(views)
      <4>1. n - 1 \in 0..(n - 1) /\ n - 1 <= Len(views)
        BY <1>1, <2>2
      <4> HIDE DEF S
      <4> QED BY <1>2, <4>1
    <3>2. PICK g : Upto(g, n - 1)
      BY <3>1
    <3> DEFINE f == [v \in 1..n |-> IF v = n THEN At(g, n) ELSE g[v]]
    <3>3. ASSUME NEW v \in 1..n PROVE f[v] = At(f, v)
      <4>1. v \in 1..Len(views) /\ v \in Nat
        BY <1>1
      <4>2. views[v].type # "root" => views[v].under \in 1..(v - 1)
        BY <4>1, ViewTypes DEF ViewInv, Kinds
      <4>3. views[v].type # "root" => f[views[v].under] = g[views[v].under]
        BY <4>1, <4>2
      <4>4. At(f, v) = At(g, v)
        <5> HIDE DEF f
        <5> QED BY <4>3
      <4>5. f[v] = At(g, v)
        <5>1. CASE v = n
          <6> HIDE DEF At
          <6> QED BY <5>1
        <5>2. CASE v # n
          <6>1. v \in 1..(n - 1)
            BY <5>2
          <6> HIDE DEF At
          <6> QED BY <3>2, <5>2, <6>1
        <5> QED BY <5>1, <5>2
      <4> HIDE DEF At, f
      <4> QED BY <4>4, <4>5
    <3>4. Upto(f, n)
      <4> HIDE DEF At
      <4> QED BY <3>3
    <3> HIDE DEF f, Upto
    <3> QED BY <3>4
  <2> QED BY <2>1, <2>2
<1>3. Len(views) \in S
  <2> HIDE DEF S
  <2> QED BY <1>1, <1>2, Induction
<1>4. \E g : Upto(g, Len(views))
  <2> HIDE DEF Upto
  <2> QED BY <1>3
<1>5. Upto(Described(kind), Len(views))
  BY <1>4 DEF Described
<1> DEFINE d == Described(kind)
<1> HIDE DEF d
<1>6. Upto(d, Len(views))
  BY <1>5 DEF d
<1>7. \A v \in 1..Len(views) :
          d[v] = IF views[v].type = "root" THEN <<>>
                 ELSE d[views[v].under] \o Calls(heap, views[v].ints[kind])
  BY <1>6
<1> QED BY <1>7 DEF d

(* The same interceptors, each as often, in any order.                     *)
Keeps(called, asked) ==
    /\ called \in Seq(Names) /\ asked \in Seq(Names)
    /\ Len(called) = Len(asked)
    /\ \A name \in Names : Times(name, called) = Times(name, asked)

(* Whether a registrar's own come before or after the rest.                *)
LEMMA KeepsTurned ==
    ASSUME NEW called, NEW asked, Keeps(called, asked), NEW own \in Seq(Names)
    PROVE  Keeps(called \o own, own \o asked)
<1>1. /\ called \in Seq(Names) /\ asked \in Seq(Names)
      /\ Len(called) = Len(asked)
  BY DEF Keeps
<1>2. /\ called \o own \in Seq(Names) /\ own \o asked \in Seq(Names)
      /\ Len(called \o own) = Len(called) + Len(own)
      /\ Len(own \o asked) = Len(own) + Len(asked)
      /\ Len(called) \in Nat /\ Len(own) \in Nat
  BY <1>1
<1>3. ASSUME NEW name \in Names
      PROVE  Times(name, called \o own) = Times(name, own \o asked)
  <2>1. /\ Times(name, called \o own) = Times(name, called) + Times(name, own)
        /\ Times(name, own \o asked) = Times(name, own) + Times(name, asked)
        /\ Times(name, called) \in Nat /\ Times(name, own) \in Nat
    BY <1>1, TimesJoined
  <2> QED BY <2>1 DEF Keeps
<1> QED BY <1>1, <1>2, <1>3 DEF Keeps

(* From the root up, a registrar keeps them all; without wrappers of the   *)
(* application's there is one on the root, and it keeps the order.         *)
LEMMA DescribedKeeps ==
    ASSUME Inv, NEW kind \in Kinds, NEW v \in 1..Len(views)
    PROVE  /\ Keeps(Described(kind)[v], views[v].asked[kind])
           /\ views[v].plain => Described(kind)[v] = views[v].asked[kind]
<1> DEFINE Right(w) ==
        w \in 1..Len(views) =>
            /\ Keeps(Described(kind)[w], views[w].asked[kind])
            /\ views[w].plain => Described(kind)[w] = views[w].asked[kind]
           S == {w \in Nat : Right(w)}
<1>1. ASSUME NEW w \in Nat, \A m \in 0..(w - 1) : m \in S PROVE w \in S
  <2> SUFFICES ASSUME w \in 1..Len(views) PROVE Right(w)
    OBVIOUS
  <2> DEFINE own == Calls(heap, views[w].ints[kind])
  <2>1. ViewInv(heap, views, w) /\ Len(views) \in Nat
    BY ViewTypes
  <2>2. own \in Seq(Names)
    <3>1. Ordered(heap)
      BY DEF Inv, MemoryInv
    <3>2. Extends(heap, heap)
      BY <3>1 DEF Extends, Ordered
    <3>3. /\ views[w].ints[kind] \in Functions \cup {Nil}
          /\ Within(views[w].ints[kind], Len(heap))
      BY ViewTypes DEF ViewInv
    <3> QED BY <3>1, <3>2, <3>3, CallsStay
  <2>3. views[w].type # "intercepted" => own = <<>>
    <3>1. views[w].type # "intercepted" => views[w].ints[kind].type = "nil"
      BY <2>1 DEF ViewInv, NoInts, Nil
    <3> QED BY <3>1 DEF Calls
  <2>4. CASE views[w].type = "root"
    <3>1. Described(kind)[w] = <<>>
      BY <2>4, DescribedEquation
    <3>2. views[w].asked[kind] = <<>> \o <<>>
      BY <2>1, <2>3, <2>4 DEF ViewInv, AskedBelow
    <3> QED BY <3>1, <3>2 DEF Keeps
  <2>5. CASE views[w].type # "root"
    <3> DEFINE u == views[w].under
    <3>1. u \in 0..(w - 1) /\ u \in 1..Len(views)
      BY <2>1, <2>5 DEF ViewInv
    <3>2. Right(u)
      <4>1. u \in S
        <5> HIDE DEF S
        <5> QED BY <1>1, <3>1
      <4> QED BY <4>1
    <3> HIDE DEF u, own
    <3>3. Described(kind)[w] = Described(kind)[u] \o own
      BY <2>5, DescribedEquation DEF u, own
    <3>4. views[w].asked[kind] = own \o views[u].asked[kind]
      BY <2>1, <2>5 DEF ViewInv, AskedBelow, u, own
    <3>5. Keeps(Described(kind)[w], views[w].asked[kind])
      BY <2>2, <3>1, <3>2, <3>3, <3>4, KeepsTurned
    <3>6. ASSUME views[w].plain
          PROVE  Described(kind)[w] = views[w].asked[kind]
      <4>1. views[w].type = "intercepted"
        BY <2>1, <2>5, <3>6, ViewTypes DEF ViewInv
      <4>2. views[u].type # "intercepted" /\ views[u].plain
        BY <2>1, <3>6, <4>1 DEF ViewInv, u
      <4>3. views[u].type = "root"
        BY <3>1, <4>2, ViewTypes DEF ViewInv
      <4>4. Described(kind)[u] = <<>>
        BY <3>1, <4>3, DescribedEquation
      <4>5. views[u].asked[kind] = <<>>
        BY <3>1, <3>2, <4>2, <4>4
      <4> QED BY <2>2, <3>3, <3>4, <4>4, <4>5
    <3> QED BY <3>5, <3>6
  <2> QED BY <2>4, <2>5
<1>2. Nat \subseteq S
  <2> HIDE DEF S
  <2> QED BY <1>1, Induction
<1>3. v \in S
  <2>1. v \in Nat
    OBVIOUS
  <2> HIDE DEF S
  <2> QED BY <1>2, <2>1
<1> QED BY <1>3

(* The interceptor of the server, if it has one, comes before those of the *)
(* registrar.                                                              *)
LEMMA InvServicesKeep == Inv => ServicesKeepInterceptors
<1> SUFFICES ASSUME Inv, NEW s \in 1..Len(services), NEW kind \in Kinds,
                    NEW own \in Owns
             PROVE  LET called == ServerCalls(own, services[s], kind)
                        view   == views[services[s].view]
                        asked  == own \o view.asked[kind]
                    IN  /\ Len(called) = Len(asked)
                        /\ own # <<>> => called[1] = Transport
                        /\ \A name \in Names :
                               Times(name, called) = Times(name, asked)
                        /\ view.plain => called = asked
  BY DEF ServicesKeepInterceptors
<1>1. PICK v \in 1..Len(views) : v = services[s].view
  BY DEF Inv
<1> DEFINE called == Described(kind)[v]
           asked  == views[v].asked[kind]
<1>2. /\ Keeps(called, asked)
      /\ views[v].plain => called = asked
  BY DescribedKeeps
<1>3. ServerCalls(own, services[s], kind) = own \o called
  BY <1>1 DEF ServerCalls
<1> HIDE DEF called, asked
<1>4. /\ own \in Seq(Names) /\ called \in Seq(Names) /\ asked \in Seq(Names)
      /\ Len(called) = Len(asked)
      /\ \A name \in Names : Times(name, called) = Times(name, asked)
  <2>1. <<>> \in Seq(Names) /\ <<Transport>> \in Seq(Names)
    BY NamesAssumption
  <2> QED BY <1>2, <2>1 DEF Keeps, Owns
<1>5. Len(own \o called) = Len(own \o asked)
  BY <1>4
<1>6. own # <<>> => (own \o called)[1] = Transport
  <2> SUFFICES ASSUME own = <<Transport>>
               PROVE  (<<Transport>> \o called)[1] = Transport
    BY DEF Owns
  <2> QED BY <1>4, NamesAssumption
<1>7. ASSUME NEW name \in Names
      PROVE  Times(name, own \o called) = Times(name, own \o asked)
  BY <1>4, TimesJoined
<1> QED BY <1>1, <1>2, <1>3, <1>5, <1>6, <1>7 DEF asked

(* A service's calls pass the server's interceptor, if it has one, and all *)
(* those of the registrar the service was registered through, each as      *)
(* often as it was given, if no slice has room behind it                   *)
(* (intercept.go:232-290).                                                 *)
THEOREM ServicesKeep == Full => (Spec => []ServicesKeepInterceptors)
BY InterceptorsInvariant, InvServicesKeep, PTL

=============================================================================
