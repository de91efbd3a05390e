---------------------------- MODULE PipeProofs ----------------------------
(***************************************************************************)
(* Theorems about Pipe, for any number of threads, any least capacity and  *)
(* any sizes of pushes and pops.                                           *)
(***************************************************************************)
EXTENDS Pipe, RequestLemmas, FiniteSetTheorems, TLAPS

-----------------------------------------------------------------------------
(* next_pow2.  That Pow2 is the function its recursive definition says is  *)
(* proved by building it up to each number.                                *)

\* g is Pow2 up to n.
Doubles(g, n) == /\ g \in [0..n -> Nat]
                 /\ g[0] = 1
                 /\ \A k \in 1..n : g[k] = 2 * g[k - 1]

\* There is such a function for each n, and one only.
LEMMA DoublesExists == \A n \in Nat : \E g : Doubles(g, n)
  <1> DEFINE T == {n \in Nat : \E g : Doubles(g, n)}
  <1>1. 0 \in T
    <2>1. Doubles([k \in 0..0 |-> 1], 0)
      BY DEF Doubles
    <2> QED
      BY <2>1
  <1>2. ASSUME NEW n \in T PROVE n + 1 \in T
    <2>1. PICK g : Doubles(g, n)
      OBVIOUS
    <2> DEFINE h == [k \in 0..(n + 1) |-> IF k = n + 1 THEN 2 * g[n] ELSE g[k]]
    <2>2. /\ \A k \in 0..n : h[k] = g[k] /\ g[k] \in Nat
          /\ h[n + 1] = 2 * g[n] /\ g[n] \in Nat
      BY <2>1 DEF Doubles
    <2>3. h \in [0..(n + 1) -> Nat]
      BY <2>1 DEF Doubles
    <2> HIDE DEF h
    <2>4. ASSUME NEW k \in 1..(n + 1) PROVE h[k] = 2 * h[k - 1]
      <3>1. CASE k = n + 1
        <4>1. k - 1 = n /\ n \in 0..n
          BY <3>1
        <4> QED
          BY <2>2, <3>1, <4>1
      <3>2. CASE k # n + 1
        <4>1. k \in 1..n /\ k \in 0..n /\ k - 1 \in 0..n
          BY <3>2
        <4>2. g[k] = 2 * g[k - 1]
          BY <2>1, <4>1 DEF Doubles
        <4> QED
          BY <2>2, <4>1, <4>2
      <3> QED
        BY <3>1, <3>2
    <2>5. Doubles(h, n + 1)
      BY <2>1, <2>2, <2>3, <2>4 DEF Doubles
    <2> QED
      BY <2>5
  <1> HIDE DEF T
  <1>3. T = Nat
    BY <1>1, <1>2, AllNumbers DEF T
  <1> QED
    BY <1>3 DEF T

LEMMA DoublesUnique ==
  ASSUME NEW n \in Nat, NEW m \in Nat, NEW g, NEW h, Doubles(g, n), Doubles(h, m)
  PROVE  \A k \in Nat : k <= n /\ k <= m => g[k] = h[k]
  <1> DEFINE T == {k \in Nat : k <= n /\ k <= m => g[k] = h[k]}
  <1>1. 0 \in T
    BY DEF Doubles
  <1>2. ASSUME NEW k \in T PROVE k + 1 \in T
    <2>1. CASE k + 1 <= n /\ k + 1 <= m
      <3>1. g[k] = h[k]
        BY <2>1
      <3>2. g[k + 1] = 2 * g[(k + 1) - 1] /\ h[k + 1] = 2 * h[(k + 1) - 1]
        BY <2>1 DEF Doubles
      <3> QED
        BY <3>1, <3>2
    <2>2. CASE ~ (k + 1 <= n /\ k + 1 <= m)
      BY <2>2
    <2> QED
      BY <2>1, <2>2
  <1> HIDE DEF T
  <1>3. T = Nat
    BY <1>1, <1>2, AllNumbers DEF T
  <1> QED
    BY <1>3 DEF T

\* Pow2 doubles at each step.
LEMMA Pow2Def == Pow2 \in [Nat -> Nat] /\ Pow2[0] = 1 /\ \A k \in Nat : Pow2[k + 1] = 2 * Pow2[k]
  <1> DEFINE F(f) == f = [k \in Nat |-> IF k = 0 THEN 1 ELSE 2 * f[k - 1]]
             G == [k \in Nat |-> (CHOOSE f : Doubles(f, k))[k]]
  <1>1. ASSUME NEW k \in Nat PROVE Doubles(CHOOSE f : Doubles(f, k), k)
    BY DoublesExists
  <1>2. ASSUME NEW k \in Nat \ {0} PROVE G[k] = 2 * G[k - 1]
    <2> DEFINE g == CHOOSE f : Doubles(f, k)
               h == CHOOSE f : Doubles(f, k - 1)
    <2>1. Doubles(g, k) /\ Doubles(h, k - 1)
      BY <1>1
    <2>2. G[k] = g[k] /\ G[k - 1] = h[k - 1]
      OBVIOUS
    <2> HIDE DEF g, h, G
    <2>3. g[k] = 2 * g[k - 1]
      BY <2>1 DEF Doubles
    <2>4. g[k - 1] = h[k - 1]
      BY <2>1, DoublesUnique
    <2> QED
      BY <2>2, <2>3, <2>4
  <1>3. G[0] = 1
    BY <1>1 DEF Doubles
  <1>4. F(G)
    <2> HIDE DEF G
    <2>1. G = [k \in Nat |-> G[k]]
      BY DEF G
    <2> QED
      BY <1>2, <1>3, <2>1
  <1>5. F(CHOOSE f : F(f))
    <2> HIDE DEF F
    <2> QED
      BY <1>4
  <1>6. Pow2 = CHOOSE f : F(f)
    BY DEF Pow2
  <1>7. Pow2 = [k \in Nat |-> IF k = 0 THEN 1 ELSE 2 * Pow2[k - 1]]
    BY <1>5, <1>6
  <1>8. Pow2[0] = 1 /\ \A k \in Nat : Pow2[k + 1] = 2 * Pow2[k]
    BY <1>7
  <1>9. \A k \in Nat : Pow2[k] \in Nat
    <2> DEFINE T == {k \in Nat : Pow2[k] \in Nat}
    <2>1. 0 \in T /\ \A k \in T : k + 1 \in T
      BY <1>8
    <2> HIDE DEF T
    <2>2. T = Nat
      BY <2>1, AllNumbers DEF T
    <2> QED
      BY <2>2 DEF T
  <1> QED
    BY <1>7, <1>8, <1>9

\* A power of two is greater than its exponent.
LEMMA Pow2Grows == \A k \in Nat : Pow2[k] > k
  <1> DEFINE T == {k \in Nat : Pow2[k] > k}
  <1>1. 0 \in T
    BY Pow2Def
  <1>2. ASSUME NEW k \in T PROVE k + 1 \in T
    <2>1. Pow2[k] \in Nat /\ Pow2[k] > k /\ Pow2[k + 1] = 2 * Pow2[k]
      BY Pow2Def
    <2> QED
      BY <2>1
  <1> HIDE DEF T
  <1>3. T = Nat
    BY <1>1, <1>2, AllNumbers DEF T
  <1> QED
    BY <1>3 DEF T

\* next_pow2(n) is at least n.
LEMMA NextPow2Fits == ASSUME NEW n \in Nat PROVE NextPow2(n) \in Nat /\ NextPow2(n) >= n
  <1> DEFINE T == {m \in {Pow2[k] : k \in 0..n} : m >= n}
             Is(m) == m >= n /\ \A k \in 0..n : Pow2[k] >= n => m <= Pow2[k]
  <1>1. \A k \in 0..n : Pow2[k] \in Nat
    BY Pow2Def
  <1>2. T \in SUBSET Nat /\ T # {}
    BY <1>1, Pow2Grows
  <1>3. PICK m \in T : \A l \in T : m <= l
    <2> HIDE DEF T
    <2> QED
      BY <1>2, LeastExists
  <1>4. m \in {Pow2[k] : k \in 0..n} /\ Is(m)
    BY <1>1, <1>3
  <1>5. NextPow2(n) = CHOOSE l \in {Pow2[k] : k \in 0..n} : Is(l)
    BY DEF NextPow2
  <1>6. NextPow2(n) \in {Pow2[k] : k \in 0..n} /\ Is(NextPow2(n))
    <2> HIDE DEF Is
    <2> QED
      BY <1>4, <1>5
  <1> QED
    BY <1>1, <1>6

-----------------------------------------------------------------------------
(* The ring.  A pointer is an offset; what follows it is Wrap of the sum.  *)

\* A ring, a position of its sentinel and of its end.
InRing(sz, x) == sz \in Nat /\ sz >= 2 /\ x \in 0..(sz - 1)

\* No more elements than the capacity; the end follows the last of them.
LEMMA InUseBounds ==
  ASSUME NEW sz, NEW b, NEW e, InRing(sz, b), InRing(sz, e)
  PROVE  InUse(sz, b, e) \in 0..(sz - 1) /\ e = Wrap(sz, b + InUse(sz, b, e) + 1)
  BY DEF InRing, InUse, WrapsAround, Wrap

\* What a push does to the end, and where it puts the elements, whatever the
\* beginning it knows of, if they fit behind it.
LEMMA PushMoves ==
  ASSUME NEW sz, NEW b, NEW e, InRing(sz, b), InRing(sz, e),
         NEW n \in Nat, InUse(sz, b, e) + n <= sz - 1
  PROVE  /\ NewEnd(sz, b, e, n) = Wrap(sz, e + n)
         /\ \A i \in 1..n : PushSlot(sz, b, e, n, i) = Wrap(sz, e + (i - 1))
  BY DEF InRing, InUse, WrapsAround, Wrap, NewEnd, PushSlot, AtEnd, Least

\* What a pop does to the beginning, and where it finds the elements.
LEMMA PopMoves ==
  ASSUME NEW sz, NEW b, InRing(sz, b), NEW n \in 0..(sz - 1)
  PROVE  /\ NewBegin(sz, b, n) = Wrap(sz, b + n)
         /\ \A i \in 1..n : PopSlot(sz, b, n, i) = Wrap(sz, b + i)
  BY DEF InRing, InUse, WrapsAround, Wrap, NewBegin, PopSlot, BeforeEnd, Least

\* The end moves on by n elements, as far as there is room.
LEMMA EndMoves ==
  ASSUME NEW sz, NEW b, NEW e, InRing(sz, b), InRing(sz, e),
         NEW n \in Nat, InUse(sz, b, e) + n <= sz - 1
  PROVE  InRing(sz, Wrap(sz, e + n)) /\ InUse(sz, b, Wrap(sz, e + n)) = InUse(sz, b, e) + n
  BY DEF InRing, InUse, WrapsAround, Wrap

\* The beginning moves on by n elements, if there are as many.
LEMMA BeginMoves ==
  ASSUME NEW sz, NEW b, NEW e, InRing(sz, b), InRing(sz, e),
         NEW n \in 0..InUse(sz, b, e)
  PROVE  InRing(sz, Wrap(sz, b + n)) /\ InUse(sz, Wrap(sz, b + n), e) = InUse(sz, b, e) - n
  BY DEF InRing, InUse, WrapsAround, Wrap

\* Places after a position are different, and steps add up.
LEMMA PlacesDiffer ==
  ASSUME NEW sz, NEW x, InRing(sz, x), NEW i \in 0..(sz - 1), NEW j \in 0..(sz - 1)
  PROVE  /\ InRing(sz, Wrap(sz, x + i))
         /\ Wrap(sz, x + i) = Wrap(sz, x + j) => i = j
         /\ i + j <= sz => Wrap(sz, Wrap(sz, x + i) + j) = Wrap(sz, x + (i + j))
  BY DEF InRing, Wrap


\* The elements are a sequence of what is in the slots in use.
LEMMA ElementsType ==
  ASSUME NEW bf, NEW sz, NEW b, NEW e, InRing(sz, b), InRing(sz, e), NEW S,
         \A i \in 1..InUse(sz, b, e) : bf[Wrap(sz, b + i)] \in S
  PROVE  /\ Elements(bf, sz, b, e) \in Seq(S)
         /\ Len(Elements(bf, sz, b, e)) = InUse(sz, b, e)
         /\ \A i \in 1..InUse(sz, b, e) : Elements(bf, sz, b, e)[i] = bf[Wrap(sz, b + i)]
  <1> DEFINE u == InUse(sz, b, e)
             q == [i \in 1..u |-> bf[Wrap(sz, b + i)]]
  <1>1. u \in Nat
    BY InUseBounds
  <1>2. q = Elements(bf, sz, b, e)
    BY DEF Elements
  <1> HIDE DEF u
  <1>3. q \in Seq(S) /\ Len(q) = u
    BY <1>1, LenProperties, SeqDef DEF u
  <1> QED
    BY <1>2, <1>3 DEF u

LEMMA ElementsAre ==
  ASSUME NEW bf, NEW sz, NEW b, NEW e, InRing(sz, b), InRing(sz, e)
  PROVE  /\ Len(Elements(bf, sz, b, e)) = InUse(sz, b, e)
         /\ \A i \in 1..InUse(sz, b, e) : Elements(bf, sz, b, e)[i] = bf[Wrap(sz, b + i)]
  <1> DEFINE u == InUse(sz, b, e)
             S == {bf[Wrap(sz, b + i)] : i \in 1..u}
             q == [i \in 1..u |-> bf[Wrap(sz, b + i)]]
  <1>1. u \in Nat
    BY InUseBounds
  <1>2. q = Elements(bf, sz, b, e)
    BY DEF Elements
  <1>3. q \in [1..u -> S] /\ \A i \in 1..u : q[i] = bf[Wrap(sz, b + i)]
    OBVIOUS
  <1> HIDE DEF u, S, q
  <1>4. Len(q) = u
    BY <1>1, <1>3
  <1> QED
    BY <1>2, <1>3, <1>4 DEF u

\* Elements put behind the last one are appended.
LEMMA ElementsPush ==
  ASSUME NEW bf, NEW bg, NEW sz, NEW b, NEW e, InRing(sz, b), InRing(sz, e), NEW S,
         \A i \in 1..InUse(sz, b, e) : bf[Wrap(sz, b + i)] \in S,
         NEW q \in Seq(S), InUse(sz, b, e) + Len(q) <= sz - 1,
         \A i \in 1..Len(q) : bg[Wrap(sz, e + (i - 1))] = q[i],
         \A s \in 0..(sz - 1) :
             (\A i \in 1..Len(q) : Wrap(sz, e + (i - 1)) # s) => bg[s] = bf[s]
  PROVE  /\ Elements(bg, sz, b, Wrap(sz, e + Len(q))) = Elements(bf, sz, b, e) \o q
         /\ \A i \in 1..InUse(sz, b, Wrap(sz, e + Len(q))) : bg[Wrap(sz, b + i)] \in S
  <1> DEFINE u == InUse(sz, b, e)
             n == Len(q)
             f == Wrap(sz, e + n)
             old == Elements(bf, sz, b, e)
  <1>1. n \in Nat /\ u \in Nat /\ u + n <= sz - 1 /\ e = Wrap(sz, b + (u + 1)) /\ sz \in Nat
    <2>1. u \in 0..(sz - 1) /\ e = Wrap(sz, b + u + 1)
      BY InUseBounds
    <2>2. b + u + 1 = b + (u + 1)
      BY <2>1 DEF InRing
    <2> QED
      BY <2>1, <2>2, LenProperties DEF InRing
  <1>2. InRing(sz, f) /\ InUse(sz, b, f) = u + n
    BY <1>1, EndMoves
  <1>3. old \in Seq(S) /\ Len(old) = u /\ \A i \in 1..u : old[i] = bf[Wrap(sz, b + i)]
    BY ElementsType
  <1> HIDE DEF u, n, f, old
  <1>4. \A i \in 1..n : Wrap(sz, e + (i - 1)) = Wrap(sz, b + (u + i))
    <2> SUFFICES ASSUME NEW i \in 1..n PROVE Wrap(sz, e + (i - 1)) = Wrap(sz, b + (u + i))
      OBVIOUS
    <2>1. u + 1 \in 0..(sz - 1) /\ i - 1 \in 0..(sz - 1) /\ (u + 1) + (i - 1) <= sz
          /\ (u + 1) + (i - 1) = u + i
      BY <1>1
    <2> QED
      BY <1>1, <2>1, PlacesDiffer
  <1>5. \A i \in 1..n : bg[Wrap(sz, b + (u + i))] = q[i]
    BY <1>4 DEF n
  <1>6. ASSUME NEW i \in 1..u PROVE bg[Wrap(sz, b + i)] = bf[Wrap(sz, b + i)]
    <2>1. i \in 0..(sz - 1) /\ \A j \in 1..n : u + j \in 0..(sz - 1) /\ u + j # i
      BY <1>1
    <2>2. InRing(sz, Wrap(sz, b + i))
      BY <2>1, PlacesDiffer
    <2>3. \A j \in 1..n : Wrap(sz, b + (u + j)) # Wrap(sz, b + i)
      BY <2>1, PlacesDiffer
    <2>4. Wrap(sz, b + i) \in 0..(sz - 1)
      BY <2>2 DEF InRing
    <2> QED
      BY <1>4, <2>3, <2>4 DEF n
  <1>7. \A i \in 1..(u + n) : bg[Wrap(sz, b + i)] = (old \o q)[i] /\ (old \o q)[i] \in S
    <2> SUFFICES ASSUME NEW i \in 1..(u + n)
                 PROVE  bg[Wrap(sz, b + i)] = (old \o q)[i] /\ (old \o q)[i] \in S
      OBVIOUS
    <2>1. old \o q \in Seq(S) /\ Len(old \o q) = u + n
          /\ (old \o q)[i] = IF i <= u THEN old[i] ELSE q[i - u]
      BY <1>3, ConcatProperties DEF n
    <2>2. (old \o q)[i] \in S
      BY <2>1, ElementOfSeq
    <2>3. CASE i <= u
      <3>1. i \in 1..u
        BY <1>1, <2>3
      <3> QED
        BY <1>3, <1>6, <2>1, <2>2, <2>3, <3>1
    <2>4. CASE ~ (i <= u)
      <3>1. i - u \in 1..n /\ u + (i - u) = i
        BY <1>1, <2>4
      <3> QED
        BY <1>5, <2>1, <2>2, <2>4, <3>1
    <2> QED
      BY <2>3, <2>4
  <1>8. Elements(bg, sz, b, f) \in Seq(S) /\ Len(Elements(bg, sz, b, f)) = u + n
        /\ \A i \in 1..(u + n) : Elements(bg, sz, b, f)[i] = bg[Wrap(sz, b + i)]
    <2>1. \A i \in 1..InUse(sz, b, f) : bg[Wrap(sz, b + i)] \in S
      BY <1>2, <1>7
    <2>2. /\ Elements(bg, sz, b, f) \in Seq(S)
          /\ Len(Elements(bg, sz, b, f)) = InUse(sz, b, f)
          /\ \A i \in 1..InUse(sz, b, f) : Elements(bg, sz, b, f)[i] = bg[Wrap(sz, b + i)]
      BY <1>2, <2>1, ElementsType
    <2> QED
      BY <1>2, <2>2
  <1>9. old \o q \in Seq(S) /\ Len(old \o q) = u + n
    BY <1>3, ConcatProperties DEF n
  <1>10. Elements(bg, sz, b, f) = old \o q
    BY <1>7, <1>8, <1>9, SeqEqual
  <1> QED
    BY <1>2, <1>7, <1>10 DEF f, n, old

\* What the beginning passes is the front, and the rest remains.
LEMMA ElementsPop ==
  ASSUME NEW bf, NEW sz, NEW b, NEW e, InRing(sz, b), InRing(sz, e), NEW S,
         \A i \in 1..InUse(sz, b, e) : bf[Wrap(sz, b + i)] \in S,
         NEW n \in 1..InUse(sz, b, e)
  PROVE  LET q == Elements(bf, sz, b, e)
         IN  /\ Elements(bf, sz, Wrap(sz, b + n), e) = SubSeq(q, n + 1, Len(q))
             /\ [i \in 1..n |-> bf[Wrap(sz, b + i)]] = SubSeq(q, 1, n)
             /\ \A i \in 1..InUse(sz, Wrap(sz, b + n), e) :
                    bf[Wrap(sz, Wrap(sz, b + n) + i)] \in S
  <1> DEFINE u == InUse(sz, b, e)
             c == Wrap(sz, b + n)
             q == Elements(bf, sz, b, e)
             r == Elements(bf, sz, c, e)
  <1>1. u \in Nat /\ u <= sz - 1 /\ n \in 1..u /\ sz \in Nat
    BY InUseBounds DEF InRing
  <1>2. InRing(sz, c) /\ InUse(sz, c, e) = u - n
    BY <1>1, BeginMoves
  <1>3. q \in Seq(S) /\ Len(q) = u /\ \A i \in 1..u : q[i] = bf[Wrap(sz, b + i)] /\ q[i] \in S
    <2>1. q \in Seq(S) /\ Len(q) = u /\ \A i \in 1..u : q[i] = bf[Wrap(sz, b + i)]
      BY ElementsType
    <2> QED
      BY <2>1
  <1>4. \A i \in 1..(u - n) : Wrap(sz, c + i) = Wrap(sz, b + (n + i))
    <2> SUFFICES ASSUME NEW i \in 1..(u - n) PROVE Wrap(sz, c + i) = Wrap(sz, b + (n + i))
      OBVIOUS
    <2>1. n \in 0..(sz - 1) /\ i \in 0..(sz - 1) /\ n + i <= sz
      BY <1>1
    <2> QED
      BY <2>1, PlacesDiffer
  <1> HIDE DEF u, c, q, r
  <1>5. \A i \in 1..(u - n) : bf[Wrap(sz, c + i)] = q[n + i] /\ q[n + i] \in S
    BY <1>1, <1>3, <1>4
  <1>6. r \in Seq(S) /\ Len(r) = u - n /\ \A i \in 1..(u - n) : r[i] = q[n + i]
    <2>1. \A i \in 1..InUse(sz, c, e) : bf[Wrap(sz, c + i)] \in S
      BY <1>2, <1>5
    <2>2. /\ r \in Seq(S) /\ Len(r) = InUse(sz, c, e)
          /\ \A i \in 1..InUse(sz, c, e) : r[i] = bf[Wrap(sz, c + i)]
      BY <1>2, <2>1, ElementsType DEF r
    <2> QED
      BY <1>2, <1>5, <2>2
  <1>7. r = SubSeq(q, n + 1, Len(q))
    <2>1. SubSeq(q, n + 1, u) = [i \in 1..(u - n) |-> q[n + i]]
      BY <1>1, <1>3
    <2>2. r = [i \in 1..(u - n) |-> r[i]]
      BY <1>6
    <2> QED
      BY <1>3, <1>6, <2>1, <2>2
  <1>8. [i \in 1..n |-> bf[Wrap(sz, b + i)]] = SubSeq(q, 1, n)
    BY <1>1, <1>3
  <1> QED
    BY <1>2, <1>5, <1>7, <1>8 DEF c, q, r

\* The elements are the same in a buffer where they come first.
LEMMA MovePlaces ==
  ASSUME NEW u \in Nat, NEW to \in Nat, u + 1 <= to
  PROVE  /\ InRing(to + 1, 0) /\ InRing(to + 1, u + 1)
         /\ InUse(to + 1, 0, u + 1) = u
         /\ \A i \in 1..u : Wrap(to + 1, 0 + i) = i
  <1>1. InRing(to + 1, 0) /\ InRing(to + 1, u + 1)
    BY DEF InRing
  <1>2. InUse(to + 1, 0, u + 1) = u
    BY DEF InUse, WrapsAround
  <1>3. \A i \in 1..u : Wrap(to + 1, 0 + i) = i
    BY DEF Wrap
  <1> QED
    BY <1>1, <1>2, <1>3

LEMMA ElementsMove ==
  ASSUME NEW bf, NEW bg, NEW sz, NEW b, NEW e, InRing(sz, b), InRing(sz, e), NEW S,
         NEW u, u = InUse(sz, b, e),
         \A i \in 1..u : bf[Wrap(sz, b + i)] \in S,
         NEW to \in Nat, u + 1 <= to,
         \A i \in 1..u : bg[i] = bf[Wrap(sz, b + i)]
  PROVE  /\ Elements(bg, to + 1, 0, u + 1) = Elements(bf, sz, b, e)
         /\ \A i \in 1..u : bg[Wrap(to + 1, 0 + i)] \in S
  <1> DEFINE q == Elements(bf, sz, b, e)
             r == Elements(bg, to + 1, 0, u + 1)
  <1>1. u \in Nat /\ u + 1 <= to
    BY InUseBounds
  <1>2. q \in Seq(S) /\ Len(q) = u /\ \A i \in 1..u : q[i] = bf[Wrap(sz, b + i)]
    <2> HIDE DEF r
    <2>1. \A i \in 1..InUse(sz, b, e) : bf[Wrap(sz, b + i)] \in S
      OBVIOUS
    <2>2. q \in Seq(S)
      BY <2>1, ElementsType
    <2> QED
      BY <2>2, ElementsAre
  <1> HIDE DEF q, r
  <1>3. /\ InRing(to + 1, 0) /\ InRing(to + 1, u + 1)
        /\ InUse(to + 1, 0, u + 1) = u
        /\ \A i \in 1..u : Wrap(to + 1, 0 + i) = i
    BY <1>1, MovePlaces
  <1>4. \A i \in 1..u : bg[Wrap(to + 1, 0 + i)] = q[i] /\ q[i] \in S
    BY <1>2, <1>3
  <1>5. r \in Seq(S) /\ Len(r) = u /\ \A i \in 1..u : r[i] = q[i]
    <2>1. \A i \in 1..InUse(to + 1, 0, u + 1) : bg[Wrap(to + 1, 0 + i)] \in S
      BY <1>3, <1>4
    <2>2. r \in Seq(S)
      BY <1>3, <2>1, ElementsType DEF r
    <2>3. /\ Len(r) = InUse(to + 1, 0, u + 1)
          /\ \A i \in 1..InUse(to + 1, 0, u + 1) : r[i] = bg[Wrap(to + 1, 0 + i)]
      BY <1>3, ElementsAre DEF r
    <2> QED
      BY <1>3, <1>4, <2>2, <2>3
  <1>6. r = q
    BY <1>2, <1>5, SeqEqual
  <1> QED
    BY <1>4, <1>6 DEF q, r

-----------------------------------------------------------------------------
(* The inductive invariant.  A thread that is at such a place holds the    *)
(* lock, and nobody else does (LockInv); the refcounts count the handles   *)
(* (CountInv); what is in use of the ring are elements (RingInv); and a    *)
(* snapshot tells a producer of no more room, and a consumer of no more    *)
(* elements, than there are (CallInv).                                     *)

BeginAt(t, place) == t \in Consumers /\ place \in {"take", "sleep"}
EndAt(t, place) == \/ t \in Producers /\ place \in {"grow", "copy"}
                   \/ t \in Consumers /\ place = "shrink"

LockInv ==
    /\ beginLock \in Consumers \cup {Nobody}
    /\ endLock \in Threads \cup {Nobody}
    /\ \A t \in Threads : beginLock = t <=> BeginAt(t, pc[t])
    /\ \A t \in Threads : endLock = t <=> EndAt(t, pc[t])

\* Who has a handle: the producers, and the consumers.
Producing == {"idle", "push", "grow", "copy", "signal"}
Consuming == {"idle", "pop", "sleep", "waiting", "take", "trim", "shrink", "end"}
Places == {"making", "dropped", "deciding", "none", "last", "wake", "deallocate", "gone"}
          \cup Producing \cup Consuming
Holders == {p \in Producers : pc[p] \in Producing}
Readers == {c \in Consumers : pc[c] \in Consuming}

PlaceInv ==
    /\ pc \in [Everybody -> Places]
    /\ waiting = {c \in Consumers : pc[c] = "waiting"}
    /\ pc[Owner] \in {"making", "dropped", "deciding", "gone"}
    /\ \A p \in Producers :
           pc[p] \in {"none", "last", "wake", "deallocate", "gone"} \cup Producing
    /\ \A c \in Consumers : pc[c] \in {"none", "last", "deallocate", "gone"} \cup Consuming
    /\ \A c \in Consumers : pc[c] \notin {"none", "idle"} => pc[Owner] = "gone"
    /\ \A c \in Consumers, p \in Producers : pc[c] # "none" => pc[p] # "none"

CountInv ==
    /\ producers = Cardinality(Holders) + (IF pc[Owner] = "making" THEN 1 ELSE 0)
    /\ consumers = Cardinality(Readers) + (IF pc[Owner] \in {"making", "dropped"} THEN 1 ELSE 0)

RingInv ==
    /\ InRing(size, begin) /\ InRing(size, end) /\ size >= MinCap
    /\ DOMAIN buf = 0..(size - 1) /\ \A i \in 0..(size - 1) : buf[i] \in Items \cup {Nobody}
    /\ \A i \in 1..InUse(size, begin, end) : buf[Wrap(size, begin + i)] \in Items

DataInv ==
    /\ deallocated \in Nat
    /\ seen \in [Everybody -> Nat] /\ count \in [Everybody -> Nat]
    /\ pushed \in [Producers -> 0..MaxItems]
    /\ popped \in Seq(Items)

\* What a push in progress, and a pop, may rely on.
PushOk(p) ==
    /\ pc[p] \in {"push", "grow", "copy"} =>
          count[p] \in 1..MaxPush /\ pushed[p] + count[p] <= MaxItems
    /\ pc[p] = "copy" =>
          /\ InRing(size, seen[p])
          /\ InUse(size, begin, end) <= InUse(size, seen[p], end)
          /\ InUse(size, seen[p], end) + count[p] <= Capacity(size)
PopOk(c) ==
    /\ pc[c] \in {"pop", "sleep", "waiting", "take"} => count[c] > 0
    /\ pc[c] = "take" => /\ InRing(size, seen[c])
                         /\ InUse(size, begin, seen[c]) \in 1..InUse(size, begin, end)

CallInv == (\A p \in Producers : PushOk(p)) /\ (\A c \in Consumers : PopOk(c))

PipeInv == DataInv /\ PlaceInv /\ LockInv /\ CountInv /\ RingInv /\ CallInv /\ ZeroIsFinal

-----------------------------------------------------------------------------
(* Who moves, and who does not.                                            *)

\* Only t goes on, and whoever is woken.
Moved(t, to) ==
    /\ pc' \in [Everybody -> Places]
    /\ waiting' = {c \in Consumers : pc'[c] = "waiting"}
    /\ pc'[t] = to
    /\ \A u \in Everybody : \/ u = t \/ pc'[u] = pc[u]
                            \/ u \in waiting /\ pc'[u] = "pop"

LEMMA GoesMoves ==
  ASSUME PlaceInv, NEW t \in Everybody, t \notin waiting, NEW to \in Places, to # "waiting",
         Goes(t, to), UNCHANGED waiting
  PROVE  Moved(t, to) /\ \A u \in Everybody : u # t => pc'[u] = pc[u]
  <1>1. \A u \in Everybody : pc'[u] = IF u = t THEN to ELSE pc[u]
    BY DEF PlaceInv, Goes
  <1>2. pc' \in [Everybody -> Places]
    BY DEF PlaceInv, Goes
  <1>3. waiting' = {c \in Consumers : pc'[c] = "waiting"}
    BY <1>1 DEF PlaceInv, Everybody, Threads
  <1> QED
    BY <1>1, <1>2, <1>3 DEF Moved

LEMMA BroadcastMoves ==
  ASSUME PlaceInv, NEW t \in Everybody, t \notin waiting, NEW to \in Places, to # "waiting",
         Broadcast(t, to)
  PROVE  Moved(t, to)
  <1>1. \A u \in Everybody : pc'[u] = IF u \in waiting THEN "pop" ELSE IF u = t THEN to ELSE pc[u]
    BY DEF Broadcast
  <1>2. pc' \in [Everybody -> Places]
    BY DEF PlaceInv, Broadcast, Places, Consuming
  <1>3. waiting' = {c \in Consumers : pc'[c] = "waiting"}
    BY <1>1 DEF PlaceInv, Everybody, Threads, Broadcast
  <1> QED
    BY <1>1, <1>2, <1>3 DEF Moved

LEMMA SignalMoves ==
  ASSUME PlaceInv, NEW t \in Everybody, t \notin waiting, NEW to \in Places, to # "waiting",
         Signal(t, to)
  PROVE  Moved(t, to)
  <1>1. CASE waiting = {}
    BY <1>1, GoesMoves DEF Signal
  <1>2. CASE waiting # {}
    <2>1. PICK c \in waiting : /\ pc' = [pc EXCEPT ![c] = "pop", ![t] = to]
                               /\ waiting' = waiting \ {c}
      BY <1>2 DEF Signal
    <2>2. c \in Everybody /\ c # t
      BY DEF PlaceInv, Everybody, Threads
    <2>3. \A u \in Everybody : pc'[u] = IF u = t THEN to ELSE IF u = c THEN "pop" ELSE pc[u]
      BY <2>1, <2>2 DEF PlaceInv
    <2>4. pc' \in [Everybody -> Places]
      BY <2>1 DEF PlaceInv, Places, Consuming
    <2>5. waiting' = {d \in Consumers : pc'[d] = "waiting"}
      BY <2>1, <2>3 DEF PlaceInv, Everybody, Threads
    <2> QED
      BY <2>2, <2>3, <2>4, <2>5 DEF Moved
  <1> QED
    BY <1>1, <1>2

LEMMA SleepMoves ==
  ASSUME PlaceInv, NEW c \in Consumers, PopSleeps(c)
  PROVE  Moved(c, "waiting") /\ \A u \in Everybody : u # c => pc'[u] = pc[u]
  <1>1. \A u \in Everybody : pc'[u] = IF u = c THEN "waiting" ELSE pc[u]
    BY DEF PlaceInv, PopSleeps, Goes
  <1>2. pc' \in [Everybody -> Places]
    BY DEF PlaceInv, PopSleeps, Goes, Places, Consuming
  <1>3. waiting' = {d \in Consumers : pc'[d] = "waiting"}
    BY <1>1 DEF PlaceInv, Everybody, Threads, PopSleeps
  <1> QED
    BY <1>1, <1>2, <1>3 DEF Moved, Everybody, Threads

LEMMA WakeMoves ==
  ASSUME PlaceInv, NEW c \in Consumers, PopWakes(c)
  PROVE  pc[c] = "waiting" /\ Moved(c, "pop") /\ \A u \in Everybody : u # c => pc'[u] = pc[u]
  <1>1. \A u \in Everybody : pc'[u] = IF u = c THEN "pop" ELSE pc[u]
    BY DEF PlaceInv, PopWakes, Goes
  <1>2. pc' \in [Everybody -> Places]
    BY DEF PlaceInv, PopWakes, Goes, Places, Consuming
  <1>3. waiting' = {d \in Consumers : pc'[d] = "waiting"}
    BY <1>1 DEF PlaceInv, Everybody, Threads, PopWakes
  <1> QED
    BY <1>1, <1>2, <1>3 DEF Moved, Everybody, Threads, PlaceInv, PopWakes

-----------------------------------------------------------------------------
(* The handles are counted.                                                *)

LEMMA HoldersCount ==
  ASSUME PlaceInv, NEW t \in Everybody, NEW to \in Places, Moved(t, to)
  PROVE  /\ Cardinality(Holders) \in Nat /\ Cardinality(Holders') \in Nat
         /\ (t \in Producers => (pc[t] \in Producing <=> to \in Producing)) =>
                Cardinality(Holders') = Cardinality(Holders)
         /\ t \in Producers /\ pc[t] \notin Producing /\ to \in Producing =>
                Cardinality(Holders') = Cardinality(Holders) + 1
         /\ t \in Producers /\ pc[t] \in Producing /\ to \notin Producing =>
                Cardinality(Holders) = Cardinality(Holders') + 1
  <1>1. IsFiniteSet(Holders) /\ IsFiniteSet(Holders')
    BY FS_Subset, FiniteAssumption DEF Holders
  <1>2. \A p \in Producers : p # t => (p \in Holders <=> p \in Holders')
    BY ThreadAssumption DEF Holders, Moved, PlaceInv, Everybody, Threads
  <1>3. t \in Producers => (t \in Holders <=> pc[t] \in Producing)
                           /\ (t \in Holders' <=> to \in Producing)
    BY DEF Holders, Moved
  <1>4. CASE t \in Producers => (pc[t] \in Producing <=> to \in Producing)
    <2>1. Holders' = Holders
      BY <1>2, <1>3, <1>4 DEF Holders
    <2> QED
      BY <1>1, <1>4, <2>1, FS_CardinalityType
  <1>5. CASE t \in Producers /\ pc[t] \notin Producing /\ to \in Producing
    <2>1. Holders' = Holders \cup {t} /\ t \notin Holders
      BY <1>2, <1>3, <1>5 DEF Holders
    <2> QED
      BY <1>1, <1>5, <2>1, FS_CardinalityType, FS_AddElement
  <1>6. CASE t \in Producers /\ pc[t] \in Producing /\ to \notin Producing
    <2>1. Holders = Holders' \cup {t} /\ t \notin Holders'
      BY <1>2, <1>3, <1>6 DEF Holders
    <2> QED
      BY <1>1, <1>6, <2>1, FS_CardinalityType, FS_AddElement
  <1> QED
    BY <1>4, <1>5, <1>6

LEMMA ReadersCount ==
  ASSUME PlaceInv, NEW t \in Everybody, NEW to \in Places, Moved(t, to)
  PROVE  /\ Cardinality(Readers) \in Nat /\ Cardinality(Readers') \in Nat
         /\ (t \in Consumers => (pc[t] \in Consuming <=> to \in Consuming)) =>
                Cardinality(Readers') = Cardinality(Readers)
         /\ t \in Consumers /\ pc[t] \notin Consuming /\ to \in Consuming =>
                Cardinality(Readers') = Cardinality(Readers) + 1
         /\ t \in Consumers /\ pc[t] \in Consuming /\ to \notin Consuming =>
                Cardinality(Readers) = Cardinality(Readers') + 1
  <1>1. IsFiniteSet(Readers) /\ IsFiniteSet(Readers')
    BY FS_Subset, FiniteAssumption DEF Readers
  <1>2. \A c \in Consumers : c # t => (c \in Readers <=> c \in Readers')
    BY DEF Readers, Moved, PlaceInv, Everybody, Threads, Consuming
  <1>3. t \in Consumers => (t \in Readers <=> pc[t] \in Consuming)
                           /\ (t \in Readers' <=> to \in Consuming)
    BY DEF Readers, Moved
  <1>4. CASE t \in Consumers => (pc[t] \in Consuming <=> to \in Consuming)
    <2>1. Readers' = Readers
      BY <1>2, <1>3, <1>4 DEF Readers
    <2> QED
      BY <1>1, <1>4, <2>1, FS_CardinalityType
  <1>5. CASE t \in Consumers /\ pc[t] \notin Consuming /\ to \in Consuming
    <2>1. Readers' = Readers \cup {t} /\ t \notin Readers
      BY <1>2, <1>3, <1>5 DEF Readers
    <2> QED
      BY <1>1, <1>5, <2>1, FS_CardinalityType, FS_AddElement
  <1>6. CASE t \in Consumers /\ pc[t] \in Consuming /\ to \notin Consuming
    <2>1. Readers = Readers' \cup {t} /\ t \notin Readers'
      BY <1>2, <1>3, <1>6 DEF Readers
    <2> QED
      BY <1>1, <1>6, <2>1, FS_CardinalityType, FS_AddElement
  <1> QED
    BY <1>4, <1>5, <1>6

\* Who has a handle is counted.
LEMMA HandleCounted ==
  ASSUME PlaceInv
  PROVE  /\ Cardinality(Holders) \in 0..Cardinality(Producers)
         /\ Cardinality(Readers) \in 0..Cardinality(Consumers)
         /\ \A p \in Producers : pc[p] \in Producing => Cardinality(Holders) > 0
         /\ \A c \in Consumers : pc[c] \in Consuming => Cardinality(Readers) > 0
  <1>1. Holders \subseteq Producers /\ Readers \subseteq Consumers
    BY DEF Holders, Readers
  <1>2. /\ Cardinality(Holders) \in Nat /\ Cardinality(Producers) \in Nat
        /\ Cardinality(Holders) <= Cardinality(Producers)
        /\ Cardinality(Holders) = 0 <=> Holders = {}
    BY <1>1, FiniteAssumption, FS_Subset, FS_CardinalityType, FS_EmptySet
  <1>3. /\ Cardinality(Readers) \in Nat /\ Cardinality(Consumers) \in Nat
        /\ Cardinality(Readers) <= Cardinality(Consumers)
        /\ Cardinality(Readers) = 0 <=> Readers = {}
    BY <1>1, FiniteAssumption, FS_Subset, FS_CardinalityType, FS_EmptySet
  <1>4. \A p \in Producers : pc[p] \in Producing => Holders # {}
    BY DEF Holders
  <1>5. \A c \in Consumers : pc[c] \in Consuming => Readers # {}
    BY DEF Readers
  <1> QED
    BY <1>2, <1>3, <1>4, <1>5

-----------------------------------------------------------------------------
(* What remains as it was when one thread moves.                           *)

\* The threads and the owner are different, and who waits is a consumer.
LEMMA WhoIsWho ==
  ASSUME PlaceInv
  PROVE  /\ Owner \in Everybody /\ Owner \notin Threads /\ Owner \notin waiting
         /\ \A p \in Producers : /\ p \in Everybody /\ p \in Threads /\ p # Owner /\ p # Nobody
                                 /\ p \notin Consumers /\ p \notin waiting
         /\ \A c \in Consumers : /\ c \in Everybody /\ c \in Threads /\ c # Owner /\ c # Nobody
                                 /\ c \notin Producers /\ (c \in waiting <=> pc[c] = "waiting")
  BY ThreadAssumption DEF PlaceInv, Everybody, Threads

LEMMA PlaceStep ==
  ASSUME PlaceInv, NEW t \in Everybody, NEW to \in Places, Moved(t, to),
         t = Owner => pc[Owner] # "gone" /\ to \in {"dropped", "deciding", "gone"},
         t \in Producers => to \in {"last", "wake", "deallocate", "gone"} \cup Producing,
         t \in Consumers =>
             /\ to \in {"last", "deallocate", "gone"} \cup Consuming
             /\ to = "idle" \/ pc[Owner] = "gone"
             /\ pc[t] # "none" \/ \A p \in Producers : pc[p] # "none"
  PROVE  PlaceInv'
  <1>1. \A u \in Everybody : u # t =>
            pc'[u] = pc[u] \/ (u \in Consumers /\ pc[u] = "waiting" /\ pc'[u] = "pop")
    BY DEF Moved, PlaceInv, Everybody, Threads
  <1>2. pc'[t] = to
    BY DEF Moved
  <1>3. pc'[Owner] \in {"making", "dropped", "deciding", "gone"}
    BY <1>1, <1>2, WhoIsWho DEF PlaceInv, Threads
  <1>4. pc[Owner] = "gone" => pc'[Owner] = "gone"
    BY <1>1, WhoIsWho DEF Threads
  <1>5. \A p \in Producers :
            /\ pc'[p] \in {"none", "last", "wake", "deallocate", "gone"} \cup Producing
            /\ pc[p] # "none" => pc'[p] # "none"
    BY <1>1, <1>2, WhoIsWho DEF PlaceInv, Producing
  <1>6. \A c \in Consumers :
            /\ pc'[c] \in {"none", "last", "deallocate", "gone"} \cup Consuming
            /\ pc'[c] \notin {"none", "idle"} => pc[Owner] = "gone"
            /\ pc'[c] # "none" => \A p \in Producers : pc[p] # "none"
    BY <1>1, <1>2, WhoIsWho DEF PlaceInv, Consuming
  <1> QED
    BY <1>3, <1>4, <1>5, <1>6 DEF PlaceInv, Moved

LEMMA LockStep ==
  ASSUME PlaceInv, LockInv, NEW t \in Everybody, NEW to \in Places, Moved(t, to),
         \/ (beginLock' = beginLock /\ (BeginAt(t, to) <=> BeginAt(t, pc[t])))
         \/ (beginLock = Nobody /\ beginLock' = t /\ BeginAt(t, to))
         \/ (BeginAt(t, pc[t]) /\ beginLock' = Nobody /\ ~BeginAt(t, to)),
         \/ (endLock' = endLock /\ (EndAt(t, to) <=> EndAt(t, pc[t])))
         \/ (endLock = Nobody /\ endLock' = t /\ EndAt(t, to))
         \/ (EndAt(t, pc[t]) /\ endLock' = Nobody /\ ~EndAt(t, to))
  PROVE  LockInv'
  <1>1. \A u \in Threads : u # t => /\ BeginAt(u, pc'[u]) <=> BeginAt(u, pc[u])
                                    /\ EndAt(u, pc'[u]) <=> EndAt(u, pc[u])
    BY WhoIsWho DEF Moved, PlaceInv, BeginAt, EndAt, Everybody, Threads
  <1>2. pc'[t] = to
    BY DEF Moved
  <1>3. Nobody \notin Threads
    BY ThreadAssumption DEF Threads
  <1>4. \A place : /\ BeginAt(t, place) => t \in Consumers /\ t \in Threads
                   /\ EndAt(t, place) => t \in Threads
    BY DEF BeginAt, EndAt, Threads
  <1>5. beginLock' \in Consumers \cup {Nobody}
    BY <1>4 DEF LockInv
  <1>6. \A u \in Threads : beginLock' = u <=> BeginAt(u, pc'[u])
    BY <1>1, <1>2, <1>3, <1>4 DEF LockInv
  <1>7. endLock' \in Threads \cup {Nobody}
    BY <1>4 DEF LockInv
  <1>8. \A u \in Threads : endLock' = u <=> EndAt(u, pc'[u])
    BY <1>1, <1>2, <1>3, <1>4 DEF LockInv
  <1> QED
    BY <1>5, <1>6, <1>7, <1>8 DEF LockInv

\* A step that leaves the ring alone disturbs nobody else's call.
LEMMA QuietStep ==
  ASSUME PipeInv, NEW t \in Everybody, NEW to \in Places, Moved(t, to),
         UNCHANGED ringVars, UNCHANGED history,
         \A u \in Everybody : u # t => seen'[u] = seen[u] /\ count'[u] = count[u],
         t \in Producers => PushOk(t)', t \in Consumers => PopOk(t)'
  PROVE  RingInv' /\ CallInv'
  <1>1. RingInv'
    BY DEF PipeInv, RingInv, ringVars
  <1>2. ASSUME NEW p \in Producers, p # t PROVE PushOk(p)'
    <2>1. pc'[p] = pc[p] /\ seen'[p] = seen[p] /\ count'[p] = count[p]
      BY <1>2, WhoIsWho DEF PipeInv, Moved
    <2> QED
      BY <2>1 DEF PipeInv, CallInv, PushOk, ringVars, history
  <1>3. ASSUME NEW c \in Consumers, c # t PROVE PopOk(c)'
    <2>1. pc'[c] = pc[c] \/ (pc[c] = "waiting" /\ pc'[c] = "pop")
      BY <1>3, WhoIsWho DEF PipeInv, Moved
    <2>2. seen'[c] = seen[c] /\ count'[c] = count[c]
      BY <1>3, WhoIsWho DEF PipeInv
    <2> QED
      BY <2>1, <2>2 DEF PipeInv, CallInv, PopOk, ringVars, history
  <1> QED
    BY <1>1, <1>2, <1>3 DEF CallInv

\* Who has seen the end, and who will push nothing more.
Ended == {"end", "last", "deallocate", "gone"}
Finished == {"last", "wake", "deallocate", "gone"}

LEMMA ZeroStep ==
  ASSUME PlaceInv, ZeroIsFinal, NEW t \in Everybody, NEW to \in Places, Moved(t, to),
         InUse(size, begin, end) = 0 => InUse(size', begin', end') = 0,
         t \in Consumers /\ to \in Ended =>
             \/ pc[t] \in Ended
             \/ InUse(size, begin, end) = 0 /\ \A p \in Producers : pc[p] \in Finished,
         t \in Producers /\ pc[t] \in Finished => to \in Finished
  PROVE  ZeroIsFinal'
  <1>1. \A c \in Consumers : c # t => pc'[c] = pc[c] \/ pc'[c] \notin Ended
    BY WhoIsWho DEF Moved, Ended
  <1>2. \A p \in Producers : p # t => pc'[p] = pc[p]
    BY WhoIsWho DEF Moved
  <1>3. pc'[t] = to
    BY DEF Moved
  <1>4. ASSUME NEW c \in Consumers, pc'[c] \in Ended
        PROVE  InUse(size, begin, end) = 0 /\ \A p \in Producers : pc[p] \in Finished
    <2>1. CASE pc[c] \in Ended
      BY <2>1 DEF ZeroIsFinal, Ended, Finished
    <2>2. CASE pc[c] \notin Ended
      BY <1>1, <1>3, <1>4, <2>2
    <2> QED
      BY <2>1, <2>2
  <1>5. (\A p \in Producers : pc[p] \in Finished) => \A p \in Producers : pc'[p] \in Finished
    BY <1>2, <1>3
  <1> QED
    BY <1>4, <1>5 DEF ZeroIsFinal, Ended, Finished


-----------------------------------------------------------------------------
(* The steps that change the ring.                                         *)

Queued == Elements(buf, size, begin, end)
Used == InUse(size, begin, end)

\* process_push appends the elements that were announced.
LEMMA CopyStep ==
  ASSUME PipeInv, NEW p \in Producers, PushCopies(p)
  PROVE  /\ RingInv' /\ Used' = Used + count[p]
         /\ size' = size /\ begin' = begin /\ InRing(size, end')
         /\ \A b : InRing(size, b) /\ InUse(size, b, end) + count[p] <= size - 1 =>
                InUse(size, b, end') = InUse(size, b, end) + count[p]
         /\ Queued' = Queued \o Queue!NextOf(p, pushed[p], count[p])
         /\ pushed' = [pushed EXCEPT ![p] = @ + count[p]]
         /\ pushed[p] + count[p] <= MaxItems /\ count[p] \in 1..MaxPush
  <1> DEFINE n == count[p]
             q == [i \in 1..n |-> <<p, pushed[p] + i>>]
             slot(i) == PushSlot(size, seen[p], end, n, i)
  <1>1. /\ InRing(size, begin) /\ InRing(size, end) /\ InRing(size, seen[p])
        /\ n \in 1..MaxPush /\ pushed[p] + n <= MaxItems
        /\ InUse(size, begin, end) <= InUse(size, seen[p], end)
        /\ InUse(size, seen[p], end) + n <= size - 1
        /\ size \in Nat /\ n \in Nat /\ pushed[p] \in Nat
    BY BoundAssumption DEF PipeInv, CallInv, PushOk, RingInv, InRing, PushCopies, Capacity, DataInv
  <1>2. /\ NewEnd(size, seen[p], end, n) = Wrap(size, end + n)
        /\ \A i \in 1..n : slot(i) = Wrap(size, end + (i - 1))
    BY <1>1, PushMoves
  <1>3. /\ buf' = [x \in 0..size - 1 |->
                     IF \E i \in 1..n : slot(i) = x
                     THEN <<p, pushed[p] + (CHOOSE i \in 1..n : slot(i) = x)>> ELSE buf[x]]
        /\ end' = NewEnd(size, seen[p], end, n)
        /\ size' = size /\ begin' = begin
        /\ pushed' = [pushed EXCEPT ![p] = @ + n]
    BY DEF PushCopies
  <1>4. InUse(size, begin, end) \in Nat /\ InUse(size, begin, end) + n <= size - 1
    <2>1. InUse(size, begin, end) \in Nat /\ InUse(size, seen[p], end) \in Nat
      BY <1>1, InUseBounds
    <2> QED
      BY <1>1, <2>1
  <1> HIDE DEF n, slot
  <1>5. \A b : InRing(size, b) /\ InUse(size, b, end) + n <= size - 1 =>
            InRing(size, end') /\ InUse(size, b, end') = InUse(size, b, end) + n
    BY <1>1, <1>2, <1>3, EndMoves
  <1>6. q \in Seq(Items) /\ Len(q) = n /\ \A i \in 1..n : q[i] = <<p, pushed[p] + i>>
    <2>1. \A i \in 1..n : <<p, pushed[p] + i>> \in Items
      BY <1>1, BoundAssumption DEF Items
    <2>2. q \in [1..n -> Items]
      BY <2>1
    <2>3. q \in Seq(Items) /\ Len(q) = n
      BY <1>1, <2>2
    <2> QED
      BY <2>3
  <1>7. \A i, j \in 1..n : slot(i) = slot(j) => i = j
    <2> SUFFICES ASSUME NEW i \in 1..n, NEW j \in 1..n, slot(i) = slot(j) PROVE i = j
      OBVIOUS
    <2>1. i - 1 \in 0..(size - 1) /\ j - 1 \in 0..(size - 1)
      BY <1>1, <1>4
    <2>2. i - 1 = j - 1
      BY <1>1, <1>2, <2>1, PlacesDiffer
    <2> QED
      BY <2>2
  <1>8. \A i \in 1..n : slot(i) \in 0..(size - 1)
    <2> SUFFICES ASSUME NEW i \in 1..n PROVE slot(i) \in 0..(size - 1)
      OBVIOUS
    <2>1. i - 1 \in 0..(size - 1)
      BY <1>1, <1>4
    <2>2. InRing(size, Wrap(size, end + (i - 1)))
      BY <1>1, <2>1, PlacesDiffer
    <2> QED
      BY <1>2, <2>2 DEF InRing
  <1>9. \A i \in 1..n : buf'[slot(i)] = q[i]
    <2> SUFFICES ASSUME NEW i \in 1..n PROVE buf'[slot(i)] = q[i]
      OBVIOUS
    <2>1. (CHOOSE j \in 1..n : slot(j) = slot(i)) = i
      BY <1>7
    <2> QED
      BY <1>3, <1>6, <1>8, <2>1
  <1>10. \A x \in 0..(size - 1) : (\A i \in 1..n : slot(i) # x) => buf'[x] = buf[x]
    BY <1>3
  <1> HIDE DEF q
  <1>11. \A i \in 1..InUse(size, begin, end) : buf[Wrap(size, begin + i)] \in Items
    BY DEF PipeInv, RingInv
  <1>12. /\ Elements(buf', size, begin, Wrap(size, end + Len(q))) = Elements(buf, size, begin, end) \o q
         /\ \A i \in 1..InUse(size, begin, Wrap(size, end + Len(q))) :
                buf'[Wrap(size, begin + i)] \in Items
    <2>1. \A i \in 1..Len(q) : buf'[Wrap(size, end + (i - 1))] = q[i]
      BY <1>2, <1>6, <1>9
    <2>2. \A x \in 0..(size - 1) :
              (\A i \in 1..Len(q) : Wrap(size, end + (i - 1)) # x) => buf'[x] = buf[x]
      BY <1>2, <1>6, <1>10
    <2> QED
      BY <1>1, <1>4, <1>6, <1>11, <2>1, <2>2, ElementsPush
  <1>13. Queued' = Queued \o q /\ \A i \in 1..Used' : buf'[Wrap(size', begin' + i)] \in Items
    BY <1>2, <1>3, <1>6, <1>12 DEF Queued, Used
  <1>14. DOMAIN buf' = 0..(size - 1) /\ \A x \in 0..(size - 1) : buf'[x] \in Items \cup {Nobody}
    <2>1. DOMAIN buf' = 0..(size - 1)
      BY <1>3
    <2>2. ASSUME NEW x \in 0..(size - 1) PROVE buf'[x] \in Items \cup {Nobody}
      <3>1. CASE \E i \in 1..n : slot(i) = x
        <4>1. PICK i \in 1..n : slot(i) = x
          BY <3>1
        <4> QED
          BY <1>6, <1>9, <4>1, ElementOfSeq
      <3>2. CASE \A i \in 1..n : slot(i) # x
        BY <1>10, <3>2 DEF PipeInv, RingInv
      <3> QED
        BY <3>1, <3>2
    <2> QED
      BY <2>1, <2>2
  <1>15. InRing(size, end') /\ Used' = Used + n
    BY <1>1, <1>3, <1>4, <1>5 DEF Used
  <1>16. RingInv'
    BY <1>1, <1>3, <1>13, <1>14, <1>15 DEF PipeInv, RingInv, Used
  <1>17. q = Queue!NextOf(p, pushed[p], n)
    BY DEF q, Queue!NextOf
  <1> QED
    BY <1>1, <1>3, <1>5, <1>13, <1>15, <1>16, <1>17 DEF n


\* pop_without_locking takes elements from the front, at least one.
LEMMA TakeStep ==
  ASSUME PipeInv, NEW c \in Consumers, PopTakes(c)
  PROVE  /\ RingInv'
         /\ \E n \in 1..Used :
               /\ Used' = Used - n
               /\ \A e : InRing(size, e) /\ n <= InUse(size, begin, e) =>
                      InUse(size, begin', e) = InUse(size, begin, e) - n
               /\ popped' = popped \o SubSeq(Queued, 1, n)
               /\ Queued' = SubSeq(Queued, n + 1, Len(Queued))
         /\ Used = Len(Queued) /\ Queued \in Seq(Items)
         /\ size' = size /\ end' = end /\ InRing(size, begin')
  <1> DEFINE n == Least(count[c], InUse(size, begin, seen[c]))
  <1>1. /\ InRing(size, begin) /\ InRing(size, end) /\ InRing(size, seen[c])
        /\ count[c] \in Nat /\ count[c] > 0 /\ size \in Nat
        /\ InUse(size, begin, seen[c]) \in 1..Used
        /\ \A i \in 1..Used : buf[Wrap(size, begin + i)] \in Items
    BY WhoIsWho DEF InRing, PipeInv, CallInv, PopOk, RingInv, PopTakes, DataInv, Used
  <1>2. Used \in 0..(size - 1)
    BY <1>1, InUseBounds DEF Used
  <1>3. n \in 1..Used /\ n \in 0..(size - 1)
    <2> DEFINE k == count[c]
               m == InUse(size, begin, seen[c])
    <2>1. k \in Nat /\ k > 0 /\ m \in 1..Used /\ n = IF k < m THEN k ELSE m
      BY <1>1 DEF Least
    <2> HIDE DEF k, m, n
    <2> QED
      BY <1>1, <1>2, <2>1
  <1>4. /\ popped' = popped \o [i \in 1..n |-> buf[PopSlot(size, begin, n, i)]]
        /\ begin' = NewBegin(size, begin, n)
        /\ buf' = buf /\ size' = size /\ end' = end
    BY DEF PopTakes
  <1> HIDE DEF n
  <1>5. /\ begin' = Wrap(size, begin + n)
        /\ \A i \in 1..n : PopSlot(size, begin, n, i) = Wrap(size, begin + i)
    BY <1>1, <1>3, <1>4, PopMoves
  <1>6. [i \in 1..n |-> buf[PopSlot(size, begin, n, i)]] = [i \in 1..n |-> buf[Wrap(size, begin + i)]]
    BY <1>5
  <1>7. /\ Elements(buf, size, Wrap(size, begin + n), end) = SubSeq(Queued, n + 1, Len(Queued))
        /\ [i \in 1..n |-> buf[Wrap(size, begin + i)]] = SubSeq(Queued, 1, n)
        /\ \A i \in 1..InUse(size, Wrap(size, begin + n), end) :
               buf[Wrap(size, Wrap(size, begin + n) + i)] \in Items
    BY <1>1, <1>3, ElementsPop DEF Queued, Used
  <1>8. Queued' = SubSeq(Queued, n + 1, Len(Queued))
    BY <1>4, <1>5, <1>7 DEF Queued
  <1>9. popped' = popped \o SubSeq(Queued, 1, n)
    BY <1>4, <1>6, <1>7
  <1>10. \A e : InRing(size, e) /\ n <= InUse(size, begin, e) =>
             InRing(size, begin') /\ InUse(size, begin', e) = InUse(size, begin, e) - n
    <2> SUFFICES ASSUME NEW e, InRing(size, e), n <= InUse(size, begin, e)
                 PROVE  InRing(size, begin') /\ InUse(size, begin', e) = InUse(size, begin, e) - n
      OBVIOUS
    <2>1. InUse(size, begin, e) \in Nat
      BY <1>1, InUseBounds
    <2>2. n \in 0..InUse(size, begin, e)
      BY <1>3, <2>1
    <2> QED
      BY <1>1, <1>5, <2>2, BeginMoves
  <1>11. InRing(size, begin') /\ Used' = Used - n
    BY <1>1, <1>2, <1>3, <1>4, <1>10 DEF Used
  <1>12. RingInv'
    BY <1>1, <1>4, <1>5, <1>7, <1>11 DEF PipeInv, RingInv
  <1>13. Queued \in Seq(Items) /\ Used = Len(Queued)
    BY <1>1, ElementsType DEF Queued, Used
  <1> QED
    BY <1>3, <1>4, <1>8, <1>9, <1>10, <1>11, <1>12, <1>13

\* resize_buffer moves the elements, if there is room for them and one more.
LEMMA ResizeStep ==
  ASSUME PipeInv, NEW to \in Nat, ResizeBuffer(to), to > MinCap => Used + 1 <= to
  PROVE  /\ RingInv' /\ Used' = Used /\ Queued' = Queued
         /\ to > MinCap => size' = to + 1
  <1>1. CASE to <= MinCap
    BY <1>1, CapAssumption DEF ResizeBuffer, ringVars, RingInv, PipeInv, Used, Queued
  <1>2. CASE ~ (to <= MinCap)
    <2>1. /\ InRing(size, begin) /\ InRing(size, end)
          /\ \A i \in 1..Used : buf[Wrap(size, begin + i)] \in Items
          /\ \A x \in 0..(size - 1) : buf[x] \in Items \cup {Nobody}
      BY DEF PipeInv, RingInv, Used
    <2>2. Used \in 0..(size - 1) /\ Used + 1 <= to /\ to > MinCap
      BY <1>2, <2>1, CapAssumption, InUseBounds DEF Used
    <2>3. /\ size' = to + 1 /\ begin' = 0 /\ end' = Used + 1
          /\ buf' = [i \in 0..to |-> IF i <= Used THEN buf[Wrap(size, begin + i)] ELSE Nobody]
      BY <1>2 DEF ResizeBuffer, Used
    <2>4. \A i \in 1..Used : buf'[i] = buf[Wrap(size, begin + i)]
      BY <2>2, <2>3
    <2>5. /\ InRing(to + 1, 0) /\ InRing(to + 1, Used + 1)
          /\ InUse(to + 1, 0, Used + 1) = Used
      BY <2>2, MovePlaces
    <2>6. /\ Elements(buf', to + 1, 0, Used + 1) = Queued
          /\ \A i \in 1..Used : buf'[Wrap(to + 1, 0 + i)] \in Items
      <3> DEFINE u == Used
                 bg == buf'
      <3>1. /\ u = InUse(size, begin, end) /\ u + 1 <= to
            /\ \A i \in 1..u : buf[Wrap(size, begin + i)] \in Items
            /\ \A i \in 1..u : bg[i] = buf[Wrap(size, begin + i)]
        BY <2>1, <2>2, <2>4 DEF Used
      <3> HIDE DEF u, bg
      <3>2. /\ Elements(bg, to + 1, 0, u + 1) = Elements(buf, size, begin, end)
            /\ \A i \in 1..u : bg[Wrap(to + 1, 0 + i)] \in Items
        BY <2>1, <3>1, ElementsMove
      <3> QED
        BY <3>2 DEF u, bg, Queued
    <2>7. \A i \in 0..to : buf'[i] \in Items \cup {Nobody}
      <3> SUFFICES ASSUME NEW i \in 0..to PROVE buf'[i] \in Items \cup {Nobody}
        OBVIOUS
      <3>1. CASE i <= Used
        <4>1. i \in 0..(size - 1)
          BY <2>1, <2>2, <3>1 DEF InRing
        <4>2. InRing(size, Wrap(size, begin + i))
          BY <2>1, <4>1, PlacesDiffer
        <4> QED
          BY <2>1, <2>3, <3>1, <4>2 DEF InRing
      <3>2. CASE ~ (i <= Used)
        BY <2>3, <3>2
      <3> QED
        BY <3>1, <3>2
    <2>8. Used' = Used /\ Queued' = Queued
      BY <2>3, <2>5, <2>6 DEF Used, Queued
    <2>9. size' >= MinCap /\ DOMAIN buf' = 0..(size' - 1)
          /\ \A i \in 0..(size' - 1) : buf'[i] \in Items \cup {Nobody}
      <3>1. to + 1 >= MinCap /\ (to + 1) - 1 = to
        BY <2>2, CapAssumption
      <3> QED
        BY <2>3, <2>7, <3>1
    <2>10. InRing(size', begin') /\ InRing(size', end')
          /\ \A i \in 1..InUse(size', begin', end') : buf'[Wrap(size', begin' + i)] \in Items
      BY <2>3, <2>5, <2>6
    <2> QED
      BY <2>3, <2>8, <2>9, <2>10 DEF RingInv
  <1> QED
    BY <1>1, <1>2


LEMMA MakeProducerKept == ASSUME PipeInv, NEW p \in Producers, MakeProducer(p) PROVE PipeInv'
  <1> DEFINE to == "idle"
  <1>1. DataInv /\ PlaceInv /\ LockInv /\ CountInv /\ RingInv /\ CallInv /\ ZeroIsFinal
    BY DEF PipeInv
  <1>2. p \in Everybody /\ p \notin waiting
    BY <1>1, WhoIsWho DEF MakeProducer, Everybody
  <1>3. to \in Places /\ Moved(p, to)
    BY <1>1, <1>2, GoesMoves DEF MakeProducer, Places, Producing, localVars
  <1>4. DataInv'
    BY <1>1, <1>2 DEF DataInv, MakeProducer, localVars, history
  <1>5. PlaceInv'
    BY <1>1, <1>2, <1>3, WhoIsWho, PlaceStep DEF MakeProducer, Producing
  <1>6. LockInv'
    BY <1>1, <1>2, <1>3, WhoIsWho, LockStep DEF MakeProducer, BeginAt, EndAt, lockVars
  <1>7. CountInv'
    BY <1>1, <1>2, <1>3, WhoIsWho, HoldersCount, ReadersCount
       DEF MakeProducer, CountInv, Producing, Consuming, Moved
  <1>8. RingInv' /\ CallInv'
    BY <1>1, <1>2, <1>3, WhoIsWho, QuietStep
       DEF MakeProducer, CallInv, PushOk, Moved, ringVars, localVars, history
  <1>9. ZeroIsFinal'
    BY <1>1, <1>2, <1>3, WhoIsWho, ZeroStep DEF MakeProducer, Ended, Finished, ringVars
  <1> QED
    BY <1>4, <1>5, <1>6, <1>7, <1>8, <1>9 DEF PipeInv

LEMMA MakeConsumerKept == ASSUME PipeInv, NEW c \in Consumers, MakeConsumer(c) PROVE PipeInv'
  <1> DEFINE to == "idle"
  <1>1. DataInv /\ PlaceInv /\ LockInv /\ CountInv /\ RingInv /\ CallInv /\ ZeroIsFinal
    BY DEF PipeInv
  <1>2. c \in Everybody /\ c \notin waiting
    BY <1>1, WhoIsWho DEF MakeConsumer, Everybody
  <1>3. to \in Places /\ Moved(c, to)
    BY <1>1, <1>2, GoesMoves DEF MakeConsumer, Places, Consuming, localVars
  <1>4. DataInv'
    BY <1>1, <1>2 DEF DataInv, MakeConsumer, localVars, history
  <1>5. PlaceInv'
    BY <1>1, <1>2, <1>3, WhoIsWho, PlaceStep DEF MakeConsumer, Consuming
  <1>6. LockInv'
    BY <1>1, <1>2, <1>3, WhoIsWho, LockStep DEF MakeConsumer, BeginAt, EndAt, lockVars
  <1>7. CountInv'
    BY <1>1, <1>2, <1>3, WhoIsWho, HoldersCount, ReadersCount
       DEF MakeConsumer, CountInv, Producing, Consuming, Moved
  <1>8. RingInv' /\ CallInv'
    BY <1>1, <1>2, <1>3, WhoIsWho, QuietStep
       DEF MakeConsumer, CallInv, PopOk, Moved, ringVars, localVars, history
  <1>9. ZeroIsFinal'
    BY <1>1, <1>2, <1>3, WhoIsWho, ZeroStep DEF MakeConsumer, Ended, Finished, ringVars
  <1> QED
    BY <1>4, <1>5, <1>6, <1>7, <1>8, <1>9 DEF PipeInv

LEMMA OwnerDropsProducerKept == ASSUME PipeInv, OwnerDropsProducer PROVE PipeInv'
  <1> DEFINE to == "dropped"
  <1>1. DataInv /\ PlaceInv /\ LockInv /\ CountInv /\ RingInv /\ CallInv /\ ZeroIsFinal
    BY DEF PipeInv
  <1>2. Owner \in Everybody /\ Owner \notin waiting
    BY <1>1, WhoIsWho DEF OwnerDropsProducer, Everybody
  <1>3. to \in Places /\ Moved(Owner, to)
    BY <1>1, <1>2, GoesMoves DEF OwnerDropsProducer, Places
  <1>4. DataInv'
    <2>1. producers' \in Nat
      BY <1>1, HandleCounted DEF CountInv, OwnerDropsProducer
    <2> QED
      BY <1>1, <1>2, <2>1 DEF DataInv, OwnerDropsProducer, history
  <1>5. PlaceInv'
    BY <1>1, <1>2, <1>3, WhoIsWho, PlaceStep DEF OwnerDropsProducer
  <1>6. LockInv'
    BY <1>1, <1>2, <1>3, WhoIsWho, LockStep DEF OwnerDropsProducer, BeginAt, EndAt, lockVars
  <1>7. CountInv'
    BY <1>1, <1>2, <1>3, WhoIsWho, HoldersCount, ReadersCount
       DEF OwnerDropsProducer, CountInv, Producing, Consuming, Moved
  <1>8. RingInv' /\ CallInv'
    BY <1>1, <1>2, <1>3, WhoIsWho, QuietStep
       DEF OwnerDropsProducer, CallInv, PushOk, Moved, ringVars, history
  <1>9. ZeroIsFinal'
    BY <1>1, <1>2, <1>3, WhoIsWho, ZeroStep DEF OwnerDropsProducer, Ended, Finished, ringVars
  <1> QED
    BY <1>4, <1>5, <1>6, <1>7, <1>8, <1>9 DEF PipeInv

LEMMA OwnerDropsConsumerKept == ASSUME PipeInv, OwnerDropsConsumer PROVE PipeInv'
  <1> DEFINE to == "deciding"
  <1>1. DataInv /\ PlaceInv /\ LockInv /\ CountInv /\ RingInv /\ CallInv /\ ZeroIsFinal
    BY DEF PipeInv
  <1>2. Owner \in Everybody /\ Owner \notin waiting
    BY <1>1, WhoIsWho DEF OwnerDropsConsumer, Everybody
  <1>3. to \in Places /\ Moved(Owner, to)
    BY <1>1, <1>2, GoesMoves DEF OwnerDropsConsumer, Places
  <1>4. DataInv'
    <2>1. consumers' \in Nat
      BY <1>1, HandleCounted DEF CountInv, OwnerDropsConsumer
    <2> QED
      BY <1>1, <1>2, <2>1 DEF DataInv, OwnerDropsConsumer, history
  <1>5. PlaceInv'
    BY <1>1, <1>2, <1>3, WhoIsWho, PlaceStep DEF OwnerDropsConsumer
  <1>6. LockInv'
    BY <1>1, <1>2, <1>3, WhoIsWho, LockStep DEF OwnerDropsConsumer, BeginAt, EndAt, lockVars
  <1>7. CountInv'
    BY <1>1, <1>2, <1>3, WhoIsWho, HoldersCount, ReadersCount
       DEF OwnerDropsConsumer, CountInv, Producing, Consuming, Moved
  <1>8. RingInv' /\ CallInv'
    BY <1>1, <1>2, <1>3, WhoIsWho, QuietStep
       DEF OwnerDropsConsumer, CallInv, PushOk, Moved, ringVars, history
  <1>9. ZeroIsFinal'
    BY <1>1, <1>2, <1>3, WhoIsWho, ZeroStep DEF OwnerDropsConsumer, Ended, Finished, ringVars
  <1> QED
    BY <1>4, <1>5, <1>6, <1>7, <1>8, <1>9 DEF PipeInv

LEMMA OwnerDecidesKept == ASSUME PipeInv, OwnerDecides PROVE PipeInv'
  <1> DEFINE to == "gone"
  <1>1. DataInv /\ PlaceInv /\ LockInv /\ CountInv /\ RingInv /\ CallInv /\ ZeroIsFinal
    BY DEF PipeInv
  <1>2. Owner \in Everybody /\ Owner \notin waiting
    BY <1>1, WhoIsWho DEF OwnerDecides, Everybody
  <1>3. to \in Places /\ Moved(Owner, to)
    BY <1>1, <1>2, GoesMoves, BroadcastMoves DEF OwnerDecides, Places, localVars
  <1>4. DataInv'
    BY <1>1, <1>2 DEF DataInv, OwnerDecides, localVars, history
  <1>5. PlaceInv'
    BY <1>1, <1>2, <1>3, WhoIsWho, PlaceStep DEF OwnerDecides
  <1>6. LockInv'
    BY <1>1, <1>2, <1>3, WhoIsWho, LockStep DEF OwnerDecides, BeginAt, EndAt, lockVars
  <1>7. CountInv'
    BY <1>1, <1>2, <1>3, WhoIsWho, HoldersCount, ReadersCount
       DEF OwnerDecides, CountInv, Producing, Consuming, Moved
  <1>8. RingInv' /\ CallInv'
    BY <1>1, <1>2, <1>3, WhoIsWho, QuietStep
       DEF OwnerDecides, CallInv, PushOk, Moved, ringVars, localVars, history
  <1>9. ZeroIsFinal'
    BY <1>1, <1>2, <1>3, WhoIsWho, ZeroStep DEF OwnerDecides, Ended, Finished, ringVars
  <1> QED
    BY <1>4, <1>5, <1>6, <1>7, <1>8, <1>9 DEF PipeInv

LEMMA PushBeginsKept == ASSUME PipeInv, NEW p \in Producers, PushBegins(p) PROVE PipeInv'
  <1> DEFINE to == "push"
  <1>1. DataInv /\ PlaceInv /\ LockInv /\ CountInv /\ RingInv /\ CallInv /\ ZeroIsFinal
    BY DEF PipeInv
  <1>2. p \in Everybody /\ p \notin waiting
    BY <1>1, WhoIsWho DEF PushBegins, Everybody
  <1>3. to \in Places /\ Moved(p, to)
    BY <1>1, <1>2, GoesMoves DEF PushBegins, Places, Producing
  <1>4. DataInv'
    <2>1. PICK n \in 1..MaxPush : count' = [count EXCEPT ![p] = n]
      BY DEF PushBegins
    <2>2. n \in Nat
      BY BoundAssumption
    <2> QED
      BY <1>1, <1>2, <2>1, <2>2 DEF DataInv, PushBegins, handleVars, history
  <1>5. PlaceInv'
    BY <1>1, <1>2, <1>3, WhoIsWho, PlaceStep DEF PushBegins, Producing
  <1>6. LockInv'
    BY <1>1, <1>2, <1>3, WhoIsWho, LockStep DEF PushBegins, BeginAt, EndAt, lockVars
  <1>7. CountInv'
    BY <1>1, <1>2, <1>3, WhoIsWho, HoldersCount, ReadersCount
       DEF PushBegins, CountInv, Producing, Consuming, Moved, handleVars
  <1>8. RingInv' /\ CallInv'
    <2>1. PushOk(p)'
      <3>1. PICK n \in 1..MaxPush : pushed[p] + n <= MaxItems /\ count' = [count EXCEPT ![p] = n]
        BY DEF PushBegins
      <3>2. count'[p] = n /\ pc'[p] = "push" /\ pushed' = pushed
        BY <1>1, <1>2, <1>3, <3>1 DEF DataInv, Moved, PushBegins, history
      <3> QED
        BY <3>1, <3>2 DEF PushOk
    <2>2. \A u \in Everybody : u # p => seen'[u] = seen[u] /\ count'[u] = count[u]
      BY <1>1 DEF DataInv, PushBegins
    <2> QED
      BY <1>1, <1>2, <1>3, <2>1, <2>2, WhoIsWho, QuietStep DEF PushBegins, ringVars, history
  <1>9. ZeroIsFinal'
    BY <1>1, <1>2, <1>3, WhoIsWho, ZeroStep DEF PushBegins, Ended, Finished, ringVars
  <1> QED
    BY <1>4, <1>5, <1>6, <1>7, <1>8, <1>9 DEF PipeInv

LEMMA PushLocksKept == ASSUME PipeInv, NEW p \in Producers, PushLocks(p) PROVE PipeInv'
  <1> DEFINE to == IF consumers = 0 THEN "idle"
                     ELSE IF InUse(size, begin, end) + count[p] > Capacity(size) THEN "grow"
                     ELSE "copy"
  <1>1. DataInv /\ PlaceInv /\ LockInv /\ CountInv /\ RingInv /\ CallInv /\ ZeroIsFinal
    BY DEF PipeInv
  <1>2. p \in Everybody /\ p \notin waiting
    BY <1>1, WhoIsWho DEF PushLocks, Everybody
  <1>3. to \in Places /\ Moved(p, to)
    BY <1>1, <1>2, GoesMoves DEF PushLocks, Places, Producing
  <1>4. DataInv'
    <2>1. begin \in Nat /\ end \in Nat
      BY <1>1 DEF RingInv, InRing
    <2> QED
      BY <1>1, <1>2, <2>1 DEF DataInv, PushLocks, handleVars, history
  <1>5. PlaceInv'
    BY <1>1, <1>2, <1>3, WhoIsWho, PlaceStep DEF PushLocks, Producing
  <1>6. LockInv'
    BY <1>1, <1>2, <1>3, WhoIsWho, LockStep DEF PushLocks, BeginAt, EndAt
  <1>7. CountInv'
    BY <1>1, <1>2, <1>3, WhoIsWho, HoldersCount, ReadersCount
       DEF PushLocks, CountInv, Producing, Consuming, Moved, handleVars
  <1>8. RingInv' /\ CallInv'
    <2>1. PushOk(p)'
      <3>1. /\ seen'[p] = begin /\ pc'[p] = to /\ pushed' = pushed /\ count' = count
            /\ size' = size /\ begin' = begin /\ end' = end
        BY <1>1, <1>2, <1>3 DEF DataInv, Moved, PushLocks, history, ringVars
      <3>2. count[p] \in 1..MaxPush /\ pushed[p] + count[p] <= MaxItems
        BY <1>1 DEF CallInv, PushOk, PushLocks
      <3>3. /\ InRing(size, begin) /\ InUse(size, begin, end) \in Nat /\ count[p] \in Nat
            /\ Capacity(size) \in Nat
        BY <1>1, <3>2, InUseBounds, BoundAssumption DEF RingInv, InRing, Capacity
      <3>4. to = "copy" => InUse(size, begin, end) + count[p] <= Capacity(size)
        BY <3>3
      <3> QED
        BY <3>1, <3>2, <3>3, <3>4 DEF PushOk
    <2>2. \A u \in Everybody : u # p => seen'[u] = seen[u] /\ count'[u] = count[u]
      BY <1>1 DEF DataInv, PushLocks
    <2> QED
      BY <1>1, <1>2, <1>3, <2>1, <2>2, WhoIsWho, QuietStep DEF PushLocks, ringVars, history
  <1>9. ZeroIsFinal'
    BY <1>1, <1>2, <1>3, WhoIsWho, ZeroStep DEF PushLocks, Ended, Finished, ringVars
  <1> QED
    BY <1>4, <1>5, <1>6, <1>7, <1>8, <1>9 DEF PipeInv

LEMMA PushSignalsKept == ASSUME PipeInv, NEW p \in Producers, PushSignals(p) PROVE PipeInv'
  <1> DEFINE to == "idle"
  <1>1. DataInv /\ PlaceInv /\ LockInv /\ CountInv /\ RingInv /\ CallInv /\ ZeroIsFinal
    BY DEF PipeInv
  <1>2. p \in Everybody /\ p \notin waiting
    BY <1>1, WhoIsWho DEF PushSignals, Everybody
  <1>3. to \in Places /\ Moved(p, to)
    BY <1>1, <1>2, GoesMoves, BroadcastMoves, SignalMoves DEF PushSignals, Places, Producing, localVars
  <1>4. DataInv'
    BY <1>1, <1>2 DEF DataInv, PushSignals, localVars, handleVars, history
  <1>5. PlaceInv'
    BY <1>1, <1>2, <1>3, WhoIsWho, PlaceStep DEF PushSignals, Producing
  <1>6. LockInv'
    BY <1>1, <1>2, <1>3, WhoIsWho, LockStep DEF PushSignals, BeginAt, EndAt, lockVars
  <1>7. CountInv'
    BY <1>1, <1>2, <1>3, WhoIsWho, HoldersCount, ReadersCount
       DEF PushSignals, CountInv, Producing, Consuming, Moved, handleVars
  <1>8. RingInv' /\ CallInv'
    BY <1>1, <1>2, <1>3, WhoIsWho, QuietStep
       DEF PushSignals, CallInv, PushOk, Moved, ringVars, localVars, history
  <1>9. ZeroIsFinal'
    BY <1>1, <1>2, <1>3, WhoIsWho, ZeroStep DEF PushSignals, Ended, Finished, ringVars
  <1> QED
    BY <1>4, <1>5, <1>6, <1>7, <1>8, <1>9 DEF PipeInv

LEMMA PopBeginsKept == ASSUME PipeInv, NEW c \in Consumers, PopBegins(c) PROVE PipeInv'
  <1> DEFINE to == "pop"
  <1>1. DataInv /\ PlaceInv /\ LockInv /\ CountInv /\ RingInv /\ CallInv /\ ZeroIsFinal
    BY DEF PipeInv
  <1>2. c \in Everybody /\ c \notin waiting
    BY <1>1, WhoIsWho DEF PopBegins, Everybody
  <1>3. to \in Places /\ Moved(c, to)
    BY <1>1, <1>2, GoesMoves DEF PopBegins, Places, Consuming
  <1>4. DataInv'
    <2>1. PICK n \in Requests : count' = [count EXCEPT ![c] = n]
      BY DEF PopBegins
    <2>2. n \in Nat
      BY RequestAssumption
    <2> QED
      BY <1>1, <1>2, <2>1, <2>2 DEF DataInv, PopBegins, handleVars, history
  <1>5. PlaceInv'
    <2>1. pc[Owner] = "gone" /\ pc[c] # "none"
      BY <1>1 DEF PlaceInv, PopBegins
    <2> QED
      BY <1>1, <1>2, <1>3, <2>1, WhoIsWho, PlaceStep DEF PopBegins, Consuming
  <1>6. LockInv'
    BY <1>1, <1>2, <1>3, WhoIsWho, LockStep DEF PopBegins, BeginAt, EndAt, lockVars
  <1>7. CountInv'
    BY <1>1, <1>2, <1>3, WhoIsWho, HoldersCount, ReadersCount
       DEF PopBegins, CountInv, Producing, Consuming, Moved, handleVars
  <1>8. RingInv' /\ CallInv'
    <2>1. PopOk(c)'
      <3>1. PICK n \in Requests : count' = [count EXCEPT ![c] = n]
        BY DEF PopBegins
      <3>2. count'[c] = n /\ pc'[c] = "pop"
        BY <1>1, <1>2, <1>3, <3>1 DEF DataInv, Moved
      <3> QED
        BY <3>1, <3>2, RequestAssumption DEF PopOk
    <2>2. \A u \in Everybody : u # c => seen'[u] = seen[u] /\ count'[u] = count[u]
      BY <1>1 DEF DataInv, PopBegins
    <2> QED
      BY <1>1, <1>2, <1>3, <2>1, <2>2, WhoIsWho, QuietStep DEF PopBegins, ringVars, history
  <1>9. ZeroIsFinal'
    BY <1>1, <1>2, <1>3, WhoIsWho, ZeroStep DEF PopBegins, Ended, Finished, ringVars
  <1> QED
    BY <1>4, <1>5, <1>6, <1>7, <1>8, <1>9 DEF PipeInv

LEMMA PopLocksKept == ASSUME PipeInv, NEW c \in Consumers, PopLocks(c) PROVE PipeInv'
  <1> DEFINE to == IF InUse(size, begin, end) # 0 THEN "take"
                     ELSE IF producers = 0 THEN "end" ELSE "sleep"
  <1>1. DataInv /\ PlaceInv /\ LockInv /\ CountInv /\ RingInv /\ CallInv /\ ZeroIsFinal
    BY DEF PipeInv
  <1>2. c \in Everybody /\ c \notin waiting
    BY <1>1, WhoIsWho DEF PopLocks, Everybody
  <1>3. to \in Places /\ Moved(c, to)
    BY <1>1, <1>2, GoesMoves DEF PopLocks, Places, Consuming
  <1>4. DataInv'
    <2>1. begin \in Nat /\ end \in Nat
      BY <1>1 DEF RingInv, InRing
    <2> QED
      BY <1>1, <1>2, <2>1 DEF DataInv, PopLocks, handleVars, history
  <1>5. PlaceInv'
    <2>1. pc[Owner] = "gone" /\ pc[c] # "none"
      BY <1>1 DEF PlaceInv, PopLocks
    <2> QED
      BY <1>1, <1>2, <1>3, <2>1, WhoIsWho, PlaceStep DEF PopLocks, Consuming
  <1>6. LockInv'
    BY <1>1, <1>2, <1>3, WhoIsWho, LockStep DEF PopLocks, BeginAt, EndAt
  <1>7. CountInv'
    BY <1>1, <1>2, <1>3, WhoIsWho, HoldersCount, ReadersCount
       DEF PopLocks, CountInv, Producing, Consuming, Moved, handleVars
  <1>8. RingInv' /\ CallInv'
    <2>1. PopOk(c)'
      <3>1. /\ seen'[c] = end /\ pc'[c] = to /\ count' = count
            /\ size' = size /\ begin' = begin /\ end' = end
        BY <1>1, <1>2, <1>3 DEF DataInv, Moved, PopLocks, ringVars
      <3>2. count[c] > 0
        BY <1>1 DEF CallInv, PopOk, PopLocks
      <3>3. InRing(size, end) /\ InUse(size, begin, end) \in Nat
        BY <1>1, InUseBounds DEF RingInv
      <3>4. to = "take" => InUse(size, begin, end) \in 1..InUse(size, begin, end)
        BY <3>3
      <3> QED
        BY <3>1, <3>2, <3>3, <3>4 DEF PopOk
    <2>2. \A u \in Everybody : u # c => seen'[u] = seen[u] /\ count'[u] = count[u]
      BY <1>1 DEF DataInv, PopLocks
    <2> QED
      BY <1>1, <1>2, <1>3, <2>1, <2>2, WhoIsWho, QuietStep DEF PopLocks, ringVars, history
  <1>9. ZeroIsFinal'
    <2>1. to = "end" => InUse(size, begin, end) = 0 /\ \A q \in Producers : pc[q] \in Finished
      <3>1. SUFFICES ASSUME to = "end", NEW q \in Producers PROVE InUse(size, begin, end) = 0 /\ pc[q] \in Finished
        OBVIOUS
      <3>2. InUse(size, begin, end) = 0 /\ producers = 0
        BY <3>1
      <3>3. pc[q] \notin Producing
        BY <1>1, <3>2, HandleCounted DEF CountInv
      <3>4. pc[q] # "none"
        BY <1>1 DEF PlaceInv, PopLocks
      <3> QED
        BY <1>1, <3>2, <3>3, <3>4 DEF PlaceInv, Finished
    <2> QED
      BY <1>1, <1>2, <1>3, <2>1, WhoIsWho, ZeroStep DEF PopLocks, Ended, Finished, ringVars
  <1> QED
    BY <1>4, <1>5, <1>6, <1>7, <1>8, <1>9 DEF PipeInv

LEMMA PopSleepsKept == ASSUME PipeInv, NEW c \in Consumers, PopSleeps(c) PROVE PipeInv'
  <1> DEFINE to == "waiting"
  <1>1. DataInv /\ PlaceInv /\ LockInv /\ CountInv /\ RingInv /\ CallInv /\ ZeroIsFinal
    BY DEF PipeInv
  <1>2. c \in Everybody /\ c \notin waiting
    BY <1>1, WhoIsWho DEF PopSleeps, Everybody
  <1>3. to \in Places /\ Moved(c, to)
    BY <1>1, <1>2, SleepMoves DEF PopSleeps, Places, Consuming, localVars
  <1>4. DataInv'
    BY <1>1, <1>2 DEF DataInv, PopSleeps, localVars, handleVars, history
  <1>5. PlaceInv'
    <2>1. pc[Owner] = "gone" /\ pc[c] # "none"
      BY <1>1 DEF PlaceInv, PopSleeps
    <2> QED
      BY <1>1, <1>2, <1>3, <2>1, WhoIsWho, PlaceStep DEF PopSleeps, Consuming
  <1>6. LockInv'
    BY <1>1, <1>2, <1>3, WhoIsWho, LockStep DEF PopSleeps, BeginAt, EndAt
  <1>7. CountInv'
    BY <1>1, <1>2, <1>3, WhoIsWho, HoldersCount, ReadersCount
       DEF PopSleeps, CountInv, Producing, Consuming, Moved, handleVars
  <1>8. RingInv' /\ CallInv'
    BY <1>1, <1>2, <1>3, WhoIsWho, QuietStep
       DEF PopSleeps, CallInv, PopOk, Moved, ringVars, localVars, history
  <1>9. ZeroIsFinal'
    BY <1>1, <1>2, <1>3, WhoIsWho, ZeroStep DEF PopSleeps, Ended, Finished, ringVars
  <1> QED
    BY <1>4, <1>5, <1>6, <1>7, <1>8, <1>9 DEF PipeInv

LEMMA PopWakesKept == ASSUME PipeInv, NEW c \in Consumers, PopWakes(c) PROVE PipeInv'
  <1> DEFINE to == "pop"
  <1>1. DataInv /\ PlaceInv /\ LockInv /\ CountInv /\ RingInv /\ CallInv /\ ZeroIsFinal
    BY DEF PipeInv
  <1>2. c \in Everybody
    BY <1>1, WhoIsWho
  <1>3. to \in Places /\ Moved(c, to)
    BY <1>1, <1>2, WakeMoves DEF PopWakes, Places, Consuming, localVars
  <1>4. DataInv'
    BY <1>1, <1>2 DEF DataInv, PopWakes, localVars, handleVars, history
  <1>5. PlaceInv'
    <2>1. pc[Owner] = "gone" /\ pc[c] # "none"
      BY <1>1 DEF PlaceInv, PopWakes
    <2> QED
      BY <1>1, <1>2, <1>3, <2>1, WhoIsWho, PlaceStep DEF PopWakes, Consuming
  <1>6. LockInv'
    BY <1>1, <1>2, <1>3, WhoIsWho, LockStep DEF PopWakes, BeginAt, EndAt, lockVars
  <1>7. CountInv'
    BY <1>1, <1>2, <1>3, WhoIsWho, HoldersCount, ReadersCount
       DEF PopWakes, CountInv, Producing, Consuming, Moved, handleVars
  <1>8. RingInv' /\ CallInv'
    BY <1>1, <1>2, <1>3, WhoIsWho, QuietStep
       DEF PopWakes, CallInv, PopOk, Moved, ringVars, localVars, history
  <1>9. ZeroIsFinal'
    BY <1>1, <1>2, <1>3, WhoIsWho, ZeroStep DEF PopWakes, Ended, Finished, ringVars
  <1> QED
    BY <1>4, <1>5, <1>6, <1>7, <1>8, <1>9 DEF PipeInv

LEMMA TrimLocksKept == ASSUME PipeInv, NEW c \in Consumers, TrimLocks(c) PROVE PipeInv'
  <1> DEFINE to == "shrink"
  <1>1. DataInv /\ PlaceInv /\ LockInv /\ CountInv /\ RingInv /\ CallInv /\ ZeroIsFinal
    BY DEF PipeInv
  <1>2. c \in Everybody /\ c \notin waiting
    BY <1>1, WhoIsWho DEF TrimLocks, Everybody
  <1>3. to \in Places /\ Moved(c, to)
    BY <1>1, <1>2, GoesMoves DEF TrimLocks, Places, Consuming, localVars
  <1>4. DataInv'
    BY <1>1, <1>2 DEF DataInv, TrimLocks, localVars, handleVars, history
  <1>5. PlaceInv'
    <2>1. pc[Owner] = "gone" /\ pc[c] # "none"
      BY <1>1 DEF PlaceInv, TrimLocks
    <2> QED
      BY <1>1, <1>2, <1>3, <2>1, WhoIsWho, PlaceStep DEF TrimLocks, Consuming
  <1>6. LockInv'
    BY <1>1, <1>2, <1>3, WhoIsWho, LockStep DEF TrimLocks, BeginAt, EndAt
  <1>7. CountInv'
    BY <1>1, <1>2, <1>3, WhoIsWho, HoldersCount, ReadersCount
       DEF TrimLocks, CountInv, Producing, Consuming, Moved, handleVars
  <1>8. RingInv' /\ CallInv'
    BY <1>1, <1>2, <1>3, WhoIsWho, QuietStep
       DEF TrimLocks, CallInv, PopOk, Moved, ringVars, localVars, history
  <1>9. ZeroIsFinal'
    BY <1>1, <1>2, <1>3, WhoIsWho, ZeroStep DEF TrimLocks, Ended, Finished, ringVars
  <1> QED
    BY <1>4, <1>5, <1>6, <1>7, <1>8, <1>9 DEF PipeInv

LEMMA ProducerLeavesKept == ASSUME PipeInv, NEW p \in Producers, ProducerLeaves(p) PROVE PipeInv'
  <1> DEFINE to == IF producers' = 0 THEN "last" ELSE "gone"
  <1>1. DataInv /\ PlaceInv /\ LockInv /\ CountInv /\ RingInv /\ CallInv /\ ZeroIsFinal
    BY DEF PipeInv
  <1>2. p \in Everybody /\ p \notin waiting
    BY <1>1, WhoIsWho DEF ProducerLeaves, Everybody
  <1>3. to \in Places /\ Moved(p, to)
    BY <1>1, <1>2, GoesMoves DEF ProducerLeaves, Places, Producing, localVars
  <1>4. DataInv'
    BY <1>1, <1>2 DEF DataInv, ProducerLeaves, localVars, history
  <1>5. PlaceInv'
    BY <1>1, <1>2, <1>3, WhoIsWho, PlaceStep DEF ProducerLeaves, Producing
  <1>6. LockInv'
    BY <1>1, <1>2, <1>3, WhoIsWho, LockStep DEF ProducerLeaves, BeginAt, EndAt, lockVars
  <1>7. CountInv'
    <2>1. pc[p] \in Producing /\ to \notin Producing
      BY DEF ProducerLeaves, Producing
    <2>2. /\ Cardinality(Holders) = Cardinality(Holders') + 1 /\ Cardinality(Holders') \in Nat
          /\ Cardinality(Readers') = Cardinality(Readers)
      BY <1>1, <1>2, <1>3, <2>1, WhoIsWho, HoldersCount, ReadersCount
    <2>3. pc'[Owner] = pc[Owner]
      BY <1>1, <1>3, WhoIsWho DEF Moved
    <2> QED
      BY <1>1, <2>2, <2>3 DEF ProducerLeaves, CountInv
  <1>8. RingInv' /\ CallInv'
    BY <1>1, <1>2, <1>3, WhoIsWho, QuietStep
       DEF ProducerLeaves, CallInv, PushOk, Moved, ringVars, localVars, history
  <1>9. ZeroIsFinal'
    BY <1>1, <1>2, <1>3, WhoIsWho, ZeroStep DEF ProducerLeaves, Ended, Finished, ringVars
  <1> QED
    BY <1>4, <1>5, <1>6, <1>7, <1>8, <1>9 DEF PipeInv

LEMMA LastProducerKept == ASSUME PipeInv, NEW p \in Producers, LastProducer(p) PROVE PipeInv'
  <1> DEFINE to == IF consumers > 0 THEN "wake" ELSE "deallocate"
  <1>1. DataInv /\ PlaceInv /\ LockInv /\ CountInv /\ RingInv /\ CallInv /\ ZeroIsFinal
    BY DEF PipeInv
  <1>2. p \in Everybody /\ p \notin waiting
    BY <1>1, WhoIsWho DEF LastProducer, Everybody
  <1>3. to \in Places /\ Moved(p, to)
    BY <1>1, <1>2, GoesMoves DEF LastProducer, Places, Producing, localVars
  <1>4. DataInv'
    BY <1>1, <1>2 DEF DataInv, LastProducer, localVars, handleVars, history
  <1>5. PlaceInv'
    BY <1>1, <1>2, <1>3, WhoIsWho, PlaceStep DEF LastProducer, Producing
  <1>6. LockInv'
    BY <1>1, <1>2, <1>3, WhoIsWho, LockStep DEF LastProducer, BeginAt, EndAt, lockVars
  <1>7. CountInv'
    BY <1>1, <1>2, <1>3, WhoIsWho, HoldersCount, ReadersCount
       DEF LastProducer, CountInv, Producing, Consuming, Moved, handleVars
  <1>8. RingInv' /\ CallInv'
    BY <1>1, <1>2, <1>3, WhoIsWho, QuietStep
       DEF LastProducer, CallInv, PushOk, Moved, ringVars, localVars, history
  <1>9. ZeroIsFinal'
    BY <1>1, <1>2, <1>3, WhoIsWho, ZeroStep DEF LastProducer, Ended, Finished, ringVars
  <1> QED
    BY <1>4, <1>5, <1>6, <1>7, <1>8, <1>9 DEF PipeInv

LEMMA ProducerWakesKept == ASSUME PipeInv, NEW p \in Producers, ProducerWakes(p) PROVE PipeInv'
  <1> DEFINE to == "gone"
  <1>1. DataInv /\ PlaceInv /\ LockInv /\ CountInv /\ RingInv /\ CallInv /\ ZeroIsFinal
    BY DEF PipeInv
  <1>2. p \in Everybody /\ p \notin waiting
    BY <1>1, WhoIsWho DEF ProducerWakes, Everybody
  <1>3. to \in Places /\ Moved(p, to)
    BY <1>1, <1>2, BroadcastMoves DEF ProducerWakes, Places, Producing, localVars
  <1>4. DataInv'
    BY <1>1, <1>2 DEF DataInv, ProducerWakes, localVars, handleVars, history
  <1>5. PlaceInv'
    BY <1>1, <1>2, <1>3, WhoIsWho, PlaceStep DEF ProducerWakes, Producing
  <1>6. LockInv'
    BY <1>1, <1>2, <1>3, WhoIsWho, LockStep DEF ProducerWakes, BeginAt, EndAt, lockVars
  <1>7. CountInv'
    BY <1>1, <1>2, <1>3, WhoIsWho, HoldersCount, ReadersCount
       DEF ProducerWakes, CountInv, Producing, Consuming, Moved, handleVars
  <1>8. RingInv' /\ CallInv'
    BY <1>1, <1>2, <1>3, WhoIsWho, QuietStep
       DEF ProducerWakes, CallInv, PushOk, Moved, ringVars, localVars, history
  <1>9. ZeroIsFinal'
    BY <1>1, <1>2, <1>3, WhoIsWho, ZeroStep DEF ProducerWakes, Ended, Finished, ringVars
  <1> QED
    BY <1>4, <1>5, <1>6, <1>7, <1>8, <1>9 DEF PipeInv

LEMMA ConsumerLeavesKept == ASSUME PipeInv, NEW c \in Consumers, ConsumerLeaves(c) PROVE PipeInv'
  <1> DEFINE to == IF consumers' = 0 THEN "last" ELSE "gone"
  <1>1. DataInv /\ PlaceInv /\ LockInv /\ CountInv /\ RingInv /\ CallInv /\ ZeroIsFinal
    BY DEF PipeInv
  <1>2. c \in Everybody /\ c \notin waiting
    BY <1>1, WhoIsWho DEF ConsumerLeaves, Everybody
  <1>3. to \in Places /\ Moved(c, to)
    BY <1>1, <1>2, GoesMoves DEF ConsumerLeaves, Places, Consuming, localVars
  <1>4. DataInv'
    BY <1>1, <1>2 DEF DataInv, ConsumerLeaves, localVars, history
  <1>5. PlaceInv'
    <2>1. pc[Owner] = "gone" /\ pc[c] # "none"
      BY <1>1 DEF PlaceInv, ConsumerLeaves
    <2> QED
      BY <1>1, <1>2, <1>3, <2>1, WhoIsWho, PlaceStep DEF ConsumerLeaves, Consuming
  <1>6. LockInv'
    BY <1>1, <1>2, <1>3, WhoIsWho, LockStep DEF ConsumerLeaves, BeginAt, EndAt, lockVars
  <1>7. CountInv'
    BY <1>1, <1>2, <1>3, WhoIsWho, HoldersCount, ReadersCount
       DEF ConsumerLeaves, CountInv, Producing, Consuming, Moved
  <1>8. RingInv' /\ CallInv'
    BY <1>1, <1>2, <1>3, WhoIsWho, QuietStep
       DEF ConsumerLeaves, CallInv, PopOk, Moved, ringVars, localVars, history
  <1>9. ZeroIsFinal'
    BY <1>1, <1>2, <1>3, WhoIsWho, ZeroStep DEF ConsumerLeaves, Ended, Finished, ringVars
  <1> QED
    BY <1>4, <1>5, <1>6, <1>7, <1>8, <1>9 DEF PipeInv

LEMMA LastConsumerKept == ASSUME PipeInv, NEW c \in Consumers, LastConsumer(c) PROVE PipeInv'
  <1> DEFINE to == IF producers > 0 THEN "gone" ELSE "deallocate"
  <1>1. DataInv /\ PlaceInv /\ LockInv /\ CountInv /\ RingInv /\ CallInv /\ ZeroIsFinal
    BY DEF PipeInv
  <1>2. c \in Everybody /\ c \notin waiting
    BY <1>1, WhoIsWho DEF LastConsumer, Everybody
  <1>3. to \in Places /\ Moved(c, to)
    BY <1>1, <1>2, GoesMoves DEF LastConsumer, Places, Consuming, localVars
  <1>4. DataInv'
    BY <1>1, <1>2 DEF DataInv, LastConsumer, localVars, handleVars, history
  <1>5. PlaceInv'
    <2>1. pc[Owner] = "gone" /\ pc[c] # "none"
      BY <1>1 DEF PlaceInv, LastConsumer
    <2> QED
      BY <1>1, <1>2, <1>3, <2>1, WhoIsWho, PlaceStep DEF LastConsumer, Consuming
  <1>6. LockInv'
    BY <1>1, <1>2, <1>3, WhoIsWho, LockStep DEF LastConsumer, BeginAt, EndAt, lockVars
  <1>7. CountInv'
    BY <1>1, <1>2, <1>3, WhoIsWho, HoldersCount, ReadersCount
       DEF LastConsumer, CountInv, Producing, Consuming, Moved, handleVars
  <1>8. RingInv' /\ CallInv'
    BY <1>1, <1>2, <1>3, WhoIsWho, QuietStep
       DEF LastConsumer, CallInv, PopOk, Moved, ringVars, localVars, history
  <1>9. ZeroIsFinal'
    BY <1>1, <1>2, <1>3, WhoIsWho, ZeroStep DEF LastConsumer, Ended, Finished, ringVars
  <1> QED
    BY <1>4, <1>5, <1>6, <1>7, <1>8, <1>9 DEF PipeInv

LEMMA DeallocateKept == ASSUME PipeInv, NEW t \in Threads, Deallocate(t) PROVE PipeInv'
  <1> DEFINE to == "gone"
  <1>1. DataInv /\ PlaceInv /\ LockInv /\ CountInv /\ RingInv /\ CallInv /\ ZeroIsFinal
    BY DEF PipeInv
  <1>2. t \in Everybody /\ t \notin waiting
    BY <1>1, ThreadAssumption DEF Deallocate, PlaceInv, Everybody, Threads
  <1>3. to \in Places /\ Moved(t, to)
    BY <1>1, <1>2, GoesMoves DEF Deallocate, Places, Producing, Consuming, localVars
  <1>4. DataInv'
    BY <1>1, <1>2 DEF DataInv, Deallocate, localVars, history
  <1>5. PlaceInv'
    <2>1. t \in Consumers => pc[Owner] = "gone"
      BY <1>1 DEF PlaceInv, Deallocate
    <2> QED
      BY <1>1, <1>2, <1>3, <2>1, WhoIsWho, PlaceStep DEF Deallocate, Producing, Consuming, Threads
  <1>6. LockInv'
    BY <1>1, <1>2, <1>3, WhoIsWho, LockStep DEF Deallocate, BeginAt, EndAt, lockVars
  <1>7. CountInv'
    BY <1>1, <1>2, <1>3, WhoIsWho, HoldersCount, ReadersCount
       DEF Deallocate, CountInv, Producing, Consuming, Moved
  <1>8. RingInv' /\ CallInv'
    BY <1>1, <1>2, <1>3, WhoIsWho, QuietStep
       DEF Deallocate, CallInv, PushOk, PopOk, Moved, ringVars, localVars, history
  <1>9. ZeroIsFinal'
    BY <1>1, <1>2, <1>3, WhoIsWho, ZeroStep DEF Deallocate, Ended, Finished, ringVars
  <1> QED
    BY <1>4, <1>5, <1>6, <1>7, <1>8, <1>9 DEF PipeInv


-----------------------------------------------------------------------------
(* The steps that change the ring keep the invariant, too: whoever has a   *)
(* snapshot holds the lock that the step needs, or gains by it.            *)

LEMMA PushCopiesKept == ASSUME PipeInv, NEW p \in Producers, PushCopies(p) PROVE PipeInv'
  <1>1. DataInv /\ PlaceInv /\ LockInv /\ CountInv /\ RingInv /\ CallInv /\ ZeroIsFinal
    BY DEF PipeInv
  <1>2. p \in Everybody /\ p \notin waiting /\ "signal" \in Places /\ Moved(p, "signal")
    BY <1>1, WhoIsWho, GoesMoves DEF PushCopies, Places, Producing
  <1>3. DataInv'
    <2>1. pushed' \in [Producers -> 0..MaxItems]
      <3>1. pushed[p] + count[p] <= MaxItems /\ count[p] \in Nat
        BY CopyStep, BoundAssumption
      <3>2. pushed[p] \in 0..MaxItems /\ pushed[p] + count[p] \in 0..MaxItems
        BY <1>1, <3>1, BoundAssumption DEF DataInv
      <3> QED
        BY <1>1, <3>2, CopyStep DEF DataInv
    <2> QED
      BY <1>1, <2>1 DEF DataInv, PushCopies, localVars, handleVars
  <1>4. PlaceInv'
    BY <1>1, <1>2, WhoIsWho, PlaceStep DEF PushCopies, Producing, Consuming
  <1>5. LockInv'
    BY <1>1, <1>2, WhoIsWho, LockStep DEF PushCopies, BeginAt, EndAt
  <1>6. CountInv'
    BY <1>1, <1>2, WhoIsWho, HoldersCount, ReadersCount
       DEF PushCopies, CountInv, Producing, Consuming, Moved, handleVars
  <1>7. RingInv'
    BY CopyStep
  <1>8. CallInv'
    <2>1. seen' = seen /\ count' = count
      BY DEF PushCopies, localVars
    <2>2. ASSUME NEW q \in Producers PROVE PushOk(q)'
      <3>1. CASE q = p
        BY <1>2, <3>1 DEF PushOk, Moved
      <3>2. CASE q # p
        <4>1. pc[q] # "grow" /\ pc[q] # "copy" /\ pc'[q] = pc[q]
          BY <1>1, <1>2, <3>2, WhoIsWho DEF LockInv, EndAt, PushCopies, Moved
        <4>2. pushed'[q] = pushed[q]
          BY <1>1, <3>2 DEF DataInv, PushCopies
        <4> QED
          BY <1>1, <2>1, <4>1, <4>2 DEF CallInv, PushOk
      <3> QED
        BY <3>1, <3>2
    <2>3. ASSUME NEW c \in Consumers PROVE PopOk(c)'
      <3>1. pc'[c] = pc[c] \/ (pc[c] = "waiting" /\ pc'[c] = "pop")
        BY <1>1, <1>2, WhoIsWho DEF Moved
      <3>2. PopOk(c)
        BY <1>1 DEF CallInv
      <3>3. ASSUME pc[c] = "take"
            PROVE  InRing(size', seen[c]) /\ InUse(size', begin', seen[c]) \in 1..Used'
        <4>1. InRing(size, seen[c]) /\ InUse(size, begin, seen[c]) \in 1..Used
          BY <3>2, <3>3 DEF PopOk, Used
        <4>2. Used' = Used + count[p] /\ count[p] \in Nat /\ Used \in Nat
          BY <1>1, CopyStep, InUseBounds, BoundAssumption DEF RingInv, Used
        <4>3. InUse(size, begin, seen[c]) \in 1..Used'
          BY <4>1, <4>2
        <4> QED
          BY <4>1, <4>3, CopyStep
      <3> QED
        BY <2>1, <3>1, <3>2, <3>3 DEF PopOk, Used
    <2> QED
      BY <2>2, <2>3 DEF CallInv
  <1>9. ZeroIsFinal'
    <2>1. \A c \in Consumers : pc[c] \notin Ended
      BY <1>1 DEF ZeroIsFinal, PushCopies, Ended
    <2>2. \A c \in Consumers : pc'[c] \notin Ended
      BY <1>1, <1>2, <2>1, WhoIsWho DEF Moved, Ended
    <2> QED
      BY <2>2 DEF ZeroIsFinal, Ended
  <1> QED
    BY <1>3, <1>4, <1>5, <1>6, <1>7, <1>8, <1>9 DEF PipeInv

LEMMA PopTakesKept == ASSUME PipeInv, NEW c \in Consumers, PopTakes(c) PROVE PipeInv'
  <1> DEFINE to == IF InUse(size, begin', seen[c]) > Capacity(size) \div 4 THEN "idle" ELSE "trim"
  <1>1. DataInv /\ PlaceInv /\ LockInv /\ CountInv /\ RingInv /\ CallInv /\ ZeroIsFinal
    BY DEF PipeInv
  <1>2. c \in Everybody /\ c \notin waiting /\ to \in Places /\ Moved(c, to)
    BY <1>1, WhoIsWho, GoesMoves DEF PopTakes, Places, Consuming
  <1>3. PICK n \in 1..Used : /\ Used' = Used - n
                             /\ popped' = popped \o SubSeq(Queued, 1, n)
    BY TakeStep
  <1>4. Used \in Nat
    BY <1>1, InUseBounds DEF RingInv, Used
  <1>5. DataInv'
    <2>1. SubSeq(Queued, 1, n) \in Seq(Items)
      <3>1. \A i \in 1..n : Queued[i] \in Items
        BY <1>3, <1>4, TakeStep, ElementOfSeq
      <3> QED
        BY <3>1, SubSeqProperties
    <2>2. popped' \in Seq(Items)
      BY <1>1, <1>3, <2>1, ConcatProperties DEF DataInv
    <2> QED
      BY <1>1, <2>2 DEF DataInv, PopTakes, localVars, handleVars
  <1>6. PlaceInv'
    <2>1. pc[Owner] = "gone" /\ pc[c] # "none"
      BY <1>1 DEF PlaceInv, PopTakes
    <2> QED
      BY <1>1, <1>2, <2>1, WhoIsWho, PlaceStep DEF Consuming
  <1>7. LockInv'
    BY <1>1, <1>2, WhoIsWho, LockStep DEF PopTakes, BeginAt, EndAt
  <1>8. CountInv'
    BY <1>1, <1>2, WhoIsWho, HoldersCount, ReadersCount
       DEF PopTakes, CountInv, Producing, Consuming, Moved, handleVars
  <1>9. RingInv'
    BY TakeStep
  <1>10. CallInv'
    <2>1. seen' = seen /\ count' = count /\ size' = size /\ end' = end /\ pushed' = pushed
      BY DEF PopTakes, localVars
    <2>2. ASSUME NEW q \in Producers PROVE PushOk(q)'
      <3>1. pc'[q] = pc[q] /\ PushOk(q)
        BY <1>1, <1>2, WhoIsWho DEF CallInv, Moved
      <3>2. ASSUME pc[q] = "copy" PROVE Used' <= InUse(size, seen[q], end)
        <4>1. Used <= InUse(size, seen[q], end) /\ InUse(size, seen[q], end) \in Nat
          BY <1>1, <3>1, <3>2, InUseBounds DEF PushOk, Used, RingInv
        <4> QED
          BY <1>3, <1>4, <4>1
      <3> QED
        BY <2>1, <3>1, <3>2 DEF PushOk, Used
    <2>3. ASSUME NEW d \in Consumers PROVE PopOk(d)'
      <3>1. CASE d = c
        BY <1>2, <3>1 DEF PopOk, Moved
      <3>2. CASE d # c
        <4>1. pc[d] # "take" /\ (pc'[d] = pc[d] \/ (pc[d] = "waiting" /\ pc'[d] = "pop"))
          BY <1>1, <1>2, <3>2, WhoIsWho DEF LockInv, BeginAt, PopTakes, Moved
        <4> QED
          BY <1>1, <2>1, <4>1 DEF CallInv, PopOk
      <3> QED
        BY <3>1, <3>2
    <2> QED
      BY <2>2, <2>3 DEF CallInv
  <1>11. ZeroIsFinal'
    <2>1. InUse(size, begin, end) # 0
      BY <1>3, <1>4 DEF Used
    <2> QED
      BY <1>1, <1>2, <2>1, WhoIsWho, ZeroStep DEF Ended
  <1> QED
    BY <1>5, <1>6, <1>7, <1>8, <1>9, <1>10, <1>11 DEF PipeInv

\* What a producer has announced fits into the grown ring.
LEMMA GrowStep ==
  ASSUME PipeInv, NEW p \in Producers, PushGrows(p)
  PROVE  /\ RingInv' /\ Used' = Used /\ Queued' = Queued
         /\ Used + count[p] <= Capacity(size')
  <1> DEFINE n == count[p]
             needed == Used + n
             to == NextPow2(needed + 1)
  <1>1. n \in Nat /\ RingInv
    BY BoundAssumption DEF PipeInv, CallInv, PushOk, PushGrows
  <1>2. Used \in 0..(size - 1) /\ size \in Nat /\ size >= MinCap /\ MinCap \in Nat
    BY <1>1, InUseBounds, CapAssumption DEF RingInv, InRing, Used
  <1>3. IF needed > Capacity(size) THEN ResizeBuffer(to) ELSE UNCHANGED ringVars
    BY DEF PushGrows, Used
  <1>4. CASE needed > Capacity(size)
    <2> HIDE DEF n, to
    <2>1. needed + 1 \in Nat
      BY <1>1, <1>2
    <2>2. to \in Nat /\ to >= needed + 1
      BY <2>1, NextPow2Fits DEF to
    <2>3. to > MinCap /\ Used + 1 <= to
      BY <1>1, <1>2, <1>4, <2>2 DEF Capacity
    <2>4. RingInv' /\ Used' = Used /\ Queued' = Queued /\ size' = to + 1
      BY <1>3, <1>4, <2>2, <2>3, ResizeStep
    <2>5. Capacity(size') = to
      BY <2>2, <2>4 DEF Capacity
    <2> QED
      BY <1>1, <1>2, <2>2, <2>4, <2>5 DEF n
  <1>5. CASE ~ (needed > Capacity(size))
    <2>1. Used + n <= Capacity(size)
      BY <1>1, <1>2, <1>5 DEF Capacity
    <2>2. UNCHANGED ringVars
      BY <1>3, <1>5
    <2> QED
      BY <1>1, <2>1, <2>2 DEF ringVars, RingInv, Used, Queued
  <1> QED
    BY <1>4, <1>5

LEMMA PushGrowsKept == ASSUME PipeInv, NEW p \in Producers, PushGrows(p) PROVE PipeInv'
  <1>1. DataInv /\ PlaceInv /\ LockInv /\ CountInv /\ RingInv /\ CallInv /\ ZeroIsFinal
    BY DEF PipeInv
  <1>2. p \in Everybody /\ p \notin waiting /\ "copy" \in Places /\ Moved(p, "copy")
    BY <1>1, WhoIsWho, GoesMoves DEF PushGrows, Places, Producing
  <1>3. seen'[p] = begin' /\ \A u \in Everybody : u # p => seen'[u] = seen[u]
    BY <1>1, <1>2 DEF DataInv, PushGrows
  <1>4. RingInv' /\ Used' = Used /\ Used + count[p] <= Capacity(size')
    BY GrowStep
  <1>5. DataInv'
    <2>1. begin' \in Nat
      BY <1>4 DEF RingInv, InRing
    <2> QED
      BY <1>1, <1>2, <2>1 DEF DataInv, PushGrows, handleVars, history
  <1>6. PlaceInv'
    BY <1>1, <1>2, WhoIsWho, PlaceStep DEF PushGrows, Producing
  <1>7. LockInv'
    BY <1>1, <1>2, WhoIsWho, LockStep DEF PushGrows, BeginAt, EndAt, lockVars
  <1>8. CountInv'
    BY <1>1, <1>2, WhoIsWho, HoldersCount, ReadersCount
       DEF PushGrows, CountInv, Producing, Consuming, Moved, handleVars
  <1>9. CallInv'
    <2>1. count' = count /\ pushed' = pushed
      BY DEF PushGrows, history
    <2>2. ASSUME NEW q \in Producers PROVE PushOk(q)'
      <3>1. CASE q = p
        <4>1. InRing(size', begin') /\ Used' \in Nat /\ Used' + count[p] <= Capacity(size')
          BY <1>4, InUseBounds DEF RingInv, Used
        <4>2. count[p] \in 1..MaxPush /\ pushed[p] + count[p] <= MaxItems
          BY <1>1 DEF CallInv, PushOk, PushGrows
        <4> QED
          BY <1>2, <1>3, <2>1, <3>1, <4>1, <4>2 DEF PushOk, Moved, Used
      <3>2. CASE q # p
        <4>1. pc[q] # "grow" /\ pc[q] # "copy" /\ pc'[q] = pc[q]
          BY <1>1, <1>2, <3>2, WhoIsWho DEF LockInv, EndAt, PushGrows, Moved
        <4> QED
          BY <1>1, <2>1, <4>1 DEF CallInv, PushOk
      <3> QED
        BY <3>1, <3>2
    <2>3. ASSUME NEW c \in Consumers PROVE PopOk(c)'
      <3>1. pc[c] # "take" /\ (pc'[c] = pc[c] \/ (pc[c] = "waiting" /\ pc'[c] = "pop"))
        BY <1>1, <1>2, WhoIsWho DEF LockInv, BeginAt, PushGrows, Moved
      <3> QED
        BY <1>1, <2>1, <3>1 DEF CallInv, PopOk
    <2> QED
      BY <2>2, <2>3 DEF CallInv
  <1>10. ZeroIsFinal'
    BY <1>1, <1>2, <1>4, WhoIsWho, ZeroStep DEF PushGrows, Finished, Used
  <1> QED
    BY <1>4, <1>5, <1>6, <1>7, <1>8, <1>9, <1>10 DEF PipeInv

\* A ring that is filled to a quarter keeps its elements in half the room.
LEMMA ShrinkStep ==
  ASSUME PipeInv, NEW c \in Consumers, TrimShrinks(c)
  PROVE  RingInv' /\ Used' = Used /\ Queued' = Queued
  <1> DEFINE to == Capacity(size) \div 2
  <1>1. RingInv
    BY DEF PipeInv
  <1>2. Used \in 0..(size - 1) /\ size \in Nat /\ size >= 2 /\ MinCap \in Nat /\ MinCap >= 2
    BY <1>1, InUseBounds, CapAssumption DEF RingInv, InRing, Used
  <1>3. IF Used <= Capacity(size) \div 4 THEN ResizeBuffer(to) ELSE UNCHANGED ringVars
    BY DEF TrimShrinks, Used
  <1>4. CASE Used <= Capacity(size) \div 4
    <2>1. to \in Nat /\ (to > MinCap => Used + 1 <= to)
      BY <1>2, <1>4 DEF Capacity
    <2> HIDE DEF to
    <2> QED
      BY <1>3, <1>4, <2>1, ResizeStep
  <1>5. CASE ~ (Used <= Capacity(size) \div 4)
    <2>1. UNCHANGED ringVars
      BY <1>3, <1>5
    <2> QED
      BY <1>1, <2>1 DEF ringVars, RingInv, Used, Queued
  <1> QED
    BY <1>4, <1>5

LEMMA TrimShrinksKept == ASSUME PipeInv, NEW c \in Consumers, TrimShrinks(c) PROVE PipeInv'
  <1>1. DataInv /\ PlaceInv /\ LockInv /\ CountInv /\ RingInv /\ CallInv /\ ZeroIsFinal
    BY DEF PipeInv
  <1>2. c \in Everybody /\ c \notin waiting /\ "idle" \in Places /\ Moved(c, "idle")
    BY <1>1, WhoIsWho, GoesMoves DEF TrimShrinks, Places, Consuming
  <1>3. RingInv' /\ Used' = Used
    BY ShrinkStep
  <1>4. DataInv'
    BY <1>1, <1>2 DEF DataInv, TrimShrinks, localVars, handleVars, history
  <1>5. PlaceInv'
    <2>1. pc[c] # "none"
      BY DEF TrimShrinks
    <2> QED
      BY <1>1, <1>2, <2>1, WhoIsWho, PlaceStep DEF Consuming
  <1>6. LockInv'
    BY <1>1, <1>2, WhoIsWho, LockStep DEF TrimShrinks, BeginAt, EndAt
  <1>7. CountInv'
    BY <1>1, <1>2, WhoIsWho, HoldersCount, ReadersCount
       DEF TrimShrinks, CountInv, Producing, Consuming, Moved, handleVars
  <1>8. CallInv'
    <2>1. seen' = seen /\ count' = count /\ pushed' = pushed
      BY DEF TrimShrinks, localVars, history
    <2>2. ASSUME NEW q \in Producers PROVE PushOk(q)'
      <3>1. pc[q] # "grow" /\ pc[q] # "copy" /\ pc'[q] = pc[q]
        BY <1>1, <1>2, WhoIsWho DEF LockInv, EndAt, TrimShrinks, Moved
      <3> QED
        BY <1>1, <2>1, <3>1 DEF CallInv, PushOk
    <2>3. ASSUME NEW d \in Consumers PROVE PopOk(d)'
      <3>1. CASE d = c
        BY <1>2, <3>1 DEF PopOk, Moved
      <3>2. CASE d # c
        <4>1. pc[d] # "take" /\ (pc'[d] = pc[d] \/ (pc[d] = "waiting" /\ pc'[d] = "pop"))
          BY <1>1, <1>2, <3>2, WhoIsWho DEF LockInv, BeginAt, TrimShrinks, Moved
        <4> QED
          BY <1>1, <2>1, <4>1 DEF CallInv, PopOk
      <3> QED
        BY <3>1, <3>2
    <2> QED
      BY <2>2, <2>3 DEF CallInv
  <1>9. ZeroIsFinal'
    BY <1>1, <1>2, <1>3, WhoIsWho, ZeroStep DEF TrimShrinks, Ended, Used
  <1> QED
    BY <1>3, <1>4, <1>5, <1>6, <1>7, <1>8, <1>9 DEF PipeInv


-----------------------------------------------------------------------------
(* The theorems.                                                           *)

LEMMA InitOk == Init => PipeInv
  <1> SUFFICES ASSUME Init PROVE PipeInv
    OBVIOUS
  <1>1. \A t \in Everybody : pc[t] = IF t = Owner THEN "making" ELSE "none"
    BY DEF Init
  <1>2. DataInv
    BY BoundAssumption, EmptySeq DEF Init, DataInv
  <1>3. PlaceInv
    BY <1>1, ThreadAssumption
       DEF Init, PlaceInv, Places, Producing, Consuming, Everybody, Threads
  <1>4. LockInv
    BY <1>1, <1>3, WhoIsWho DEF Init, LockInv, BeginAt, EndAt, Threads
  <1>5. CountInv
    <2>1. Holders = {} /\ Readers = {}
      BY <1>1, <1>3, WhoIsWho DEF Holders, Readers, Producing, Consuming
    <2>2. pc[Owner] = "making" /\ producers = 1 /\ consumers = 1
      BY <1>1, <1>3, WhoIsWho DEF Init
    <2> QED
      BY <2>1, <2>2, FS_EmptySet DEF CountInv
  <1>6. RingInv
    <2>1. size = MinCap /\ size \in Nat /\ size >= 2 /\ begin = 0 /\ end = 1
      BY CapAssumption DEF Init
    <2>2. InRing(size, begin) /\ InRing(size, end) /\ size >= MinCap
      BY <2>1 DEF InRing
    <2>3. InUse(size, begin, end) = 0
      BY <2>1 DEF InUse, WrapsAround
    <2> QED
      BY <2>1, <2>2, <2>3 DEF Init, RingInv
  <1>7. CallInv
    BY <1>1, <1>3, WhoIsWho DEF CallInv, PushOk, PopOk
  <1>8. ZeroIsFinal
    BY <1>1, <1>3, WhoIsWho DEF ZeroIsFinal
  <1> QED
    BY <1>2, <1>3, <1>4, <1>5, <1>6, <1>7, <1>8 DEF PipeInv

\* Nothing changes, and the invariant remains.
LEMMA StutterKept == ASSUME PipeInv, UNCHANGED vars PROVE PipeInv'
  <1>1. UNCHANGED <<ringVars, lockVars, handleVars, waiting, pc, localVars, history>>
    BY DEF vars
  <1>2. DataInv' /\ PlaceInv' /\ LockInv' /\ RingInv'
    BY <1>1 DEF PipeInv, DataInv, PlaceInv, LockInv, RingInv, ringVars, lockVars, handleVars,
                localVars, history
  <1>3. CountInv'
    BY <1>1 DEF PipeInv, CountInv, Holders, Readers, handleVars
  <1>4. CallInv' /\ ZeroIsFinal'
    BY <1>1 DEF PipeInv, CallInv, PushOk, PopOk, ZeroIsFinal, ringVars, localVars, history
  <1> QED
    BY <1>2, <1>3, <1>4 DEF PipeInv

LEMMA NextKept == PipeInv /\ [Next]_vars => PipeInv'
  <1> SUFFICES ASSUME PipeInv, [Next]_vars PROVE PipeInv'
    OBVIOUS
  <1>1. CASE Owns
    BY <1>1, MakeProducerKept, MakeConsumerKept, OwnerDropsProducerKept, OwnerDropsConsumerKept,
       OwnerDecidesKept DEF Owns
  <1>2. ASSUME NEW p \in Producers, PushBegins(p) \/ ProducerLeaves(p) PROVE PipeInv'
    BY <1>2, PushBeginsKept, ProducerLeavesKept
  <1>3. ASSUME NEW p \in Producers, Produces(p) PROVE PipeInv'
    BY <1>3, PushLocksKept, PushGrowsKept, PushCopiesKept, PushSignalsKept, LastProducerKept,
       ProducerWakesKept, DeallocateKept DEF Produces, Threads
  <1>4. ASSUME NEW c \in Consumers, PopBegins(c) \/ PopWakes(c) PROVE PipeInv'
    BY <1>4, PopBeginsKept, PopWakesKept
  <1>5. ASSUME NEW c \in Consumers, Consumes(c) PROVE PipeInv'
    BY <1>5, PopLocksKept, PopSleepsKept, PopTakesKept, TrimLocksKept, TrimShrinksKept,
       ConsumerLeavesKept, LastConsumerKept, DeallocateKept DEF Consumes, Threads
  <1>6. CASE UNCHANGED vars
    BY <1>6, StutterKept
  <1> QED
    BY <1>1, <1>2, <1>3, <1>4, <1>5, <1>6 DEF Next

LEMMA PipeInvariant == Spec => []PipeInv
  BY InitOk, NextKept, PTL DEF Spec

\* What is in the pipe's memory, and at which call each thread is, have their
\* types.
THEOREM PipeTypes == Spec => []TypeOK
  <1>1. PipeInv => TypeOK
    <2> SUFFICES ASSUME PipeInv PROVE TypeOK
      OBVIOUS
    <2>1. /\ size \in Nat /\ size >= MinCap
          /\ begin \in 0..size - 1 /\ end \in 0..size - 1
          /\ DOMAIN buf = 0..size - 1 /\ \A i \in 0..size - 1 : buf[i] \in Items \cup {Nobody}
      BY DEF PipeInv, RingInv, InRing
    <2>2. beginLock \in Consumers \cup {Nobody} /\ endLock \in Threads \cup {Nobody}
      BY DEF PipeInv, LockInv
    <2>3. /\ producers \in 0..Cardinality(Producers) + 1
          /\ consumers \in 0..Cardinality(Consumers) + 1
      <3> DEFINE P == Cardinality(Producers)
                 C == Cardinality(Consumers)
                 h == Cardinality(Holders)
                 r == Cardinality(Readers)
      <3>1. P \in Nat /\ C \in Nat
        BY FiniteAssumption, FS_CardinalityType
      <3>2. h \in 0..P /\ r \in 0..C
        BY HandleCounted DEF PipeInv
      <3>3. (producers = h \/ producers = h + 1) /\ (consumers = r \/ consumers = r + 1)
        BY <3>1, <3>2 DEF PipeInv, CountInv
      <3> HIDE DEF P, C, h, r
      <3>4. producers \in 0..P + 1 /\ consumers \in 0..C + 1
        BY <3>1, <3>2, <3>3
      <3> QED
        BY <3>4 DEF P, C
    <2>4. /\ waiting = {c \in Consumers : pc[c] = "waiting"}
          /\ pc \in [Everybody -> Places]
      BY DEF PipeInv, PlaceInv
    <2>5. Places = {"making", "dropped", "deciding", "none", "idle", "push", "grow",
                    "copy", "signal", "pop", "sleep", "waiting", "take", "trim",
                    "shrink", "end", "last", "wake", "deallocate", "gone"}
      BY DEF Places, Producing, Consuming
    <2>6. DataInv
      BY DEF PipeInv
    <2> QED
      BY <2>1, <2>2, <2>3, <2>4, <2>5, <2>6 DEF TypeOK, DataInv
  <1> QED
    BY <1>1, PipeInvariant, PTL

\* A snapshot of the other side's pointer suffices (pipe.c:282-288), however
\* many threads push and pop, and whoever resizes the ring: what a push copies
\* fits behind the elements there are, and what a pop takes is there.
THEOREM PipeSnapshots == Spec => []SnapshotsSuffice
  <1>1. PipeInv => SnapshotsSuffice
    BY DEF PipeInv, CallInv, PushOk, PopOk, SnapshotsSuffice
  <1> QED
    BY <1>1, PipeInvariant, PTL

\* A pop that returns 0 is right (pipe.h): the pipe is empty, and no producer
\* has a handle to push with.
THEOREM PipeFinal == Spec => []ZeroIsFinal
  BY PipeInvariant, PTL DEF PipeInv


-----------------------------------------------------------------------------
(* The ring is a queue.                                                    *)

\* The elements and the history remain: the queue has no part in the step.
LEMMA QueueStutters ==
  ASSUME Queued' = Queued, UNCHANGED history
  PROVE  UNCHANGED Queue!vars
  BY DEF Queued, history, Queue!vars

LEMMA QueueStep == PipeInv /\ [Next]_vars => [Queue!Next]_(Queue!vars)
  <1> SUFFICES ASSUME PipeInv, [Next]_vars PROVE [Queue!Next]_(Queue!vars)
    OBVIOUS
  <1>1. ASSUME NEW p \in Producers, PushCopies(p) PROVE Queue!Push(p)
    <2>1. /\ count[p] \in 1..MaxPush /\ pushed[p] + count[p] <= MaxItems
          /\ Queued' = Queued \o Queue!NextOf(p, pushed[p], count[p])
          /\ pushed' = [pushed EXCEPT ![p] = @ + count[p]]
          /\ popped' = popped
      BY <1>1, CopyStep DEF PushCopies
    <2> QED
      BY <2>1 DEF Queue!Push, Queued
  <1>2. ASSUME NEW c \in Consumers, PopTakes(c) PROVE Queue!Pop
    <2>1. PICK n \in 1..Len(Queued) : /\ popped' = popped \o SubSeq(Queued, 1, n)
                                      /\ Queued' = SubSeq(Queued, n + 1, Len(Queued))
      BY <1>2, TakeStep
    <2>2. pushed' = pushed
      BY <1>2 DEF PopTakes
    <2> QED
      BY <2>1, <2>2 DEF Queue!Pop, Queued
  <1>3. ASSUME NEW p \in Producers, PushGrows(p) PROVE UNCHANGED Queue!vars
    BY <1>3, GrowStep, QueueStutters DEF PushGrows
  <1>4. ASSUME NEW c \in Consumers, TrimShrinks(c) PROVE UNCHANGED Queue!vars
    BY <1>4, ShrinkStep, QueueStutters DEF TrimShrinks
  <1>5. ASSUME UNCHANGED ringVars, UNCHANGED history PROVE UNCHANGED Queue!vars
    BY <1>5, QueueStutters DEF ringVars, Queued
  <1>6. CASE Owns
    BY <1>5, <1>6 DEF Owns, MakeProducer, MakeConsumer, OwnerDropsProducer,
       OwnerDropsConsumer, OwnerDecides
  <1>7. ASSUME NEW p \in Producers, PushBegins(p) \/ ProducerLeaves(p) \/ Produces(p)
        PROVE  [Queue!Next]_(Queue!vars)
    <2>1. CASE PushCopies(p)
      BY <1>1, <2>1 DEF Queue!Next
    <2>2. CASE PushGrows(p)
      BY <1>3, <2>2
    <2>3. CASE PushBegins(p) \/ ProducerLeaves(p) \/ PushLocks(p) \/ PushSignals(p)
               \/ LastProducer(p) \/ ProducerWakes(p) \/ Deallocate(p)
      BY <1>5, <2>3 DEF PushBegins, ProducerLeaves, PushLocks, PushSignals, LastProducer,
         ProducerWakes, Deallocate
    <2> QED
      BY <1>7, <2>1, <2>2, <2>3 DEF Produces
  <1>8. ASSUME NEW c \in Consumers, PopBegins(c) \/ PopWakes(c) \/ Consumes(c)
        PROVE  [Queue!Next]_(Queue!vars)
    <2>1. CASE PopTakes(c)
      BY <1>2, <2>1 DEF Queue!Next
    <2>2. CASE TrimShrinks(c)
      BY <1>4, <2>2
    <2>3. CASE PopBegins(c) \/ PopWakes(c) \/ PopLocks(c) \/ PopSleeps(c) \/ TrimLocks(c)
               \/ ConsumerLeaves(c) \/ LastConsumer(c) \/ Deallocate(c)
      BY <1>5, <2>3 DEF PopBegins, PopWakes, PopLocks, PopSleeps, TrimLocks, ConsumerLeaves,
         LastConsumer, Deallocate
    <2> QED
      BY <1>8, <2>1, <2>2, <2>3 DEF Consumes
  <1>9. CASE UNCHANGED vars
    BY <1>5, <1>9 DEF vars
  <1> QED
    BY <1>6, <1>7, <1>8, <1>9 DEF Next

LEMMA QueueInit == Init => Queue!Init
  <1> SUFFICES ASSUME Init PROVE Queue!Init
    OBVIOUS
  <1>1. InUse(size, begin, end) = 0
    BY CapAssumption DEF Init, InUse, WrapsAround
  <1>2. Elements(buf, size, begin, end) = <<>>
    BY <1>1 DEF Elements
  <1> QED
    BY <1>2 DEF Init, Queue!Init

\* The ring with its two locks, the wraps and the resizes is a FIFO queue
\* (pipe.h): the pipe implements the specification of one, step by step.
THEOREM PipeQueueRefined == Spec => ImplementsQueue
  <1>1. Spec => Queue!Init /\ [][Queue!Next]_(Queue!vars)
    BY QueueInit, QueueStep, PipeInvariant, PTL DEF Spec
  <1> QED
    BY <1>1 DEF ImplementsQueue, Queue!Spec
=============================================================================
