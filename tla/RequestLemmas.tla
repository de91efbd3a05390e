--------------------------- MODULE RequestLemmas ---------------------------
(***************************************************************************)
(* Lemmas about what holds the requests in several modules: queues and     *)
(* bags, those above all in which nothing stands twice.                    *)
(***************************************************************************)
EXTENDS SequencesExt, SequenceTheorems, WellFoundedInduction, TLAPS

-----------------------------------------------------------------------------
(* Queues.                                                                 *)

InQueue(q, t) == \E i \in 1..Len(q) : q[i] = t
Distinct(q)    == \A i, j \in 1..Len(q) : q[i] = q[j] => i = j

\* Something that is not in the queue is queued.
LEMMA AppendNew ==
  ASSUME NEW S, NEW q \in Seq(S), Distinct(q), NEW t \in S, ~InQueue(q, t)
  PROVE  /\ Append(q, t) \in Seq(S)
         /\ Distinct(Append(q, t))
         /\ \A u : InQueue(Append(q, t), u) <=> InQueue(q, u) \/ u = t
         /\ Append(q, t) # <<>>
         /\ q # <<>> => Head(Append(q, t)) = Head(q)
  <1>1. /\ Len(q) \in Nat
        /\ Append(q, t) \in Seq(S) /\ Append(q, t) # <<>>
        /\ Len(Append(q, t)) = Len(q) + 1
        /\ \A i \in 1..Len(q) : Append(q, t)[i] = q[i]
        /\ Append(q, t)[Len(q) + 1] = t
    BY AppendProperties, LenProperties
  <1>2. Distinct(Append(q, t))
    BY <1>1 DEF Distinct, InQueue
  <1>3. \A u : InQueue(Append(q, t), u) <=> InQueue(q, u) \/ u = t
    BY <1>1 DEF InQueue
  <1>4. q # <<>> => Head(Append(q, t)) = Head(q)
    BY HeadTailAppend
  <1> QED
    BY <1>1, <1>2, <1>3, <1>4

\* The first element is taken.
LEMMA RemoveHead ==
  ASSUME NEW S, NEW q \in Seq(S), Distinct(q), q # <<>>
  PROVE  /\ Head(q) \in S /\ InQueue(q, Head(q))
         /\ Tail(q) \in Seq(S)
         /\ Distinct(Tail(q))
         /\ \A u : InQueue(Tail(q), u) <=> InQueue(q, u) /\ u # Head(q)
  <1>1. /\ Len(q) \in Nat \ {0}
        /\ Head(q) \in S /\ Head(q) = q[1]
        /\ Tail(q) \in Seq(S)
        /\ Len(Tail(q)) = Len(q) - 1
        /\ \A i \in 1..Len(q) - 1 : Tail(q)[i] = q[i + 1]
    BY HeadTailProperties, EmptySeq
  <1>2. Distinct(Tail(q))
    BY <1>1 DEF Distinct
  <1>3. ASSUME NEW u PROVE InQueue(Tail(q), u) <=> InQueue(q, u) /\ u # Head(q)
    <2>1. ASSUME InQueue(Tail(q), u) PROVE InQueue(q, u) /\ u # Head(q)
      BY <1>1, <2>1 DEF InQueue, Distinct
    <2>2. ASSUME InQueue(q, u), u # Head(q) PROVE InQueue(Tail(q), u)
      <3>1. PICK i \in 1..Len(q) : q[i] = u
        BY <2>2 DEF InQueue
      <3>2. i - 1 \in 1..Len(q) - 1 /\ Tail(q)[i - 1] = u
        BY <1>1, <2>2, <3>1
      <3> QED
        BY <1>1, <3>2 DEF InQueue
    <2> QED
      BY <2>1, <2>2
  <1> QED
    BY <1>1, <1>2, <1>3 DEF InQueue

\* Every set of natural numbers that is not empty has a least element.
LEMMA LeastExists ==
  ASSUME NEW T \in SUBSET Nat, T # {}
  PROVE  \E n \in T : \A m \in T : n <= m
  <1> DEFINE R == OpToRel(<, Nat)
  <1>1. \A x, y \in Nat : <<y, x>> \in R <=> y < x
    BY DEF OpToRel
  <1>2. IsWellFoundedOn(R, Nat)
    BY NatLessThanWellFounded
  <1> HIDE DEF R
  <1>3. PICK n \in T : \A m \in T : ~ (<<m, n>> \in R)
    BY <1>2, WFMin
  <1>4. ASSUME NEW m \in T PROVE n <= m
    <2>1. m \in Nat /\ n \in Nat /\ ~ (<<m, n>> \in R)
      BY <1>3
    <2> QED
      BY <1>1, <2>1
  <1> QED
    BY <1>4

\* A set of natural numbers that has 0 and is closed under successor has all.
LEMMA AllNumbers ==
  ASSUME NEW T \in SUBSET Nat, 0 \in T, \A n \in T : n + 1 \in T
  PROVE  T = Nat
  <1>1. SUFFICES ASSUME Nat \ T # {} PROVE FALSE
    OBVIOUS
  <1>2. PICK n \in Nat \ T : \A m \in Nat \ T : n <= m
    BY <1>1, LeastExists
  <1>3. n - 1 \in T
    BY <1>2
  <1> QED
    BY <1>2, <1>3

\* Removing something from a sequence removes one of its places, if any.
LEMMA RemoveOne ==
  ASSUME NEW S, NEW q \in Seq(S), NEW e
  PROVE  \/ RemoveFirst(q, e) = q /\ \A i \in 1..Len(q) : q[i] # e
         \/ \E n \in 1..Len(q) : q[n] = e /\ RemoveFirst(q, e) = RemoveAt(q, n)
  <1>1. CASE \E i \in 1..Len(q) : q[i] = e
    <2> DEFINE T == {i \in 1..Len(q) : q[i] = e}
    <2>1. Len(q) \in Nat /\ T \in SUBSET Nat /\ T # {}
      BY <1>1, LenProperties
    <2>2. Min(T) \in T
      <3> HIDE DEF T
      <3>1. \E n \in T : \A m \in T : n <= m
        BY <2>1, LeastExists
      <3> QED
        BY <3>1 DEF Min
    <2>3. SelectInSeq(q, LAMBDA v : v = e) = Min(T)
      BY <2>1 DEF SelectInSeq
    <2> HIDE DEF T
    <2>4. RemoveFirst(q, e) = RemoveAt(q, Min(T))
      BY <1>1, <2>3 DEF RemoveFirst
    <2> QED
      BY <2>2, <2>4 DEF T
  <1>2. CASE ~ \E i \in 1..Len(q) : q[i] = e
    BY <1>2 DEF RemoveFirst
  <1> QED
    BY <1>1, <1>2

\* What is left are elements of the sequence.
LEMMA RemoveFirstType ==
  ASSUME NEW S, NEW q \in Seq(S), NEW e
  PROVE  RemoveFirst(q, e) \in Seq(S)
  <1>1. ASSUME NEW n \in 1..Len(q) PROVE RemoveAt(q, n) \in Seq(S)
    <2>1. Len(q) \in Nat /\ \A i \in 1..Len(q) : q[i] \in S
      BY LenProperties, ElementOfSeq
    <2>2. SubSeq(q, 1, n - 1) \in Seq(S) /\ SubSeq(q, n + 1, Len(q)) \in Seq(S)
      BY <2>1, SubSeqProperties
    <2> QED
      BY <2>2, ConcatProperties DEF RemoveAt
  <1> QED
    BY <1>1, RemoveOne

\* Nothing is left of a sequence of one element that is removed.
LEMMA RemoveOnly == ASSUME NEW e PROVE RemoveFirst(<<e>>, e) = <<>>
  <1> DEFINE q == <<e>>
  <1>2. q \in Seq({e}) /\ Len(q) = 1 /\ q[1] = e
    OBVIOUS
  <1>1. RemoveFirst(q, e) = RemoveAt(q, 1)
    <2> HIDE DEF q
    <2>1. PICK n \in 1..Len(q) : RemoveFirst(q, e) = RemoveAt(q, n)
      BY <1>2, RemoveOne
    <2> QED
      BY <1>2, <2>1
  <1>3. SubSeq(<<e>>, 1, 0) = <<>> /\ SubSeq(<<e>>, 2, 1) = <<>>
    BY SubSeqEmpty
  <1> QED
    BY <1>1, <1>2, <1>3 DEF RemoveAt

-----------------------------------------------------------------------------
(* Bags.                                                                   *)

\* A request is queued.
LEMMA BagAdd ==
  ASSUME NEW B, IsABag(B), NEW r
  PROVE  IsABag(B (+) SetToBag({r})) /\ BagToSet(B (+) SetToBag({r})) = BagToSet(B) \cup {r}
  <1>1. DOMAIN (B (+) SetToBag({r})) = DOMAIN B \cup {r}
    BY DEF (+), SetToBag
  <1>2. \A e \in DOMAIN B \cup {r} : (B (+) SetToBag({r}))[e] \in {n \in Nat : n > 0}
    BY DEF (+), SetToBag, IsABag
  <1>3. B (+) SetToBag({r}) \in [DOMAIN B \cup {r} -> {n \in Nat : n > 0}]
    BY <1>1, <1>2 DEF (+)
  <1> QED
    BY <1>1, <1>3 DEF IsABag, BagToSet

\* A request is taken.
LEMMA BagTake ==
  ASSUME NEW B, IsABag(B), NEW r
  PROVE  IsABag(B (-) SetToBag({r})) /\ BagToSet(B (-) SetToBag({r})) \subseteq BagToSet(B)
  BY DEF (-), SetToBag, IsABag, BagToSet


\* BagCardinality is a sum that a recursive function computes; for one element
\* at most this is the function.
LEMMA BagCount ==
  ASSUME NEW r, NEW T \in SUBSET {r}
  PROVE  BagCardinality(SetToBag(T)) = IF T = {} THEN 0 ELSE 1
  <1> DEFINE B == SetToBag(T)
             Sums(D) == D = [S \in SUBSET DOMAIN B |->
                               LET elt == CHOOSE e \in S : TRUE
                               IN  IF S = {} THEN 0 ELSE B[elt] + D[S \ {elt}]]
             Count == [S \in SUBSET T |-> IF S = {} THEN 0 ELSE 1]
  <1>1. DOMAIN B = T /\ \A e \in T : B[e] = 1
    BY DEF SetToBag
  <1>2. \A S \in SUBSET T : S = {} \/ S = {r}
    OBVIOUS
  <1>3. (CHOOSE e \in {r} : TRUE) = r
    OBVIOUS
  <1>4. Sums(Count)
    <2>1. ASSUME NEW S \in SUBSET T
          PROVE  Count[S] = LET elt == CHOOSE e \in S : TRUE
                            IN  IF S = {} THEN 0 ELSE B[elt] + Count[S \ {elt}]
      <3>1. CASE S = {}
        BY <3>1
      <3>2. CASE S = {r}
        <4>1. S \ {r} = {} /\ S # {} /\ r \in T
          BY <3>2
        <4>2. Count[{}] = 0 /\ Count[S] = 1
          BY <4>1
        <4> HIDE DEF B, Count
        <4> QED
          BY <1>1, <1>3, <3>2, <4>1, <4>2
      <3> QED
        BY <1>2, <3>1, <3>2
    <2> QED
      BY <1>1, <2>1
  <1>5. Sums(CHOOSE D : Sums(D))
    <2> HIDE DEF Sums, Count
    <2> QED
      BY <1>4
  <1>6. BagCardinality(B) = (CHOOSE D : Sums(D))[DOMAIN B]
    <2> HIDE DEF B
    <2> QED
      BY DEF BagCardinality
  <1>7. ASSUME NEW D, Sums(D) PROVE D[T] = IF T = {} THEN 0 ELSE 1
    <2> HIDE DEF B
    <2>1. D[{}] = 0
      BY <1>1, <1>7
    <2>2. CASE T = {r}
      <3>1. D[{r}] = B[r] + D[{r} \ {r}]
        BY <1>1, <1>3, <1>7, <2>2
      <3> QED
        BY <1>1, <2>1, <2>2, <3>1
    <2> QED
      BY <1>2, <2>1, <2>2
  <1>8. BagCardinality(B) = IF T = {} THEN 0 ELSE 1
    <2> HIDE DEF Sums, B
    <2> QED
      BY <1>1, <1>5, <1>6, <1>7
  <1> QED
    BY <1>8

\* The empty bag.
LEMMA NoneCount == BagCardinality(EmptyBag) = 0
  BY BagCount DEF EmptyBag

\* A bag with one element.
LEMMA OneCount == ASSUME NEW r PROVE BagCardinality(SetToBag({r})) = 1
  BY BagCount

\* What queueing, proceeding and leaving do when there is one request at most.
LEMMA OneInBag ==
  ASSUME NEW r, NEW q
  PROVE  /\ BagToSet(SetToBag({r})) = {r} /\ BagToSet(EmptyBag) = {}
         /\ SetToBag({r}) # EmptyBag
         /\ IsABag(SetToBag({r})) /\ IsABag(EmptyBag)
         /\ EmptyBag (+) SetToBag({r}) = SetToBag({r})
         /\ SetToBag({r}) (-) SetToBag({r}) = EmptyBag
         /\ (SetToBag({r}) (-) SetToBag({r})) (+) SetToBag({q}) = SetToBag({q})
  <1>1. SetToBag({r}) (-) SetToBag({r}) = EmptyBag
    BY DEF SetToBag, EmptyBag, (-)
  <1>2. \A p : EmptyBag (+) SetToBag({p}) = SetToBag({p})
    BY DEF SetToBag, EmptyBag, (+)
  <1>3. /\ BagToSet(SetToBag({r})) = {r} /\ BagToSet(EmptyBag) = {}
        /\ SetToBag({r}) # EmptyBag
        /\ IsABag(SetToBag({r})) /\ IsABag(EmptyBag)
    BY DEF SetToBag, EmptyBag, BagToSet, IsABag
  <1> QED
    BY <1>1, <1>2, <1>3
=============================================================================
