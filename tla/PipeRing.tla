------------------------------ MODULE PipeRing ------------------------------
(***************************************************************************)
(* The arithmetic of the ring buffer of src/macos/pipe.c, in elements.     *)
(* Pointers are offsets from buffer; a ring of sz slots has bufend = sz.   *)
(* begin points at the sentinel, the slot before the first element, and    *)
(* end past the last element.                                              *)
(***************************************************************************)
EXTENDS Naturals, Sequences

Least(a, b) == IF a < b THEN a ELSE b

\* wraps_around, capacity, bytes_in_use, wrap_ptr_if_necessary
WrapsAround(b, e) == b >= e
Capacity(sz) == sz - 1
InUse(sz, b, e) == (IF WrapsAround(b, e) THEN e + (sz - b) ELSE e - b) - 1
Wrap(sz, x) == IF x >= sz THEN x - sz ELSE x

\* next_pow2 of a positive n; the overflow it guards against is out of reach.
Pow2[k \in Nat] == IF k = 0 THEN 1 ELSE 2 * Pow2[k - 1]
NextPow2(n) == CHOOSE m \in {Pow2[k] : k \in 0..n} :
    m >= n /\ \A k \in 0..n : Pow2[k] >= n => m <= Pow2[k]

\* The elements of the ring, from the left.
Elements(buf, sz, b, e) == [i \in 1..InUse(sz, b, e) |-> buf[Wrap(sz, b + i)]]

\* process_push: how many of n elements fit before bufend, the slot of the
\* i-th of them, and the new end.
AtEnd(sz, b, e, n) == IF WrapsAround(b, e) THEN 0 ELSE Least(n, sz - e)
PushSlot(sz, b, e, n, i) ==
    LET first == AtEnd(sz, b, e, n)
    IN  IF i <= first THEN e + i - 1 ELSE Wrap(sz, e + first) + (i - first) - 1
\* A slip: the last wrap is forgotten, which process_push makes although it
\* says that end is never bufend.
NewEndUnwrapped(sz, b, e, n) ==
    LET first == AtEnd(sz, b, e, n)
    IN  IF n > first THEN Wrap(sz, e + first) + (n - first) ELSE e + first

NewEnd(sz, b, e, n) ==
    LET first == AtEnd(sz, b, e, n)
    IN  Wrap(sz, IF n > first THEN Wrap(sz, e + first) + (n - first) ELSE e + first)

\* pop_without_locking: how many of n elements lie before bufend, the slot of
\* the i-th of them, and the new begin.
BeforeEnd(sz, b, n) == Least(n, sz - b - 1)
PopSlot(sz, b, n, i) ==
    LET first == BeforeEnd(sz, b, n)
    IN  IF i <= first THEN b + i ELSE Wrap(sz, b + first + 1) + (i - first) - 1

\* A slip: the sentinel is forgotten when the pop wraps.
NewBeginForgets(sz, b, n) ==
    LET first == BeforeEnd(sz, b, n)
    IN  IF n > first THEN Wrap(sz, Wrap(sz, b + first + 1) + (n - first))
        ELSE Wrap(sz, b + first)

NewBegin(sz, b, n) ==
    LET first == BeforeEnd(sz, b, n)
        past  == Wrap(sz, Wrap(sz, b + first + 1) + (n - first))
    IN  IF n = first THEN Wrap(sz, b + first)
        ELSE IF past = 0 THEN sz - 1 ELSE past - 1
=============================================================================
