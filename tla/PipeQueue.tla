----------------------------- MODULE PipeQueue -----------------------------
(***************************************************************************)
(* What a pipe promises (src/macos/pipe.h): "a collection of elements,     *)
(* enqueued and dequeued in a FIFO pattern", by several threads.  A push   *)
(* appends the next elements of its producer in one step, and a pop takes  *)
(* at least one element from the front.                                    *)
(***************************************************************************)
EXTENDS Naturals, Sequences

CONSTANTS Producers, MaxItems, MaxPush

VARIABLES queue,  \* the elements in the pipe
          pushed, \* pushed[p]: how many elements p pushed
          popped  \* the elements that were popped, in that order

vars == <<queue, pushed, popped>>

\* The next n elements of p; the k-th element of p is <<p, k>>.
NextOf(p, from, n) == [i \in 1..n |-> <<p, from + i>>]

Init == /\ queue = <<>>
        /\ pushed = [p \in Producers |-> 0]
        /\ popped = <<>>

Push(p) == \E n \in 1..MaxPush :
    /\ pushed[p] + n <= MaxItems
    /\ queue' = queue \o NextOf(p, pushed[p], n)
    /\ pushed' = [pushed EXCEPT ![p] = @ + n]
    /\ UNCHANGED popped

Pop == \E n \in 1..Len(queue) :
    /\ popped' = popped \o SubSeq(queue, 1, n)
    /\ queue' = SubSeq(queue, n + 1, Len(queue))
    /\ UNCHANGED pushed

Next == Pop \/ \E p \in Producers : Push(p)

Spec == Init /\ [][Next]_vars
=============================================================================
