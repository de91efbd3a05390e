------------------------------ MODULE NgxQueue ------------------------------
(***************************************************************************)
(* The intrusive, doubly linked ring of src/ngx-queue.h, pointer by        *)
(* pointer.  A ring is a record of two functions over the same cells:      *)
(* prev[x] and next[x] are the two pointers of cell x.  The list head is a *)
(* cell too, and an empty ring is a head that points at itself.            *)
(*                                                                         *)
(* The macros of the header are sequences of assignments through pointers, *)
(* so none of them checks that its argument is (or is not) on the ring.    *)
(* That is what the operators below keep: they do to any two functions     *)
(* what the macros do to memory.                                           *)
(***************************************************************************)

\* ngx_queue_init(h)
QueueInit(q, h) ==
    [prev |-> [q.prev EXCEPT ![h] = h],
     next |-> [q.next EXCEPT ![h] = h]]

\* ngx_queue_empty(h): only the prev pointer of the head is looked at.
QueueEmpty(q, h) == q.prev[h] = h

\* A slip: the end of the ring the last request was linked to.
QueueHeadLast(q, h) == q.prev[h]

\* ngx_queue_head(h): the next pointer of the head, whatever it is.
QueueHead(q, h) == q.next[h]

\* ngx_queue_insert_tail(h, x)
QueueInsertTail(q, h, x) ==
    [prev |-> [q.prev EXCEPT ![x] = q.prev[h], ![h] = x],
     next |-> [q.next EXCEPT ![q.prev[h]] = x, ![x] = h]]

\* A slip: only the ring read forwards is closed again.
QueueRemoveForward(q, x) ==
    [prev |-> q.prev,
     next |-> [q.next EXCEPT ![q.prev[x]] = q.next[x]]]

\* ngx_queue_remove(x): the pointers of x itself keep their values.
QueueRemove(q, x) ==
    [prev |-> [q.prev EXCEPT ![q.next[x]] = q.prev[x]],
     next |-> [q.next EXCEPT ![q.prev[x]] = q.next[x]]]
=============================================================================
