\* Three connections share the static queue and there are four writes: a later
\* constructor finds none to four requests on the ring, and a third one can
\* come while requests of two abandoned rings are still alive.
SPECIFICATION Spec
CONSTANTS
    Writes = {w1, w2, w3, w4}
    Conns = {c1, c2, c3}
    Size = 1
    Sentinel = Sentinel
    NULL = NULL
SYMMETRY Interchangeable
INVARIANTS SubmittedOnce NoDanglingLink
CHECK_DEADLOCK FALSE
