---------------------------- MODULE SerialWriter ----------------------------
(***************************************************************************)
(* What the write queue of a binding promises its callers: the writes it   *)
(* accepts are executed one at a time, in the order of the calls, and each *)
(* is answered exactly once, also in that order.                           *)
(***************************************************************************)
EXTENDS Naturals, Sequences

CONSTANTS Writes,   \* the write() calls
          Size      \* length of every buffer, in the units write(2) accepts

VARIABLES log,      \* the accepted writes, in the order of the calls
          answered, \* the writes whose callback was called, in that order
          sent      \* how much of each buffer is on the connection

vars == <<log, answered, sent>>

Accepted == {log[i] : i \in DOMAIN log}

\* The oldest write not answered yet, the only one that may touch the wire.
Current == log[Len(answered) + 1]

Init == /\ log = <<>>
        /\ answered = <<>>
        /\ sent = [w \in Writes |-> 0]

Accept == \E w \in Writes \ Accepted :
              /\ log' = Append(log, w)
              /\ UNCHANGED <<answered, sent>>

Transmit == /\ Len(answered) < Len(log)
            /\ \E n \in 1..(Size - sent[Current]) :
                   sent' = [sent EXCEPT ![Current] = @ + n]
            /\ UNCHANGED <<log, answered>>

\* The callback may report an error, so the buffer need not be sent in full.
Answer == /\ Len(answered) < Len(log)
          /\ answered' = Append(answered, Current)
          /\ UNCHANGED <<log, sent>>

Next == Accept \/ Transmit \/ Answer

Spec == Init /\ [][Next]_vars
=============================================================================
