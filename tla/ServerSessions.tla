--------------------------- MODULE ServerSessions ---------------------------
(***************************************************************************)
(* What a server promises its user: the events form sessions.  A client is *)
(* announced, its chunks are delivered, the session ends with one event,   *)
(* and only then is the next client announced.                             *)
(***************************************************************************)
EXTENDS Naturals

CONSTANTS Clients, NoClient, MaxData

VARIABLES session,   \* the client that was announced last, until its end
          announced, \* the clients that were announced
          delivered, \* delivered[c]: how many chunks of c
          ended      \* how many sessions ended

vars == <<session, announced, delivered, ended>>

Init == /\ session = NoClient
        /\ announced = {}
        /\ delivered = [c \in Clients |-> 0]
        /\ ended = 0

Announce == /\ session = NoClient
            /\ \E c \in Clients \ announced :
                  /\ session' = c
                  /\ announced' = announced \cup {c}
            /\ UNCHANGED <<delivered, ended>>

Deliver == /\ session # NoClient
           /\ delivered[session] < MaxData
           /\ delivered' = [delivered EXCEPT ![session] = @ + 1]
           /\ UNCHANGED <<session, announced, ended>>

End == /\ session # NoClient
       /\ session' = NoClient
       /\ ended' = ended + 1
       /\ UNCHANGED <<announced, delivered>>

Next == Announce \/ Deliver \/ End

Spec == Init /\ [][Next]_vars
=============================================================================
