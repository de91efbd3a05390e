----------------------------- MODULE DeviceINQ -----------------------------
(***************************************************************************)
(* The calls of a DeviceINQ, as both bindings (src/linux/DeviceINQ.cc,     *)
(* src/windows/DeviceINQ.cc) have them: inquire() and findSerialPortChannel *)
(* on a thread of the pool, inquireSync() and listPairedDevices() on the   *)
(* JavaScript thread.  A call shares nothing with other calls, so that one *)
(* call at a time is enough; what it asks the system for is in LinuxINQ    *)
(* and WindowsINQ.                                                         *)
(*                                                                         *)
(* The system tells a call one thing after the other; `given` is what it   *)
(* told, which the code does not keep.                                     *)
(***************************************************************************)
EXTENDS Naturals, Sequences

CONSTANTS Channels, \* RFCOMM channels
          None,     \* -1: no channel
          MaxGiven  \* bound: the devices the system tells of

ASSUME ChannelsAssumption == None \notin Channels
ASSUME GivenAssumption == MaxGiven \in Nat

VARIABLES
    kind,   \* the operation called
    at,     \* how far the call is
    given,  \* what the system told of: devices, services, elements
    told,   \* how it ended: "more" (it did not), "no_more", "failed"
    result  \* the devices found so far, or the channel

callVars == <<kind, at, given, told, result>>

Kinds     == {"search", "inquire", "inquireSync", "list"}
Inquiries == {"inquire", "inquireSync"}

InitCall ==
    /\ kind = "search" /\ at = "answered"
    /\ given = <<>> /\ told = "more"
    /\ result = None

\* Inquire, InquireSync, SdpSearch and ListPairedDevices.
Call ==
    /\ at = "answered"
    /\ at' = "called"
    /\ kind' \in Kinds
    /\ given' = <<>> /\ told' = "more"
    /\ result' = IF kind' = "search" THEN None ELSE <<>>

\* The native part is done and has this result.
Ends(r) == at' = "done" /\ result' = r

\* EIO_AfterSdpSearch and the library's function, which calls either callback;
\* 'found' for each device, then 'finished'; the callback with the list: each
\* with the result as it is.
Report ==
    /\ at = "done"
    /\ at' = "answered"
    /\ UNCHANGED <<kind, given, told, result>>
=============================================================================
