----------------------------- MODULE Discovery -----------------------------
(***************************************************************************)
(* Looking for devices and services on Linux, on macOS or on Windows.      *)
(***************************************************************************)
EXTENDS LinuxINQ, MacINQ, WindowsINQ

VARIABLE platform \* which binding was built

vars == <<callVars, linuxVars, macVars, windowsVars, platform>>

Init ==
    /\ InitCall /\ InitLinux /\ InitMac /\ InitWindows
    /\ platform \in {"linux", "macos", "windows"}

UserCalls == Call /\ UNCHANGED <<linuxVars, macVars, windowsVars, platform>>

Linux   == platform = "linux" /\ LinuxStep /\ UNCHANGED <<macVars, windowsVars, platform>>
Mac     == platform = "macos" /\ MacStep /\ UNCHANGED <<linuxVars, windowsVars, platform>>
Windows == platform = "windows" /\ WindowsStep /\ UNCHANGED <<linuxVars, macVars, platform>>

Answers == Report /\ UNCHANGED <<linuxVars, macVars, windowsVars, platform>>

Next == UserCalls \/ Linux \/ Mac \/ Windows \/ Answers

Spec == Init /\ [][Next]_vars

\* The system answers, and its lists end.
FairSpec == Spec /\ WF_vars(Linux \/ Mac \/ Windows \/ Answers)

-----------------------------------------------------------------------------
\* What the user is told is what the system told the call: all of it, in its
\* order, each device with its own name and services, and the first channel;
\* whether buffers are replaced or names cannot be read in between.
\* (When a lookup of Windows could not begin, there may be rubbish instead.)
AnswerIsGiven ==
    at = "answered" =>
        CASE platform = "linux" -> result = LinuxResult
          [] platform = "macos" -> MacIsGiven
          [] platform = "windows" -> \/ WindowsIsGiven
                                     \/ kind \in Inquiries /\ told = "failed" /\ given = <<>>

\* A search or an inquiry ends because it found a channel, or because the
\* system has no more or failed: nothing else is taken for the end.
EndsForCause ==
    at = "done" /\ kind # "list" => told # "more" \/ (kind = "search" /\ result # None)

\* The same of listPairedDevices on Windows.  (Violated: a device that is not
\* paired can end the list: MCDiscoveryPaired.cfg.)
PairedAllListed ==
    at = "done" /\ kind = "list" /\ platform = "windows" => told # "more"

\* Each call is answered, unless the process ends, or macOS does not start the
\* inquiry: doInquire then waits for ever (BluetoothWorker.mm:275).
EveryCallAnswered ==
    (at = "called") ~> (at \in {"answered", "crashed"} \/ scan = "not_started")
=============================================================================
