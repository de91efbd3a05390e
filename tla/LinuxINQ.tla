------------------------------ MODULE LinuxINQ ------------------------------
(***************************************************************************)
(* src/linux/DeviceINQ.cc: hci_inquiry returns the devices at once and     *)
(* their names are asked for one by one; a search walks over the lists of  *)
(* attributes in the service records of the device.                        *)
(***************************************************************************)
EXTENDS DeviceINQ, SequencesExt

CONSTANT MaxElements \* bound: lists and elements in a walk

ASSUME ElementsAssumption == MaxElements \in Nat

VARIABLES
    proto,  \* proto is RFCOMM_UUID: of the list the search is in
    sock,   \* the HCI device is open
    left    \* devices whose name was not asked for yet

linuxVars == <<proto, sock, left>>

InitLinux == proto = FALSE /\ sock = FALSE /\ left = 0

-----------------------------------------------------------------------------
(* findSerialPortChannel.  `given` is a sequence of lists, each a sequence *)
(* of elements: RFCOMM's UUID, another one, 8 bits or something else.      *)

Elements == [dtd : {"uuid"}, rfcomm : BOOLEAN] \cup [dtd : {"uint8"}, val : Channels]
              \cup {[dtd |-> "else"]}

\* The elements told of are bounded.
Total(lists) == Len(lists) + Len(FlattenSeq(lists))

\* EIO_SdpSearch: there is no session, or there is one.
SdpConnects ==
    /\ at = "called" /\ kind = "search"
    /\ \/ at' = "walking" /\ UNCHANGED <<told, result>>
       \/ Ends(None) /\ told' = "failed"
    /\ UNCHANGED <<kind, given, linuxVars>>

\* A slip: what was found in one list counts for the next.
NextListKeeps ==
    /\ at = "walking" /\ Total(given) < MaxElements
    /\ given' = Append(given, <<>>)
    /\ UNCHANGED <<kind, at, told, result, linuxVars>>

\* The next list, of this sequence of protocols, the next or the next record.
NextList ==
    /\ at = "walking" /\ Total(given) < MaxElements
    /\ given' = Append(given, <<>>)
    /\ proto' = FALSE
    /\ UNCHANGED <<kind, at, told, result, sock, left>>

\* The next element; the search returns with the first channel of RFCOMM.
NextElement ==
    /\ at = "walking" /\ given # <<>> /\ Total(given) < MaxElements
    /\ \E d \in Elements :
         /\ given' = [given EXCEPT ![Len(given)] = Append(@, d)]
         /\ proto' = IF d.dtd = "uuid" THEN d.rfcomm ELSE proto
         /\ IF d.dtd = "uint8" /\ proto THEN Ends(d.val) ELSE UNCHANGED <<at, result>>
    /\ UNCHANGED <<kind, told, sock, left>>

\* There are no more records, or the request for them failed.
WalkEnds ==
    /\ at = "walking"
    /\ \/ told' = "no_more"
       \/ given = <<>> /\ told' = "failed"
    /\ Ends(None)
    /\ UNCHANGED <<kind, given, linuxVars>>

\* The channel of the device: the first one that stands in a list after the
\* UUID of RFCOMM, with no other UUID in between.
IsChannel(list, n) ==
    /\ list[n].dtd = "uint8"
    /\ \E m \in 1..(n - 1) : list[m] = [dtd |-> "uuid", rfcomm |-> TRUE]
                             /\ \A k \in (m + 1)..(n - 1) : list[k].dtd # "uuid"

ServiceChannel(lists) ==
    LET hits == UNION {{<<i, n>> : n \in {m \in DOMAIN lists[i] : IsChannel(lists[i], m)}} :
                         i \in DOMAIN lists}
    IN  IF hits = {} THEN None
        ELSE LET first == CHOOSE h \in hits : \A g \in hits :
                            h[1] < g[1] \/ (h[1] = g[1] /\ h[2] <= g[2])
             IN  lists[first[1]][first[2]].val

-----------------------------------------------------------------------------
(* inquire.  `given` is a sequence of devices: whether each tells its name. *)

\* doInquire: without an adapter Nan::ThrowError, which on a thread of the
\* pool is the end of the process, and elsewhere lets the function go on.
OpensDevice ==
    /\ at = "called" /\ kind \in Inquiries
    /\ \/ sock' = TRUE /\ at' = "inquiring"
       \/ sock' = FALSE /\ at' = IF kind = "inquire" THEN "crashed" ELSE "inquiring"
    /\ UNCHANGED <<kind, given, told, result, proto, left>>

\* hci_inquiry: -1 makes the loops do nothing.
Inquires ==
    /\ at = "inquiring"
    /\ at' = "naming"
    /\ \/ told' = "no_more" /\ left' \in 0..MaxGiven
       \/ told' = "failed" /\ left' = 0
    /\ UNCHANGED <<kind, given, result, proto, sock>>

\* The name read, or the address (0) instead.
DeviceName(named) == IF named THEN Len(given) + 1 ELSE 0

ReadsName ==
    /\ at = "naming" /\ left > 0
    /\ left' = left - 1
    /\ \E named \in IF sock THEN BOOLEAN ELSE {FALSE} :
         /\ given' = Append(given, named)
         /\ result' = Append(result, DeviceName(named))
    /\ UNCHANGED <<kind, at, told, proto, sock>>

NamesEnd ==
    /\ at = "naming" /\ left = 0
    /\ sock' = FALSE
    /\ Ends(result)
    /\ UNCHANGED <<kind, given, told, proto, left>>

\* Every device, in order, each by its own name or its address.
DevicesNamed == [n \in DOMAIN given |-> IF given[n] THEN n ELSE 0]

-----------------------------------------------------------------------------
\* ListPairedDevices is not implemented: the list is empty.
ListsNothing ==
    /\ at = "called" /\ kind = "list"
    /\ Ends(<<>>)
    /\ UNCHANGED <<kind, given, told, linuxVars>>

LinuxStep == \/ SdpConnects \/ NextList \/ NextElement \/ WalkEnds
             \/ OpensDevice \/ Inquires \/ ReadsName \/ NamesEnd \/ ListsNothing

LinuxResult == CASE kind = "search" -> ServiceChannel(given)
                 [] kind \in Inquiries -> DevicesNamed
                 [] kind = "list" -> <<>>
=============================================================================
