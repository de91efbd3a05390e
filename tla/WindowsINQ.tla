----------------------------- MODULE WindowsINQ -----------------------------
(***************************************************************************)
(* src/windows/DeviceINQ.cc: every operation is a lookup of Winsock, begun *)
(* with WSALookupServiceBegin and continued with WSALookupServiceNext until *)
(* that fails.  If it fails with WSAEFAULT, the buffer was too small and   *)
(* the code makes one of the size that Winsock says.  ListPairedDevices    *)
(* looks up the services of each paired device in a lookup of its own.     *)
(*                                                                         *)
(* `given` is a sequence of devices, or for a search of services.  Memory  *)
(* does not run out, and there are at most max_rsp (255) devices.          *)
(***************************************************************************)
EXTENDS DeviceINQ

CONSTANTS MaxSize,    \* bound: the largest buffer Winsock asks for
          MaxServices \* bound: services of a device

ASSUME SizeAssumption == MaxSize \in Nat \ {0} /\ MaxServices \in Nat

VARIABLES
    size,     \* the sizes of the two buffers, querySet and querySet2
    need,     \* the sizes that Winsock asked for, and waits for
    error     \* WSAGetLastError()

windowsVars == <<size, need, error>>

Errors  == {"fault", "no_more", "other"}
Lookups == {"querySet", "querySet2"}

InitWindows ==
    /\ size = [l \in Lookups |-> 0] /\ need = [l \in Lookups |-> 0]
    /\ error = "other"

-----------------------------------------------------------------------------
\* A device: whether it is paired, whether its address can be converted, and
\* its services.
Devices  == [paired : BOOLEAN, address : BOOLEAN, services : {<<>>}]
Services == [channel : Channels]

\* A call that succeeds may leave the last error as it is.
Succeeds == error' \in {error, "other"}

\* A slip: a new buffer, but as small as the one before.
ResizesNot(l, n) == UNCHANGED size
Resizes(l, n)    == size' = [size EXCEPT ![l] = n]

\* WSALookupServiceNext says that the buffer is too small, and again as long as
\* it is; the code makes one of the size it is told.
Faults(l) ==
    /\ error' = "fault"
    /\ \E n \in (size[l] + 1)..MaxSize :
         /\ need[l] <= size[l] \/ n = need[l]
         /\ need' = [need EXCEPT ![l] = n]
         /\ Resizes(l, n)

Fits(l) == need[l] <= size[l]

\* WSALookupServiceNext has nothing more, or fails.
Stops == error' \in {"no_more", "other"} /\ told' = IF error' = "no_more" THEN "no_more" ELSE "failed"

-----------------------------------------------------------------------------
\* WSALookupServiceBegin, with a buffer of the least size.
Begins ==
    /\ at = "called"
    /\ size' = [size EXCEPT !["querySet"] = 0] /\ need' = [need EXCEPT !["querySet"] = 0]
    /\ UNCHANGED <<kind, given>>

LookupBegins ==
    /\ Begins
    /\ at' = "looking"
    /\ Succeeds
    /\ UNCHANGED <<told, result>>

\* It fails: with WSASERVICE_NOT_FOUND there is no adapter.
NotBegun == Begins /\ error' = "other" /\ told' = "failed"

SearchNotBegun == NotBegun /\ kind = "search" /\ Ends(None)

\* Without an adapter an inquiry returns what its result had in memory
\* ("rubbish" or nothing).  With another error it frees its buffer and throws,
\* which on a thread of the pool is the end of the process; elsewhere it goes
\* on, and frees the buffer again.
InquiryNotBegun ==
    /\ NotBegun /\ kind \in Inquiries
    /\ \/ at' = "crashed" /\ UNCHANGED result
       \/ \E r \in {<<>>, <<"rubbish">>} : Ends(r)

\* ListPairedDevices frees its buffer twice, too, or has an empty list.
ListNotBegun ==
    /\ NotBegun /\ kind = "list"
    /\ \/ at' = "crashed" /\ UNCHANGED result
       \/ Ends(<<>>)

\* A slip: the error is taken for the end.
LookupFaultsEnds ==
    /\ at = "looking"
    /\ Faults("querySet")
    /\ Ends(result)
    /\ UNCHANGED <<kind, given, told>>

LookupFaults ==
    /\ at = "looking"
    /\ Faults("querySet")
    /\ UNCHANGED callVars

LookupStops ==
    /\ at = "looking" /\ Fits("querySet")
    /\ Stops
    /\ Ends(result)
    /\ UNCHANGED <<kind, given, size, need>>

MayGive == at = "looking" /\ Fits("querySet") /\ Len(given) < MaxGiven

\* EIO_SdpSearch: the first service ends the search.
GivesService ==
    /\ MayGive /\ kind = "search"
    /\ \E s \in Services : given' = Append(given, s) /\ Ends(s.channel)
    /\ Succeeds
    /\ UNCHANGED <<kind, told, size, need>>

\* doInquire: a device without an address is passed over.
GivesDevice ==
    /\ MayGive /\ kind \in Inquiries
    /\ \E d \in Devices :
         /\ given' = Append(given, d)
         /\ result' = IF d.address THEN Append(result, Len(given')) ELSE result
    /\ Succeeds
    /\ UNCHANGED <<kind, at, told, size, need>>

\* ListPairedDevices: a device that is not paired is treated as an error; the
\* error is the one of an earlier call.
GivesUnpaired ==
    /\ MayGive /\ kind = "list"
    /\ \E d \in Devices : ~d.paired /\ given' = Append(given, d)
    /\ Succeeds
    /\ IF error' = "fault" THEN UNCHANGED <<at, result>> ELSE Ends(result)
    /\ UNCHANGED <<kind, told, size, need>>

GivesPaired ==
    /\ MayGive /\ kind = "list"
    /\ \E d \in Devices :
         /\ d.paired /\ given' = Append(given, d)
         /\ IF d.address
              THEN /\ at' = "services"
                   /\ result' = Append(result, [device |-> Len(given'), services |-> <<>>])
              ELSE UNCHANGED <<at, result>>
    /\ Succeeds
    /\ UNCHANGED <<kind, told, size, need>>

\* The second lookup, which may fail to begin: with WSASERVICE_NOT_FOUND the
\* device has no services; else querySet is freed, and used all the same.
ServicesBegin ==
    /\ at = "services"
    /\ size' = [size EXCEPT !["querySet2"] = 0] /\ need' = [need EXCEPT !["querySet2"] = 0]
    /\ \/ at' = "looking2" /\ Succeeds
       \/ at' \in {"looking", "crashed"} /\ error' = "other"
    /\ UNCHANGED <<kind, given, told, result>>

ServicesFault ==
    /\ at = "looking2"
    /\ Faults("querySet2")
    /\ UNCHANGED callVars

ServicesGive ==
    /\ at = "looking2" /\ Fits("querySet2")
    /\ Len(given[Len(given)].services) < MaxServices
    /\ \E c \in Channels :
         /\ given' = [given EXCEPT ![Len(given)].services = Append(@, c)]
         /\ result' = [result EXCEPT ![Len(result)].services = Append(@, c)]
    /\ Succeeds
    /\ UNCHANGED <<kind, at, told, size, need>>

\* The lookup of the services has no more, or fails; it is not ended.
ServicesStop ==
    /\ at = "looking2" /\ Fits("querySet2")
    /\ at' = "looking"
    /\ error' \in {"no_more", "other"}
    /\ UNCHANGED <<kind, given, told, result, size, need>>

WindowsStep ==
    \/ LookupBegins \/ SearchNotBegun \/ InquiryNotBegun \/ ListNotBegun
    \/ LookupFaults \/ LookupStops
    \/ GivesService \/ GivesDevice \/ GivesUnpaired \/ GivesPaired
    \/ ServicesBegin \/ ServicesFault \/ ServicesGive \/ ServicesStop

-----------------------------------------------------------------------------
\* These are the places in `given` that belong to the answer, in order.
AreInOrder(places, expected) ==
    /\ {places[n] : n \in DOMAIN places} = expected
    /\ \A m, n \in DOMAIN places : m < n => places[m] < places[n]

\* The devices of a list.
DevicesOf(list) == [n \in DOMAIN list |-> list[n].device]

HasAddress == {n \in DOMAIN given : given[n].address}
IsListed   == {n \in DOMAIN given : given[n].address /\ given[n].paired}

WindowsIsGiven ==
    CASE kind = "search" -> result = IF given = <<>> THEN None ELSE given[1].channel
      [] kind \in Inquiries -> AreInOrder(result, HasAddress)
      [] kind = "list" -> /\ AreInOrder(DevicesOf(result), IsListed)
                          /\ \A n \in DOMAIN result :
                                 result[n].services = given[result[n].device].services
=============================================================================
