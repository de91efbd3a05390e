--------------------------- MODULE DiscoveryProofs ---------------------------
(***************************************************************************)
(* Theorems about Discovery, for any number of devices, services, records  *)
(* and elements, and any sizes of buffers.                                 *)
(***************************************************************************)
EXTENDS Discovery, SequenceTheorems, TLAPS

-----------------------------------------------------------------------------
(* A call ends for a cause.                                                *)

CauseInv ==
    /\ EndsForCause
    /\ at \in {"walking", "records"} => kind = "search"
    /\ at = "naming" => told # "more"
    /\ at = "popping" /\ ~inquiryProducer => told # "more"
    /\ at = "listing" => kind = "list"

\* Which calls there are, and what they do on each platform.
LEMMA Calls == ASSUME NEW k, k \in Inquiries PROVE k # "search" /\ k # "list"
  BY DEF Inquiries

LEMMA CauseNext == CauseInv /\ [Next]_vars => CauseInv'
  <1> SUFFICES ASSUME CauseInv, [Next]_vars PROVE CauseInv'
    OBVIOUS
  <1> USE Calls DEF CauseInv, EndsForCause
  <1>1. CASE UserCalls
    BY <1>1 DEF UserCalls, Call
  <1>2. CASE Linux
    <2>1. LinuxStep /\ UNCHANGED macVars
      BY <1>2 DEF Linux
    <2>2. CASE SdpConnects
      BY <2>1, <2>2 DEF SdpConnects, Ends, macVars
    <2>3. CASE NextList
      BY <2>1, <2>3 DEF NextList, macVars
    <2>4. CASE NextElement
      <3>1. PICK d \in Elements : IF d.dtd = "uint8" /\ proto THEN Ends(d.val) ELSE UNCHANGED <<at, result>>
        BY <2>4 DEF NextElement
      <3>2. d.dtd = "uint8" => d.val # None
        BY ChannelsAssumption DEF Elements
      <3> QED
        BY <2>1, <2>4, <3>1, <3>2 DEF NextElement, Ends, macVars
    <2>5. CASE WalkEnds
      BY <2>1, <2>5 DEF WalkEnds, Ends, macVars
    <2>6. CASE OpensDevice
      BY <2>1, <2>6 DEF OpensDevice, macVars
    <2>7. CASE Inquires
      BY <2>1, <2>7 DEF Inquires, macVars
    <2>8. CASE ReadsName
      BY <2>1, <2>8 DEF ReadsName, macVars
    <2>9. CASE NamesEnd
      BY <2>1, <2>9 DEF NamesEnd, Ends, macVars
    <2>10. CASE ListsNothing
      BY <2>1, <2>10 DEF ListsNothing, Ends, macVars
    <2> QED
      BY <2>1, <2>2, <2>3, <2>4, <2>5, <2>6, <2>7, <2>8, <2>9, <2>10 DEF LinuxStep
  <1>3. CASE Mac
    <2>1. CASE InquireWithPipe
      BY <2>1 DEF InquireWithPipe
    <2>2. CASE PopsDevice
      BY <2>2 DEF PopsDevice
    <2>3. CASE PopsNothing
      BY <2>3 DEF PopsNothing, Ends, macVars
    <2>4. CASE InquiryTask
      BY <2>4 DEF InquiryTask, callVars
    <2>5. CASE DeviceInquiryDeviceFound
      BY <2>5 DEF DeviceInquiryDeviceFound
    <2>6. CASE DeviceInquiryComplete
      BY <2>6 DEF DeviceInquiryComplete
    <2>7. CASE SearchBegins
      BY <2>7 DEF SearchBegins, macVars
    <2>8. CASE NextRecord
      BY <2>8 DEF NextRecord, Ends, macVars
    <2>9. CASE RecordsEnd
      BY <2>9 DEF RecordsEnd, Ends, macVars
    <2>10. CASE ListsPaired
      BY <2>10 DEF ListsPaired, macVars
    <2>11. CASE ListsDevice
      BY <2>11 DEF ListsDevice, macVars
    <2>12. CASE ListsService
      BY <2>12 DEF ListsService, macVars
    <2>13. CASE ListEnds
      BY <2>13 DEF ListEnds, Ends, macVars
    <2> QED
      BY <1>3, <2>1, <2>2, <2>3, <2>4, <2>5, <2>6, <2>7, <2>8, <2>9, <2>10, <2>11, <2>12, <2>13
         DEF Mac, MacStep
  <1>4. CASE Windows
    <2>1. WindowsStep /\ UNCHANGED macVars
      BY <1>4 DEF Windows
    <2>2. CASE LookupBegins
      BY <2>1, <2>2 DEF LookupBegins, Begins, macVars
    <2>3. CASE SearchNotBegun \/ InquiryNotBegun \/ ListNotBegun
      BY <2>1, <2>3 DEF SearchNotBegun, InquiryNotBegun, ListNotBegun, NotBegun, Begins, Ends, macVars
    <2>4. CASE LookupFaults \/ ServicesFault
      BY <2>1, <2>4 DEF LookupFaults, ServicesFault, callVars, macVars
    <2>5. CASE LookupStops
      BY <2>1, <2>5 DEF LookupStops, Stops, Ends, macVars
    <2>6. CASE GivesService
      <3>1. PICK c \in Services : Ends(c.channel)
        BY <2>6 DEF GivesService
      <3>2. c.channel # None
        BY ChannelsAssumption DEF Services
      <3> QED
        BY <2>1, <2>6, <3>1, <3>2 DEF GivesService, Ends, macVars
    <2>7. CASE GivesDevice
      BY <2>1, <2>7 DEF GivesDevice, MayGive, macVars
    <2>8. CASE GivesUnpaired \/ GivesPaired
      BY <2>1, <2>8 DEF GivesUnpaired, GivesPaired, MayGive, Ends, macVars
    <2>9. CASE ServicesBegin \/ ServicesGive \/ ServicesStop
      BY <2>1, <2>9 DEF ServicesBegin, ServicesGive, ServicesStop, macVars
    <2> QED
      BY <2>1, <2>2, <2>3, <2>4, <2>5, <2>6, <2>7, <2>8, <2>9 DEF WindowsStep
  <1>5. CASE Answers
    BY <1>5 DEF Answers, Report, macVars
  <1>6. CASE UNCHANGED vars
    BY <1>6 DEF vars, callVars, macVars
  <1> QED
    BY <1>1, <1>2, <1>3, <1>4, <1>5, <1>6 DEF Next

\* A search or an inquiry ends because it found a channel, or because the
\* system has no more or failed; on Windows a buffer that is too small
\* (WSAEFAULT) is not taken for the end, and neither is an unreadable name.
THEOREM DiscoveryCauses == Spec => []EndsForCause
  <1>1. Init => CauseInv
    BY DEF Init, InitCall, InitMac, CauseInv, EndsForCause
  <1>2. CauseInv => EndsForCause
    BY DEF CauseInv
  <1> QED
    BY <1>1, <1>2, CauseNext, PTL DEF Spec

-----------------------------------------------------------------------------
(* What a call has of what it was told, on each platform.                  *)

\* Nothing, when it begins.
Nothing == given = <<>> /\ result = IF kind = "search" THEN None ELSE <<>>

\* Linux: proto says whether the UUID before the next element is that of
\* RFCOMM, and no element was the channel.
Follows(list, n) == \E m \in 1..(n - 1) :
    list[m] = [dtd |-> "uuid", rfcomm |-> TRUE] /\ \A k \in (m + 1)..(n - 1) : list[k].dtd # "uuid"

Walk ==
    /\ given \in Seq(Seq(Elements)) /\ result = None
    /\ \A i \in DOMAIN given : \A n \in DOMAIN given[i] : ~IsChannel(given[i], n)
    /\ given # <<>> => (proto <=> Follows(given[Len(given)], Len(given[Len(given)]) + 1))

LinuxInv ==
    /\ at \in {"called", "walking", "inquiring", "naming", "done", "answered", "crashed"}
    /\ at \in {"called", "inquiring"} => Nothing
    /\ at = "walking" => kind = "search" /\ Walk
    /\ at = "inquiring" => kind \in Inquiries
    /\ at = "naming" => kind \in Inquiries /\ given \in Seq(BOOLEAN) /\ result = DevicesNamed
    /\ at \in {"done", "answered"} => result = LinuxResult

\* No record is one of RFCOMM with a channel.
NoHit(records) == \A n \in DOMAIN records : ~(records[n].rfcomm /\ records[n].channel # None)

\* macOS: the devices that were not popped are in the pipe, the records had no
\* channel, and the list is what was told.
MacInv ==
    /\ at \in {"called", "popping", "records", "listing", "done", "answered"}
    /\ at = "called" => Nothing
    /\ scan # "off" => at = "popping" /\ inquiryProducer
    /\ at = "popping" =>
          /\ kind \in Inquiries
          /\ given \in Seq({"device"}) /\ result \in Seq(Nat) /\ pipe \in Seq(Nat)
          /\ result \o pipe = [n \in DOMAIN given |-> n]
    /\ at = "records" =>
          /\ kind = "search" /\ result = None /\ given \in Seq(Records)
          /\ NoHit(given)
    /\ at = "listing" =>
          /\ kind = "list" /\ ListIsGiven
          /\ given \in Seq(Seq(Channels \cup {None})) /\ result \in Seq(Seq(Channels \cup {None}))
    /\ at \in {"done", "answered"} => MacIsGiven

\* Windows: the places of the devices so far, each with the services so far.
Told   == [paired : BOOLEAN, address : BOOLEAN, services : Seq(Channels)]
Listed == [device : Nat, services : Seq(Channels)]

FoundIn(devices, places) ==
    /\ devices \in Seq(Devices) /\ places \in Seq(Nat)
    /\ AreInOrder(places, {n \in DOMAIN devices : devices[n].address})

ListedIn(devices, list) ==
    /\ devices \in Seq(Told) /\ list \in Seq(Listed)
    /\ AreInOrder(DevicesOf(list), {n \in DOMAIN devices : devices[n].address /\ devices[n].paired})
    /\ \A n \in DOMAIN list : list[n].services = devices[list[n].device].services

WindowsInv ==
    /\ at \in {"called", "looking", "services", "looking2", "done", "answered", "crashed"}
    /\ at = "called" => Nothing
    /\ at = "looking" =>
          /\ kind = "search" => given = <<>> /\ result = None
          /\ kind \in Inquiries => FoundIn(given, result)
          /\ kind = "list" => ListedIn(given, result)
    /\ at \in {"services", "looking2"} =>
          /\ kind = "list" /\ ListedIn(given, result)
          /\ given # <<>> /\ result # <<>> /\ result[Len(result)].device = Len(given)
    /\ at \in {"done", "answered"} =>
          \/ WindowsIsGiven
          \/ kind \in Inquiries /\ told = "failed" /\ given = <<>>

GivenInv ==
    /\ kind \in Kinds /\ platform \in {"linux", "macos", "windows"}
    /\ platform = "linux" => LinuxInv
    /\ platform = "macos" => MacInv
    /\ platform = "windows" => WindowsInv


-----------------------------------------------------------------------------
(* The operators of Linux.                                                 *)

\* Only what stands before n counts.
LEMMA FollowsPrefix ==
  ASSUME NEW a, NEW b, NEW n \in Nat, \A k \in 1..(n - 1) : a[k] = b[k]
  PROVE  Follows(a, n) <=> Follows(b, n)
  BY DEF Follows

\* One element further: it is the UUID, or none and the UUID was before.
LEMMA FollowsNext ==
  ASSUME NEW a, NEW n \in Nat \ {0}
  PROVE  Follows(a, n + 1) <=> \/ a[n] = [dtd |-> "uuid", rfcomm |-> TRUE]
                               \/ a[n].dtd # "uuid" /\ Follows(a, n)
  <1>1. 1..((n + 1) - 1) = 1..(n - 1) \cup {n}
    OBVIOUS
  <1>2. (n + 1)..((n + 1) - 1) = {}
    OBVIOUS
  <1>3. \A m \in 1..(n - 1) : (m + 1)..((n + 1) - 1) = (m + 1)..(n - 1) \cup {n}
    OBVIOUS
  <1>4. ASSUME Follows(a, n + 1)
        PROVE  \/ a[n] = [dtd |-> "uuid", rfcomm |-> TRUE]
               \/ a[n].dtd # "uuid" /\ Follows(a, n)
    <2>1. PICK m \in 1..((n + 1) - 1) : /\ a[m] = [dtd |-> "uuid", rfcomm |-> TRUE]
                                        /\ \A k \in (m + 1)..((n + 1) - 1) : a[k].dtd # "uuid"
      BY <1>4 DEF Follows
    <2>2. CASE m = n
      BY <2>1, <2>2
    <2>3. CASE m # n
      <3>1. m \in 1..(n - 1)
        BY <2>3
      <3>2. /\ a[n].dtd # "uuid"
            /\ \A k \in (m + 1)..(n - 1) : a[k].dtd # "uuid"
        BY <1>3, <2>1, <3>1
      <3> QED
        BY <2>1, <3>1, <3>2 DEF Follows
    <2> QED
      BY <2>2, <2>3
  <1>5. ASSUME a[n] = [dtd |-> "uuid", rfcomm |-> TRUE] PROVE Follows(a, n + 1)
    BY <1>1, <1>2, <1>5 DEF Follows
  <1>6. ASSUME a[n].dtd # "uuid", Follows(a, n) PROVE Follows(a, n + 1)
    <2>1. PICK m \in 1..(n - 1) : /\ a[m] = [dtd |-> "uuid", rfcomm |-> TRUE]
                                  /\ \A k \in (m + 1)..(n - 1) : a[k].dtd # "uuid"
      BY <1>6 DEF Follows
    <2>2. \A k \in (m + 1)..((n + 1) - 1) : a[k].dtd # "uuid"
      BY <1>3, <1>6, <2>1
    <2> QED
      BY <1>1, <2>1, <2>2 DEF Follows
  <1> QED
    BY <1>4, <1>5, <1>6

\* What IsChannel says of element n.
LEMMA ChannelFollows ==
  ASSUME NEW list, NEW n
  PROVE  IsChannel(list, n) <=> list[n].dtd = "uint8" /\ Follows(list, n)
  BY DEF IsChannel, Follows

\* Where there is no channel there is no answer.
LEMMA NoChannel ==
  ASSUME NEW lists, \A i \in DOMAIN lists : \A n \in DOMAIN lists[i] : ~IsChannel(lists[i], n)
  PROVE  ServiceChannel(lists) = None
  BY DEF ServiceChannel

\* The only channel is the answer.
LEMMA OneChannel ==
  ASSUME NEW lists, NEW i \in DOMAIN lists, NEW n \in DOMAIN lists[i], n \in Nat,
         \A j \in DOMAIN lists : \A m \in DOMAIN lists[j] :
             IsChannel(lists[j], m) <=> j = i /\ m = n
  PROVE  ServiceChannel(lists) = lists[i][n].val
  <1> DEFINE hits == UNION {{<<j, m>> : m \in {l \in DOMAIN lists[j] : IsChannel(lists[j], l)}} :
                              j \in DOMAIN lists}
             Before(h, g) == h[1] < g[1] \/ (h[1] = g[1] /\ h[2] <= g[2])
             first == CHOOSE h \in hits : \A g \in hits : Before(h, g)
  <1>1. hits = {<<i, n>>}
    OBVIOUS
  <1> HIDE DEF hits
  <1>2. ServiceChannel(lists) = lists[first[1]][first[2]].val
    BY <1>1 DEF ServiceChannel, hits
  <1>3. Before(<<i, n>>, <<i, n>>)
    OBVIOUS
  <1> HIDE DEF Before
  <1>4. first = <<i, n>>
    BY <1>1, <1>3
  <1> HIDE DEF first
  <1> QED
    BY <1>2, <1>4

\* The walk goes on with an empty list ...
LEMMA WalkNextList == ASSUME Walk, NextList PROVE Walk'
  <1> DEFINE L == Len(given)
  <1>1. /\ given \in Seq(Seq(Elements)) /\ L \in Nat /\ DOMAIN given = 1..L
        /\ given' = Append(given, <<>>) /\ <<>> \in Seq(Elements)
        /\ result' = None /\ proto' = FALSE
    BY DEF Walk, NextList
  <1>2. /\ given' \in Seq(Seq(Elements)) /\ Len(given') = L + 1 /\ DOMAIN given' = 1..(L + 1)
        /\ \A i \in 1..L : given'[i] = given[i]
        /\ given'[L + 1] = <<>> /\ given' # <<>>
    BY <1>1, AppendProperties
  <1>3. \A i \in DOMAIN given' : \A n \in DOMAIN given'[i] : ~IsChannel(given'[i], n)
    <2> SUFFICES ASSUME NEW i \in 1..(L + 1), NEW n \in DOMAIN given'[i]
                 PROVE  ~IsChannel(given'[i], n)
      BY <1>2
    <2>1. CASE i \in 1..L
      BY <1>1, <1>2, <2>1 DEF Walk
    <2>2. CASE i = L + 1
      BY <1>2, <2>2
    <2> QED
      BY <1>1, <2>1, <2>2
  <1>4. ~Follows(<<>>, Len(<<>>) + 1)
    BY DEF Follows
  <1> QED
    BY <1>1, <1>2, <1>3, <1>4 DEF Walk

\* ... or with an element that is not the channel; or that is the answer.
LEMMA WalkNextElement ==
  ASSUME Walk, kind = "search", NextElement
  PROVE  \/ Walk' /\ UNCHANGED at
         \/ at' = "done" /\ result' = ServiceChannel(given')
  <1> DEFINE L == Len(given)
             list == given[L]
             N == Len(list)
             new == given'[L]
  <1>1. /\ given \in Seq(Seq(Elements)) /\ given # <<>> /\ L \in Nat \ {0}
        /\ DOMAIN given = 1..L /\ L \in 1..L /\ result = None
    BY DEF Walk, NextElement
  <1>2. list \in Seq(Elements) /\ N \in Nat /\ DOMAIN list = 1..N
    BY <1>1
  <1>3. PICK d \in Elements :
            /\ given' = [given EXCEPT ![L] = Append(@, d)]
            /\ proto' = IF d.dtd = "uuid" THEN d.rfcomm ELSE proto
            /\ IF d.dtd = "uint8" /\ proto THEN Ends(d.val) ELSE UNCHANGED <<at, result>>
    BY DEF NextElement
  <1>4. /\ given' \in Seq(Seq(Elements)) /\ Len(given') = L /\ DOMAIN given' = 1..L
        /\ \A i \in 1..L : i # L => given'[i] = given[i]
        /\ new = Append(list, d) /\ given' # <<>>
    <2>1. Append(list, d) \in Seq(Elements)
      BY <1>2, AppendProperties
    <2>2. given' = [given EXCEPT ![L] = Append(list, d)]
      BY <1>3
    <2> HIDE DEF list, L
    <2>3. given' \in Seq(Seq(Elements)) /\ Len(given') = Len(given)
      BY <1>1, <2>1, <2>2, ExceptSeq
    <2>4. \A i \in 1..L : i # L => given'[i] = given[i]
      BY <1>1, <2>2
    <2>5. given'[L] = Append(list, d)
      BY <1>1, <2>2
    <2>6. Len(given') = L /\ DOMAIN given' = 1..L /\ L # 0
      BY <1>1, <2>3 DEF L
    <2> QED
      BY <2>3, <2>4, <2>5, <2>6
  <1> HIDE DEF L
  <1>5. /\ Len(new) = N + 1 /\ DOMAIN new = 1..(N + 1) /\ new[N + 1] = d
        /\ \A n \in 1..N : new[n] = list[n]
    BY <1>2, <1>4, AppendProperties
  <1> HIDE DEF new, list, N
  <1>6. \A n \in 1..(N + 1) : Follows(new, n) <=> Follows(list, n)
    <2> SUFFICES ASSUME NEW n \in 1..(N + 1) PROVE Follows(new, n) <=> Follows(list, n)
      OBVIOUS
    <2>1. n \in Nat /\ \A k \in 1..(n - 1) : new[k] = list[k]
      BY <1>2, <1>5
    <2> QED
      BY <2>1, FollowsPrefix
  <1>7. /\ proto <=> Follows(list, N + 1)
        /\ \A n \in 1..N : ~IsChannel(list, n)
        /\ \A i \in 1..L : \A n \in DOMAIN given[i] : ~IsChannel(given[i], n)
    BY <1>1, <1>2 DEF Walk, L, N, list
  <1>8. \A n \in 1..N : ~IsChannel(new, n)
    <2> SUFFICES ASSUME NEW n \in 1..N PROVE ~IsChannel(new, n)
      OBVIOUS
    <2>1. n \in 1..(N + 1)
      BY <1>2
    <2> QED
      BY <1>5, <1>6, <1>7, <2>1, ChannelFollows
  <1>9. IsChannel(new, N + 1) <=> d.dtd = "uint8" /\ proto
    <2>1. N + 1 \in 1..(N + 1)
      BY <1>2
    <2> QED
      BY <1>5, <1>6, <1>7, <2>1, ChannelFollows
  <1>10. ASSUME NEW i \in DOMAIN given', NEW n \in DOMAIN given'[i], ~(i = L /\ n = N + 1)
         PROVE  ~IsChannel(given'[i], n)
    <2>1. CASE i = L
      <3>1. n \in 1..N
        BY <1>2, <1>5, <1>10, <2>1 DEF new
      <3> QED
        BY <1>8, <2>1, <3>1 DEF new
    <2>2. CASE i # L
      BY <1>4, <1>7, <2>2
    <2> QED
      BY <2>1, <2>2
  <1>11. CASE d.dtd = "uint8" /\ proto
    <2>1. at' = "done" /\ result' = d.val
      BY <1>3, <1>11 DEF Ends
    <2>2. /\ L \in DOMAIN given' /\ N + 1 \in DOMAIN given'[L] /\ N + 1 \in Nat
          /\ IsChannel(given'[L], N + 1) /\ given'[L][N + 1] = d
      BY <1>1, <1>2, <1>4, <1>5, <1>9, <1>11 DEF new
    <2>3. \A j \in DOMAIN given' : \A m \in DOMAIN given'[j] :
              IsChannel(given'[j], m) <=> j = L /\ m = N + 1
      BY <1>10, <2>2
    <2>4. ServiceChannel(given') = given'[L][N + 1].val
      BY <2>2, <2>3, OneChannel
    <2> QED
      BY <2>1, <2>2, <2>4
  <1>12. CASE ~(d.dtd = "uint8" /\ proto)
    <2>1. UNCHANGED <<at, result>>
      BY <1>3, <1>12
    <2>2. \A i \in DOMAIN given' : \A n \in DOMAIN given'[i] : ~IsChannel(given'[i], n)
      BY <1>9, <1>10, <1>12 DEF new
    <2>3. proto' <=> Follows(new, Len(new) + 1)
      <3>1. N + 1 \in Nat \ {0} /\ N + 1 \in 1..(N + 1)
        BY <1>2
      <3>2. Follows(new, (N + 1) + 1) <=> \/ d = [dtd |-> "uuid", rfcomm |-> TRUE]
                                          \/ d.dtd # "uuid" /\ proto
        BY <1>5, <1>6, <1>7, <3>1, FollowsNext
      <3>3. d.dtd = "uuid" => d.rfcomm \in BOOLEAN /\ d = [dtd |-> "uuid", rfcomm |-> d.rfcomm]
        BY DEF Elements
      <3>4. (d = [dtd |-> "uuid", rfcomm |-> TRUE]) <=> d.dtd = "uuid" /\ d.rfcomm
        BY <3>3
      <3>5. proto' <=> \/ d.dtd = "uuid" /\ d.rfcomm
                       \/ d.dtd # "uuid" /\ proto
        BY <1>3
      <3> QED
        BY <1>5, <3>2, <3>4, <3>5
    <2> QED
      BY <1>1, <1>4, <2>1, <2>2, <2>3 DEF Walk, new
  <1> QED
    BY <1>11, <1>12


\* The devices named so far, and one more.
LEMMA NamedAppend ==
  ASSUME NEW list \in Seq(BOOLEAN), NEW named \in BOOLEAN, NEW names,
         names = [n \in DOMAIN list |-> IF list[n] THEN n ELSE 0]
  PROVE  LET more == Append(list, named)
         IN  /\ more \in Seq(BOOLEAN)
             /\ Append(names, IF named THEN Len(list) + 1 ELSE 0)
                  = [n \in DOMAIN more |-> IF more[n] THEN n ELSE 0]
  <1> DEFINE N == Len(list)
             more == Append(list, named)
             last == IF named THEN N + 1 ELSE 0
             expected == [n \in DOMAIN more |-> IF more[n] THEN n ELSE 0]
  <1>1. N \in Nat /\ DOMAIN list = 1..N
    OBVIOUS
  <1>2. /\ more \in Seq(BOOLEAN) /\ DOMAIN more = 1..(N + 1) /\ more[N + 1] = named
        /\ \A n \in 1..N : more[n] = list[n]
    BY <1>1, AppendProperties
  <1> HIDE DEF N, more
  <1>3. names \in Seq(Nat) /\ Len(names) = N /\ DOMAIN names = 1..N
    BY <1>1
  <1>4. last \in Nat
    BY <1>1
  <1> HIDE DEF last
  <1>5. /\ Append(names, last) \in Seq(Nat) /\ Len(Append(names, last)) = N + 1
        /\ Append(names, last)[N + 1] = last
        /\ \A n \in 1..N : Append(names, last)[n] = names[n]
    BY <1>1, <1>3, <1>4, AppendProperties
  <1>6. expected \in Seq(Nat) /\ Len(expected) = N + 1
    BY <1>1, <1>2
  <1>7. \A n \in 1..(N + 1) : Append(names, last)[n] = expected[n]
    <2> SUFFICES ASSUME NEW n \in 1..(N + 1) PROVE Append(names, last)[n] = expected[n]
      OBVIOUS
    <2>1. CASE n = N + 1
      BY <1>1, <1>2, <1>5, <2>1 DEF last
    <2>2. CASE n # N + 1
      <3>1. n \in 1..N
        BY <1>1, <2>2
      <3> QED
        BY <1>1, <1>2, <1>5, <3>1
    <2> QED
      BY <2>1, <2>2
  <1> HIDE DEF expected
  <1>8. Append(names, last) = expected
    BY <1>5, <1>6, <1>7, SeqEqual
  <1> QED
    BY <1>2, <1>8 DEF N, more, last, expected

LEMMA LinuxKept == ASSUME LinuxInv, kind \in Kinds, LinuxStep PROVE LinuxInv'
  <1> USE Calls DEF LinuxInv
  <1>1. CASE SdpConnects
    <2>1. kind = "search" /\ given = <<>> /\ kind' = kind /\ given' = given
      BY <1>1 DEF SdpConnects, Nothing
    <2>2. ServiceChannel(<<>>) = None
      BY NoChannel
    <2>3. CASE at' = "walking" /\ UNCHANGED result
      BY <1>1, <2>1, <2>3 DEF SdpConnects, Nothing, Walk
    <2>4. CASE Ends(None)
      BY <2>1, <2>2, <2>4 DEF Ends, LinuxResult
    <2> QED
      BY <1>1, <2>3, <2>4 DEF SdpConnects
  <1>2. CASE NextList
    <2>1. Walk' /\ UNCHANGED <<kind, at>> /\ at = "walking"
      BY <1>2, WalkNextList DEF NextList
    <2> QED
      BY <2>1
  <1>3. CASE NextElement
    <2>1. kind = "search" /\ UNCHANGED kind /\ at = "walking" /\ Walk
      BY <1>3 DEF NextElement
    <2>2. \/ Walk' /\ UNCHANGED at
          \/ at' = "done" /\ result' = ServiceChannel(given')
      BY <1>3, <2>1, WalkNextElement
    <2> QED
      BY <2>1, <2>2 DEF LinuxResult
  <1>4. CASE WalkEnds
    <2>1. kind = "search" /\ UNCHANGED <<kind, given>> /\ at' = "done" /\ result' = None
      BY <1>4 DEF WalkEnds, Ends
    <2>2. ServiceChannel(given) = None
      BY <1>4, NoChannel DEF WalkEnds, Walk
    <2> QED
      BY <2>1, <2>2 DEF LinuxResult
  <1>5. CASE OpensDevice
    BY <1>5 DEF OpensDevice, Nothing
  <1>6. CASE Inquires
    <2>1. kind \in Inquiries /\ given = <<>> /\ result = <<>> /\ at' = "naming"
          /\ UNCHANGED <<kind, given, result>>
      BY <1>6 DEF Inquires, Nothing
    <2>2. DevicesNamed' = <<>>
      BY <2>1 DEF DevicesNamed
    <2> QED
      BY <2>1, <2>2
  <1>7. CASE ReadsName
    <2>1. /\ kind \in Inquiries /\ given \in Seq(BOOLEAN) /\ result = DevicesNamed
          /\ at = "naming" /\ UNCHANGED <<kind, at>>
      BY <1>7 DEF ReadsName
    <2>2. PICK named \in BOOLEAN : /\ given' = Append(given, named)
                                   /\ result' = Append(result, DeviceName(named))
      BY <1>7 DEF ReadsName
    <2>3. given' \in Seq(BOOLEAN) /\ result' = DevicesNamed'
      BY <2>1, <2>2, NamedAppend DEF DevicesNamed, DeviceName
    <2> QED
      BY <2>1, <2>3
  <1>8. CASE NamesEnd
    <2>1. /\ kind \in Inquiries /\ result = DevicesNamed
          /\ at' = "done" /\ UNCHANGED <<kind, given, result>>
      BY <1>8 DEF NamesEnd, Ends
    <2>2. DevicesNamed' = DevicesNamed
      BY <2>1 DEF DevicesNamed
    <2> QED
      BY <2>1, <2>2 DEF LinuxResult
  <1>9. CASE ListsNothing
    BY <1>9 DEF ListsNothing, Ends, LinuxResult
  <1> QED
    BY <1>1, <1>2, <1>3, <1>4, <1>5, <1>6, <1>7, <1>8, <1>9 DEF LinuxStep


-----------------------------------------------------------------------------
(* The operators of macOS.                                                 *)

\* Popping an element or pushing one.
LEMMA PopAppend ==
  ASSUME NEW S, NEW s \in Seq(S), NEW t \in Seq(S), t # <<>>
  PROVE  Append(s, Head(t)) \o Tail(t) = s \o t
  OBVIOUS

LEMMA AppendConcat ==
  ASSUME NEW S, NEW s \in Seq(S), NEW t \in Seq(S), NEW e \in S
  PROVE  s \o Append(t, e) = Append(s \o t, e)
  OBVIOUS

\* The numbers of the devices of a list, and of a longer one.
LEMMA CountAppend ==
  ASSUME NEW S, NEW list \in Seq(S), NEW e \in S
  PROVE  LET more == Append(list, e)
         IN  Append([n \in DOMAIN list |-> n], Len(more)) = [n \in DOMAIN more |-> n]
  OBVIOUS

LEMMA NoFirstChannel ==
  ASSUME NEW records, NoHit(records) PROVE FirstChannel(records) = None
  BY DEF FirstChannel, NoHit

LEMMA LastFirstChannel ==
  ASSUME NEW records \in Seq(Records), NoHit(records), NEW r \in Records
  PROVE  LET more == Append(records, r)
         IN  /\ more \in Seq(Records)
             /\ IF r.rfcomm /\ r.channel # None THEN FirstChannel(more) = r.channel ELSE NoHit(more)
  <1> DEFINE N == Len(records)
             more == Append(records, r)
             hit(n) == more[n].rfcomm /\ more[n].channel # None
             hits == {n \in DOMAIN more : hit(n)}
             first == CHOOSE n \in hits : \A m \in hits : n <= m
  <1>1. /\ N \in Nat /\ more \in Seq(Records) /\ DOMAIN more = 1..(N + 1) /\ more[N + 1] = r
        /\ \A n \in 1..N : more[n] = records[n]
    BY AppendProperties
  <1>2. \A n \in 1..N : ~hit(n)
    BY <1>1 DEF NoHit
  <1> HIDE DEF N, more
  <1>3. CASE r.rfcomm /\ r.channel # None
    <2>1. hits = {N + 1}
      BY <1>1, <1>2, <1>3
    <2>2. FirstChannel(more) = IF hits = {} THEN None ELSE more[first].channel
      BY DEF FirstChannel
    <2> HIDE DEF hits
    <2>3. first = N + 1
      BY <1>1, <2>1
    <2> HIDE DEF first
    <2> QED
      BY <1>1, <1>3, <2>1, <2>2, <2>3 DEF more
  <1>4. CASE ~(r.rfcomm /\ r.channel # None)
    <2>1. \A n \in 1..(N + 1) : ~hit(n)
      BY <1>1, <1>2, <1>4
    <2> QED
      BY <1>1, <1>4, <2>1 DEF NoHit, more
  <1> QED
    BY <1>3, <1>4


\* One more service of the last device.
LEMMA ListMore ==
  ASSUME ListIsGiven, given # <<>>,
         given \in Seq(Seq(Channels \cup {None})), result \in Seq(Seq(Channels \cup {None})),
         NEW c \in Channels \cup {None}, NEW id \in ChannelID(c),
         given' = [given EXCEPT ![Len(given)] = Append(@, c)],
         result' = [result EXCEPT ![Len(given)] = Append(@, id)]
  PROVE  /\ ListIsGiven'
         /\ given' \in Seq(Seq(Channels \cup {None})) /\ result' \in Seq(Seq(Channels \cup {None}))
  <1> DEFINE C == Channels \cup {None}
             L == Len(given)
             G == Append(given[L], c)
             R == Append(result[L], id)
  <1>1. /\ L \in Nat \ {0} /\ DOMAIN given = 1..L /\ DOMAIN result = 1..L /\ Len(result) = L
        /\ L \in 1..L /\ given[L] \in Seq(C) /\ result[L] \in Seq(C)
    BY DEF ListIsGiven
  <1>2. c \in C /\ id \in C
    BY DEF ChannelID
  <1>3. /\ Len(given[L]) = Len(result[L]) /\ Len(given[L]) \in Nat
        /\ \A i \in 1..Len(given[L]) : result[L][i] \in ChannelID(given[L][i])
    <2>1. /\ DOMAIN result[L] = DOMAIN given[L]
          /\ \A i \in DOMAIN given[L] : result[L][i] \in ChannelID(given[L][i])
      BY <1>1 DEF ListIsGiven
    <2>2. /\ Len(given[L]) \in Nat /\ DOMAIN given[L] = 1..Len(given[L])
          /\ Len(result[L]) \in Nat /\ DOMAIN result[L] = 1..Len(result[L])
      BY <1>1, LenProperties
    <2>3. \A m, n \in Nat : 1..m = 1..n => m = n
      OBVIOUS
    <2> HIDE DEF L
    <2>4. Len(given[L]) = Len(result[L])
      BY <2>1, <2>2, <2>3
    <2> QED
      BY <2>1, <2>2, <2>4
  <1> HIDE DEF C
  <1>4. /\ G \in Seq(C) /\ DOMAIN G = 1..(Len(given[L]) + 1) /\ G[Len(given[L]) + 1] = c
        /\ \A i \in 1..Len(given[L]) : G[i] = given[L][i]
    BY <1>1, <1>2, AppendProperties
  <1>5. /\ R \in Seq(C) /\ DOMAIN R = 1..(Len(given[L]) + 1) /\ R[Len(given[L]) + 1] = id
        /\ \A i \in 1..Len(given[L]) : R[i] = result[L][i]
    BY <1>1, <1>2, <1>3, AppendProperties
  <1>6. \A i \in DOMAIN G : R[i] \in ChannelID(G[i])
    <2> HIDE DEF G, R
    <2> SUFFICES ASSUME NEW i \in 1..(Len(given[L]) + 1) PROVE R[i] \in ChannelID(G[i])
      BY <1>4
    <2>1. CASE i \in 1..Len(given[L])
      BY <1>3, <1>4, <1>5, <2>1
    <2>2. CASE i = Len(given[L]) + 1
      BY <1>4, <1>5, <2>2
    <2> QED
      BY <1>3, <2>1, <2>2
  <1>7. given' = [given EXCEPT ![L] = G] /\ result' = [result EXCEPT ![L] = R]
    OBVIOUS
  <1> HIDE DEF G, R
  <1>8. given' \in Seq(Seq(C)) /\ result' \in Seq(Seq(C)) /\ DOMAIN given' = 1..L /\ DOMAIN result' = 1..L
    BY <1>1, <1>4, <1>5, <1>7, ExceptSeq DEF C
  <1>9. \A n \in 1..L : n # L => given'[n] = given[n] /\ result'[n] = result[n]
    BY <1>1, <1>7
  <1>10. given'[L] = G /\ result'[L] = R
    BY <1>1, <1>7
  <1> HIDE DEF L
  <1>11. \A n \in 1..L : /\ DOMAIN result'[n] = DOMAIN given'[n]
                         /\ \A i \in DOMAIN given'[n] : result'[n][i] \in ChannelID(given'[n][i])
    <2> SUFFICES ASSUME NEW n \in 1..L
                 PROVE  /\ DOMAIN result'[n] = DOMAIN given'[n]
                        /\ \A i \in DOMAIN given'[n] : result'[n][i] \in ChannelID(given'[n][i])
      OBVIOUS
    <2>1. CASE n = L
      BY <1>4, <1>5, <1>6, <1>10, <2>1
    <2>2. CASE n # L
      BY <1>1, <1>9, <2>2 DEF ListIsGiven
    <2> QED
      BY <2>1, <2>2
  <1> QED
    BY <1>8, <1>11 DEF ListIsGiven, C

LEMMA MacKept == ASSUME MacInv, kind \in Kinds, MacStep PROVE MacInv'
  <1> USE Calls DEF MacInv
  <1>1. CASE InquireWithPipe
    <2>1. /\ kind \in Inquiries /\ given = <<>> /\ result = <<>> /\ pipe' = <<>>
          /\ at' = "popping" /\ inquiryProducer' /\ UNCHANGED <<kind, given, result>>
      BY <1>1 DEF InquireWithPipe, Nothing
    <2>2. <<>> \o <<>> = [n \in DOMAIN <<>> |-> n]
      OBVIOUS
    <2> QED
      BY <2>1, <2>2
  <1>2. CASE PopsDevice
    <2>1. /\ result \in Seq(Nat) /\ pipe \in Seq(Nat) /\ pipe # <<>> /\ at = "popping"
          /\ result' = Append(result, Head(pipe)) /\ pipe' = Tail(pipe)
          /\ UNCHANGED <<kind, at, given, inquiryProducer, scan>>
      BY <1>2 DEF PopsDevice
    <2>2. result' \in Seq(Nat) /\ pipe' \in Seq(Nat)
      BY <2>1, HeadTailProperties, AppendProperties
    <2>3. result' \o pipe' = result \o pipe
      <3>1. result \in Seq(Nat) /\ pipe \in Seq(Nat) /\ pipe # <<>>
        BY <2>1
      <3>2. Append(result, Head(pipe)) \o Tail(pipe) = result \o pipe
        BY ONLY <3>1, PopAppend
      <3> QED
        BY <2>1, <3>2
    <2> QED
      BY <2>1, <2>2, <2>3
  <1>3. CASE PopsNothing
    <2>1. /\ kind \in Inquiries /\ at' = "done" /\ pipe = <<>> /\ scan = "off"
          /\ result \in Seq(Nat) /\ result \o pipe = [n \in DOMAIN given |-> n]
          /\ UNCHANGED <<kind, given, result, scan>>
      BY <1>3 DEF PopsNothing, Ends, macVars
    <2>2. result = [n \in DOMAIN given |-> n]
      BY <2>1, ConcatEmptySeq
    <2> QED
      BY <2>1, <2>2 DEF MacIsGiven
  <1>4. CASE InquiryTask
    BY <1>4 DEF InquiryTask, callVars
  <1>5. CASE DeviceInquiryDeviceFound
    <2>1. /\ at = "popping" /\ inquiryProducer /\ given \in Seq({"device"})
          /\ result \in Seq(Nat) /\ pipe \in Seq(Nat)
          /\ result \o pipe = [n \in DOMAIN given |-> n]
          /\ given' = Append(given, "device") /\ pipe' = Append(pipe, Len(given'))
          /\ UNCHANGED <<kind, at, result, inquiryProducer, scan>>
      BY <1>5 DEF DeviceInquiryDeviceFound
    <2>2. given' \in Seq({"device"}) /\ Len(given') \in Nat
      BY <2>1
    <2> DEFINE new == Len(given')
    <2>3. new \in Nat /\ pipe' = Append(pipe, new)
      BY <2>1, <2>2
    <2>5. result \o pipe' = Append(result \o pipe, Len(given')) /\ pipe' \in Seq(Nat)
      <3> HIDE DEF new
      <3>1. result \o Append(pipe, new) = Append(result \o pipe, new)
        <4>1. result \in Seq(Nat) /\ pipe \in Seq(Nat) /\ new \in Nat
          BY <2>1, <2>3
        <4> QED
          BY ONLY <4>1, AppendConcat
      <3>2. result \o pipe' = Append(result \o pipe, new)
        BY <2>3, <3>1
      <3>3. pipe' \in Seq(Nat)
        BY <2>1, <2>3, AppendProperties
      <3> QED
        BY <3>2, <3>3 DEF new
    <2>4. Append([n \in DOMAIN given |-> n], Len(given')) = [n \in DOMAIN given' |-> n]
      BY <2>1, CountAppend
    <2> QED
      BY <1>5, <2>1, <2>2, <2>4, <2>5
  <1>6. CASE DeviceInquiryComplete
    BY <1>6 DEF DeviceInquiryComplete
  <1>7. CASE SearchBegins
    BY <1>7 DEF SearchBegins, macVars, Nothing, NoHit
  <1>8. CASE NextRecord
    <2>1. /\ kind = "search" /\ result = None /\ given \in Seq(Records) /\ NoHit(given)
          /\ at = "records" /\ scan = "off" /\ UNCHANGED <<kind, scan>>
      BY <1>8 DEF NextRecord, macVars
    <2>2. PICK r \in Records :
              /\ given' = Append(given, r)
              /\ IF r.rfcomm /\ r.channel # None THEN Ends(r.channel) ELSE UNCHANGED <<at, result>>
      BY <1>8 DEF NextRecord
    <2>3. /\ given' \in Seq(Records)
          /\ IF r.rfcomm /\ r.channel # None THEN FirstChannel(given') = r.channel ELSE NoHit(given')
      BY <2>1, <2>2, LastFirstChannel
    <2>4. CASE r.rfcomm /\ r.channel # None
      BY <2>1, <2>2, <2>3, <2>4 DEF MacIsGiven, Ends
    <2>5. CASE ~(r.rfcomm /\ r.channel # None)
      BY <2>1, <2>2, <2>3, <2>5
    <2> QED
      BY <2>4, <2>5
  <1>9. CASE RecordsEnd
    BY <1>9, NoFirstChannel DEF RecordsEnd, Ends, macVars, MacIsGiven
  <1>10. CASE ListsPaired
    BY <1>10 DEF ListsPaired, macVars, Nothing, ListIsGiven
  <1>11. CASE ListsDevice
    <2>1. /\ kind = "list" /\ ListIsGiven /\ at = "listing" /\ scan = "off"
          /\ given \in Seq(Seq(Channels \cup {None})) /\ result \in Seq(Seq(Channels \cup {None}))
          /\ given' = Append(given, <<>>) /\ result' = Append(result, <<>>)
          /\ UNCHANGED <<kind, at, scan>>
      BY <1>11 DEF ListsDevice, macVars
    <2>2. <<>> \in Seq(Channels \cup {None}) /\ DOMAIN <<>> = {}
      OBVIOUS
    <2> DEFINE L == Len(given)
    <2>3. L \in Nat /\ Len(result) = L /\ DOMAIN given = 1..L /\ DOMAIN result = 1..L
      BY <2>1 DEF ListIsGiven
    <2>4. /\ given' \in Seq(Seq(Channels \cup {None})) /\ result' \in Seq(Seq(Channels \cup {None}))
          /\ DOMAIN given' = 1..(L + 1) /\ DOMAIN result' = 1..(L + 1)
          /\ given'[L + 1] = <<>> /\ result'[L + 1] = <<>>
          /\ \A n \in 1..L : given'[n] = given[n] /\ result'[n] = result[n]
      BY <2>1, <2>2, <2>3, AppendProperties
    <2> HIDE DEF L
    <2>5. ListIsGiven'
      <3>1. \A n \in 1..(L + 1) : n = L + 1 \/ n \in 1..L
        BY <2>3
      <3> QED
        BY <2>1, <2>2, <2>3, <2>4, <3>1 DEF ListIsGiven
    <2> QED
      BY <2>1, <2>4, <2>5
  <1>12. CASE ListsService
    <2>1. /\ kind = "list" /\ ListIsGiven /\ at = "listing" /\ scan = "off" /\ given # <<>>
          /\ given \in Seq(Seq(Channels \cup {None})) /\ result \in Seq(Seq(Channels \cup {None}))
          /\ UNCHANGED <<kind, at, scan>>
      BY <1>12 DEF ListsService, macVars
    <2>2. PICK c \in Channels \cup {None} : \E id \in ChannelID(c) :
              /\ given' = [given EXCEPT ![Len(given)] = Append(@, c)]
              /\ result' = [result EXCEPT ![Len(given)] = Append(@, id)]
      BY <1>12 DEF ListsService
    <2>3. PICK id \in ChannelID(c) :
              /\ given' = [given EXCEPT ![Len(given)] = Append(@, c)]
              /\ result' = [result EXCEPT ![Len(given)] = Append(@, id)]
      BY <2>2
    <2>4. /\ ListIsGiven'
          /\ given' \in Seq(Seq(Channels \cup {None})) /\ result' \in Seq(Seq(Channels \cup {None}))
      BY <2>1, <2>3, ListMore
    <2> QED
      BY <2>1, <2>4
  <1>13. CASE ListEnds
    BY <1>13 DEF ListEnds, Ends, macVars, MacIsGiven, ListIsGiven
  <1> QED
    BY <1>1, <1>2, <1>3, <1>4, <1>5, <1>6, <1>7, <1>8, <1>9, <1>10, <1>11, <1>12, <1>13 DEF MacStep


-----------------------------------------------------------------------------
(* The operators of Windows.                                               *)

\* A later place is added at the end.
LEMMA InOrderNext ==
  ASSUME NEW N \in Nat, NEW p, NEW q, NEW E, NEW e \in Nat,
         DOMAIN p = 1..N, DOMAIN q = 1..(N + 1), q[N + 1] = e,
         \A n \in 1..N : q[n] = p[n],
         AreInOrder(p, E), \A x \in E : x < e
  PROVE  AreInOrder(q, E \cup {e})
  <1>1. {q[n] : n \in 1..(N + 1)} = {p[n] : n \in 1..N} \cup {e}
    <2>1. 1..(N + 1) = 1..N \cup {N + 1}
      OBVIOUS
    <2> QED
      BY <2>1
  <1>2. \A n \in 1..N : p[n] < e
    BY DEF AreInOrder
  <1>3. ASSUME NEW m \in 1..(N + 1), NEW n \in 1..(N + 1), m < n PROVE q[m] < q[n]
    <2>1. m \in 1..N
      BY <1>3
    <2>2. CASE n \in 1..N
      BY <1>3, <2>1, <2>2 DEF AreInOrder
    <2>3. CASE n = N + 1
      BY <1>2, <2>1, <2>3
    <2> QED
      BY <2>2, <2>3
  <1> QED
    BY <1>1, <1>3 DEF AreInOrder

LEMMA InOrderEmpty ==
  FoundIn(<<>>, <<>>) /\ ListedIn(<<>>, <<>>)
  BY DEF FoundIn, ListedIn, AreInOrder, DevicesOf

\* One more device for an inquiry.
LEMMA FoundMore ==
  ASSUME NEW devices, NEW places, FoundIn(devices, places), NEW d \in Devices
  PROVE  LET more == Append(devices, d)
         IN  FoundIn(more, IF d.address THEN Append(places, Len(more)) ELSE places)
  <1> DEFINE more == Append(devices, d)
             L == Len(devices)
             N == Len(places)
             q == Append(places, L + 1)
             E == {n \in DOMAIN devices : devices[n].address}
             F == {n \in DOMAIN more : more[n].address}
  <1>1. /\ devices \in Seq(Devices) /\ places \in Seq(Nat)
        /\ L \in Nat /\ DOMAIN devices = 1..L /\ N \in Nat /\ DOMAIN places = 1..N
        /\ AreInOrder(places, E)
    BY DEF FoundIn
  <1>2. /\ more \in Seq(Devices) /\ Len(more) = L + 1 /\ DOMAIN more = 1..(L + 1)
        /\ more[L + 1] = d /\ \A n \in 1..L : more[n] = devices[n]
    BY <1>1, AppendProperties
  <1>3. /\ q \in Seq(Nat) /\ DOMAIN q = 1..(N + 1) /\ q[N + 1] = L + 1
        /\ \A n \in 1..N : q[n] = places[n]
    BY <1>1, AppendProperties
  <1> HIDE DEF more, L, N, q
  <1>4. F = IF d.address THEN E \cup {L + 1} ELSE E
    <2>1. 1..(L + 1) = 1..L \cup {L + 1}
      BY <1>1
    <2>2. L + 1 \notin 1..L
      BY <1>1
    <2> QED
      BY <1>1, <1>2, <2>1, <2>2
  <1>5. \A x \in E : x < L + 1
    BY <1>1
  <1> HIDE DEF E, F
  <1>6. AreInOrder(q, E \cup {L + 1})
    <2>1. L + 1 \in Nat
      BY <1>1
    <2> QED
      BY <1>1, <1>3, <1>5, <2>1, InOrderNext
  <1> QED
    BY <1>1, <1>2, <1>3, <1>4, <1>6 DEF FoundIn, F, q, more

LEMMA DeviceTold == ASSUME NEW d \in Devices PROVE d \in Told /\ d.services = <<>>
  <1>1. /\ d = [paired |-> d.paired, address |-> d.address, services |-> d.services]
        /\ d.paired \in BOOLEAN /\ d.address \in BOOLEAN /\ d.services = <<>>
    BY DEF Devices
  <1>2. <<>> \in Seq(Channels)
    OBVIOUS
  <1> QED
    BY <1>1, <1>2 DEF Told

\* One more device for a list: one that does not belong to it ...
LEMMA ListedSame ==
  ASSUME NEW devices, NEW list, ListedIn(devices, list), NEW d \in Devices,
         ~(d.address /\ d.paired)
  PROVE  ListedIn(Append(devices, d), list)
  <1> DEFINE more == Append(devices, d)
             L == Len(devices)
             E == {n \in DOMAIN devices : devices[n].address /\ devices[n].paired}
             F == {n \in DOMAIN more : more[n].address /\ more[n].paired}
  <1>1. /\ devices \in Seq(Told) /\ list \in Seq(Listed) /\ L \in Nat /\ DOMAIN devices = 1..L
        /\ AreInOrder(DevicesOf(list), E)
        /\ \A n \in DOMAIN list : list[n].services = devices[list[n].device].services
    BY DEF ListedIn
  <1>2. d \in Told
    BY DeviceTold
  <1>3. /\ more \in Seq(Told) /\ DOMAIN more = 1..(L + 1)
        /\ more[L + 1] = d /\ \A n \in 1..L : more[n] = devices[n]
    BY <1>1, <1>2, AppendProperties
  <1> HIDE DEF more, L
  <1>4. F = E
    <2>1. 1..(L + 1) = 1..L \cup {L + 1}
      BY <1>1
    <2> QED
      BY <1>1, <1>3, <2>1
  <1>5. \A n \in DOMAIN list : list[n].device \in 1..L
    <2>1. \A n \in DOMAIN list : DevicesOf(list)[n] \in E
      BY <1>1 DEF AreInOrder, DevicesOf
    <2> QED
      BY <1>1, <2>1 DEF DevicesOf
  <1>6. \A n \in DOMAIN list : list[n].services = more[list[n].device].services
    BY <1>1, <1>3, <1>5
  <1> HIDE DEF E
  <1>7. AreInOrder(DevicesOf(list), F)
    BY <1>1, <1>4
  <1> QED
    BY <1>1, <1>3, <1>6, <1>7 DEF ListedIn, F, more

\* ... or one that does, without services so far.
LEMMA ListedMore ==
  ASSUME NEW devices, NEW list, ListedIn(devices, list), NEW d \in Devices,
         d.address /\ d.paired
  PROVE  LET more == Append(devices, d)
             longer == Append(list, [device |-> Len(more), services |-> <<>>])
         IN  /\ ListedIn(more, longer)
             /\ more # <<>> /\ longer # <<>> /\ longer[Len(longer)].device = Len(more)
  <1> DEFINE more == Append(devices, d)
             L == Len(devices)
             new == [device |-> L + 1, services |-> <<>>]
             longer == Append(list, new)
             N == Len(list)
             E == {n \in DOMAIN devices : devices[n].address /\ devices[n].paired}
             F == {n \in DOMAIN more : more[n].address /\ more[n].paired}
  <1>1. /\ devices \in Seq(Told) /\ list \in Seq(Listed) /\ L \in Nat /\ DOMAIN devices = 1..L
        /\ N \in Nat /\ DOMAIN list = 1..N
        /\ AreInOrder(DevicesOf(list), E)
        /\ \A n \in DOMAIN list : list[n].services = devices[list[n].device].services
    BY DEF ListedIn
  <1>2. d \in Told /\ d.services = <<>> /\ new \in Listed
    <2>1. <<>> \in Seq(Channels)
      OBVIOUS
    <2> QED
      BY <1>1, <2>1, DeviceTold DEF Listed
  <1> HIDE DEF new
  <1>3. /\ more \in Seq(Told) /\ Len(more) = L + 1 /\ DOMAIN more = 1..(L + 1)
        /\ more[L + 1] = d /\ \A n \in 1..L : more[n] = devices[n]
    BY <1>1, <1>2, AppendProperties
  <1>4. /\ longer \in Seq(Listed) /\ Len(longer) = N + 1 /\ DOMAIN longer = 1..(N + 1)
        /\ longer[N + 1] = new /\ \A n \in 1..N : longer[n] = list[n]
    BY <1>1, <1>2, AppendProperties
  <1> HIDE DEF more, longer, L, N
  <1>5. F = E \cup {L + 1}
    <2>1. 1..(L + 1) = 1..L \cup {L + 1}
      BY <1>1
    <2> QED
      BY <1>1, <1>3, <2>1
  <1>6. \A n \in 1..N : list[n].device \in 1..L
    <2>1. \A n \in 1..N : DevicesOf(list)[n] \in E
      BY <1>1 DEF AreInOrder, DevicesOf
    <2> QED
      BY <1>1, <2>1 DEF DevicesOf
  <1>7. \A n \in 1..(N + 1) : longer[n].services = more[longer[n].device].services
    <2> SUFFICES ASSUME NEW n \in 1..(N + 1)
                 PROVE  longer[n].services = more[longer[n].device].services
      OBVIOUS
    <2>1. CASE n \in 1..N
      BY <1>1, <1>3, <1>4, <1>6, <2>1
    <2>2. CASE n = N + 1
      BY <1>2, <1>3, <1>4, <2>2 DEF new
    <2> QED
      BY <1>1, <2>1, <2>2
  <1>8. AreInOrder(DevicesOf(longer), F)
    <2>1. /\ DOMAIN DevicesOf(list) = 1..N /\ DOMAIN DevicesOf(longer) = 1..(N + 1)
          /\ DevicesOf(longer)[N + 1] = L + 1
          /\ \A n \in 1..N : DevicesOf(longer)[n] = DevicesOf(list)[n]
      <3>1. N + 1 \in 1..(N + 1) /\ \A n \in 1..N : n \in 1..(N + 1)
        BY <1>1
      <3> QED
        BY <1>1, <1>4, <3>1 DEF DevicesOf, new
    <2>2. L + 1 \in Nat /\ \A x \in E : x < L + 1
      BY <1>1
    <2> HIDE DEF E, F
    <2>3. AreInOrder(DevicesOf(longer), E \cup {L + 1})
      BY <1>1, <2>1, <2>2, InOrderNext
    <2> QED
      BY <1>5, <2>3
  <1>9. ListedIn(more, longer)
    BY <1>3, <1>4, <1>7, <1>8 DEF ListedIn, F
  <1>10. Len(longer) = N + 1 /\ longer[N + 1].device = Len(more) /\ Len(more) # 0 /\ Len(longer) # 0
    BY <1>1, <1>3, <1>4 DEF new
  <1>11. longer = Append(list, [device |-> Len(more), services |-> <<>>]) /\ more = Append(devices, d)
    BY <1>3 DEF longer, new, more
  <1> QED
    BY <1>9, <1>10, <1>11


\* One more service of the device that was told of last.
LEMMA ListedService ==
  ASSUME NEW devices, NEW list, ListedIn(devices, list), NEW c \in Channels,
         devices # <<>>, list # <<>>, list[Len(list)].device = Len(devices)
  PROVE  LET fuller == [devices EXCEPT ![Len(devices)].services = Append(@, c)]
             longer == [list EXCEPT ![Len(list)].services = Append(@, c)]
         IN  /\ ListedIn(fuller, longer)
             /\ fuller # <<>> /\ longer # <<>> /\ longer[Len(longer)].device = Len(fuller)
  <1> DEFINE L == Len(devices)
             N == Len(list)
             A == [devices[L] EXCEPT !.services = Append(@, c)]
             B == [list[N] EXCEPT !.services = Append(@, c)]
             fuller == [devices EXCEPT ![L] = A]
             longer == [list EXCEPT ![N] = B]
             E == {n \in DOMAIN devices : devices[n].address /\ devices[n].paired}
             F == {n \in DOMAIN fuller : fuller[n].address /\ fuller[n].paired}
  <1>1. /\ devices \in Seq(Told) /\ list \in Seq(Listed)
        /\ L \in Nat \ {0} /\ DOMAIN devices = 1..L /\ L \in 1..L
        /\ N \in Nat \ {0} /\ DOMAIN list = 1..N /\ N \in 1..N
        /\ AreInOrder(DevicesOf(list), E)
        /\ \A n \in DOMAIN list : list[n].services = devices[list[n].device].services
    BY DEF ListedIn
  <1>2. /\ A \in Told /\ A.address = devices[L].address /\ A.paired = devices[L].paired
        /\ B \in Listed /\ B.device = L /\ A.services = B.services
    <2>1. /\ devices[L] \in Told /\ list[N] \in Listed /\ list[N].device = L
          /\ list[N].services = devices[L].services
      BY <1>1
    <2>2. Append(devices[L].services, c) \in Seq(Channels)
      BY <2>1, AppendProperties DEF Told
    <2> HIDE DEF L, N
    <2> QED
      BY <2>1, <2>2 DEF Told, Listed
  <1> HIDE DEF A, B
  <1>3. /\ fuller \in Seq(Told) /\ Len(fuller) = L /\ DOMAIN fuller = 1..L /\ fuller[L] = A
        /\ \A n \in 1..L : n # L => fuller[n] = devices[n]
    BY <1>1, <1>2, ExceptSeq
  <1>4. /\ longer \in Seq(Listed) /\ Len(longer) = N /\ DOMAIN longer = 1..N /\ longer[N] = B
        /\ \A n \in 1..N : n # N => longer[n] = list[n]
    BY <1>1, <1>2, ExceptSeq
  <1>5. /\ fuller = [devices EXCEPT ![Len(devices)].services = Append(@, c)]
        /\ longer = [list EXCEPT ![Len(list)].services = Append(@, c)]
    BY <1>1 DEF A, B
  <1> HIDE DEF fuller, longer, L, N
  <1>6. F = E
    BY <1>1, <1>2, <1>3
  <1>7. /\ \A n \in 1..N : list[n].device \in 1..L
        /\ \A n \in 1..N : n # N => list[n].device # L
    <2>1. /\ \A n \in 1..N : list[n].device \in E
          /\ \A m, n \in 1..N : m < n => list[m].device < list[n].device
      BY <1>1 DEF AreInOrder, DevicesOf
    <2>2. list[N].device = L
      BY DEF N, L
    <2> QED
      BY <1>1, <2>1, <2>2
  <1>8. \A n \in 1..N : longer[n].device = list[n].device
    BY <1>1, <1>2, <1>4 DEF N, L
  <1>9. \A n \in 1..N : longer[n].services = fuller[longer[n].device].services
    <2> SUFFICES ASSUME NEW n \in 1..N
                 PROVE  longer[n].services = fuller[longer[n].device].services
      OBVIOUS
    <2>1. CASE n = N
      BY <1>2, <1>3, <1>4, <2>1
    <2>2. CASE n # N
      <3> DEFINE e == list[n].device
      <3>1. e \in 1..L /\ e # L /\ longer[n] = list[n] /\ list[n].services = devices[e].services
        BY <1>1, <1>4, <1>7, <2>2
      <3> HIDE DEF e
      <3>2. fuller[e] = devices[e]
        BY <1>3, <3>1
      <3> QED
        BY <3>1, <3>2 DEF e
    <2> QED
      BY <2>1, <2>2
  <1>10. DevicesOf(longer) = DevicesOf(list)
    BY <1>1, <1>4, <1>8 DEF DevicesOf
  <1>11. ListedIn(fuller, longer)
    <2> HIDE DEF E
    <2>1. AreInOrder(DevicesOf(longer), F)
      BY <1>1, <1>6, <1>10
    <2> QED
      BY <1>3, <1>4, <1>9, <2>1 DEF ListedIn, F
  <1>12. Len(fuller) # 0 /\ Len(longer) # 0 /\ longer[Len(longer)].device = Len(fuller)
    BY <1>1, <1>2, <1>3, <1>4
  <1> QED
    BY <1>5, <1>11, <1>12

\* What the answer of an inquiry and of a list is.
LEMMA WindowsAnswers ==
  /\ kind \in Inquiries /\ FoundIn(given, result) => WindowsIsGiven
  /\ kind = "list" /\ ListedIn(given, result) => WindowsIsGiven
  BY Calls DEF WindowsIsGiven, FoundIn, ListedIn, HasAddress, IsListed


LEMMA WindowsKept == ASSUME WindowsInv, kind \in Kinds, WindowsStep PROVE WindowsInv'
  <1> USE Calls DEF WindowsInv
  <1>1. CASE at = "called"
    <2>1. /\ given = <<>> /\ result = IF kind = "search" THEN None ELSE <<>>
          /\ kind \in Inquiries \/ kind = "search" \/ kind = "list"
      BY <1>1 DEF Nothing, Kinds, Inquiries
    <2>2. FoundIn(<<>>, <<>>) /\ ListedIn(<<>>, <<>>)
      BY InOrderEmpty
    <2>3. CASE LookupBegins
      BY <2>1, <2>2, <2>3 DEF LookupBegins, Begins
    <2>4. CASE SearchNotBegun
      BY <2>1, <2>4 DEF SearchNotBegun, NotBegun, Begins, Ends, WindowsIsGiven
    <2>5. CASE InquiryNotBegun
      BY <2>1, <2>5 DEF InquiryNotBegun, NotBegun, Begins, Ends
    <2>6. CASE ListNotBegun
      <3>1. UNCHANGED <<kind, given>> /\ kind = "list"
        BY <2>6 DEF ListNotBegun, NotBegun, Begins
      <3>2. CASE at' = "crashed"
        BY <3>1, <3>2
      <3>3. CASE Ends(<<>>)
        <4>1. kind' = "list" /\ ListedIn(given', result') /\ at' = "done"
          BY <2>1, <2>2, <3>1, <3>3 DEF Ends
        <4>2. WindowsIsGiven'
          BY <4>1 DEF WindowsIsGiven, ListedIn, IsListed
        <4> QED
          BY <4>1, <4>2
      <3> QED
        BY <2>6, <3>2, <3>3 DEF ListNotBegun
    <2> QED
      BY <1>1, <2>3, <2>4, <2>5, <2>6
         DEF WindowsStep, LookupFaults, LookupStops, GivesService, GivesDevice, GivesUnpaired,
             GivesPaired, MayGive, ServicesBegin, ServicesFault, ServicesGive, ServicesStop
  <1>2. CASE LookupFaults \/ ServicesFault
    <2>1. UNCHANGED callVars
      BY <1>2 DEF LookupFaults, ServicesFault
    <2> QED
      BY <2>1 DEF callVars, Nothing, WindowsIsGiven, HasAddress, IsListed
  <1>3. CASE LookupStops
    <2>1. at = "looking" /\ at' = "done" /\ UNCHANGED <<kind, given, result>>
      BY <1>3 DEF LookupStops, Ends
    <2>2. WindowsIsGiven
      <3>1. kind = "search" => WindowsIsGiven
        BY <2>1 DEF WindowsIsGiven
      <3> QED
        BY <2>1, <3>1, WindowsAnswers DEF Kinds, Inquiries
    <2>3. WindowsIsGiven'
      BY <2>1, <2>2 DEF WindowsIsGiven, HasAddress, IsListed
    <2> QED
      BY <2>1, <2>3
  <1>4. CASE GivesService
    <2>1. kind = "search" /\ UNCHANGED kind /\ given = <<>>
      BY <1>4 DEF GivesService, MayGive
    <2>2. PICK s \in Services : given' = Append(given, s) /\ Ends(s.channel)
      BY <1>4 DEF GivesService
    <2>3. given' # <<>> /\ given'[1] = s
      BY <2>1, <2>2
    <2> QED
      BY <2>1, <2>2, <2>3 DEF Ends, WindowsIsGiven
  <1>5. CASE GivesDevice
    <2>1. kind \in Inquiries /\ at = "looking" /\ UNCHANGED <<kind, at>> /\ FoundIn(given, result)
      BY <1>5 DEF GivesDevice, MayGive
    <2>2. PICK d \in Devices :
              /\ given' = Append(given, d)
              /\ result' = IF d.address THEN Append(result, Len(given')) ELSE result
      BY <1>5 DEF GivesDevice
    <2>3. FoundIn(given', result')
      BY <2>1, <2>2, FoundMore
    <2> QED
      BY <2>1, <2>3
  <1>6. CASE GivesUnpaired
    <2>1. kind = "list" /\ at = "looking" /\ UNCHANGED kind /\ ListedIn(given, result)
      BY <1>6 DEF GivesUnpaired, MayGive
    <2>2. PICK d \in Devices : ~d.paired /\ given' = Append(given, d)
      BY <1>6 DEF GivesUnpaired
    <2>3. UNCHANGED result /\ (at' = at \/ at' = "done")
      BY <1>6 DEF GivesUnpaired, Ends
    <2>4. ListedIn(given', result')
      BY <2>1, <2>2, <2>3, ListedSame
    <2>5. WindowsIsGiven'
      BY <2>1, <2>4 DEF WindowsIsGiven, ListedIn, IsListed
    <2> QED
      BY <2>1, <2>3, <2>4, <2>5
  <1>7. CASE GivesPaired
    <2>1. kind = "list" /\ at = "looking" /\ UNCHANGED kind /\ ListedIn(given, result)
      BY <1>7 DEF GivesPaired, MayGive
    <2>2. PICK d \in Devices :
              /\ d.paired /\ given' = Append(given, d)
              /\ IF d.address
                   THEN /\ at' = "services"
                        /\ result' = Append(result, [device |-> Len(given'), services |-> <<>>])
                   ELSE UNCHANGED <<at, result>>
      BY <1>7 DEF GivesPaired
    <2>3. CASE d.address
      <3>1. /\ ListedIn(given', result')
            /\ given' # <<>> /\ result' # <<>> /\ result'[Len(result')].device = Len(given')
        BY <2>1, <2>2, <2>3, ListedMore
      <3> QED
        BY <2>1, <2>2, <2>3, <3>1
    <2>4. CASE ~d.address
      <3>1. ListedIn(given', result') /\ UNCHANGED at
        BY <2>1, <2>2, <2>4, ListedSame
      <3> QED
        BY <2>1, <3>1
    <2> QED
      BY <2>3, <2>4
  <1>8. CASE ServicesBegin \/ ServicesStop
    <2>1. /\ at \in {"services", "looking2"} /\ at' \in {"looking", "looking2", "crashed"}
          /\ UNCHANGED <<kind, given, result>>
      BY <1>8 DEF ServicesBegin, ServicesStop
    <2> QED
      BY <2>1
  <1>9. CASE ServicesGive
    <2>1. /\ kind = "list" /\ at = "looking2" /\ UNCHANGED <<kind, at>>
          /\ ListedIn(given, result)
          /\ given # <<>> /\ result # <<>> /\ result[Len(result)].device = Len(given)
      BY <1>9 DEF ServicesGive
    <2>2. PICK c \in Channels :
              /\ given' = [given EXCEPT ![Len(given)].services = Append(@, c)]
              /\ result' = [result EXCEPT ![Len(result)].services = Append(@, c)]
      BY <1>9 DEF ServicesGive
    <2> DEFINE fuller == [given EXCEPT ![Len(given)].services = Append(@, c)]
               longer == [result EXCEPT ![Len(result)].services = Append(@, c)]
    <2>3. /\ ListedIn(fuller, longer)
          /\ fuller # <<>> /\ longer # <<>> /\ longer[Len(longer)].device = Len(fuller)
      BY <2>1, ListedService
    <2>4. given' = fuller /\ result' = longer
      BY <2>2
    <2> HIDE DEF fuller, longer
    <2> QED
      BY <2>1, <2>3, <2>4
  <1> QED
    BY <1>1, <1>2, <1>3, <1>4, <1>5, <1>6, <1>7, <1>8, <1>9
       DEF WindowsStep, LookupBegins, SearchNotBegun, InquiryNotBegun, ListNotBegun, NotBegun, Begins

-----------------------------------------------------------------------------
(* The answers.                                                            *)

LEMMA GivenInit == Init => GivenInv
  <1> SUFFICES ASSUME Init PROVE GivenInv
    OBVIOUS
  <1>1. /\ kind = "search" /\ at = "answered" /\ given = <<>> /\ result = None /\ scan = "off"
        /\ platform \in {"linux", "macos", "windows"}
    BY DEF Init, InitCall, InitMac
  <1>2. ServiceChannel(<<>>) = None /\ FirstChannel(<<>>) = None
    BY NoChannel, NoFirstChannel DEF NoHit
  <1>3. LinuxInv
    <2>1. result = LinuxResult
      BY <1>1, <1>2, Calls DEF LinuxResult
    <2> QED
      BY <1>1, <2>1 DEF LinuxInv
  <1>4. MacInv
    <2>1. MacIsGiven
      BY <1>1, <1>2, Calls DEF MacIsGiven
    <2> QED
      BY <1>1, <2>1 DEF MacInv
  <1>5. WindowsInv
    <2>1. WindowsIsGiven
      BY <1>1, Calls DEF WindowsIsGiven
    <2> QED
      BY <1>1, <2>1 DEF WindowsInv
  <1> QED
    BY <1>1, <1>3, <1>4, <1>5 DEF GivenInv, Kinds

LEMMA GivenNext == GivenInv /\ [Next]_vars => GivenInv'
  <1> SUFFICES ASSUME GivenInv, [Next]_vars PROVE GivenInv'
    OBVIOUS
  <1> USE DEF GivenInv
  <1>1. CASE UserCalls
    <2>1. /\ kind' \in Kinds /\ at = "answered" /\ at' = "called" /\ Nothing'
          /\ UNCHANGED <<platform, scan>>
      BY <1>1 DEF UserCalls, Call, Nothing, macVars
    <2> QED
      BY <2>1 DEF LinuxInv, MacInv, WindowsInv
  <1>2. CASE Linux
    <2>1. platform = "linux" /\ platform' = "linux" /\ LinuxStep
      BY <1>2 DEF Linux
    <2>2. kind' = kind
      BY <2>1 DEF LinuxStep, SdpConnects, NextList, NextElement, WalkEnds, OpensDevice, Inquires,
                  ReadsName, NamesEnd, ListsNothing
    <2> QED
      BY <2>1, <2>2, LinuxKept
  <1>3. CASE Mac
    <2>1. platform = "macos" /\ platform' = "macos" /\ MacStep
      BY <1>3 DEF Mac
    <2>2. kind' = kind
      BY <2>1 DEF MacStep, InquireWithPipe, PopsDevice, PopsNothing, InquiryTask,
                  DeviceInquiryDeviceFound, DeviceInquiryComplete, SearchBegins, NextRecord,
                  RecordsEnd, ListsPaired, ListsDevice, ListsService, ListEnds, callVars
    <2> QED
      BY <2>1, <2>2, MacKept
  <1>4. CASE Windows
    <2>1. platform = "windows" /\ platform' = "windows" /\ WindowsStep
      BY <1>4 DEF Windows
    <2>2. kind' = kind
      BY <2>1 DEF WindowsStep, LookupBegins, SearchNotBegun, InquiryNotBegun, ListNotBegun, NotBegun,
                  Begins, LookupFaults, LookupStops, GivesService, GivesDevice, GivesUnpaired,
                  GivesPaired, MayGive, ServicesBegin, ServicesFault, ServicesGive, ServicesStop,
                  callVars
    <2> QED
      BY <2>1, <2>2, WindowsKept
  <1>5. CASE Answers
    <2>1. /\ at = "done" /\ at' = "answered"
          /\ UNCHANGED <<kind, given, told, result, platform, scan>>
      BY <1>5 DEF Answers, Report, macVars
    <2>2. LinuxResult' = LinuxResult /\ MacIsGiven' = MacIsGiven /\ WindowsIsGiven' = WindowsIsGiven
      BY <2>1 DEF LinuxResult, DevicesNamed, MacIsGiven, ListIsGiven, WindowsIsGiven, HasAddress,
                  IsListed
    <2> QED
      BY <2>1, <2>2 DEF LinuxInv, MacInv, WindowsInv
  <1>6. CASE UNCHANGED vars
    <2>1. UNCHANGED <<kind, at, given, told, result, platform, proto, scan, inquiryProducer, pipe>>
      BY <1>6 DEF vars, callVars, linuxVars, macVars
    <2>2. LinuxResult' = LinuxResult /\ MacIsGiven' = MacIsGiven /\ WindowsIsGiven' = WindowsIsGiven
      BY <2>1 DEF LinuxResult, DevicesNamed, MacIsGiven, ListIsGiven, WindowsIsGiven, HasAddress,
                  IsListed
    <2>3. /\ LinuxInv' = LinuxInv
          /\ MacInv' = MacInv
          /\ WindowsInv' = WindowsInv
      BY <2>1, <2>2 DEF LinuxInv, Walk, Nothing, DevicesNamed, MacInv, ListIsGiven, WindowsInv
    <2> QED
      BY <2>1, <2>3
  <1> QED
    BY <1>1, <1>2, <1>3, <1>4, <1>5, <1>6 DEF Next

\* What the user is told is what the system told the call: the first channel of
\* RFCOMM that stands in the records; every device that can be named or listed,
\* in order and with its own services; on Linux, on macOS and on Windows.
THEOREM DiscoveryAnswers == Spec => []AnswerIsGiven
  <1>1. GivenInv => AnswerIsGiven
    BY DEF GivenInv, LinuxInv, MacInv, WindowsInv, AnswerIsGiven
  <1> QED
    BY <1>1, GivenInit, GivenNext, PTL DEF Spec
=============================================================================
