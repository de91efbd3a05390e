------------------------------- MODULE MacINQ -------------------------------
(***************************************************************************)
(* src/macos/DeviceINQ.mm and the inquiry of BluetoothWorker.mm: doInquire *)
(* takes devices from a pipe (that of PipeQueue) into which the delegate   *)
(* of the inquiry pushes them; inquiryProducer is the worker's handle of   *)
(* the pipe.  A search reads the records that the framework has after an   *)
(* SDP query, on the worker; listPairedDevices is one pass over lists of   *)
(* the framework.  An inquiry runs alone: one that begins while another    *)
(* has inquiryProducer is not modelled.                                    *)
(***************************************************************************)
EXTENDS DeviceINQ

CONSTANT MaxRecords \* bound: service records of a device

ASSUME RecordsAssumption == MaxRecords \in Nat

VARIABLES
    inquiryProducer, \* it is not NULL
    pipe,            \* the elements of the pipe
    scan             \* "off", the worker's "task" waits, the inquiry "runs" or
                     \* was "not_started"

macVars == <<inquiryProducer, pipe, scan>>

InitMac == inquiryProducer = FALSE /\ pipe = <<>> /\ scan = "off"

\* A record: whether it is one of RFCOMM, and its channel if it has one.
Records == [rfcomm : BOOLEAN, channel : Channels \cup {None}]

-----------------------------------------------------------------------------
(* doInquire.                                                              *)

InquireWithPipe ==
    /\ at = "called" /\ kind \in Inquiries
    /\ at' = "popping"
    /\ inquiryProducer' = TRUE /\ pipe' = <<>>
    /\ scan' = "task"
    /\ UNCHANGED <<kind, given, told, result>>

\* pipe_pop_eager returns a device ...
PopsDevice ==
    /\ at = "popping" /\ pipe # <<>>
    /\ pipe' = Tail(pipe)
    /\ result' = Append(result, Head(pipe))
    /\ UNCHANGED <<kind, at, given, told, inquiryProducer, scan>>

\* ... or 0: it is empty and has no producers.
PopsNothing ==
    /\ at = "popping" /\ pipe = <<>> /\ ~inquiryProducer
    /\ Ends(result)
    /\ UNCHANGED <<kind, given, told, macVars>>

(* The worker and the delegate. *)

\* The result of start is ignored: if the inquiry is not started, the delegate
\* is not called and inquiryProducer stays.
InquiryTask ==
    /\ scan = "task"
    /\ scan' \in {"runs", "not_started"}
    /\ UNCHANGED <<callVars, inquiryProducer, pipe>>

DeviceInquiryDeviceFound ==
    /\ scan = "runs" /\ Len(given) < MaxGiven
    /\ given' = Append(given, "device")
    /\ pipe' = IF inquiryProducer THEN Append(pipe, Len(given')) ELSE pipe
    /\ UNCHANGED <<kind, at, told, result, inquiryProducer, scan>>

\* With or without an error.
DeviceInquiryComplete ==
    /\ scan = "runs"
    /\ scan' = "off"
    /\ inquiryProducer' = FALSE
    /\ told' \in {"no_more", "failed"}
    /\ UNCHANGED <<kind, at, given, result, pipe>>

-----------------------------------------------------------------------------
(* getRFCOMMChannelIDTask: `given` is the sequence of records.             *)

SearchBegins ==
    /\ at = "called" /\ kind = "search"
    /\ at' = "records"
    /\ UNCHANGED <<kind, given, told, result, macVars>>

NextRecord ==
    /\ at = "records" /\ Len(given) < MaxRecords
    /\ \E r \in Records :
         /\ given' = Append(given, r)
         /\ IF r.rfcomm /\ r.channel # None THEN Ends(r.channel) ELSE UNCHANGED <<at, result>>
    /\ UNCHANGED <<kind, told, macVars>>

\* There are no more records, or the query failed or took more than 60 seconds.
RecordsEnd ==
    /\ at = "records"
    /\ told' \in {"no_more", "failed"}
    /\ Ends(None)
    /\ UNCHANGED <<kind, given, macVars>>

-----------------------------------------------------------------------------
(* ListPairedDevices: `given` is a sequence of devices, each the sequence  *)
(* of the channels of its records.                                         *)

\* A record that has no channel leaves channelID uninitialised.
ChannelID(channel) == IF channel # None THEN {channel} ELSE Channels

ListsPaired ==
    /\ at = "called" /\ kind = "list"
    /\ at' = "listing"
    /\ UNCHANGED <<kind, given, told, result, macVars>>

ListsDevice ==
    /\ at = "listing" /\ Len(given) < MaxGiven
    /\ given' = Append(given, <<>>)
    /\ result' = Append(result, <<>>)
    /\ UNCHANGED <<kind, at, told, macVars>>

ListsService ==
    /\ at = "listing" /\ given # <<>>
    /\ LET n == Len(given)
       IN  /\ Len(given[n]) < MaxRecords
           /\ \E c \in Channels \cup {None} : \E id \in ChannelID(c) :
                /\ given' = [given EXCEPT ![n] = Append(@, c)]
                /\ result' = [result EXCEPT ![n] = Append(@, id)]
    /\ UNCHANGED <<kind, at, told, macVars>>

ListEnds ==
    /\ at = "listing"
    /\ told' = "no_more"
    /\ Ends(result)
    /\ UNCHANGED <<kind, given, macVars>>

MacStep == \/ InquireWithPipe \/ PopsDevice \/ PopsNothing
           \/ InquiryTask \/ DeviceInquiryDeviceFound \/ DeviceInquiryComplete
           \/ SearchBegins \/ NextRecord \/ RecordsEnd
           \/ ListsPaired \/ ListsDevice \/ ListsService \/ ListEnds

-----------------------------------------------------------------------------
\* The first record of RFCOMM that has a channel.
FirstChannel(records) ==
    LET hits == {n \in DOMAIN records : records[n].rfcomm /\ records[n].channel # None}
    IN  IF hits = {} THEN None
        ELSE records[CHOOSE n \in hits : \A m \in hits : n <= m].channel

\* Every device with as many services as it has records, and the channels of
\* those that have one.
ListIsGiven ==
    /\ DOMAIN result = DOMAIN given
    /\ \A n \in DOMAIN given :
         /\ DOMAIN result[n] = DOMAIN given[n]
         /\ \A i \in DOMAIN given[n] : result[n][i] \in ChannelID(given[n][i])

MacIsGiven == CASE kind = "search" -> result = FirstChannel(given)
                [] kind \in Inquiries -> result = [n \in DOMAIN given |-> n]
                [] kind = "list" -> ListIsGiven
=============================================================================
