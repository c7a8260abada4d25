----------------------------- MODULE DeviceHttp -----------------------------
(***************************************************************************)
(* The HTTP side of a device server: the handlers of device/handlers.go    *)
(* that take a device's name, the filter handlers of device/devicegate and *)
(* the handlers that start, cancel and show a drain (device/drain).        *)
(* Behind them stand a registry, the filter gate's map and a drainer; the  *)
(* registry and the drainer are only as detailed as the handlers see them  *)
(* (DeviceManager and Drainer are their models).                           *)
(***************************************************************************)
EXTENDS Integers, FiniteSets

CONSTANTS
    Macs,             \* hardware addresses
    Keys, Values,     \* of filters
    AllowedFilters,   \* keys that may be filtered by; all of Keys without a list
    Calls,            \* HTTP requests
    NoFilter

VARIABLES
    deviceRegistry,   \* identifiers of the connected devices
    filterStore,      \* key -> the values of its filter, or NoFilter
    drain,            \* the drainer: its active job (0 for none), jobs started and ended
    http,             \* of each request: what it asks, how far it is, its status
    createdCount,     \* key -> requests answered 201
    removedCount,     \* key -> filters deleted
    writes            \* changes of the filter map

vars == <<deviceRegistry, filterStore, drain, http, createdCount, removedCount, writes>>

-----------------------------------------------------------------------------
(* Names and identifiers.  A name is a prefix, a hardware address as it is *)
(* written, and a service, which is ignored.                               *)

Prefixes == {"mac", "MAC", "uuid", "other"}
Written == {"plain", "delimited", "short"}
Names == [prefix : Prefixes, mac : Macs, written : Written, service : BOOLEAN]

ToLower(prefix) == IF prefix = "MAC" THEN "mac" ELSE prefix
InvalidID == [prefix |-> "none"]
IDs == [prefix : {"mac", "uuid"}, mac : Macs, written : Written, service : {FALSE}]

\* Mutant: the delimiters stay in.
ParseIDRaw(name) ==
    IF ToLower(name.prefix) = "other" \/ name.written = "short" THEN InvalidID
    ELSE [prefix |-> ToLower(name.prefix), mac |-> name.mac, written |-> name.written,
          service |-> FALSE]

\* Only a mac: identifier is rewritten: digits in lower case, no delimiters,
\* and then twelve digits long.
ParseID(name) ==
    LET prefix == ToLower(name.prefix)
    IN  IF prefix = "other" \/ (prefix = "mac" /\ name.written = "short") THEN InvalidID
        ELSE [prefix |-> prefix, mac |-> name.mac, service |-> FALSE,
              written |-> IF prefix = "mac" THEN "plain" ELSE name.written]

-----------------------------------------------------------------------------
New == [stage |-> "new", status |-> 0, seen |-> 0]
Stages == {"new", "send", "marshal", "cancel", "done", "fatal"}

TypeOK ==
    /\ deviceRegistry \subseteq IDs
    /\ filterStore \in [Keys -> (SUBSET Values) \cup {NoFilter}]
    /\ drain \in [active : Nat, started : Nat, ended : SUBSET Nat]
    /\ \A c \in Calls : http[c].stage \in Stages
    /\ createdCount \in [Keys -> Nat] /\ removedCount \in [Keys -> Nat] /\ writes \in Nat

Init ==
    /\ deviceRegistry = {}
    /\ filterStore = [k \in Keys |-> NoFilter]
    /\ drain = [active |-> 0, started |-> 0, ended |-> {}]
    /\ http = [c \in Calls |-> New]
    /\ createdCount = [k \in Keys |-> 0] /\ removedCount = [k \in Keys |-> 0]
    /\ writes = 0

gate == <<filterStore, createdCount, removedCount, writes>>

Reply(c, status) == http' = [http EXCEPT ![c] = [stage |-> "done", status |-> status, seen |-> 0]]
Goto(c, stage, seen) == http' = [http EXCEPT ![c] = [stage |-> stage, status |-> 0, seen |-> seen]]

Answer(c, status) ==
    /\ http[c].stage = "new"
    /\ Reply(c, status)
    /\ UNCHANGED <<deviceRegistry, drain, gate>>

-----------------------------------------------------------------------------
(* Devices                                                                 *)

\* A request without the header or path variable that holds the name.
NoName(c) == Answer(c, 400)

\* UseID and the connect handler.
Connect(c, name) ==
    /\ http[c].stage = "new"
    /\ IF ParseID(name) = InvalidID
       THEN Reply(c, 400) /\ UNCHANGED deviceRegistry
       ELSE Reply(c, 101) /\ deviceRegistry' = deviceRegistry \cup {ParseID(name)}
    /\ UNCHANGED <<drain, gate>>

Disconnect(id) ==
    /\ id \in deviceRegistry
    /\ deviceRegistry' = deviceRegistry \ {id}
    /\ UNCHANGED <<drain, gate, http>>

\* The statistics handler; 500 when the router set no such variable.
Stat(c, name) ==
    \/ Answer(c, 500)
    \/ Answer(c, IF ParseID(name) = InvalidID THEN 400
                 ELSE IF ParseID(name) \in deviceRegistry THEN 200 ELSE 404)

\* A body that is no WRP message, or an Accept header that names no format.
DecodeFails(c) == Answer(c, 400)

\* The message handler: Route looks the destination up, and then sends.
Message(c, name) ==
    /\ http[c].stage = "new"
    /\ IF ParseID(name) = InvalidID THEN Reply(c, 400)
       ELSE IF ParseID(name) \in deviceRegistry THEN Goto(c, "send", 0) ELSE Reply(c, 404)
    /\ UNCHANGED <<deviceRegistry, drain, gate>>

\* What Send may return besides a response (Device).
SendErrors == {"invalidKey", "alreadyRegistered", "nonUnique", "closed", "busy", "timeout"}
CodeOf(err) == IF err \in {"invalidKey", "alreadyRegistered", "nonUnique"} THEN 400 ELSE 504

\* A response is copied when the client wants the device's format, and must
\* then have contents; otherwise its message is encoded again.
EncodeResponse(same, empty) == IF same /\ empty THEN 500 ELSE 200

\* Without an error and without a response nothing is written, a 200.
Sent(c) ==
    /\ http[c].stage = "send"
    /\ \/ \E err \in SendErrors : Reply(c, CodeOf(err))
       \/ \E same, empty \in BOOLEAN : Reply(c, EncodeResponse(same, empty))
       \/ Reply(c, 200)
    /\ UNCHANGED <<deviceRegistry, drain, gate>>

-----------------------------------------------------------------------------
(* Filters.  After an update or a deletion LogFilters marshals the gate,   *)
(* as GetFilters does, without the gate's lock.                            *)

\* Mutant: a filter whose values change counts as created.
SetFilterChanged(k, values) ==
    /\ filterStore' = [filterStore EXCEPT ![k] = values]
    /\ createdCount' = [createdCount EXCEPT ![k] = @ + (IF filterStore[k] # values THEN 1 ELSE 0)]
    /\ writes' = writes + 1
    /\ UNCHANGED removedCount

SetFilter(k, values) ==
    /\ filterStore' = [filterStore EXCEPT ![k] = values]
    /\ createdCount' = [createdCount EXCEPT ![k] = @ + (IF filterStore[k] = NoFilter THEN 1 ELSE 0)]
    /\ writes' = writes + 1
    /\ UNCHANGED removedCount

\* A body that cannot be read or parsed, or has no key.
BadBody(c) == Answer(c, 400)

CheckRequestDetails(k, values) == values # {} /\ k \in AllowedFilters

UpdateFilters(c, k, values) ==
    /\ http[c].stage = "new"
    /\ IF ~CheckRequestDetails(k, values)
       THEN Reply(c, 400) /\ UNCHANGED gate
       ELSE SetFilter(k, values) /\ Goto(c, "marshal", writes + 1)
    /\ UNCHANGED <<deviceRegistry, drain>>

DeleteFilter(c, k) ==
    /\ http[c].stage = "new"
    /\ filterStore' = [filterStore EXCEPT ![k] = NoFilter]
    /\ IF filterStore[k] = NoFilter
       THEN Goto(c, "marshal", writes) /\ UNCHANGED <<removedCount, writes>>
       ELSE /\ Goto(c, "marshal", writes + 1)
            /\ removedCount' = [removedCount EXCEPT ![k] = @ + 1]
            /\ writes' = writes + 1
    /\ UNCHANGED <<createdCount, deviceRegistry, drain>>

GetFilters(c) ==
    /\ http[c].stage = "new"
    /\ Goto(c, "marshal", writes)
    /\ UNCHANGED <<deviceRegistry, drain, gate>>

\* When the map was written while it was read, the list may be mixed, and the
\* runtime may notice and end the process.
MarshalGate(c) ==
    /\ http[c].stage = "marshal"
    /\ \/ Reply(c, 200)
       \/ http[c].seen # writes /\ Goto(c, "fatal", 0)
    /\ UNCHANGED <<deviceRegistry, drain, gate>>

-----------------------------------------------------------------------------
(* Drains                                                                  *)

\* Parameters that cannot be decoded, or a body that is no filter.
BadJob(c) == Answer(c, 400)

\* A body with a key and values makes a private gate for the job.
StartDrain(c) ==
    /\ http[c].stage = "new"
    /\ IF drain.active # 0
       THEN Reply(c, 409) /\ UNCHANGED drain
       ELSE /\ Reply(c, 200)
            /\ drain' = [drain EXCEPT !.active = drain.started + 1, !.started = @ + 1]
    /\ UNCHANGED <<deviceRegistry, gate>>

\* A job ends; only the active one frees the drainer.
JobEnds(j) ==
    /\ j \in 1..drain.started \ drain.ended
    /\ drain' = [drain EXCEPT !.ended = @ \cup {j}, !.active = IF @ = j THEN 0 ELSE @]
    /\ UNCHANGED <<deviceRegistry, gate, http>>

\* Mutant: the handler does not wait for the job.
CancelDrainAtOnce(c) ==
    /\ http[c].stage = "new"
    /\ IF drain.active = 0
       THEN Reply(c, 409) /\ UNCHANGED drain
       ELSE http' = [http EXCEPT ![c] = [stage |-> "done", status |-> 200, seen |-> drain.active]]
            /\ drain' = [drain EXCEPT !.active = 0]
    /\ UNCHANGED <<deviceRegistry, gate>>

CancelDrain(c) ==
    /\ http[c].stage = "new"
    /\ IF drain.active = 0
       THEN Reply(c, 409) /\ UNCHANGED drain
       ELSE Goto(c, "cancel", drain.active) /\ drain' = [drain EXCEPT !.active = 0]
    /\ UNCHANGED <<deviceRegistry, gate>>

\* The handler's select: the job is done, or the client is gone, which the
\* model shows as status 0.
Cancelled(c) ==
    /\ http[c].stage = "cancel"
    /\ \/ /\ http[c].seen \in drain.ended
          /\ http' = [http EXCEPT ![c].stage = "done", ![c].status = 200]
       \/ http' = [http EXCEPT ![c].stage = "done"]
    /\ UNCHANGED <<deviceRegistry, drain, gate>>

DrainStatus(c) == Answer(c, 200)

-----------------------------------------------------------------------------
Next ==
    \/ \E c \in Calls :
          \/ NoName(c) \/ DecodeFails(c) \/ BadBody(c) \/ BadJob(c) \/ Sent(c) \/ GetFilters(c) \/ MarshalGate(c)
          \/ StartDrain(c) \/ CancelDrain(c) \/ Cancelled(c) \/ DrainStatus(c)
          \/ \E name \in Names : Connect(c, name) \/ Stat(c, name) \/ Message(c, name)
          \/ \E k \in Keys : DeleteFilter(c, k) \/ \E vs \in SUBSET Values : UpdateFilters(c, k, vs)
    \/ \E id \in IDs : Disconnect(id)
    \/ \E j \in 1..drain.started : JobEnds(j)

-----------------------------------------------------------------------------
\* A device is registered under one identifier, however its address was
\* written: what ParseID returns is what ParseID makes of it, and no address
\* is connected twice.
OneIdentifier ==
    /\ \A id \in deviceRegistry : ParseID(id) = id
    /\ \A i, j \in deviceRegistry :
          i.prefix = "mac" /\ j.prefix = "mac" /\ i.mac = j.mac => i = j

\* 201 is answered to the request that created the filter: creations and
\* deletions of a key alternate.
CreatedOnce ==
    \A k \in Keys : createdCount[k] - removedCount[k] = IF filterStore[k] = NoFilter THEN 0 ELSE 1

\* A cancellation that is answered is over: the job it stopped has ended.
CancelWaits ==
    \A c \in Calls : http[c].status = 200 /\ http[c].seen # 0 => http[c].seen \in drain.ended
=============================================================================
