------------------------------ MODULE Rehasher ------------------------------
(***************************************************************************)
(* Devices follow the hash of the discovered instances: the goroutine of a *)
(* monitor hands each event first to the accessor that guards connections  *)
(* (service/servicehttp/hashFilter.go) and then to the rehasher            *)
(* (device/rehasher/rehasher.go), which disconnects what hashes elsewhere. *)
(***************************************************************************)
EXTENDS Integers

CONSTANTS
    Devices,    \* device IDs
    Servers,    \* instances, normalized
    Self,       \* the ones registered by this process
    Owner(_,_), \* consistent hashing: the server of a device in a nonempty set
    MaxEvents   \* bound: discovery events

VARIABLES
    event,      \* the event being dispatched, or the last one
    eventCount,
    listener,   \* "idle", "accessor", "rehasher", "remove": where the goroutine is
    accessor,   \* the UpdatableAccessor of the hash filter
    device,     \* "away", "admitted", "connected": each ID's latest request
    stale,      \* history: admitted by an accessor that has been replaced since
    matched     \* what removeIf gathered and has not removed yet

vars == <<event, eventCount, listener, accessor, device, stale, matched>>

Events ==
    [err : BOOLEAN, stopped : BOOLEAN, instances : SUBSET Servers]
NoInstances == [err |-> FALSE, stopped |-> FALSE, instances |-> {}]

\* The events dispatchEvents makes: an error and a stop come without instances.
MonitorEvents == {e \in Events : e.err \/ e.stopped => e.instances = {} /\ e.err # e.stopped}

\* Get succeeds and finds this process.
OwnedHere(a, d) == ~a.err /\ a.instances # {} /\ Owner(a.instances, d) \in Self

Connected == {d \in Devices : device[d] = "connected"}

TypeOK ==
    /\ event \in MonitorEvents
    /\ eventCount \in 0..MaxEvents
    /\ listener \in {"idle", "accessor", "rehasher", "remove"}
    /\ accessor \in MonitorEvents
    /\ device \in [Devices -> {"away", "admitted", "connected"}]
    /\ stale \in [Devices -> BOOLEAN]
    /\ matched \subseteq Devices

Init ==
    /\ event = NoInstances
    /\ eventCount = 0
    /\ listener = "idle"
    /\ accessor = NoInstances
    /\ device = [d \in Devices |-> "away"]
    /\ stale = [d \in Devices |-> FALSE]
    /\ matched = {}

-----------------------------------------------------------------------------
(* The monitor's goroutine.  A stop is the last event.                     *)

Dispatch ==
    /\ listener = "idle"
    /\ ~event.stopped
    /\ eventCount < MaxEvents
    /\ \E e \in MonitorEvents :
        /\ event' = e
        /\ eventCount' = IF e.stopped THEN eventCount ELSE eventCount + 1
    /\ listener' = "accessor"
    /\ UNCHANGED <<accessor, device, stale, matched>>

UpdateAccessor ==
    /\ listener = "accessor"
    /\ accessor' = event
    /\ stale' = [d \in Devices |-> stale[d] \/ device[d] = "admitted"]
    /\ listener' = "rehasher"
    /\ UNCHANGED <<event, eventCount, device, matched>>

\* An error, a stop, or an update without instances that is not the first one.
DisconnectsAll ==
    event.err \/ event.stopped \/ (eventCount # 1 /\ event.instances = {})

DisconnectAll ==
    /\ listener = "rehasher"
    /\ DisconnectsAll
    /\ device' = [d \in Devices |-> IF device[d] = "connected" THEN "away" ELSE device[d]]
    /\ listener' = "idle"
    /\ UNCHANGED <<event, eventCount, accessor, stale, matched>>

IgnoreInitial ==
    /\ listener = "rehasher"
    /\ ~DisconnectsAll
    /\ eventCount = 1
    /\ listener' = "idle"
    /\ UNCHANGED <<event, eventCount, accessor, device, stale, matched>>

\* DisconnectIf gathers the devices that do not hash to this process.
Rehash ==
    /\ listener = "rehasher"
    /\ ~DisconnectsAll
    /\ eventCount > 1
    /\ matched' = {d \in Connected : ~OwnedHere(event, d)}
    /\ listener' = "remove"
    /\ UNCHANGED <<event, eventCount, accessor, device, stale>>

\* Each is removed by its ID, if it is still there.
RemoveMatched(d) ==
    /\ listener = "remove"
    /\ d \in matched
    /\ matched' = matched \ {d}
    /\ device' = [device EXCEPT ![d] = IF @ = "connected" THEN "away" ELSE @]
    /\ UNCHANGED <<event, eventCount, listener, accessor, stale>>

RehashEnds ==
    /\ listener = "remove"
    /\ matched = {}
    /\ listener' = "idle"
    /\ UNCHANGED <<event, eventCount, accessor, device, stale, matched>>

-----------------------------------------------------------------------------
(* Devices.                                                                *)

\* Mutant: the hash filter admits whom it cannot hash.
AdmitOnError(d) ==
    /\ device[d] = "away"
    /\ ~accessor.err /\ accessor.instances # {} => OwnedHere(accessor, d)
    /\ device' = [device EXCEPT ![d] = "admitted"]
    /\ stale' = [stale EXCEPT ![d] = FALSE]
    /\ UNCHANGED <<event, eventCount, listener, accessor, matched>>

\* A connect request passes the hash filter; others are rejected.
Admit(d) ==
    /\ device[d] = "away"
    /\ OwnedHere(accessor, d)
    /\ device' = [device EXCEPT ![d] = "admitted"]
    /\ stale' = [stale EXCEPT ![d] = FALSE]
    /\ UNCHANGED <<event, eventCount, listener, accessor, matched>>

\* Later the manager registers the device.
Connect(d) ==
    /\ device[d] = "admitted"
    /\ device' = [device EXCEPT ![d] = "connected"]
    /\ UNCHANGED <<event, eventCount, listener, accessor, stale, matched>>

Disconnect(d) ==
    /\ device[d] # "away"
    /\ device' = [device EXCEPT ![d] = "away"]
    /\ UNCHANGED <<event, eventCount, listener, accessor, stale, matched>>

ListenerStep ==
    \/ UpdateAccessor \/ DisconnectAll \/ IgnoreInitial \/ Rehash \/ RehashEnds
    \/ \E d \in Devices : RemoveMatched(d)

Next ==
    \/ Dispatch \/ ListenerStep
    \/ \E d \in Devices : Admit(d) \/ Connect(d) \/ Disconnect(d)

Fairness == WF_vars(ListenerStep)
FairSpec == Init /\ [][Next]_vars /\ Fairness

-----------------------------------------------------------------------------
(* Properties.                                                             *)

\* Between events every connected device hashes to this process, but for those
\* that passed the filter before an event and connected after it.
OthersAreGone ==
    listener = "idle" => \A d \in Connected : stale[d] \/ OwnedHere(accessor, d)
=============================================================================
