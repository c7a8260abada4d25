--------------------------- MODULE DeviceManager ---------------------------
(***************************************************************************)
(* The manager and its registry: devices connect, are replaced by          *)
(* duplicates, fail, and are disconnected by ID, by predicate or all       *)
(* together (device/manager.go, device/registry.go).                       *)
(*                                                                         *)
(* A device is one websocket; several may carry the same ID.  Module       *)
(* Device shows what happens inside one; here its two pumps are the one    *)
(* goroutine that runs pumpClose, and requestClose is one step.  The       *)
(* critical sections of registry.lock are steps, and what a goroutine does *)
(* after it unlocked is a later step: the device it must close is kept in  *)
(* existing, removed or original until then.                               *)
(***************************************************************************)
EXTENDS Integers, FiniteSets

CONSTANTS
    Devices,     \* connection attempts
    IDs,         \* device identifiers
    None,        \* no device
    Ops,         \* calls of Disconnect, DisconnectIf and DisconnectAll
    IdOf,        \* the ID of each device
    Limit        \* Options.MaxDevices; not positive: no limit

ASSUME ManagerAssumption ==
    /\ None \notin Devices
    /\ IdOf \in [Devices -> IDs]
    /\ IsFiniteSet(IDs)
    /\ Limit \in Int

VARIABLES
    data,        \* registry.data
    closed,      \* device.state is stateClosed
    closedBy,    \* the call that closed it
    connect,     \* program counter of each Connect
    existing,    \* the device Connect must close: the one it replaced, or its own
    pump,        \* program counter of each device's pumps
    removed,     \* the device pumpClose removed and must close
    op,          \* program counter of each call in Ops
    matched,     \* removeIf: the devices still to be removed
    original,    \* the devices such a call must still close
    counted,     \* removeIf, removeAll: the devices it removed so far
    gauge,       \* the device count metric
    connects,    \* the connect counter
    disconnects, \* the disconnect counter
    limited,     \* the limitReached counter
    duplicates   \* the duplicates counter

metrics == <<gauge, connects, disconnects, limited, duplicates>>
connectVars == <<connect, existing>>
pumpVars == <<pump, removed>>
opVars == <<op, matched, original, counted>>
vars == <<data, closed, closedBy, connectVars, pumpVars, opVars, metrics>>

\* The IDs in the map m, and the size of the registry.
Present(m) == {i \in IDs : m[i] # None}
Size(m) == Cardinality(Present(m))

Nobody == [kind |-> "nobody", device |-> None]
By(kind, d) == [kind |-> kind, device |-> d]

TypeOK ==
    /\ data \in [IDs -> Devices \cup {None}]
    /\ closed \in [Devices -> BOOLEAN]
    /\ closedBy \in [Devices -> [kind : {"nobody", "limit", "duplicate", "pump", "manager"},
                                 device : Devices \cup {None}]]
    /\ connect \in [Devices -> {"idle", "add", "limit", "added", "event", "done", "refused"}]
    /\ existing \in [Devices -> Devices \cup {None}]
    /\ pump \in [Devices -> {"off", "running", "remove", "close", "exit"}]
    /\ removed \in [Devices -> Devices \cup {None}]
    /\ op \in [Ops -> {"idle", "remove", "removeIf", "done"}]
    /\ matched \in [Ops -> SUBSET Devices]
    /\ original \in [Ops -> SUBSET Devices]
    /\ counted \in [Ops -> Nat]
    /\ gauge \in Nat
    /\ connects \in Nat
    /\ disconnects \in Nat
    /\ limited \in Nat
    /\ duplicates \in Nat

Init ==
    /\ data = [i \in IDs |-> None]
    /\ closed = [d \in Devices |-> FALSE]
    /\ closedBy = [d \in Devices |-> Nobody]
    /\ connect = [d \in Devices |-> "idle"]
    /\ existing = [d \in Devices |-> None]
    /\ pump = [d \in Devices |-> "off"]
    /\ removed = [d \in Devices |-> None]
    /\ op = [o \in Ops |-> "idle"]
    /\ matched = [o \in Ops |-> {}]
    /\ original = [o \in Ops |-> {}]
    /\ counted = [o \in Ops |-> 0]
    /\ gauge = 0
    /\ connects = 0
    /\ disconnects = 0
    /\ limited = 0
    /\ duplicates = 0

-----------------------------------------------------------------------------
\* requestClose: the first call closes the device, later ones do nothing.
RequestClose(d, by) ==
    /\ closed' = [closed EXCEPT ![d] = TRUE]
    /\ closedBy' = IF closed[d] THEN closedBy ELSE [closedBy EXCEPT ![d] = by]

\* The critical section of remove: the ID is dropped and the gauge set.
Remove(id) ==
    /\ data' = [data EXCEPT ![id] = None]
    /\ gauge' = Size(data')

-----------------------------------------------------------------------------
(* Connect.                                                                *)

\* The filter, the upgrade or the pinger refuses the connection, or it goes on.
ConnectBegin(d) ==
    /\ connect[d] = "idle"
    /\ connect' = [connect EXCEPT ![d] = "add"] \/ connect' = [connect EXCEPT ![d] = "refused"]
    /\ UNCHANGED <<data, closed, closedBy, existing, pumpVars, opVars, metrics>>

\* Mutant: the limit is off by one.
AtLimitOffByOne(d) ==
    /\ data[IdOf[d]] = None
    /\ Limit > 0
    /\ Size(data) > Limit

\* registry.add: a new ID beyond the limit is refused.
AtLimit(d) ==
    /\ data[IdOf[d]] = None
    /\ Limit > 0
    /\ Size(data) + 1 > Limit

\* The critical section of add.
ConnectAdd(d) ==
    /\ connect[d] = "add"
    /\ IF AtLimit(d)
       THEN /\ connect' = [connect EXCEPT ![d] = "limit"]
            /\ UNCHANGED <<data, gauge, existing>>
       ELSE /\ data' = [data EXCEPT ![IdOf[d]] = d]
            /\ gauge' = Size(data')
            /\ existing' = [existing EXCEPT ![d] = data[IdOf[d]]]
            /\ connect' = [connect EXCEPT ![d] = "added"]
    /\ UNCHANGED <<closed, closedBy, pumpVars, opVars, connects, disconnects, limited, duplicates>>

ConnectLimit(d) ==
    /\ connect[d] = "limit"
    /\ limited' = limited + 1
    /\ disconnects' = disconnects + 1
    /\ RequestClose(d, By("limit", d))
    /\ connect' = [connect EXCEPT ![d] = "refused"]
    /\ UNCHANGED <<data, existing, pumpVars, opVars, gauge, connects, duplicates>>

\* Mutant: the new device is closed in place of the one it replaced.
ConnectAddedClosesNew(d) ==
    /\ connect[d] = "added"
    /\ IF existing[d] = None
       THEN UNCHANGED <<closed, closedBy, disconnects, duplicates>>
       ELSE /\ disconnects' = disconnects + 1
            /\ duplicates' = duplicates + 1
            /\ RequestClose(d, By("duplicate", d))
    /\ existing' = [existing EXCEPT ![d] = None]
    /\ connects' = connects + 1
    /\ connect' = [connect EXCEPT ![d] = "event"]
    /\ UNCHANGED <<data, pumpVars, opVars, gauge, limited>>

\* What add does after it unlocked: the device that was replaced is closed.
ConnectAdded(d) ==
    /\ connect[d] = "added"
    /\ IF existing[d] = None
       THEN UNCHANGED <<closed, closedBy, disconnects, duplicates>>
       ELSE /\ disconnects' = disconnects + 1
            /\ duplicates' = duplicates + 1
            /\ RequestClose(existing[d], By("duplicate", d))
    /\ existing' = [existing EXCEPT ![d] = None]
    /\ connects' = connects + 1
    /\ connect' = [connect EXCEPT ![d] = "event"]
    /\ UNCHANGED <<data, pumpVars, opVars, gauge, limited>>

\* The Connect event, and the pumps start.
ConnectEvent(d) ==
    /\ connect[d] = "event"
    /\ connect' = [connect EXCEPT ![d] = "done"]
    /\ pump' = [pump EXCEPT ![d] = "running"]
    /\ UNCHANGED <<data, closed, closedBy, existing, removed, opVars, metrics>>

ConnectStep(d) ==
    ConnectBegin(d) \/ ConnectAdd(d) \/ ConnectLimit(d) \/ ConnectAdded(d) \/ ConnectEvent(d)

-----------------------------------------------------------------------------
(* The pumps.                                                              *)

\* An I/O error, or the closed shutdown channel, ends the pumps.
PumpEnds(d) ==
    /\ pump[d] = "running"
    /\ pump' = [pump EXCEPT ![d] = "remove"]
    /\ UNCHANGED <<data, closed, closedBy, connectVars, removed, opVars, metrics>>

\* Mutant: the registry is read and not changed.
PumpRemoveLooksUp(d) ==
    /\ pump[d] = "remove"
    /\ removed' = [removed EXCEPT ![d] = data[IdOf[d]]]
    /\ pump' = [pump EXCEPT ![d] = "close"]
    /\ UNCHANGED <<data, closed, closedBy, connectVars, opVars, metrics>>

\* Mutant: pumpClose goes on only if its own device is registered.
PumpRemoveOnlyOwn(d) ==
    /\ pump[d] = "remove"
    /\ data[IdOf[d]] = d
    /\ Remove(IdOf[d])
    /\ removed' = [removed EXCEPT ![d] = d]
    /\ pump' = [pump EXCEPT ![d] = "close"]
    /\ UNCHANGED <<closed, closedBy, connectVars, opVars, connects, disconnects, limited, duplicates>>

\* pumpClose: remove by the device's ID, whichever device is under it.
PumpRemove(d) ==
    /\ pump[d] = "remove"
    /\ Remove(IdOf[d])
    /\ removed' = [removed EXCEPT ![d] = data[IdOf[d]]]
    /\ pump' = [pump EXCEPT ![d] = "close"]
    /\ UNCHANGED <<closed, closedBy, connectVars, opVars, connects, disconnects, limited, duplicates>>

\* The removed device is closed; then the connection is, and Disconnect dispatched.
PumpClose(d) ==
    /\ pump[d] = "close"
    /\ IF removed[d] = None
       THEN UNCHANGED <<closed, closedBy, disconnects>>
       ELSE /\ disconnects' = disconnects + 1
            /\ RequestClose(removed[d], By("pump", d))
    /\ removed' = [removed EXCEPT ![d] = None]
    /\ pump' = [pump EXCEPT ![d] = "exit"]
    /\ UNCHANGED <<data, connectVars, opVars, gauge, connects, limited, duplicates>>

-----------------------------------------------------------------------------
(* Disconnect, DisconnectIf, DisconnectAll.                                *)

Disconnect(o, id) ==
    /\ op[o] = "idle"
    /\ Remove(id)
    /\ original' = [original EXCEPT ![o] = {data[id]} \ {None}]
    /\ op' = [op EXCEPT ![o] = "remove"]
    /\ UNCHANGED <<closed, closedBy, connectVars, pumpVars, matched, counted,
                   connects, disconnects, limited, duplicates>>

\* remove after it unlocked.
DisconnectClose(o) ==
    /\ op[o] = "remove"
    /\ IF original[o] = {}
       THEN UNCHANGED <<closed, closedBy, disconnects>>
       ELSE \E d \in original[o] :
               disconnects' = disconnects + 1 /\ RequestClose(d, By("manager", None))
    /\ original' = [original EXCEPT ![o] = {}]
    /\ op' = [op EXCEPT ![o] = "done"]
    /\ UNCHANGED <<data, connectVars, pumpVars, matched, counted, gauge, connects, limited, duplicates>>

\* removeIf gathers the devices whose IDs match, under the read lock.
DisconnectIf(o, ids) ==
    /\ op[o] = "idle"
    /\ matched' = [matched EXCEPT ![o] = {data[i] : i \in ids} \ {None}]
    /\ op' = [op EXCEPT ![o] = "removeIf"]
    /\ UNCHANGED <<data, closed, closedBy, connectVars, pumpVars, original, counted, metrics>>

\* Mutant: a device that is gone already is counted too.
DisconnectIfRemoveCountsAll(o, d) ==
    /\ op[o] = "removeIf"
    /\ original[o] = {}
    /\ d \in matched[o]
    /\ matched' = [matched EXCEPT ![o] = @ \ {d}]
    /\ Remove(IdOf[d])
    /\ original' = [original EXCEPT ![o] = {d}]
    /\ counted' = [counted EXCEPT ![o] = @ + 1]
    /\ UNCHANGED <<closed, closedBy, connectVars, pumpVars, op,
                   connects, disconnects, limited, duplicates>>

\* One round of removeIf: the ID is dropped if it is present, and then the
\* device that was gathered, not the one that was dropped, is closed.
DisconnectIfRemove(o, d) ==
    /\ op[o] = "removeIf"
    /\ original[o] = {}
    /\ d \in matched[o]
    /\ matched' = [matched EXCEPT ![o] = @ \ {d}]
    /\ IF data[IdOf[d]] = None
       THEN UNCHANGED <<data, gauge, original, counted>>
       ELSE /\ Remove(IdOf[d])
            /\ original' = [original EXCEPT ![o] = {d}]
            /\ counted' = [counted EXCEPT ![o] = @ + 1]
    /\ UNCHANGED <<closed, closedBy, connectVars, pumpVars, op,
                   connects, disconnects, limited, duplicates>>

\* removeAll takes the whole map.
DisconnectAll(o) ==
    /\ op[o] = "idle"
    /\ original' = [original EXCEPT ![o] = {data[i] : i \in IDs} \ {None}]
    /\ counted' = [counted EXCEPT ![o] = Size(data)]
    /\ data' = [i \in IDs |-> None]
    /\ gauge' = 0
    /\ op' = [op EXCEPT ![o] = "removeIf"]
    /\ UNCHANGED <<closed, closedBy, connectVars, pumpVars, matched,
                   connects, disconnects, limited, duplicates>>

\* removeIf and removeAll close the devices one after the other, in map order.
DisconnectManyClose(o, d) ==
    /\ op[o] = "removeIf"
    /\ d \in original[o]
    /\ RequestClose(d, By("manager", None))
    /\ original' = [original EXCEPT ![o] = @ \ {d}]
    /\ UNCHANGED <<data, connectVars, pumpVars, op, matched, counted, metrics>>

\* removeIf and removeAll report what they removed at the end.
DisconnectManyDone(o) ==
    /\ op[o] = "removeIf"
    /\ matched[o] = {}
    /\ original[o] = {}
    /\ disconnects' = disconnects + counted[o]
    /\ counted' = [counted EXCEPT ![o] = 0]
    /\ op' = [op EXCEPT ![o] = "done"]
    /\ UNCHANGED <<data, closed, closedBy, connectVars, pumpVars, matched, original,
                   gauge, connects, limited, duplicates>>

OpCall(o) ==
    \/ \E id \in IDs : Disconnect(o, id)
    \/ \E ids \in SUBSET IDs : DisconnectIf(o, ids)
    \/ DisconnectAll(o)

OpStep(o) ==
    \/ DisconnectClose(o)
    \/ \E d \in Devices : DisconnectIfRemove(o, d) \/ DisconnectManyClose(o, d)
    \/ DisconnectManyDone(o)

-----------------------------------------------------------------------------
Next ==
    \/ \E d \in Devices : ConnectStep(d) \/ PumpEnds(d) \/ PumpRemove(d) \/ PumpClose(d)
    \/ \E o \in Ops : OpCall(o) \/ OpStep(o)

Spec == Init /\ [][Next]_vars

\* Goroutines that can run do run; a pump ends when its device is closed.  No
\* device has to connect or to fail, and nobody has to disconnect one.
Fairness ==
    /\ \A d \in Devices :
        /\ WF_vars(ConnectAdd(d) \/ ConnectLimit(d) \/ ConnectAdded(d) \/ ConnectEvent(d))
        /\ WF_vars(closed[d] /\ PumpEnds(d))
        /\ WF_vars(PumpRemove(d) \/ PumpClose(d))
    /\ \A o \in Ops : WF_vars(OpStep(o))

FairSpec == Spec /\ Fairness

-----------------------------------------------------------------------------
(* Properties that hold.                                                   *)

\* The registry never holds more devices than the limit.
LimitRespected == Limit > 0 => Size(data) <= Limit

\* A device that can be looked up is open and under its own ID: whoever will
\* close a device has first taken it out of the registry, whatever duplicates
\* and removals happen in between.
RegisteredIsOpen ==
    \A i \in IDs : data[i] # None => ~closed[data[i]] /\ IdOf[data[i]] = i

\* A device whose pumpClose has removed its ID does not come back.
NoZombie == \A d \in Devices : pump[d] \in {"close", "exit"} => data[IdOf[d]] # d

Added == {d \in Devices : connect[d] = "added"}

\* The metrics agree with the registry: the gauge is its size, and every device
\* that was counted in is registered, counted out, or in the hands of a
\* goroutine that has not counted it yet.  A refused device is counted out only.
Accounting ==
    /\ gauge = Size(data)
    /\ connects + Cardinality(Added)
        = Size(data) + (disconnects - limited)
          + Cardinality({d \in Added : existing[d] # None})
          + Cardinality({d \in Devices : removed[d] # None})
          + Cardinality({o \in Ops : op[o] = "remove" /\ original[o] # {}})
          + Cardinality(UNION {{o} \X (1..counted[o]) : o \in Ops})

\* A closed device goes down: its pumps exit, unless it never started them.
ClosedGoesDown ==
    \A d \in Devices : closed[d] ~> (pump[d] = "exit" \/ connect[d] = "refused")

-----------------------------------------------------------------------------
(* What the documentation and the tests say and the code does not do.      *)

\* device/registry_test.go:68: a duplicate stays open when it replaces a
\* device; the pumps of a device close that device and no other.
PumpClosesItsDevice ==
    \A d \in Devices : closedBy[d].kind = "pump" => closedBy[d].device = d

ToBeClosed(d) ==
    \/ \E x \in Devices : existing[x] = d \/ removed[x] = d
    \/ \E o \in Ops : d \in original[o]

\* device/manager.go:45: DisconnectIf disconnects all devices under a matching
\* ID; a running device that is not closed, nor about to be, is registered.
NoOrphan ==
    \A d \in Devices :
        pump[d] = "running" /\ ~closed[d] /\ ~ToBeClosed(d) => data[IdOf[d]] = d
=============================================================================
