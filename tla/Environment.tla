---------------------------- MODULE Environment ----------------------------
(***************************************************************************)
(* The instancers of the service discovery environment                     *)
(* (service/environment.go) and the watcher that adds and removes them as  *)
(* datacenters come, go or are made inactive                               *)
(* (service/consul/datacenterWatch.go, service/consul/environment.go).     *)
(***************************************************************************)
EXTENDS Integers, FiniteSets

CONSTANTS
    Datacenters,
    CrossWatches,   \* watches with CrossDatacenter
    LocalWatches,   \* and without: they name no datacenter
    MaxInstancers,  \* bound: instancers made
    MaxChanges      \* bound: changes of datacenters and of inactive ones

Keys == (CrossWatches \X Datacenters) \cup LocalWatches
NoInstancer == 0

VARIABLES
    known,       \* consul: the datacenters of the catalog
    items,       \* argus: the datacenters that are inactive
    changes,
    listening,   \* "idle", or the items updateInactiveDatacenters works on
    inactive,    \* datacenterWatcher.inactiveDatacenters
    instancers,  \* environment.instancers, each named by a number
    made,        \* how many instancers were made
    stops,       \* how often Stop was called on each
    watcher,     \* "select", "build", "add", "done"
    todo,        \* cross watches and datacenters not looked at yet
    keys,        \* the keys updateInstancers has seen
    present,     \* its copy of environment.instancers
    toAdd,       \* the instancers it made
    closing,     \* environment.Close is running or has run
    visited,     \* the keys Close has stopped
    closed

sourceVars == <<known, items, changes>>
watcherVars == <<watcher, todo, keys, present, toAdd>>
closeVars == <<closing, visited, closed>>
vars == <<sourceVars, listening, inactive, instancers, made, stops, watcherVars, closeVars>>

Idle == [idle |-> TRUE, items |-> {}]
None == [k \in Keys |-> NoInstancer]

TypeOK ==
    /\ {known, items, inactive} \subseteq SUBSET Datacenters
    /\ changes \in 0..MaxChanges
    /\ listening \in [idle : BOOLEAN, items : SUBSET Datacenters]
    /\ made \in 0..MaxInstancers
    /\ {instancers, present, toAdd} \subseteq [Keys -> 0..made]
    /\ stops \in [1..MaxInstancers -> 0..2]
    /\ watcher \in {"select", "build", "add", "done"}
    /\ todo \subseteq CrossWatches \X Datacenters
    /\ {keys, visited} \subseteq SUBSET Keys
    /\ {closing, closed} \subseteq BOOLEAN

\* newInstancers: one for each local watch, and for each cross watch in each
\* datacenter.
Watched(dcs) == (CrossWatches \X dcs) \cup LocalWatches

Init ==
    /\ known \in SUBSET Datacenters
    /\ items = {}
    /\ changes = 0
    /\ listening = Idle
    /\ inactive = {}
    /\ made = Cardinality(Watched(known))
    /\ instancers = CHOOSE f \in [Keys -> 0..made] :
          \A k \in Keys : /\ f[k] # NoInstancer <=> k \in Watched(known)
                          /\ \A j \in Keys : f[j] = f[k] /\ f[k] # NoInstancer => j = k
    /\ stops = [i \in 1..MaxInstancers |-> 0]
    /\ watcher = "select"
    /\ todo = {}
    /\ keys = {}
    /\ present = None
    /\ toAdd = None
    /\ closing = FALSE
    /\ visited = {}
    /\ closed = FALSE

-----------------------------------------------------------------------------
(* Consul and argus.                                                       *)

DatacentersChange ==
    /\ changes < MaxChanges
    /\ changes' = changes + 1
    /\ \/ known' \in (SUBSET Datacenters) \ {known} /\ UNCHANGED items
       \/ items' \in (SUBSET Datacenters) \ {items} /\ UNCHANGED known
    /\ UNCHANGED <<listening, inactive, instancers, made, stops, watcherVars, closeVars>>

\* The chrysom client pulls and calls updateInactiveDatacenters, which first
\* adds what is inactive ...
Pull ==
    /\ listening.idle
    /\ watcher # "done"
    /\ listening' = [idle |-> FALSE, items |-> items]
    /\ inactive' = inactive \cup items
    /\ UNCHANGED <<sourceVars, instancers, made, stops, watcherVars, closeVars>>

\* ... and then deletes what no longer is.
PullDeletes ==
    /\ ~listening.idle
    /\ inactive' = inactive \cap listening.items
    /\ listening' = Idle
    /\ UNCHANGED <<sourceVars, instancers, made, stops, watcherVars, closeVars>>

-----------------------------------------------------------------------------
(* The datacenter watcher.                                                 *)

\* A tick: the datacenters are read, retrying; on failure nothing happens.
\* Then updateInstancers copies the environment's instancers.
Tick ==
    /\ watcher = "select"
    /\ watcher' = "build"
    /\ todo' = CrossWatches \X known
    /\ keys' = {}
    /\ present' = instancers
    /\ toAdd' = None
    /\ UNCHANGED <<sourceVars, listening, inactive, instancers, made, stops, closeVars>>

\* Mutant: inactive datacenters are watched like others.
CreateNewInstancerInactive(k) ==
    /\ watcher = "build"
    /\ k \in todo
    /\ todo' = todo \ {k}
    /\ keys' = keys \cup {k}
    /\ IF present[k] # NoInstancer \/ made = MaxInstancers THEN UNCHANGED <<made, toAdd>>
       ELSE /\ made' = made + 1
            /\ toAdd' = [toAdd EXCEPT ![k] = made + 1]
    /\ UNCHANGED <<sourceVars, listening, inactive, instancers, stops, watcher, present, closeVars>>

\* One cross watch in one datacenter; inactive is read anew for each.
CreateNewInstancer(k) ==
    /\ watcher = "build"
    /\ k \in todo
    /\ todo' = todo \ {k}
    /\ IF k[2] \in inactive THEN UNCHANGED <<keys, made, toAdd>>
       ELSE /\ keys' = keys \cup {k}
            /\ IF present[k] # NoInstancer THEN UNCHANGED <<made, toAdd>>
               ELSE /\ made < MaxInstancers
                    /\ made' = made + 1
                    /\ toAdd' = [toAdd EXCEPT ![k] = made + 1]
    /\ UNCHANGED <<sourceVars, listening, inactive, instancers, stops, watcher, present, closeVars>>

Built ==
    /\ watcher = "build"
    /\ todo = {}
    /\ watcher' = "add"
    /\ UNCHANGED <<sourceVars, listening, inactive, instancers, made, stops, todo, keys, present, toAdd, closeVars>>

\* UpdateInstancers sets each new instancer under the lock ...
AddInstancer(k) ==
    /\ watcher = "add"
    /\ toAdd[k] # NoInstancer
    /\ instancers' = [instancers EXCEPT ![k] = toAdd[k]]
    /\ toAdd' = [toAdd EXCEPT ![k] = NoInstancer]
    /\ UNCHANGED <<sourceVars, listening, inactive, made, stops, watcher, todo, keys, present, closeVars>>

StopOf(i) == IF stops[i] < 2 THEN stops[i] + 1 ELSE 2

\* Mutant: outdated instancers are removed without being stopped.
RemoveUnstopped ==
    /\ watcher = "add"
    /\ toAdd = None
    /\ instancers' = [k \in Keys |-> IF k \in keys THEN instancers[k] ELSE NoInstancer]
    /\ watcher' = "select"
    /\ UNCHANGED <<sourceVars, listening, inactive, made, stops, todo, keys, present, toAdd, closeVars>>

\* ... and, under the lock, stops and deletes those whose key it has not seen.
RemoveOutdated ==
    /\ watcher = "add"
    /\ toAdd = None
    /\ instancers' = [k \in Keys |-> IF k \in keys THEN instancers[k] ELSE NoInstancer]
    /\ stops' = [i \in 1..MaxInstancers |->
                    IF \E k \in Keys \ keys : instancers[k] = i THEN StopOf(i) ELSE stops[i]]
    /\ watcher' = "select"
    /\ keys' = {}
    /\ present' = None
    /\ UNCHANGED <<sourceVars, listening, inactive, made, todo, toAdd, closeVars>>

WatcherExits ==
    /\ watcher = "select"
    /\ closed
    /\ watcher' = "done"
    /\ UNCHANGED <<sourceVars, listening, inactive, instancers, made, stops, todo, keys, present, toAdd, closeVars>>

-----------------------------------------------------------------------------
(* environment.Close ranges over the instancers without the lock.          *)

Close ==
    /\ ~closing
    /\ closing' = TRUE
    /\ UNCHANGED <<sourceVars, listening, inactive, instancers, made, stops, watcherVars, visited, closed>>

CloseStops(k) ==
    /\ closing /\ ~closed
    /\ k \notin visited
    /\ instancers[k] # NoInstancer
    /\ visited' = visited \cup {k}
    /\ stops' = [stops EXCEPT ![instancers[k]] = StopOf(instancers[k])]
    /\ UNCHANGED <<sourceVars, listening, inactive, instancers, made, watcherVars, closing, closed>>

CloseEnds ==
    /\ closing /\ ~closed
    /\ \A k \in Keys : k \in visited \/ instancers[k] = NoInstancer
    /\ closed' = TRUE
    /\ UNCHANGED <<sourceVars, listening, inactive, instancers, made, stops, watcherVars, closing, visited>>

-----------------------------------------------------------------------------
WatcherStep ==
    \/ Tick \/ Built \/ RemoveOutdated \/ WatcherExits
    \/ \E k \in CrossWatches \X Datacenters : CreateNewInstancer(k) \/ AddInstancer(k)
PullStep == Pull \/ PullDeletes
CloseStep == CloseEnds \/ \E k \in Keys : CloseStops(k)

Next == DatacentersChange \/ PullStep \/ WatcherStep \/ Close \/ CloseStep

\* The ticker ticks, argus is pulled, and goroutines run.
Fairness == WF_vars(WatcherStep) /\ WF_vars(PullStep) /\ WF_vars(CloseStep)
FairSpec == Init /\ [][Next]_vars /\ Fairness

-----------------------------------------------------------------------------
(* Properties.                                                             *)

Running == {i \in 1..made : stops[i] = 0}
Held(f) == {f[k] : k \in Keys} \ {NoInstancer}

\* Until Close, an instancer runs exactly while the environment has it or is
\* about to get it: none is leaked and none is held that has been stopped.
RunningIsHeld == ~closing => Running = Held(instancers) \cup Held(toAdd)

\* In the end the cross watches cover the datacenters of consul that are not
\* inactive, and no others.
WatchesFollow ==
    <>[](closing \/ \A k \in CrossWatches \X Datacenters :
            instancers[k] # NoInstancer <=> k[2] \in known \ items)

=============================================================================
