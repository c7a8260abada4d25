------------------------------- MODULE Cache -------------------------------
(***************************************************************************)
(* The on-demand cache of store/cache.go, and the circular pool of         *)
(* store/circularPool.go.  The source of the cache hands out its current   *)
(* version or fails; time is a counter.  The pool's objects are numbered   *)
(* in the order of their creation.                                         *)
(***************************************************************************)
EXTENDS Integers, Sequences

CONSTANTS
    Loaders,       \* goroutines that call Load or Refresh
    Period,        \* the cache period
    MaxTime,       \* bound: the clock
    MaxVersion,    \* bound: versions of the source
    Clients,       \* goroutines that use the pool
    InitialSize, MaxSize,   \* of the pool
    MaxObjects     \* bound: objects created

VARIABLES
    clock, version,   \* time, and the source's current version
    entry,            \* the cached entry: value and expiry; value 0: none yet
    updateLock,       \* its holder, or "free"
    loader,           \* of each loader: call, stage, its now, what it returned
    objects,          \* the pool's channel
    created,          \* objects made so far
    has               \* of each client: its object, 0 if none, -1 while it waits

cacheVars == <<clock, version, entry, updateLock, loader>>
poolVars == <<objects, created, has>>
vars == <<cacheVars, poolVars>>

Calls == {"Load", "Refresh"}

TypeOK ==
    /\ clock \in 0..MaxTime
    /\ version \in 1..MaxVersion
    /\ entry \in [value : 0..MaxVersion, expiry : 0..(MaxTime + Period)]
    /\ updateLock \in Loaders \cup {"free"}
    /\ loader \in [Loaders -> [call : Calls, stage : {"idle", "fast", "lock", "locked", "done"},
                               now : 0..MaxTime, got : 0..MaxVersion]]
    /\ objects \in Seq(1..MaxObjects) /\ Len(objects) <= MaxSize
    /\ created \in 0..MaxObjects
    /\ has \in [Clients -> -1..MaxObjects]

Init ==
    /\ clock = 0 /\ version = 1
    /\ entry = [value |-> 0, expiry |-> 0]
    /\ updateLock = "free"
    /\ loader = [l \in Loaders |-> [call |-> "Load", stage |-> "idle", now |-> 0, got |-> 0]]
    /\ objects = [i \in 1..InitialSize |-> i]
    /\ created = InitialSize
    /\ has = [c \in Clients |-> 0]

-----------------------------------------------------------------------------
(* Cache                                                                   *)

Tick == clock < MaxTime /\ clock' = clock + 1
        /\ UNCHANGED <<version, entry, updateLock, loader, poolVars>>

SourceChanges == version < MaxVersion /\ version' = version + 1
        /\ UNCHANGED <<clock, entry, updateLock, loader, poolVars>>

\* The call reads the clock before anything else.
Start(l) ==
    /\ loader[l].stage = "idle"
    /\ \E call \in Calls :
          loader' = [loader EXCEPT ![l] = [call |-> call, now |-> clock, got |-> 0,
                                           stage |-> IF call = "Load" THEN "fast" ELSE "lock"]]
    /\ UNCHANGED <<clock, version, entry, updateLock, poolVars>>

Stale(l) == entry.value = 0 \/ entry.expiry < loader[l].now

\* Load looks without the lock first.
Fast(l) ==
    /\ loader[l].stage = "fast"
    /\ loader' = [loader EXCEPT
           ![l].stage = IF Stale(l) THEN "lock" ELSE "done",
           ![l].got = IF Stale(l) THEN 0 ELSE entry.value]
    /\ UNCHANGED <<clock, version, entry, updateLock, poolVars>>

Lock(l) ==
    /\ loader[l].stage = "lock"
    /\ updateLock = "free"
    /\ updateLock' = l
    /\ loader' = [loader EXCEPT ![l].stage = "locked"]
    /\ UNCHANGED <<clock, version, entry, poolVars>>

Store(l, value) == entry' = [value |-> value, expiry |-> loader[l].now + Period]

Return(l, value) ==
    /\ updateLock' = "free"
    /\ loader' = [loader EXCEPT ![l].stage = "done", ![l].got = value]
    /\ UNCHANGED <<clock, version, poolVars>>

\* Mutant: an entry that expired is replaced by what was fetched before the lock.
LoadedStale(l) ==
    /\ loader[l].stage = "locked"
    /\ \E fetched \in 1..version : Store(l, fetched) /\ Return(l, fetched)

\* Under the lock: Load looks again, with the same now; the source is asked.
Loaded(l) ==
    /\ loader[l].stage = "locked"
    /\ \/ /\ loader[l].call = "Load" /\ ~Stale(l)
          /\ UNCHANGED entry
          /\ Return(l, entry.value)
       \/ /\ loader[l].call = "Refresh" \/ Stale(l)
          /\ Store(l, version)
          /\ Return(l, version)

\* Mutant: the error path returns with the lock held.
LoadFailsLocked(l) ==
    /\ loader[l].stage = "locked"
    /\ loader[l].call = "Refresh" \/ Stale(l)
    /\ loader' = [loader EXCEPT ![l].stage = "done", ![l].got = 0]
    /\ UNCHANGED <<clock, version, entry, updateLock, poolVars>>

\* The source fails: Load keeps the old value for another period, Refresh and
\* a Load with nothing to keep return the error.
LoadFails(l) ==
    /\ loader[l].stage = "locked"
    /\ loader[l].call = "Refresh" \/ Stale(l)
    /\ IF loader[l].call = "Load" /\ entry.value # 0
       THEN entry' = [entry EXCEPT !.expiry = loader[l].now + Period] /\ Return(l, entry.value)
       ELSE UNCHANGED entry /\ Return(l, 0)

Finish(l) ==
    /\ loader[l].stage = "done"
    /\ loader' = [loader EXCEPT ![l] = [call |-> "Load", stage |-> "idle", now |-> 0, got |-> 0]]
    /\ UNCHANGED <<clock, version, entry, updateLock, poolVars>>

CacheStep(l) == Fast(l) \/ Lock(l) \/ Loaded(l) \/ LoadFails(l) \/ Finish(l)

-----------------------------------------------------------------------------
(* Pool                                                                    *)

\* The non-empty case of every Get.
Get(c) ==
    /\ has[c] \in {0, -1}
    /\ objects # <<>>
    /\ has' = [has EXCEPT ![c] = Head(objects)]
    /\ objects' = Tail(objects)
    /\ UNCHANGED <<created, cacheVars>>

\* Get, GetCancel and GetTimeout wait for an object.
Wait(c) ==
    /\ has[c] = 0
    /\ objects = <<>>
    /\ has' = [has EXCEPT ![c] = -1]
    /\ UNCHANGED <<objects, created, cacheVars>>

\* done or the timer ends the wait.  TryGet returns without one.
WaitEnds(c) ==
    /\ has[c] = -1
    /\ has' = [has EXCEPT ![c] = 0]
    /\ UNCHANGED <<objects, created, cacheVars>>

GetOrNew(c) ==
    /\ has[c] = 0
    /\ objects = <<>>
    /\ created < MaxObjects
    /\ created' = created + 1
    /\ has' = [has EXCEPT ![c] = created']
    /\ UNCHANGED <<objects, cacheVars>>

\* Mutant: the client goes on with the object it gave back.
PutKeeps(c) ==
    /\ has[c] > 0 /\ Len(objects) < MaxSize
    /\ objects' = Append(objects, has[c])
    /\ UNCHANGED <<has, created, cacheVars>>

\* An object that finds the pool full is dropped.
Put(c) ==
    /\ has[c] > 0
    /\ objects' = IF Len(objects) < MaxSize THEN Append(objects, has[c]) ELSE objects
    /\ has' = [has EXCEPT ![c] = 0]
    /\ UNCHANGED <<created, cacheVars>>

-----------------------------------------------------------------------------
CacheNext == Tick \/ SourceChanges \/ \E l \in Loaders : Start(l) \/ CacheStep(l)

PoolNext == \E c \in Clients : Get(c) \/ Wait(c) \/ WaitEnds(c) \/ GetOrNew(c) \/ Put(c)

Next == CacheNext \/ PoolNext

-----------------------------------------------------------------------------
\* The value in the cache is never replaced by an older one, and never lost:
\* the source is asked under the lock that orders the stores.
CacheNeverOlder == entry'.value >= entry.value

\* An object is in one place only: in the pool once, or with one client.
ObjectsConserved ==
    /\ \A c, d \in Clients : has[c] > 0 /\ has[c] = has[d] => c = d
    /\ \A c \in Clients : \A i \in DOMAIN objects : objects[i] # has[c]
    /\ \A i, j \in DOMAIN objects : objects[i] = objects[j] => i = j

\* l has asked for the value and has no answer yet.
Loading(l) == loader[l].stage # "idle"
=============================================================================
