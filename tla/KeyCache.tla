------------------------------ MODULE KeyCache ------------------------------
(***************************************************************************)
(* The key caches of secure/key/cache.go over a resolver that reads and    *)
(* parses a resource (resolver.go, parser.go), and the updater that        *)
(* refreshes them.  With the one key id of a template without parameters   *)
(* the cache is a singleCache, otherwise a multiCache.  A resource goes    *)
(* through versions, and reading or parsing it may fail.                   *)
(***************************************************************************)
EXTENDS Integers, Functions

CONSTANTS
    Resolvers,    \* goroutines that call ResolveKey
    KeyIds,       \* the key ids they ask for
    MaxRotation,  \* bound: versions of a key's resource
    MaxUpdates    \* bound: ticks of the updater

VARIABLES
    rotation,     \* of each key id: the version at the source
    pairs,        \* the cached map: key id -> version
    keyLock,      \* holder of updateLock, or "free"
    resolver,     \* of each resolver: its stage and key id
    updater,      \* the updater: its stage
    existing,     \* the map it read before the lock
    fresh,        \* the map it builds
    newCount,     \* keys of it that were resolved anew
    updates,      \* updates done
    keysShutdown  \* the shutdown channel is closed

updaterVars == <<updater, existing, fresh, newCount, updates>>
vars == <<rotation, pairs, keyLock, resolver, updaterVars, keysShutdown>>

Single == \A k, l \in KeyIds : k = l
NoPairs == [k \in {} |-> 0]
PairMaps == UNION {[K -> 1..MaxRotation] : K \in SUBSET KeyIds}

TypeOK ==
    /\ rotation \in [KeyIds -> 1..MaxRotation]
    /\ pairs \in PairMaps /\ existing \in PairMaps /\ fresh \in PairMaps
    /\ keyLock \in Resolvers \cup {"free", "updater"}
    /\ resolver \in [Resolvers -> [stage : {"idle", "lock", "locked"}, key : KeyIds]]
    /\ updater \in {"select", "lock", "locked", "gone"}
    /\ newCount \in Nat
    /\ updates \in 0..MaxUpdates
    /\ keysShutdown \in BOOLEAN

Init ==
    /\ rotation = [k \in KeyIds |-> 1]
    /\ pairs = NoPairs
    /\ keyLock = "free"
    /\ resolver = [r \in Resolvers |-> [stage |-> "idle", key |-> CHOOSE k \in KeyIds : TRUE]]
    /\ updater = "select"
    /\ existing = NoPairs
    /\ fresh = NoPairs
    /\ newCount = 0
    /\ updates = 0
    /\ keysShutdown = FALSE

Put(map, k, v) == [j \in DOMAIN map \cup {k} |-> IF j = k THEN v ELSE map[j]]

\* The key's resource is replaced.
Rotate(k) ==
    /\ rotation[k] < MaxRotation
    /\ rotation' = [rotation EXCEPT ![k] = @ + 1]
    /\ UNCHANGED <<pairs, keyLock, resolver, updaterVars, keysShutdown>>

-----------------------------------------------------------------------------
(* ResolveKey                                                              *)

\* A hit needs no lock and changes nothing; a miss goes for the lock.
Miss(r, k) ==
    /\ resolver[r].stage = "idle"
    /\ k \notin DOMAIN pairs
    /\ resolver' = [resolver EXCEPT ![r] = [stage |-> "lock", key |-> k]]
    /\ UNCHANGED <<rotation, pairs, keyLock, updaterVars, keysShutdown>>

LockKey(r) ==
    /\ resolver[r].stage = "lock"
    /\ keyLock = "free"
    /\ keyLock' = r
    /\ resolver' = [resolver EXCEPT ![r].stage = "locked"]
    /\ UNCHANGED <<rotation, pairs, updaterVars, keysShutdown>>

\* It looks again, resolves and stores a copy of the map with the key; a
\* failure stores nothing.
Resolve(r) ==
    /\ resolver[r].stage = "locked"
    /\ LET k == resolver[r].key
       IN  \/ UNCHANGED pairs
           \/ k \notin DOMAIN pairs /\ pairs' = Put(pairs, k, rotation[k])
    /\ keyLock' = "free"
    /\ resolver' = [resolver EXCEPT ![r].stage = "idle"]
    /\ UNCHANGED <<rotation, updaterVars, keysShutdown>>

-----------------------------------------------------------------------------
(* UpdateKeys, from the goroutine of NewUpdater                            *)

\* A multiCache reads its map here, before the lock, and has nothing to do
\* without one.
Ticked ==
    /\ updater = "select"
    /\ updates < MaxUpdates
    /\ updates' = updates + 1
    /\ existing' = pairs
    /\ fresh' = NoPairs
    /\ newCount' = 0
    /\ updater' = IF Single \/ DOMAIN pairs # {} THEN "lock" ELSE "select"
    /\ UNCHANGED <<rotation, pairs, keyLock, resolver, keysShutdown>>

LockUpdate ==
    /\ updater = "lock"
    /\ keyLock = "free"
    /\ keyLock' = "updater"
    /\ updater' = "locked"
    /\ UNCHANGED <<rotation, pairs, resolver, existing, fresh, newCount, updates, keysShutdown>>

ToRefresh == (IF Single THEN KeyIds ELSE DOMAIN existing) \ DOMAIN fresh

\* One key: resolved, or kept as it was.  A singleCache that fails keeps what
\* it has, which is nothing before the first success.
RefreshKey(k) ==
    /\ updater = "locked"
    /\ k \in ToRefresh
    /\ \/ fresh' = Put(fresh, k, rotation[k]) /\ newCount' = newCount + 1
       \/ k \in DOMAIN existing /\ fresh' = Put(fresh, k, existing[k]) /\ UNCHANGED newCount
    /\ UNCHANGED <<rotation, pairs, keyLock, resolver, updater, existing, updates, keysShutdown>>

\* Mutant: the keys that could not be refreshed are taken from the versions of
\* an earlier rotation.
StoreOlder ==
    /\ updater = "locked"
    /\ ToRefresh = {}
    /\ pairs' = [k \in DOMAIN fresh |-> 1]
    /\ keyLock' = "free"
    /\ updater' = "select"
    /\ existing' = NoPairs /\ fresh' = NoPairs /\ newCount' = 0
    /\ UNCHANGED <<rotation, resolver, updates, keysShutdown>>

\* If a key was resolved, the new map replaces the current one, whatever that
\* holds by now.
StoreKeys ==
    /\ updater = "locked"
    /\ ToRefresh = {} \/ Single
    /\ pairs' = IF newCount > 0 THEN fresh ELSE pairs
    /\ keyLock' = "free"
    /\ updater' = "select"
    /\ existing' = NoPairs /\ fresh' = NoPairs /\ newCount' = 0
    /\ UNCHANGED <<rotation, resolver, updates, keysShutdown>>

CloseShutdown ==
    /\ ~keysShutdown
    /\ keysShutdown' = TRUE
    /\ UNCHANGED <<rotation, pairs, keyLock, resolver, updaterVars>>

UpdaterEnds ==
    /\ updater = "select"
    /\ keysShutdown
    /\ updater' = "gone"
    /\ UNCHANGED <<rotation, pairs, keyLock, resolver, existing, fresh, newCount, updates, keysShutdown>>

-----------------------------------------------------------------------------
ResolveStep(r) == LockKey(r) \/ Resolve(r)
UpdateStep == LockUpdate \/ (\E k \in KeyIds : RefreshKey(k)) \/ StoreKeys \/ UpdaterEnds

Next ==
    \/ \E k \in KeyIds : Rotate(k)
    \/ \E r \in Resolvers : ResolveStep(r) \/ \E k \in KeyIds : Miss(r, k)
    \/ Ticked \/ UpdateStep \/ CloseShutdown

-----------------------------------------------------------------------------
\* A key in the cache is never replaced by an older version of itself.
KeysNeverOlder == \A k \in DOMAIN pairs \cap DOMAIN pairs' : pairs'[k] >= pairs[k]

\* ResolveKey has not returned; the updater is there after the shutdown.
Resolving(r) == resolver[r].stage # "idle"
UpdaterLeft == keysShutdown /\ updater # "gone"
=============================================================================
