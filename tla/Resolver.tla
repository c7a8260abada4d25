------------------------------ MODULE Resolver ------------------------------
(***************************************************************************)
(* Dialing through discovered routes (xresolver/types.go, xresolver.go,    *)
(* xresolver/consul/consullistener.go).  A RoundRobin keeps the routes of  *)
(* a service with an index each; Get returns them in the order of their    *)
(* indices and, in a second critical section, moves every index down one.  *)
(* Add and Remove check under the read lock and write under the write      *)
(* lock; Update, which the ConsulWatcher calls with every discovery event, *)
(* replaces everything at once.  DialContext asks the lookup for routes    *)
(* and tries them in turn, then the address it was given.                  *)
(***************************************************************************)
EXTENDS Integers, Sequences, FiniteSets, SequencesExt, Functions

CONSTANTS
    Schemes, Ports,   \* what a route is made of, as far as dialing reads it
    Dialers,          \* goroutines that call DialContext
    MaxChanges        \* bound: calls of Add, Remove and Update

VARIABLES
    index,        \* route in the rotation -> its index
    watched,      \* whether the host is watched, so that a lookup finds it
    resolvers,    \* whether the lookup is among the resolver's lookups
    admin,        \* the goroutine between the check and the write of Add or Remove
    dialer,       \* dialer -> where it stands in DialContext
    records,      \* dialer -> the routes its lookup returned
    connected,    \* dialer -> the route or address it is connected to
    changes,      \* calls made so far
    stale         \* ghost: a check of Add or Remove was outdated when it wrote

vars == <<index, watched, resolvers, admin, dialer, records, connected, changes, stale>>

Routes == [scheme : Schemes, port : Ports]
Rotation == DOMAIN index
Idle == [op |-> "none"]

TypeOK == /\ Rotation \subseteq Routes /\ index \in [Rotation -> Int]
          /\ watched \in BOOLEAN /\ resolvers \in BOOLEAN /\ stale \in BOOLEAN
          /\ dialer \in [Dialers -> {"idle", "rotate", "dial", "default", "done"}]
          /\ \A d \in Dialers : records[d] \in BoundedSeq(Routes, Cardinality(Routes))
          /\ changes \in 0..MaxChanges

Init == /\ index = [r \in {} |-> 0]
        /\ watched = FALSE /\ resolvers = TRUE /\ stale = FALSE
        /\ admin = Idle /\ changes = 0
        /\ dialer = [d \in Dialers |-> "idle"]
        /\ records = [d \in Dialers |-> <<>>]
        /\ connected = [d \in Dialers |-> {}]

------------------------------------------------------------------------------
(* The rotation.                                                           *)

\* Add and Remove return an error when the check says so.
Check(op, r) ==
    /\ admin = Idle /\ changes < MaxChanges
    /\ changes' = changes + 1
    /\ admin' = IF (op = "add") = (r \in Rotation) THEN Idle ELSE [op |-> op, route |-> r]
    /\ UNCHANGED <<index, watched, resolvers, dialer, records, connected, stale>>

\* The new route takes the index after the last one.
AddRoute ==
    /\ admin.op = "add"
    /\ index' = [r \in Rotation \cup {admin.route} |->
                    IF r = admin.route THEN Cardinality(Rotation) ELSE index[r]]
    /\ stale' = (stale \/ admin.route \in Rotation)
    /\ admin' = Idle
    /\ UNCHANGED <<watched, resolvers, dialer, records, connected, changes>>

\* The routes behind the deleted one move up.  When an Update took the route
\* away in between, the deleted entry is nil and the code panics unless
\* nothing is left; the model leaves the indices alone.
RemoveLeavesGap ==
    /\ admin.op = "remove"
    /\ index' = Restrict(index, Rotation \ {admin.route})
    /\ stale' = (stale \/ admin.route \notin Rotation)
    /\ admin' = Idle
    /\ UNCHANGED <<watched, resolvers, dialer, records, connected, changes>>

RemoveRoute ==
    /\ admin.op = "remove"
    /\ index' = [r \in Rotation \ {admin.route} |->
                    IF admin.route \in Rotation /\ index[r] >= index[admin.route]
                    THEN index[r] - 1 ELSE index[r]]
    /\ stale' = (stale \/ admin.route \notin Rotation)
    /\ admin' = Idle
    /\ UNCHANGED <<watched, resolvers, dialer, records, connected, changes>>

\* MonitorEvent: an event for a watched service replaces the routes; routes is
\* the event's instances without those that are no valid route or a duplicate.
Update(routes) ==
    /\ watched /\ changes < MaxChanges
    /\ changes' = changes + 1
    /\ index' = [r \in ToSet(routes) |->
                    CHOOSE i \in 0..Len(routes) - 1 : routes[i + 1] = r]
    /\ UNCHANGED <<watched, resolvers, admin, dialer, records, connected, stale>>

\* WatchService: the first call makes a balancer for the service.
WatchService ==
    /\ ~watched
    /\ watched' = TRUE
    /\ UNCHANGED <<index, resolvers, admin, dialer, records, connected, changes, stale>>

\* The resolver's own Add and Remove of a lookup.
SetLookup ==
    /\ changes < MaxChanges
    /\ changes' = changes + 1
    /\ resolvers' = ~resolvers
    /\ UNCHANGED <<index, watched, admin, dialer, records, connected, stale>>

------------------------------------------------------------------------------
(* Dialing.                                                                *)

\* The routes in index order; undefined (the code panics) when an index is
\* outside the slice.
InOrder == [i \in 1..Cardinality(Rotation) |->
               CHOOSE r \in Rotation : index[r] = i - 1]
Whole == {index[r] : r \in Rotation} = 0..Cardinality(Rotation) - 1

\* getRoutes and the first half of Get, under the read lock.
Lookup(d) ==
    /\ dialer[d] = "idle" /\ Whole
    /\ records' = [records EXCEPT ![d] = IF resolvers /\ watched THEN InOrder ELSE <<>>]
    /\ dialer' = [dialer EXCEPT ![d] =
                     IF resolvers /\ watched THEN "rotate" ELSE "default"]
    /\ UNCHANGED <<index, watched, resolvers, admin, connected, changes, stale>>

\* The deferred second half, under the write lock.
Rotated == [r \in Rotation |->
               IF index[r] = 0 THEN Cardinality(Rotation) - 1 ELSE index[r] - 1]
Rotate(d) ==
    /\ dialer[d] = "rotate"
    /\ index' = Rotated
    /\ dialer' = [dialer EXCEPT ![d] = "dial"]
    /\ UNCHANGED <<watched, resolvers, admin, records, connected, changes, stale>>

\* createConnection: the route's own port, or the scheme's; a route with
\* neither is passed over, and so is one that cannot be dialed.
Dialable(r) == r.port # 0 \/ r.scheme \in {"http", "https"}
TryRoute(d) ==
    /\ dialer[d] = "dial" /\ records[d] # <<>>
    /\ \/ /\ Dialable(Head(records[d]))
          /\ connected' = [connected EXCEPT ![d] = {Head(records[d])}]
          /\ dialer' = [dialer EXCEPT ![d] = "done"]
          /\ UNCHANGED records
       \/ /\ records' = [records EXCEPT ![d] = Tail(@)]
          /\ UNCHANGED <<connected, dialer>>
    /\ UNCHANGED <<index, watched, resolvers, admin, changes, stale>>

\* No route answered: the original address, with the default dialer.
DialOriginal(d) ==
    /\ \/ dialer[d] = "default"
       \/ dialer[d] = "dial" /\ records[d] = <<>>
    /\ dialer' = [dialer EXCEPT ![d] = "done"]
    /\ UNCHANGED <<index, watched, resolvers, admin, records, connected, changes, stale>>

DialStep(d) == Lookup(d) \/ Rotate(d) \/ TryRoute(d) \/ DialOriginal(d)

Next == \/ \E op \in {"add", "remove"}, r \in Routes : Check(op, r)
        \/ AddRoute \/ RemoveRoute \/ WatchService \/ SetLookup
        \/ \E routes \in BoundedSeq(Routes, 2) : IsInjective(routes) /\ Update(routes)
        \/ \E d \in Dialers : DialStep(d)

Spec == Init /\ [][Next]_vars

------------------------------------------------------------------------------
\* The indices are the positions 0 .. n-1, each once, whatever lookups,
\* rotations and updates interleave: Get writes every route to the slot of
\* its index, so an index outside the slice panics and a missing one leaves an
\* empty route.  An Add or Remove whose check was overtaken breaks it, so the
\* claim is made as long as none was.
RotationWhole == ~stale => Whole
==============================================================================
