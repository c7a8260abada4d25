------------------------------ MODULE Routing -------------------------------
(***************************************************************************)
(* The layered accessor (service/accessor.go): a primary accessor behind a *)
(* gate (service/gateaccessor.go, xhttp/gate), and one failover accessor   *)
(* per datacenter, each instance subject to a traffic router.  Get holds   *)
(* the accessor's read lock; the gate and the router change under it.      *)
(* The redirect handler of service/servicehttp uses what Get returns.      *)
(***************************************************************************)
EXTENDS Integers, FiniteSets

CONSTANTS
    Instances, Datacenters,
    Levers,         \* requests to the gate's lever
    MaxUpdates      \* bound: updates of the accessors and of the router

VARIABLES
    gateOpen, gauge,   \* the gate and the gauge that shows it
    lever,             \* of each lever request: the status it answered, 0 before
    primary,           \* la.err and la.primary
    failover,          \* la.failover
    refused,           \* instances the router refuses
    getter,            \* the call of Get
    updated

vars == <<gateOpen, gauge, lever, primary, failover, refused, getter, updated>>

None == "none"
Empty == "empty"       \* an accessor without instances
Accessors == Instances \cup {Empty}

Idle == [stage |-> "idle", instance |-> None, errs |-> FALSE, left |-> {}, routed |-> FALSE,
         own |-> None]
Stages == {"idle", "failover", "failoverThenRoute", "route", "lastFailover", "done"}

TypeOK ==
    /\ gateOpen \in BOOLEAN /\ gauge \in 0..1
    /\ lever \in [Levers -> {0, 200, 201, 400}]
    /\ primary \in [err : BOOLEAN, accessor : Accessors \cup {None}]
    /\ failover \in [Datacenters -> Accessors \cup {None, "error"}]
    /\ refused \subseteq Instances
    /\ getter \in [stage : Stages, instance : Instances \cup {None}, errs : BOOLEAN,
                   left : SUBSET Datacenters, routed : BOOLEAN,
                   own : Accessors \cup {None}]
    /\ updated \in 0..MaxUpdates

Init ==
    /\ gateOpen = TRUE /\ gauge = 1
    /\ lever = [l \in Levers |-> 0]
    /\ primary = [err |-> FALSE, accessor |-> None]
    /\ failover = [d \in Datacenters |-> None]
    /\ refused = {}
    /\ getter = Idle
    /\ updated = 0

-----------------------------------------------------------------------------
(* The gate and its lever                                                  *)

\* Mutant: lowering a closed gate is reported as a change.
PullLeverAgain(l, up) ==
    /\ lever[l] = 0
    /\ lever' = [lever EXCEPT ![l] = IF gateOpen /\ up THEN 200 ELSE 201]
    /\ gateOpen' = up
    /\ gauge' = IF up THEN 1 ELSE 0
    /\ UNCHANGED <<primary, failover, refused, getter, updated>>

\* Raise or Lower: nothing changes, the gauge and the time included, when the
\* gate is that way already.
PullLever(l, up) ==
    /\ lever[l] = 0
    /\ lever' = [lever EXCEPT ![l] = IF gateOpen = up THEN 200 ELSE 201]
    /\ gateOpen' = up
    /\ gauge' = IF gateOpen = up THEN gauge ELSE IF up THEN 1 ELSE 0
    /\ UNCHANGED <<primary, failover, refused, getter, updated>>

\* No parameter, or one that is not a bool
BadLever(l) ==
    /\ lever[l] = 0
    /\ lever' = [lever EXCEPT ![l] = 400]
    /\ UNCHANGED <<gateOpen, gauge, primary, failover, refused, getter, updated>>

-----------------------------------------------------------------------------
(* Updates, under the write lock                                           *)

Unlocked == getter.stage \in {"idle", "done"}
Counted == updated < MaxUpdates /\ updated' = updated + 1

\* UpdatePrimary; SetPrimary and SetError are two of its cases
UpdatePrimary ==
    /\ Unlocked /\ Counted
    /\ \E p \in {[err |-> FALSE, accessor |-> a] : a \in Accessors}
                \cup {[err |-> TRUE, accessor |-> None]} : primary' = p
    /\ UNCHANGED <<gateOpen, gauge, lever, failover, refused, getter>>

UpdateFailOver(d) ==
    /\ Unlocked /\ Counted
    /\ \E a \in Accessors \cup {"error"} : failover' = [failover EXCEPT ![d] = a]
    /\ UNCHANGED <<gateOpen, gauge, lever, primary, refused, getter>>

\* The application's router changes its mind.
RouterChanges ==
    /\ Counted
    /\ refused' \in SUBSET Instances
    /\ UNCHANGED <<gateOpen, gauge, lever, primary, failover, getter>>

-----------------------------------------------------------------------------
(* Get                                                                     *)

FailOvers == {d \in Datacenters : failover[d] # None}

\* The primary is a gate around the consistent hash.
PrimaryFails == ~gateOpen \/ primary.accessor = Empty

Get ==
    /\ getter.stage = "idle"
    /\ getter' =
         IF primary.err
         THEN [Idle EXCEPT !.stage = "failover", !.errs = TRUE, !.left = FailOvers]
         ELSE IF primary.accessor = None
         THEN IF FailOvers = {} THEN [Idle EXCEPT !.stage = "done", !.errs = TRUE]
              ELSE [Idle EXCEPT !.stage = "failover", !.left = FailOvers]
         ELSE IF PrimaryFails
         THEN [Idle EXCEPT !.stage = "failoverThenRoute", !.errs = TRUE, !.left = FailOvers]
         ELSE [Idle EXCEPT !.stage = "route", !.instance = primary.accessor,
                            !.own = primary.accessor]
    /\ UNCHANGED <<gateOpen, gauge, lever, primary, failover, refused, updated>>

\* What comes after a failover loop: the end, or the router
After == IF getter.stage = "failoverThenRoute" THEN "route" ELSE "done"
FailingOver == getter.stage \in {"failover", "failoverThenRoute", "lastFailover"}

\* getFailOverInstance, one datacenter: an entry with an error is passed over;
\* an instance the router takes ends the loop; so does an accessor that has
\* none, with an error, since the router takes no instance as well as any.
TryFailOver(d) ==
    /\ FailingOver /\ d \in getter.left
    /\ LET a == failover[d]
       IN  getter' = IF a = "error" \/ a \in refused
                     THEN [getter EXCEPT !.left = @ \ {d}]
                     ELSE IF a = Empty
                     THEN [getter EXCEPT !.stage = After, !.errs = TRUE, !.left = @ \ {d},
                                         !.instance = IF getter.stage = "lastFailover" THEN @ ELSE None]
                     ELSE [getter EXCEPT !.stage = After, !.left = @ \ {d}, !.instance = a,
                                         !.routed = TRUE]
    /\ UNCHANGED <<gateOpen, gauge, lever, primary, failover, refused, updated>>

FailOversFail ==
    /\ FailingOver /\ getter.left = {}
    /\ getter' = [getter EXCEPT !.stage = After, !.errs = TRUE]
    /\ UNCHANGED <<gateOpen, gauge, lever, primary, failover, refused, updated>>

\* Mutant: the router's refusal is overlooked.
RouteInstanceAnyway ==
    /\ getter.stage = "route"
    /\ getter' = [getter EXCEPT !.stage = "done", !.routed = getter.instance \notin refused \cup {None}]
    /\ UNCHANGED <<gateOpen, gauge, lever, primary, failover, refused, updated>>

\* The router is asked about the instance found; when it refuses, one of the
\* failovers may replace it.
RouteInstance ==
    /\ getter.stage = "route"
    /\ getter' = IF getter.instance \in refused
                 THEN [getter EXCEPT !.stage = "lastFailover", !.errs = TRUE,
                                     !.left = FailOvers]
                 ELSE [getter EXCEPT !.stage = "done", !.routed = getter.instance # None]
    /\ UNCHANGED <<gateOpen, gauge, lever, primary, failover, refused, updated>>

\* The handler redirects to the instance, with or without an error, or answers
\* 500 when there is none.
Redirect ==
    /\ getter.stage = "done"
    /\ getter' = Idle
    /\ UNCHANGED <<gateOpen, gauge, lever, primary, failover, refused, updated>>

-----------------------------------------------------------------------------
GetStep == Get \/ (\E d \in Datacenters : TryFailOver(d)) \/ FailOversFail \/ RouteInstance \/ Redirect

Next ==
    \/ GetStep
    \/ UpdatePrimary \/ RouterChanges
    \/ \E d \in Datacenters : UpdateFailOver(d)
    \/ \E l \in Levers : BadLever(l) \/ \E up \in BOOLEAN : PullLever(l, up)

-----------------------------------------------------------------------------
Changes == Cardinality({l \in Levers : lever[l] = 201})

\* A lever answers 201 exactly when it moved the gate: the answers tell how
\* the gate stands, and so does the gauge.
LeverTells == /\ gateOpen = (Changes % 2 = 0)
              /\ gauge = IF gateOpen THEN 1 ELSE 0

\* Without an error, Get returns an instance the router took when it was
\* asked; the redirect goes to such an instance or, as a last resort, to the
\* primary's own.
RouteHonest == getter.stage = "done" =>
    /\ ~getter.errs => getter.instance # None /\ getter.routed
    /\ getter.instance # None /\ ~getter.routed => getter.instance = getter.own
=============================================================================
