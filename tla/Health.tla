------------------------------- MODULE Health -------------------------------
(***************************************************************************)
(* The health monitor (health/health.go, stat.go, responseWriter.go): the  *)
(* requests it tracks, the statistics they change under the lock, and the  *)
(* goroutine that hands a copy of them to the listeners.  Of the three     *)
(* pairs of memory statistics, which are treated alike, there is one.      *)
(***************************************************************************)
EXTENDS Integers, FiniteSets

CONSTANTS
    Requests,     \* requests the tracker wraps
    Listeners,    \* stats listeners
    MaxMemory     \* bound: memory readings

VARIABLES
    stats,        \* the statistics
    request,      \* of each request: where it is, or how its handler ended
    added,        \* statsListeners, in the order of AddStatsListener: a set suffices
    monitor,      \* the goroutine of Run: where it is
    toNotify,     \* listeners it still has to call
    heard,        \* listeners that have been called
    report,       \* the last copy of the statistics that left the monitor
    healthShutdown

vars == <<stats, request, added, monitor, toNotify, heard, report, healthShutdown>>

NewStats == [received |-> 0, serviced |-> 0, denied |-> 0, memory |-> 0, max |-> 0]
Endings == {"ok", "refused", "panicked"}

TypeOK ==
    /\ stats \in [received : Nat, serviced : Nat, denied : Nat,
                  memory : 0..MaxMemory, max : 0..MaxMemory]
    /\ request \in [Requests -> {"new", "handler", "done"} \cup Endings]
    /\ added \subseteq Listeners /\ toNotify \subseteq Listeners /\ heard \subseteq Listeners
    /\ monitor \in {"new", "select", "dispatch", "notify", "gone"}
    /\ healthShutdown \in BOOLEAN

Init ==
    /\ stats = NewStats
    /\ request = [r \in Requests |-> "new"]
    /\ added = {} /\ toNotify = {} /\ heard = {}
    /\ monitor = "new"
    /\ report = NewStats
    /\ healthShutdown = FALSE

loop == <<added, monitor, toNotify, heard, report, healthShutdown>>

-----------------------------------------------------------------------------
(* RequestTracker                                                          *)

Received(r) ==
    /\ request[r] = "new"
    /\ stats' = [stats EXCEPT !.received = @ + 1]
    /\ request' = [request EXCEPT ![r] = "handler"]
    /\ UNCHANGED loop

\* The delegate writes a status below 400 or none, one of 400 and above, or panics.
Handled(r) ==
    /\ request[r] = "handler"
    /\ \E e \in Endings : request' = [request EXCEPT ![r] = e]
    /\ UNCHANGED <<stats, loop>>

\* Mutant: a panic is counted in the deferred function and again as a status.
CountedTwice(r) ==
    /\ request[r] \in Endings
    /\ stats' = [stats EXCEPT
           !.denied = IF request[r] = "ok" THEN @ ELSE @ + 1,
           !.serviced = IF request[r] = "refused" THEN @ ELSE @ + 1]
    /\ request' = [request EXCEPT ![r] = "done"]
    /\ UNCHANGED loop

\* The deferred function.
Counted(r) ==
    /\ request[r] \in Endings
    /\ stats' = IF request[r] = "ok" THEN [stats EXCEPT !.serviced = @ + 1]
                                     ELSE [stats EXCEPT !.denied = @ + 1]
    /\ request' = [request EXCEPT ![r] = "done"]
    /\ UNCHANGED loop

-----------------------------------------------------------------------------
AddStatsListener(l) ==
    /\ l \notin added
    /\ added' = added \cup {l}
    /\ UNCHANGED <<stats, request, monitor, toNotify, heard, report, healthShutdown>>

\* UpdateMemory with the reading m.
UpdateMemory(m) == [stats EXCEPT !.memory = m, !.max = IF m > @ THEN m ELSE @]

\* ServeHTTP updates the memory statistics and answers with all of them.
ServeHTTP(m) ==
    /\ stats' = UpdateMemory(m)
    /\ report' = stats'
    /\ UNCHANGED <<request, added, monitor, toNotify, heard, healthShutdown>>

-----------------------------------------------------------------------------
(* Run: later calls find the Once used                                     *)

Run ==
    /\ monitor = "new"
    /\ monitor' = "select"
    /\ UNCHANGED <<stats, request, added, toNotify, heard, report, healthShutdown>>

\* Under the lock; the listeners are ranged over after it is released.
HealthTick(m) ==
    /\ monitor = "select"
    /\ stats' = UpdateMemory(m)
    /\ report' = stats'
    /\ monitor' = "dispatch"
    /\ UNCHANGED <<request, added, toNotify, heard, healthShutdown>>

\* The range reads the slice of listeners once.
RangeListeners ==
    /\ monitor = "dispatch"
    /\ IF added = {} THEN monitor' = "select" /\ UNCHANGED toNotify
                     ELSE monitor' = "notify" /\ toNotify' = added
    /\ UNCHANGED <<stats, request, added, heard, report, healthShutdown>>

OnStats(l) ==
    /\ monitor = "notify" /\ l \in toNotify
    /\ heard' = heard \cup {l}
    /\ toNotify' = toNotify \ {l}
    /\ monitor' = IF toNotify' = {} THEN "select" ELSE "notify"
    /\ UNCHANGED <<stats, request, added, report, healthShutdown>>

CloseShutdown ==
    /\ ~healthShutdown
    /\ healthShutdown' = TRUE
    /\ UNCHANGED <<stats, request, added, monitor, toNotify, heard, report>>

MonitorEnds ==
    /\ monitor = "select" /\ healthShutdown
    /\ monitor' = "gone"
    /\ UNCHANGED <<stats, request, added, toNotify, heard, report, healthShutdown>>

-----------------------------------------------------------------------------
LoopStep ==
    \/ (\E m \in 1..MaxMemory : HealthTick(m))
    \/ RangeListeners \/ MonitorEnds
    \/ \E l \in Listeners : OnStats(l)

Next ==
    \/ \E r \in Requests : Received(r) \/ Handled(r) \/ Counted(r)
    \/ \E l \in Listeners : AddStatsListener(l)
    \/ \E m \in 1..MaxMemory : ServeHTTP(m)
    \/ Run \/ LoopStep \/ CloseShutdown

-----------------------------------------------------------------------------
\* Every request is counted once, as serviced or as denied, also when its
\* handler panics; no report shows more outcomes than requests, or a memory
\* reading above the maximum.
StatsBalance ==
    /\ stats.received = stats.serviced + stats.denied
           + Cardinality({r \in Requests : request[r] \in {"handler"} \cup Endings})
    /\ report.serviced + report.denied <= report.received /\ report.memory <= report.max

\* A listener was added to a monitor that runs and has heard nothing yet.
Unheard(l) == l \in added /\ monitor # "new" /\ l \notin heard /\ ~healthShutdown
=============================================================================
