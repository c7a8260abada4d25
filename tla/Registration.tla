---------------------------- MODULE Registration ----------------------------
(***************************************************************************)
(* Registration bound to service discovery: the registrar listener         *)
(* (service/monitor/listener.go) and the consul registrar with the         *)
(* goroutines that keep its TTL checks passing                             *)
(* (service/consul/registrar.go).                                          *)
(*                                                                         *)
(* Register and Deregister of the ttlRegistrar hold its lifecycleLock and  *)
(* are one step each.  A shutdown channel is named by the number of the    *)
(* registration that made it.                                              *)
(***************************************************************************)
EXTENDS Integers, FiniteSets

CONSTANTS
    Watches,             \* the monitor's goroutines, that share the listener
    Checks,              \* TTL checks
    InitiallyRegistered,
    MaxEvents            \* bound: discovery events

VARIABLES
    listener,   \* of each goroutine: "idle", "register", "deregister", "stop", "done"
    eventCount,
    state,      \* the listener's registered state
    shutdown,   \* ttlRegistrar.shutdown, 0 for nil
    made,       \* registrations made so far
    shut,       \* the shutdown channels that are closed
    updaters,   \* goroutines of updatePeriodically: check and shutdown channel
    consul,     \* the agent knows the service
    status,     \* what it was last told of each check
    stopped,    \* the monitor is stopped
    environment \* "open", "closing", "closed"

regVars == <<shutdown, made, shut, updaters, consul>>
endVars == <<stopped, environment>>
vars == <<listener, eventCount, state, regVars, status, endVars>>

TypeOK ==
    /\ listener \in [Watches -> {"idle", "register", "deregister", "stop", "done"}]
    /\ eventCount \in 0..MaxEvents
    /\ state \in BOOLEAN
    /\ shutdown \in 0..made
    /\ made \in Nat
    /\ shut \subseteq 1..made
    /\ updaters \subseteq [check : Checks, channel : 1..made]
    /\ consul \in BOOLEAN
    /\ status \in [Checks -> {"none", "pass", "fail"}]
    /\ stopped \in BOOLEAN
    /\ environment \in {"open", "closing", "closed"}

\* A listener that starts as registered is given a registrar that is.
Init ==
    /\ listener = [w \in Watches |-> "idle"]
    /\ eventCount = 0
    /\ state = InitiallyRegistered
    /\ made = IF InitiallyRegistered THEN 1 ELSE 0
    /\ shutdown = made
    /\ shut = {}
    /\ updaters = [check : Checks, channel : 1..made]
    /\ consul = InitiallyRegistered
    /\ status = [c \in Checks |-> "none"]
    /\ stopped = FALSE
    /\ environment = "open"

-----------------------------------------------------------------------------
(* The consul registrar.                                                   *)

\* The service is registered, then a goroutine per check is spawned.
Register ==
    IF shutdown # 0 THEN UNCHANGED regVars
    ELSE /\ made' = made + 1
         /\ shutdown' = made + 1
         /\ updaters' = updaters \cup [check : Checks, channel : {made + 1}]
         /\ consul' = TRUE
         /\ UNCHANGED shut

\* Mutant: the shutdown channel is forgotten without being closed.
DeregisterLeaks ==
    IF shutdown = 0 THEN UNCHANGED regVars
    ELSE shutdown' = 0 /\ consul' = FALSE /\ UNCHANGED <<made, shut, updaters>>

Deregister ==
    IF shutdown = 0 THEN UNCHANGED regVars
    ELSE /\ shut' = shut \cup {shutdown}
         /\ shutdown' = 0
         /\ consul' = FALSE
         /\ UNCHANGED <<made, updaters>>

\* Mutant: a timer in place of the ticker.
TTLPassOnce(u) ==
    /\ u \in updaters
    /\ status[u.check] = "none"
    /\ status' = [status EXCEPT ![u.check] = "pass"]
    /\ UNCHANGED <<listener, eventCount, state, regVars, endVars>>

\* updatePeriodically: at a tick the check passes, unless the update fails.
TTLPass(u) ==
    /\ u \in updaters
    /\ status' = [status EXCEPT ![u.check] = "pass"]
    /\ UNCHANGED <<listener, eventCount, state, regVars, endVars>>

\* Its channel is closed: the goroutine sets the check to fail and exits, also
\* when the service has been registered again meanwhile.
TTLFail(u) ==
    /\ u \in updaters
    /\ u.channel \in shut
    /\ updaters' = updaters \ {u}
    /\ status' = [status EXCEPT ![u.check] = "fail"]
    /\ UNCHANGED <<listener, eventCount, state, shutdown, made, shut, consul, endVars>>

-----------------------------------------------------------------------------
(* The registrar listener: it swaps its state, then calls the registrar.   *)

Updated(w) ==
    /\ listener[w] = "idle"
    /\ eventCount < MaxEvents
    /\ eventCount' = eventCount + 1
    /\ state' = TRUE
    /\ listener' = [listener EXCEPT ![w] = IF state THEN "idle" ELSE "register"]
    /\ UNCHANGED <<regVars, status, endVars>>

\* Mutant: an error leaves the state as it is.
ErrorEventKeepsState(w) ==
    /\ listener[w] = "idle"
    /\ eventCount < MaxEvents
    /\ eventCount' = eventCount + 1
    /\ listener' = [listener EXCEPT ![w] = IF state THEN "deregister" ELSE "idle"]
    /\ UNCHANGED <<state, regVars, status, endVars>>

ErrorEvent(w) ==
    /\ listener[w] = "idle"
    /\ eventCount < MaxEvents
    /\ eventCount' = eventCount + 1
    /\ state' = FALSE
    /\ listener' = [listener EXCEPT ![w] = IF state THEN "deregister" ELSE "idle"]
    /\ UNCHANGED <<regVars, status, endVars>>

\* Mutant: the listener ignores that the monitor has been stopped.
StoppedIgnored(w) ==
    /\ listener[w] = "idle"
    /\ stopped \/ environment = "closed"
    /\ listener' = [listener EXCEPT ![w] = "done"]
    /\ UNCHANGED <<state, eventCount, regVars, status, endVars>>

\* The event of a stopped monitor deregisters like an error; it is the last.
StoppedEvent(w) ==
    /\ listener[w] = "idle"
    /\ stopped \/ environment = "closed"
    /\ state' = FALSE
    /\ listener' = [listener EXCEPT ![w] = IF state THEN "stop" ELSE "done"]
    /\ UNCHANGED <<eventCount, regVars, status, endVars>>

CallRegister(w) ==
    /\ listener[w] = "register"
    /\ Register
    /\ listener' = [listener EXCEPT ![w] = "idle"]
    /\ UNCHANGED <<eventCount, state, status, endVars>>

CallDeregister(w) ==
    /\ listener[w] \in {"deregister", "stop"}
    /\ Deregister
    /\ listener' = [listener EXCEPT ![w] = IF @ = "stop" THEN "done" ELSE "idle"]
    /\ UNCHANGED <<eventCount, state, status, endVars>>

Stop ==
    /\ ~stopped
    /\ stopped' = TRUE
    /\ UNCHANGED <<listener, eventCount, state, regVars, status, environment>>

\* environment.Close deregisters without asking the listener, and closes the
\* channel that stops the monitor only after that.
Close ==
    /\ environment = "open"
    /\ environment' = "closing"
    /\ Deregister
    /\ UNCHANGED <<listener, eventCount, state, status, stopped>>

CloseEnds ==
    /\ environment = "closing"
    /\ environment' = "closed"
    /\ UNCHANGED <<listener, eventCount, state, regVars, status, stopped>>

-----------------------------------------------------------------------------
ListenerStep(w) == CallRegister(w) \/ CallDeregister(w) \/ StoppedEvent(w)

\* The goroutines Go could have spawned: one per check and registration.
Updaters == [check : Checks, channel : 1..MaxEvents + 1]

Next ==
    \/ \E w \in Watches : Updated(w) \/ ErrorEvent(w) \/ ListenerStep(w)
    \/ \E u \in Updaters : TTLPass(u) \/ TTLFail(u)
    \/ Stop \/ Close \/ CloseEnds

\* Goroutines run, tickers tick, and a stopped monitor tells its listeners.
Fairness ==
    /\ \A w \in Watches : WF_vars(ListenerStep(w))
    /\ \A u \in Updaters : WF_vars(TTLPass(u)) /\ WF_vars(TTLFail(u))
    /\ WF_vars(CloseEnds)

FairSpec == Init /\ [][Next]_vars /\ Fairness

-----------------------------------------------------------------------------
(* Properties.                                                             *)

\* While the service is registered each check has exactly one goroutine that
\* nobody has told to stop, and no check has one when it is not.
OneUpdater ==
    \A c \in Checks :
        Cardinality({u \in updaters : u.check = c /\ u.channel \notin shut}) = IF consul THEN 1 ELSE 0

\* A service that stays registered passes its checks again and again: the
\* late "fail" of an earlier registration does not last.
PassesAgain == \A c \in Checks : <>[]consul => []<>(status[c] = "pass")

\* After Close the service ends up deregistered, although a late event may
\* register it once more.
CloseDeregisters == environment = "closing" ~> [](~consul)

\* service/monitor/listener.go:148: with no event in progress the service is
\* registered exactly when the last event that counted was an update.
RegistrationFollows ==
    (\A w \in Watches : listener[w] = "idle") /\ environment = "open" => (consul <=> state)
=============================================================================
