----------------------------- MODULE Discovery -----------------------------
(***************************************************************************)
(* From consul to the listeners: an instancer per watch                    *)
(* (service/consul/instancer.go), the monitor's goroutine per instancer    *)
(* (service/monitor/monitor.go) and, as its listener, an accessor          *)
(* (service/monitor/listener.go, service/accessor.go).                     *)
(*                                                                         *)
(* The instancer's registerLock is held from update to the last of its     *)
(* sends, that is while loop[w] = "send".  Consul answers a query sooner   *)
(* or later, also when nothing changed, so the wait index is left out.     *)
(***************************************************************************)
EXTENDS Integers, Sequences

CONSTANTS
    Watches,     \* keys of the environment's instancers
    Snapshots,   \* sets of instances consul may report
    Normal,      \* NormalizeInstance, a function on instances
    Invalid,     \* what it makes of an instance it refuses
    ChanSize,    \* size of a monitor's event channel
    MaxChanges,  \* bound: changes in consul
    MaxErrors    \* bound: failing queries

VARIABLES
    catalog,     \* consul: the instances of each watch
    changes,
    errors,
    loop,        \* of each instancer: "query", "update", "send", "stopped"
    answer,      \* the event it is about to publish
    state,       \* instancer.state
    stop,        \* instancer.stop is closed
    registered,  \* the monitor's channel is in instancer.registry
    events,      \* that channel
    goroutine,   \* of the monitor: "register", "select", "deregister", "done"
    accessor,    \* what its listener last set
    stopped,     \* monitor.stopped is closed
    closing,     \* environment.Close is running, or has run
    closed       \* environment.closed is closed

consulVars == <<catalog, changes, errors>>
instancerVars == <<loop, answer, state>>
monitorVars == <<registered, goroutine, accessor>>
endVars == <<stopped, closing, closed>>
vars == <<consulVars, instancerVars, stop, monitorVars, events, endVars>>

\* An sd.Event, a monitor.Event and the contents of an accessor have the same
\* shape: an error, or a set of instances that may be empty.
Found(instances) == [err |-> FALSE, instances |-> instances]
Failed == [err |-> TRUE, instances |-> {}]
Raw == {Found(s) : s \in Snapshots} \cup {Failed}

\* The default filter drops what is not a valid instance.
Filter(instances) == {Normal[i] : i \in instances} \ {Invalid}
Seen(e) == [e EXCEPT !.instances = Filter(@)]

TypeOK ==
    /\ catalog \in [Watches -> Snapshots]
    /\ changes \in 0..MaxChanges
    /\ errors \in 0..MaxErrors
    /\ loop \in [Watches -> {"query", "update", "send", "stopped"}]
    /\ answer \in [Watches -> Raw]
    /\ state \in [Watches -> Raw]
    /\ stop \in [Watches -> BOOLEAN]
    /\ registered \in [Watches -> BOOLEAN]
    /\ \A w \in Watches : events[w] \in Seq(Raw) /\ Len(events[w]) <= ChanSize
    /\ goroutine \in [Watches -> {"register", "select", "deregister", "done"}]
    /\ accessor \in [Watches -> {Seen(e) : e \in Raw} \cup {Found({})}]
    /\ {stopped, closing, closed} \subseteq BOOLEAN

\* NewInstancer has made its first query; an accessor not updated is empty.
Init ==
    /\ catalog \in [Watches -> Snapshots]
    /\ changes = 0
    /\ errors = 0
    /\ loop = [w \in Watches |-> "query"]
    /\ state \in {s \in [Watches -> Raw] : \A w \in Watches : s[w] \in {Found(catalog[w]), Failed}}
    /\ answer = state
    /\ stop = [w \in Watches |-> FALSE]
    /\ registered = [w \in Watches |-> FALSE]
    /\ events = [w \in Watches |-> <<>>]
    /\ goroutine = [w \in Watches |-> "register"]
    /\ accessor = [w \in Watches |-> Found({})]
    /\ stopped = FALSE
    /\ closing = FALSE
    /\ closed = FALSE

-----------------------------------------------------------------------------
(* The instancer.                                                          *)

CatalogChanges(w) ==
    /\ changes < MaxChanges
    /\ changes' = changes + 1
    /\ \E s \in Snapshots \ {catalog[w]} : catalog' = [catalog EXCEPT ![w] = s]
    /\ UNCHANGED <<errors, instancerVars, stop, monitorVars, events, endVars>>

QueryAnswered(w) ==
    /\ loop[w] = "query"
    /\ loop' = [loop EXCEPT ![w] = "update"]
    /\ answer' = [answer EXCEPT ![w] = Found(catalog[w])]
    /\ UNCHANGED <<consulVars, state, stop, monitorVars, events, endVars>>

QueryFails(w) ==
    /\ loop[w] = "query"
    /\ errors < MaxErrors
    /\ errors' = errors + 1
    /\ loop' = [loop EXCEPT ![w] = "update"]
    /\ answer' = [answer EXCEPT ![w] = Failed]
    /\ UNCHANGED <<catalog, changes, state, stop, monitorVars, events, endVars>>

\* errStopped: the loop ends.
QueryStopped(w) ==
    /\ loop[w] = "query"
    /\ stop[w]
    /\ loop' = [loop EXCEPT ![w] = "stopped"]
    /\ UNCHANGED <<consulVars, answer, state, stop, monitorVars, events, endVars>>

\* Mutant: after an error nothing is published any more.
UpdateStuckOnError(w) ==
    /\ loop[w] = "update"
    /\ IF answer[w] = state[w] \/ state[w].err
       THEN loop' = [loop EXCEPT ![w] = "query"] /\ UNCHANGED state
       ELSE /\ state' = [state EXCEPT ![w] = answer[w]]
            /\ loop' = [loop EXCEPT ![w] = IF registered[w] THEN "send" ELSE "query"]
    /\ UNCHANGED <<consulVars, answer, stop, monitorVars, events, endVars>>

\* update takes the lock; nothing is sent when the event is the same.
Update(w) ==
    /\ loop[w] = "update"
    /\ IF answer[w] = state[w]
       THEN loop' = [loop EXCEPT ![w] = "query"] /\ UNCHANGED state
       ELSE /\ state' = [state EXCEPT ![w] = answer[w]]
            /\ loop' = [loop EXCEPT ![w] = IF registered[w] THEN "send" ELSE "query"]
    /\ UNCHANGED <<consulVars, answer, stop, monitorVars, events, endVars>>

\* Mutant: an event that does not fit into the channel is dropped.
SendOrDrop(w) ==
    /\ loop[w] = "send"
    /\ events' = IF Len(events[w]) < ChanSize
                 THEN [events EXCEPT ![w] = Append(@, state[w])] ELSE events
    /\ loop' = [loop EXCEPT ![w] = "query"]
    /\ UNCHANGED <<consulVars, answer, state, stop, monitorVars, endVars>>

\* The send blocks, with the lock held, while the channel is full.
Send(w) ==
    /\ loop[w] = "send"
    /\ Len(events[w]) < ChanSize
    /\ events' = [events EXCEPT ![w] = Append(@, state[w])]
    /\ loop' = [loop EXCEPT ![w] = "query"]
    /\ UNCHANGED <<consulVars, answer, state, stop, monitorVars, endVars>>

-----------------------------------------------------------------------------
(* The monitor.                                                            *)

\* instancer.Register pushes the current state to the new, empty channel.
Register(w) ==
    /\ goroutine[w] = "register"
    /\ loop[w] # "send"
    /\ registered' = [registered EXCEPT ![w] = TRUE]
    /\ events' = [events EXCEPT ![w] = <<state[w]>>]
    /\ goroutine' = [goroutine EXCEPT ![w] = "select"]
    /\ UNCHANGED <<consulVars, instancerVars, stop, accessor, endVars>>

Dispatch(w) ==
    /\ goroutine[w] = "select"
    /\ events[w] # <<>>
    /\ accessor' = [accessor EXCEPT ![w] = Seen(Head(events[w]))]
    /\ events' = [events EXCEPT ![w] = Tail(@)]
    /\ UNCHANGED <<consulVars, instancerVars, stop, registered, goroutine, endVars>>

\* Stopped or closed: the listeners get an event without instances, and the
\* monitor is stopped in both cases.
Exit(w) ==
    /\ goroutine[w] = "select"
    /\ stopped \/ closed
    /\ stopped' = TRUE
    /\ accessor' = [accessor EXCEPT ![w] = Found({})]
    /\ goroutine' = [goroutine EXCEPT ![w] = "deregister"]
    /\ UNCHANGED <<consulVars, instancerVars, stop, registered, events, closing, closed>>

\* The deferred Deregister needs the instancer's lock; the channel is garbage.
Deregister(w) ==
    /\ goroutine[w] = "deregister"
    /\ loop[w] # "send"
    /\ registered' = [registered EXCEPT ![w] = FALSE]
    /\ events' = [events EXCEPT ![w] = <<>>]
    /\ goroutine' = [goroutine EXCEPT ![w] = "done"]
    /\ UNCHANGED <<consulVars, instancerVars, stop, accessor, endVars>>

Stop ==
    /\ ~stopped
    /\ stopped' = TRUE
    /\ UNCHANGED <<consulVars, instancerVars, stop, monitorVars, events, closing, closed>>

-----------------------------------------------------------------------------
(* environment.Close: all instancers are stopped, then closed is closed.   *)

Close ==
    /\ ~closing
    /\ closing' = TRUE
    /\ UNCHANGED <<consulVars, instancerVars, stop, monitorVars, events, stopped, closed>>

CloseStops(w) ==
    /\ closing /\ ~closed
    /\ ~stop[w]
    /\ stop' = [stop EXCEPT ![w] = TRUE]
    /\ UNCHANGED <<consulVars, instancerVars, monitorVars, events, endVars>>

CloseEnds ==
    /\ closing /\ ~closed
    /\ \A w \in Watches : stop[w]
    /\ closed' = TRUE
    /\ UNCHANGED <<consulVars, instancerVars, stop, monitorVars, events, stopped, closing>>

-----------------------------------------------------------------------------
InstancerStep(w) == QueryAnswered(w) \/ QueryStopped(w) \/ Update(w) \/ Send(w)
MonitorStep(w) == Register(w) \/ Dispatch(w) \/ Exit(w) \/ Deregister(w)
CloseStep == CloseEnds \/ \E w \in Watches : CloseStops(w)

Next ==
    \/ \E w \in Watches : CatalogChanges(w) \/ QueryFails(w) \/ InstancerStep(w) \/ MonitorStep(w)
    \/ Stop \/ Close \/ CloseStep

\* Goroutines run, and consul answers; nobody has to stop anything.
Fairness ==
    /\ \A w \in Watches : WF_vars(InstancerStep(w)) /\ WF_vars(MonitorStep(w))
    /\ WF_vars(CloseStep)

FairSpec == Init /\ [][Next]_vars /\ Fairness

-----------------------------------------------------------------------------
(* Properties that hold.                                                   *)

\* The last event of a subscriber is the instancer's state: what the listener
\* has got, once the channel is empty, is what consul last said, with no event
\* lost, reordered or left out as equal to another one.
LastEventIsState ==
    \A w \in Watches : registered[w] /\ goroutine[w] = "select" /\ loop[w] # "send" =>
        IF events[w] = <<>> THEN accessor[w] = Seen(state[w])
        ELSE events[w][Len(events[w])] = state[w]

\* When consul no longer changes, the accessors settle on what it has, also
\* after errors, unless somebody stops the monitor or closes the environment.
Converges ==
    <>[](stopped \/ closing \/ \A w \in Watches : accessor[w] = Seen(Found(catalog[w])))

-----------------------------------------------------------------------------
(* What the documentation says and the code does not do.                   *)

\* service/monitor/monitor.go:22: Stop halts all goroutines that dispatch events.
StopHalts == \A w \in Watches : stopped ~> goroutine[w] = "done"
=============================================================================
