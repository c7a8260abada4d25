--------------------------- MODULE LibraryProofs ----------------------------
(***************************************************************************)
(* Theorems about the rehasher, the end of a node, the capacitor,          *)
(* and what is cached being never replaced by something older (the key cache, *)
(* the metadata of a device and the cache of store), for every value of their *)
(* constants.  Each is about the instances that it names.                  *)
(***************************************************************************)
EXTENDS Integers, Sequences, FiniteSets, TLAPS

-----------------------------------------------------------------------------
(* Rehasher.                                                               *)

CONSTANTS Devices, Servers, Self, Owner(_, _), MaxEvents
VARIABLES
    event, eventCount, listener, filterAccessor, device, stale, matched

H == INSTANCE Rehasher WITH accessor <- filterAccessor

RehasherType ==
    /\ event \in H!MonitorEvents /\ filterAccessor \in H!MonitorEvents
    /\ eventCount \in Nat
    /\ device \in [Devices -> {"away", "admitted", "connected"}]
    /\ stale \in [Devices -> BOOLEAN]

\* What the filter let through still hashes here, unless it is stale.
Rightly(d) == stale[d] \/ H!OwnedHere(filterAccessor, d)

\* Nobody gets in before the first instances are known.  While the rehasher
\* works, its event is what the filter uses; it may leave alone the devices of
\* an initial event because they came in by that event; and while it removes,
\* who is to go is on its list.
RehasherInv ==
    /\ \A d \in Devices : device[d] = "admitted" => Rightly(d)
    /\ listener \in {"idle", "accessor"} => \A d \in H!Connected : Rightly(d)
    /\ eventCount = 0 => event.instances = {} /\ filterAccessor.instances = {}
    /\ eventCount = 0 \/ (eventCount = 1 /\ listener = "accessor" /\ ~event.stopped)
          => filterAccessor.instances = {} /\ \A d \in Devices : device[d] = "away"
    /\ listener \in {"rehasher", "remove"} => filterAccessor = event
    /\ listener = "rehasher" /\ eventCount = 1 /\ ~event.stopped
          => \A d \in H!Connected : Rightly(d)
    /\ listener = "remove" => \A d \in H!Connected : d \in matched \/ Rightly(d)

LEMMA RehasherTypeStep == RehasherType /\ [H!Next]_(H!vars) => RehasherType'
<1> SUFFICES ASSUME RehasherType, [H!Next]_(H!vars) PROVE RehasherType'
  OBVIOUS
<1>1. CASE H!Dispatch
  BY <1>1 DEF H!Dispatch, RehasherType
<1>2. CASE H!UpdateAccessor
  BY <1>2 DEF H!UpdateAccessor, RehasherType
<1>3. CASE H!DisconnectAll \/ H!IgnoreInitial \/ H!Rehash \/ H!RehashEnds
  BY <1>3 DEF H!DisconnectAll, H!IgnoreInitial, H!Rehash, H!RehashEnds, RehasherType
<1>4. ASSUME NEW d \in Devices,
             H!RemoveMatched(d) \/ H!Admit(d) \/ H!Connect(d) \/ H!Disconnect(d)
      PROVE  RehasherType'
  BY <1>4, Zenon DEF H!RemoveMatched, H!Admit, H!Connect, H!Disconnect, RehasherType
<1>5. CASE UNCHANGED H!vars
  BY <1>5 DEF H!vars, RehasherType
<1> QED
  BY <1>1, <1>2, <1>3, <1>4, <1>5 DEF H!Next, H!ListenerStep

\* A step of one device at a time: the others are as they were.
LEMMA RehasherDevice ==
    ASSUME RehasherType, RehasherInv, NEW d \in Devices,
           H!RemoveMatched(d) \/ H!Admit(d) \/ H!Connect(d) \/ H!Disconnect(d)
    PROVE  RehasherInv'
<1>y. /\ device \in [Devices -> {"away", "admitted", "connected"}]
      /\ stale \in [Devices -> BOOLEAN]
  BY DEF RehasherType
<1>1. UNCHANGED <<event, eventCount, listener, filterAccessor>>
  BY DEF H!RemoveMatched, H!Admit, H!Connect, H!Disconnect
<1>2. ASSUME NEW e \in Devices, e # d
      PROVE  device'[e] = device[e] /\ (Rightly(e)' <=> Rightly(e))
             /\ (e \in matched' <=> e \in matched)
  <2>1. device'[e] = device[e] /\ stale'[e] = stale[e]
    BY <1>y, <1>2 DEF H!RemoveMatched, H!Admit, H!Connect, H!Disconnect
  <2>2. e \in matched' <=> e \in matched
    BY <1>2 DEF H!RemoveMatched, H!Admit, H!Connect, H!Disconnect
  <2> QED
    BY <1>1, <2>1, <2>2 DEF Rightly, H!OwnedHere

\* The device itself is away, or was let in rightly.
<1>3. \/ device'[d] = "away"
      \/ H!Admit(d) /\ device'[d] = "admitted" /\ Rightly(d)' /\ filterAccessor.instances # {}
      \/ device[d] = "admitted" /\ device'[d] \in {"admitted", "connected"}
         /\ stale'[d] = stale[d]
  <2>1. CASE H!RemoveMatched(d)
    BY <1>y, <2>1 DEF H!RemoveMatched
  <2>2. CASE H!Admit(d)
    BY <1>y, <1>1, <2>2, Zenon DEF H!Admit, Rightly, H!OwnedHere
  <2>3. CASE H!Connect(d) \/ H!Disconnect(d)
    BY <1>y, <2>3 DEF H!Connect, H!Disconnect
  <2> QED
    BY <2>1, <2>2, <2>3
<1>4. device'[d] # "away" => Rightly(d)' /\ (device[d] # "away" \/ filterAccessor.instances # {})
  <2>1. device[d] = "admitted" /\ stale'[d] = stale[d] => Rightly(d)'
    BY <1>1 DEF RehasherInv, Rightly, H!OwnedHere
  <2> QED
    BY <1>3, <2>1
<1>5. \A e \in Devices : device'[e] = "admitted" => Rightly(e)'
  BY <1>2, <1>4 DEF RehasherInv
<1>6. \A e \in Devices : device'[e] = "connected" /\ (listener # "remove" \/ e \notin matched')
         => Rightly(e)' \/ (e # d /\ device[e] = "connected" /\ ~Rightly(e)
                              /\ (listener # "remove" \/ e \notin matched))
  BY <1>2, <1>4
<1>7. eventCount = 0 \/ (eventCount = 1 /\ listener = "accessor" /\ ~event.stopped)
        => \A e \in Devices : device'[e] = "away"
  BY <1>2, <1>4 DEF RehasherInv
<1> QED
  BY <1>1, <1>5, <1>6, <1>7 DEF RehasherInv, H!Connected

LEMMA RehasherStep == RehasherType /\ RehasherInv /\ [H!Next]_(H!vars) => RehasherInv'
<1> SUFFICES ASSUME RehasherType, RehasherInv, [H!Next]_(H!vars) PROVE RehasherInv'
  OBVIOUS
<1>y. /\ device \in [Devices -> {"away", "admitted", "connected"}]
      /\ stale \in [Devices -> BOOLEAN] /\ eventCount \in Nat
  BY DEF RehasherType
<1>0. ASSUME UNCHANGED <<filterAccessor, stale>>, NEW d \in Devices PROVE Rightly(d)' <=> Rightly(d)
  BY <1>0 DEF Rightly, H!OwnedHere
<1>1. CASE H!Dispatch
  <2>1. PICK e \in H!MonitorEvents :
          event' = e /\ eventCount' = IF e.stopped THEN eventCount ELSE eventCount + 1
    BY <1>1 DEF H!Dispatch
  <2>2. /\ listener = "idle" /\ listener' = "accessor"
        /\ UNCHANGED <<filterAccessor, device, stale, matched>>
    BY <1>1 DEF H!Dispatch
  <2>3. /\ eventCount' = 0 => eventCount = 0 /\ event'.instances = {}
        /\ eventCount' = 1 /\ ~event'.stopped => eventCount = 0
    BY <1>y, <2>1 DEF H!MonitorEvents
  <2> QED
    BY <1>0, <2>2, <2>3 DEF RehasherInv, H!Connected
<1>2. CASE H!UpdateAccessor
  <2>1. /\ listener = "accessor" /\ listener' = "rehasher" /\ filterAccessor' = event
        /\ UNCHANGED <<event, eventCount, device, matched>>
    BY <1>2 DEF H!UpdateAccessor
  <2>2. \A d \in Devices : device[d] = "admitted" => Rightly(d)'
    BY <1>2, <1>y, Zenon DEF H!UpdateAccessor, Rightly
  <2> QED
    BY <2>1, <2>2 DEF RehasherInv, H!Connected
<1>3. CASE H!DisconnectAll
  <2>1. /\ listener = "rehasher" /\ listener' = "idle"
        /\ UNCHANGED <<event, eventCount, filterAccessor, stale, matched>>
        /\ \A d \in Devices : device'[d] = IF device[d] = "connected" THEN "away" ELSE device[d]
    BY <1>3 DEF H!DisconnectAll
  <2> QED
    BY <1>0, <2>1 DEF RehasherInv, H!Connected
<1>4. CASE H!IgnoreInitial
  <2>1. /\ listener = "rehasher" /\ listener' = "idle" /\ eventCount = 1 /\ ~event.stopped
        /\ UNCHANGED <<event, eventCount, filterAccessor, device, stale, matched>>
    BY <1>4 DEF H!IgnoreInitial, H!DisconnectsAll
  <2> QED
    BY <1>0, <2>1 DEF RehasherInv, H!Connected
<1>5. CASE H!Rehash
  <2>1. /\ listener = "rehasher" /\ listener' = "remove" /\ eventCount > 1
        /\ matched' = {d \in H!Connected : ~H!OwnedHere(event, d)}
        /\ UNCHANGED <<event, eventCount, filterAccessor, device, stale>>
    BY <1>5 DEF H!Rehash
  <2>2. \A d \in H!Connected : d \in matched' \/ Rightly(d)'
    BY <2>1 DEF RehasherInv, Rightly, H!OwnedHere
  <2> QED
    BY <1>0, <1>y, <2>1, <2>2 DEF RehasherInv, H!Connected
<1>6. CASE H!RehashEnds
  <2>1. /\ listener = "remove" /\ listener' = "idle" /\ matched = {}
        /\ UNCHANGED <<event, eventCount, filterAccessor, device, stale, matched>>
    BY <1>6 DEF H!RehashEnds
  <2> QED
    BY <1>0, <2>1 DEF RehasherInv, H!Connected
<1>7. CASE UNCHANGED H!vars
  BY <1>7, Zenon DEF H!vars, RehasherInv, H!Connected, Rightly, H!OwnedHere
<1> QED
  BY <1>1, <1>2, <1>3, <1>4, <1>5, <1>6, <1>7, RehasherDevice DEF H!Next, H!ListenerStep

\* Between events every connected device hashes to this process, but for those
\* that passed the filter before an event and connected after it: for any hash,
\* any servers and any number of devices.
THEOREM RehasherOthersAreGone == H!FairSpec => []H!OthersAreGone
<1>1. H!Init => RehasherType /\ RehasherInv
  <2> SUFFICES ASSUME H!Init PROVE RehasherType /\ RehasherInv
    OBVIOUS
  <2>1. H!NoInstances \in H!MonitorEvents
    BY DEF H!NoInstances, H!MonitorEvents, H!Events
  <2>2. RehasherType
    BY <2>1 DEF H!Init, RehasherType
  <2>3. \A d \in Devices : device[d] = "away"
    BY DEF H!Init
  <2> QED
    BY <2>2, <2>3, Zenon DEF H!Init, H!NoInstances, RehasherInv, H!Connected
<1>2. RehasherInv => H!OthersAreGone
  BY DEF RehasherInv, H!OthersAreGone, Rightly
<1> QED
  BY <1>1, <1>2, RehasherTypeStep, RehasherStep, PTL DEF H!FairSpec

-----------------------------------------------------------------------------
(* The end of a node.                                                      *)

CONSTANTS Names, MaxRestarts
VARIABLES runner, config, listening, server, shut, restarts, finalizer, doneClosed, shutdown,
          waitGroup

Srv == INSTANCE Server

\* Until the runnable starts the first server there is no goroutine that could
\* reach the finalizer; the runnable that fails has closed done itself, and
\* otherwise the finalizer is the one to close it.
EndInv ==
    /\ DOMAIN server = Names /\ doneClosed \in Nat
    /\ runner \in {"new", "initialized", "aborted", "created", "bound", "failed"}
         => finalizer = "idle" /\ \A n \in Names : server[n] = "none"
    /\ doneClosed = IF finalizer = "ran" \/ runner = "failed" THEN 1 ELSE 0
    /\ finalizer = "ran" => Srv!Servers \subseteq shut

LEMMA EndStep == EndInv /\ [Srv!Next]_(Srv!vars) => EndInv'
<1> SUFFICES ASSUME EndInv, [Srv!Next]_(Srv!vars) PROVE EndInv'
  OBVIOUS
<1>s. UNCHANGED config => Srv!Servers' = Srv!Servers
  BY DEF Srv!Servers, Srv!Created, Srv!HealthNew, Srv!MetricNew, Srv!BasicNew
<1>1. CASE Srv!Initialize
  <2>1. /\ runner = "new" /\ runner' \in {"aborted", "initialized"}
        /\ UNCHANGED <<server, shut, finalizer, doneClosed>>
    BY <1>1 DEF Srv!Initialize
  <2> QED
    BY <2>1 DEF EndInv
<1>2. CASE Srv!CreateServers \/ \E n \in Names : Srv!NewListener(n)
  <2>1. /\ runner \in {"initialized", "created", "bound"}
        /\ UNCHANGED <<config, server, shut, finalizer>>
        /\ \/ runner' \in {"created", "bound"} /\ doneClosed' = doneClosed
           \/ runner' = "failed" /\ doneClosed' = doneClosed + 1
    BY <1>2 DEF Srv!CreateServers, Srv!NewListener
  <2> QED
    BY <2>1 DEF EndInv
<1>3. CASE Srv!Serve
  <2>1. /\ runner \in {"bound", "starting"} /\ runner' = "starting"
        /\ UNCHANGED <<config, shut, finalizer, doneClosed>> /\ DOMAIN server' = DOMAIN server
    BY <1>3 DEF Srv!Serve
  <2> QED
    BY <1>s, <2>1 DEF EndInv
<1>4. CASE Srv!Started \/ Srv!Signal \/ Srv!AwaitReturns
  <2>1. /\ runner \in {"starting", "waiting", "signalled"}
        /\ runner' \in {"waiting", "signalled", "returned"}
        /\ UNCHANGED <<config, server, shut, finalizer, doneClosed>>
    BY <1>4 DEF Srv!Started, Srv!Signal, Srv!AwaitReturns
  <2> QED
    BY <1>s, <2>1 DEF EndInv
<1>5. ASSUME NEW n \in Names, Srv!ServerExits(n) \/ Srv!Finalize(n) PROVE EndInv'
  <2>1. /\ server[n] # "none" /\ UNCHANGED <<runner, config, doneClosed>> /\ shut \subseteq shut'
        /\ DOMAIN server' = DOMAIN server
        /\ finalizer' = finalizer \/ (finalizer = "idle" /\ finalizer' = "closing")
    BY <1>5 DEF Srv!ServerExits, Srv!Finalize
  <2> QED
    BY <1>s, <2>1 DEF EndInv
<1>6. CASE Srv!CloseServer
  <2>1. /\ finalizer = "closing" /\ UNCHANGED <<runner, config, server, finalizer, doneClosed>>
    BY <1>6 DEF Srv!CloseServer
  <2> QED
    BY <2>1 DEF EndInv
<1>7. CASE Srv!FinalizerDone
  <2>1. /\ finalizer = "closing" /\ finalizer' = "ran" /\ Srv!Servers \subseteq shut
        /\ doneClosed' = doneClosed + 1 /\ UNCHANGED <<runner, config, server, shut>>
    BY <1>7 DEF Srv!FinalizerDone
  <2> QED
    BY <1>s, <2>1 DEF EndInv
<1>8. CASE UNCHANGED <<runner, config, server, shut, finalizer, doneClosed>>
  BY <1>s, <1>8 DEF EndInv
<1>9. \/ Srv!Initialize \/ Srv!CreateServers \/ \E n \in Names : Srv!NewListener(n)
      \/ Srv!Serve \/ Srv!Started \/ Srv!Signal \/ Srv!AwaitReturns
      \/ Srv!CloseServer \/ Srv!FinalizerDone
      \/ \E n \in Names : Srv!ServerExits(n) \/ Srv!Finalize(n)
      \/ UNCHANGED <<runner, config, server, shut, finalizer, doneClosed>>
  BY DEF Srv!Next, Srv!RunnerStep, Srv!GoroutineStep, Srv!Restart, Srv!HealthEnds, Srv!vars
<1> QED
  BY <1>1, <1>2, <1>3, <1>4, <1>5, <1>6, <1>7, <1>8, <1>9

\* For any servers and any number of restarts, done is closed at most once,
\* and by the finalizer only after it closed every server of its slice.
THEOREM ServerDoneIsLast == Srv!Spec => []Srv!DoneIsLast
<1>1. Srv!Init => EndInv
  BY DEF Srv!Init, EndInv
<1>2. EndInv => Srv!DoneIsLast
  BY DEF EndInv, Srv!DoneIsLast
<1> QED
  BY <1>1, <1>2, EndStep, PTL DEF Srv!Spec

-----------------------------------------------------------------------------
(* The capacitor.                                                          *)

CONSTANT MaxSubmits
VARIABLES submits, c_d, delayer, executed, cancelled

Cap == INSTANCE Capacitor

Stage(d) == delayer[d].stage
Waiting == {"select", "timer", "execute"}

CapacitorType ==
    /\ submits \in 0..MaxSubmits
    /\ c_d \in 0..submits
    /\ delayer \in [Cap!Funcs -> [stage : Waiting \cup {"new", "cleanup", "done"},
                                  current : 0..submits,
                                  terminate : {"empty", "discharge", "cancel"}]]
    /\ executed \in [Cap!Funcs -> Nat]

\* The current delayer has begun and not ended, and no order is under way to
\* it; two delayers never hold the same function; and a function that some
\* delayer has yet to run has not run.
CapacitorInv ==
    /\ c_d # 0 => delayer[c_d].terminate = "empty" /\ Stage(c_d) \notin {"new", "done"}
    /\ \A d \in Cap!Funcs :
         /\ Stage(d) = "new" <=> delayer[d].current = 0
         /\ Stage(d) = "new" => delayer[d].terminate = "empty"
         /\ d > submits => Stage(d) = "new" /\ executed[d] = 0
         /\ executed[d] <= 1
         /\ Stage(d) = "select" /\ delayer[d].terminate = "empty" => c_d = d
         /\ Stage(d) \in Waiting => executed[delayer[d].current] = 0
    /\ \A d, e \in Cap!Funcs : delayer[d].current = delayer[e].current /\ Stage(d) # "new" => d = e

LEMMA CapacitorTypeStep ==
    ASSUME MaxSubmits \in Nat, CapacitorType, CapacitorInv, [Cap!Next]_(Cap!vars)
    PROVE  CapacitorType'
<1> DEFINE Records(n) == [stage : Waiting \cup {"new", "cleanup", "done"}, current : 0..n,
                          terminate : {"empty", "discharge", "cancel"}]
<1>y. /\ submits \in 0..MaxSubmits /\ c_d \in 0..submits
      /\ delayer \in [Cap!Funcs -> Records(submits)] /\ executed \in [Cap!Funcs -> Nat]
  BY DEF CapacitorType
<1>c. c_d # 0 => c_d \in Cap!Funcs
  BY <1>y DEF Cap!Funcs
<1>1. CASE Cap!Submit
  <2>1. submits < MaxSubmits /\ submits' = submits + 1 /\ executed' = executed
    BY <1>1 DEF Cap!Submit
  <2>2. submits' \in 0..MaxSubmits /\ 0..submits \subseteq 0..submits' /\ submits' \in 0..submits'
        /\ submits' \in Cap!Funcs
    BY <1>y, <2>1 DEF Cap!Funcs
  <2>3. Records(submits) \subseteq Records(submits')
    BY <2>2
  <2>4. delayer \in [Cap!Funcs -> Records(submits')]
    BY <1>y, <2>3
  <2>5. CASE /\ c_d' = submits'
             /\ delayer' = [delayer EXCEPT ![submits'].stage = "select",
                  ![submits'].current = submits']
    <3>1. delayer' = [delayer EXCEPT ![submits'] =
                        [delayer[submits'] EXCEPT !.stage = "select", !.current = submits']]
      BY <2>2, <2>4, <2>5, Zenon
    <3>2. [delayer[submits'] EXCEPT !.stage = "select", !.current = submits'] \in Records(submits')
      BY <2>2, <2>4, Zenon DEF Waiting
    <3>3. delayer' \in [Cap!Funcs -> Records(submits')]
      BY <2>2, <2>4, <3>1, <3>2
    <3> QED
      BY <1>y, <2>1, <2>2, <2>5, <3>3 DEF CapacitorType
  <2>6. CASE c_d # 0 /\ c_d' = c_d /\ delayer' = [delayer EXCEPT ![c_d].current = submits']
    <3>1. delayer' = [delayer EXCEPT ![c_d] = [delayer[c_d] EXCEPT !.current = submits']]
      BY <1>c, <2>4, <2>6
    <3>2. [delayer[c_d] EXCEPT !.current = submits'] \in Records(submits')
      BY <1>c, <2>2, <2>4, <2>6
    <3>3. delayer' \in [Cap!Funcs -> Records(submits')]
      BY <1>c, <2>4, <2>6, <3>1, <3>2
    <3> QED
      BY <1>y, <2>1, <2>2, <2>6, <3>3 DEF CapacitorType
  <2> QED
    BY <1>1, <2>5, <2>6 DEF Cap!Submit
<1>2. ASSUME NEW how \in {"discharge", "cancel"}, Cap!Terminate(how) PROVE CapacitorType'
  <2>1. c_d # 0 /\ c_d' = 0 /\ UNCHANGED <<submits, executed>>
        /\ delayer' = [delayer EXCEPT ![c_d].terminate = how]
    BY <1>2 DEF Cap!Terminate
  <2>2. delayer' \in [Cap!Funcs -> Records(submits)]
    BY <1>y, <1>c, <2>1
  <2> QED
    BY <1>y, <2>1, <2>2 DEF CapacitorType
<1>3. ASSUME NEW d \in Cap!Funcs, Cap!TimerFires(d) \/ Cap!Chosen(d) PROVE CapacitorType'
  <2>1. UNCHANGED <<submits, c_d, executed>>
    BY <1>3 DEF Cap!TimerFires, Cap!Chosen
  <2>2. delayer' \in [Cap!Funcs -> Records(submits)]
    BY <1>y, <1>3 DEF Cap!TimerFires, Cap!Chosen, Waiting
  <2> QED
    BY <1>y, <2>1, <2>2 DEF CapacitorType
<1>4. ASSUME NEW d \in Cap!Funcs, Cap!Execute(d) PROVE CapacitorType'
  <2>1. /\ UNCHANGED <<submits, c_d>> /\ delayer' = [delayer EXCEPT ![d].stage = "cleanup"]
        /\ executed' = [executed EXCEPT ![delayer[d].current] = executed[delayer[d].current] + 1]
        /\ Stage(d) = "execute"
    BY <1>4 DEF Cap!Execute, Stage
  <2>2. delayer[d].current \in Cap!Funcs
    BY <1>y, <2>1 DEF CapacitorInv, Cap!Funcs
  <2>3. executed' \in [Cap!Funcs -> Nat]
    BY <1>y, <2>1, <2>2
  <2>4. delayer' \in [Cap!Funcs -> Records(submits)]
    BY <1>y, <2>1
  <2> QED
    BY <1>y, <2>1, <2>3, <2>4 DEF CapacitorType
<1>5. ASSUME NEW d \in Cap!Funcs, Cap!Cleanup(d) PROVE CapacitorType'
  <2>1. /\ UNCHANGED <<submits, executed>> /\ delayer' = [delayer EXCEPT ![d].stage = "done"]
        /\ c_d' = 0 \/ c_d' = c_d
    BY <1>5 DEF Cap!Cleanup
  <2>2. delayer' \in [Cap!Funcs -> Records(submits)]
    BY <1>y, <2>1
  <2> QED
    BY <1>y, <2>1, <2>2 DEF CapacitorType
<1>6. CASE UNCHANGED Cap!vars
  BY <1>6 DEF Cap!vars, CapacitorType
<1> QED
  BY <1>1, <1>2, <1>3, <1>4, <1>5, <1>6 DEF Cap!Next, Cap!Run, Cap!Discharge, Cap!Cancel

LEMMA CapacitorSubmit ==
    ASSUME MaxSubmits \in Nat, CapacitorType, CapacitorInv, Cap!Submit PROVE CapacitorInv'
<1>y. /\ submits \in 0..MaxSubmits /\ c_d \in 0..submits /\ executed \in [Cap!Funcs -> Nat]
      /\ \A d \in Cap!Funcs : delayer[d].current \in 0..submits
  BY DEF CapacitorType
<1>f. \A d \in Cap!Funcs : d \in 1..MaxSubmits
  BY DEF Cap!Funcs
<1>1. submits' = submits + 1 /\ UNCHANGED executed /\ submits' \in Cap!Funcs
  BY <1>y DEF Cap!Submit, Cap!Funcs
<1>2. CASE c_d = 0
  <2>1. /\ c_d' = submits'
        /\ delayer' = [delayer EXCEPT ![submits'].stage = "select", ![submits'].current = submits']
    BY <1>2 DEF Cap!Submit
  <2>2. delayer'[submits'].stage = "select" /\ delayer'[submits'].current = submits'
        /\ delayer'[submits'].terminate = delayer[submits'].terminate
        /\ \A d \in Cap!Funcs : d # submits' => delayer'[d] = delayer[d]
    BY <1>1, <2>1 DEF CapacitorType
  <2>3. Stage(submits') = "new" /\ delayer[submits'].terminate = "empty" /\ executed[submits'] = 0
    BY <1>y, <1>1 DEF CapacitorInv
  <2>4. submits' # 0 /\ submits' \notin 0..submits
          /\ \A d \in Cap!Funcs : d > submits' => d > submits
    BY <1>y, <1>f, <1>1
  <2>5. \A d \in Cap!Funcs : d # 0
    BY <1>f
  <2>6. \A d \in Cap!Funcs : Stage(d) # "select" \/ delayer[d].terminate # "empty"
    BY <1>2, <2>5 DEF CapacitorInv
  <2>7. ASSUME NEW d \in Cap!Funcs, d # submits'
        PROVE  delayer'[d] = delayer[d] /\ delayer'[d].current # submits'
                 /\ (d > submits' => d > submits)
    BY <1>y, <2>2, <2>4, <2>7
  <2>8. \A d \in Cap!Funcs : \/ d = submits'
                             \/ /\ delayer'[d].stage = "new" <=> delayer'[d].current = 0
                                /\ delayer'[d].stage = "new" => delayer'[d].terminate = "empty"
                                /\ d > submits' => delayer'[d].stage = "new" /\ executed'[d] = 0
                                /\ executed'[d] <= 1
                                /\ ~(delayer'[d].stage = "select"
                                     /\ delayer'[d].terminate = "empty")
                                /\ delayer'[d].stage \in Waiting =>
                                     executed'[delayer'[d].current] = 0
    BY <1>1, <2>6, <2>7 DEF CapacitorInv, Stage
  <2>9. \A d, e \in Cap!Funcs :
           delayer'[d].current = delayer'[e].current /\ delayer'[d].stage # "new" => d = e
    BY <2>2, <2>7 DEF CapacitorInv, Stage
  <2>10. ~(submits' > submits') /\ executed'[submits'] <= 1
    BY <1>y, <1>1, <2>3
  <2>11. executed'[delayer'[submits'].current] = 0 /\ delayer'[submits'].terminate = "empty"
    BY <1>1, <2>2, <2>3
  <2>12. ASSUME NEW d \in Cap!Funcs
         PROVE  /\ delayer'[d].stage = "new" <=> delayer'[d].current = 0
                /\ delayer'[d].stage = "new" => delayer'[d].terminate = "empty"
                /\ d > submits' => delayer'[d].stage = "new" /\ executed'[d] = 0
                /\ executed'[d] <= 1
                /\ delayer'[d].stage = "select" /\ delayer'[d].terminate = "empty" => c_d' = d
                /\ delayer'[d].stage \in Waiting => executed'[delayer'[d].current] = 0
    BY <2>1, <2>2, <2>4, <2>8, <2>10, <2>11, Zenon
  <2>13. delayer'[c_d'].terminate = "empty" /\ delayer'[c_d'].stage \notin {"new", "done"}
    BY <2>1, <2>2, <2>11
  <2> QED
    BY <2>9, <2>12, <2>13 DEF CapacitorInv, Stage
<1>3. CASE c_d # 0
  <2>1. c_d' = c_d /\ delayer' = [delayer EXCEPT ![c_d].current = submits'] /\ c_d \in Cap!Funcs
    BY <1>y, <1>3 DEF Cap!Submit, Cap!Funcs
  <2>2. delayer'[c_d].stage = delayer[c_d].stage /\ delayer'[c_d].current = submits'
        /\ delayer'[c_d].terminate = delayer[c_d].terminate
        /\ \A d \in Cap!Funcs : d # c_d => delayer'[d] = delayer[d]
    BY <2>1 DEF CapacitorType
  <2>3. executed[submits'] = 0 /\ submits' # 0 /\ submits' \notin 0..submits
        /\ \A d \in Cap!Funcs : d > submits' => d > submits
    BY <1>y, <1>f, <1>1 DEF CapacitorInv
  <2> QED
    BY <1>y, <1>1, <1>3, <2>1, <2>2, <2>3 DEF CapacitorInv, Stage
<1> QED
  BY <1>2, <1>3

LEMMA CapacitorStep ==
    ASSUME MaxSubmits \in Nat, CapacitorType, CapacitorInv, [Cap!Next]_(Cap!vars)
    PROVE  CapacitorInv'
<1>y. /\ submits \in 0..MaxSubmits /\ c_d \in 0..submits /\ executed \in [Cap!Funcs -> Nat]
      /\ \A d \in Cap!Funcs : delayer[d].current \in 0..submits
  BY DEF CapacitorType
<1>c. c_d # 0 => c_d \in Cap!Funcs
  BY <1>y DEF Cap!Funcs
<1>1. ASSUME NEW how \in {"discharge", "cancel"}, Cap!Terminate(how) PROVE CapacitorInv'
  <2>1. c_d # 0 /\ c_d' = 0 /\ UNCHANGED <<submits, executed>>
        /\ delayer' = [delayer EXCEPT ![c_d].terminate = how]
    BY <1>1 DEF Cap!Terminate
  <2>2. delayer'[c_d].stage = delayer[c_d].stage /\ delayer'[c_d].current = delayer[c_d].current
        /\ delayer'[c_d].terminate = how
        /\ \A d \in Cap!Funcs : d # c_d => delayer'[d] = delayer[d]
    BY <1>c, <2>1 DEF CapacitorType
  <2> QED
    BY <1>c, <2>1, <2>2 DEF CapacitorInv, Stage
<1>2. ASSUME NEW d \in Cap!Funcs, Cap!TimerFires(d) PROVE CapacitorInv'
  <2>1. UNCHANGED <<submits, c_d, executed>> /\ Stage(d) = "select"
        /\ delayer' = [delayer EXCEPT ![d].stage = "timer"]
    BY <1>2 DEF Cap!TimerFires, Stage
  <2>2. delayer'[d].stage = "timer" /\ delayer'[d].current = delayer[d].current
        /\ delayer'[d].terminate = delayer[d].terminate
        /\ \A e \in Cap!Funcs : e # d => delayer'[e] = delayer[e]
    BY <2>1 DEF CapacitorType
  <2> QED
    BY <1>c, <2>1, <2>2 DEF CapacitorInv, Stage, Waiting
<1>3. ASSUME NEW d \in Cap!Funcs, Cap!Chosen(d) PROVE CapacitorInv'
  <2>1. UNCHANGED <<submits, c_d, executed>> /\ Stage(d) \in {"select", "timer"}
    BY <1>3 DEF Cap!Chosen, Stage
  <2>2. delayer'[d].stage \in {"cleanup", "execute"} /\ delayer'[d].current = delayer[d].current
        /\ delayer'[d].terminate = "empty"
        /\ \A e \in Cap!Funcs : e # d => delayer'[e] = delayer[e]
    BY <1>3 DEF Cap!Chosen, CapacitorType
  <2> QED
    BY <1>c, <2>1, <2>2 DEF CapacitorInv, Stage, Waiting
<1>4. ASSUME NEW d \in Cap!Funcs, Cap!Execute(d) PROVE CapacitorInv'
  <2> DEFINE f == delayer[d].current
  <2>1. /\ UNCHANGED <<submits, c_d>> /\ delayer' = [delayer EXCEPT ![d].stage = "cleanup"]
        /\ executed' = [executed EXCEPT ![f] = executed[f] + 1] /\ Stage(d) = "execute"
    BY <1>4 DEF Cap!Execute, Stage
  <2>2. delayer'[d].stage = "cleanup" /\ delayer'[d].current = f
        /\ delayer'[d].terminate = delayer[d].terminate
        /\ \A e \in Cap!Funcs : e # d => delayer'[e] = delayer[e]
    BY <2>1 DEF CapacitorType
  <2>3. f \in Cap!Funcs /\ f <= submits /\ executed[f] = 0
    BY <1>y, <2>1 DEF CapacitorInv, Cap!Funcs, Waiting
  <2>4. executed'[f] = 1 /\ \A g \in Cap!Funcs : g # f => executed'[g] = executed[g]
    BY <1>y, <2>1, <2>3
  <2>5. \A e \in Cap!Funcs : e # d => delayer[e].current # f
    BY <2>1 DEF CapacitorInv
  <2>6. \A e \in Cap!Funcs : executed'[e] <= 1 /\ (e > submits => executed'[e] = 0)
    BY <1>y, <2>3, <2>4 DEF CapacitorInv, Cap!Funcs
  <2>7. \A e \in Cap!Funcs : Stage(e)' \in Waiting => executed'[delayer'[e].current] = 0
    <3>1. ASSUME NEW e \in Cap!Funcs, Stage(e)' \in Waiting
          PROVE  executed'[delayer'[e].current] = 0
      <4>1. e # d
        BY <2>2, <3>1 DEF Stage, Waiting
      <4>2. delayer'[e] = delayer[e] /\ Stage(e) \in Waiting
        BY <2>2, <3>1, <4>1 DEF Stage
      <4>3. delayer[e].current \in Cap!Funcs
        BY <1>y, <4>2 DEF CapacitorInv, Cap!Funcs, Waiting
      <4> QED
        BY <2>4, <2>5, <4>1, <4>2, <4>3 DEF CapacitorInv
    <3> QED
      BY <3>1
  <2> QED
    BY <1>c, <2>1, <2>2, <2>6, <2>7 DEF CapacitorInv, Stage
<1>5. ASSUME NEW d \in Cap!Funcs, Cap!Cleanup(d) PROVE CapacitorInv'
  <2>1. /\ UNCHANGED <<submits, executed>> /\ delayer' = [delayer EXCEPT ![d].stage = "done"]
        /\ c_d' = (IF c_d = d THEN 0 ELSE c_d) /\ Stage(d) = "cleanup"
    BY <1>5 DEF Cap!Cleanup, Stage
  <2>2. delayer'[d].stage = "done" /\ delayer'[d].current = delayer[d].current
        /\ delayer'[d].terminate = delayer[d].terminate
        /\ \A e \in Cap!Funcs : e # d => delayer'[e] = delayer[e]
    BY <2>1 DEF CapacitorType
  <2> QED
    BY <1>c, <2>1, <2>2 DEF CapacitorInv, Stage, Waiting
<1>6. CASE UNCHANGED Cap!vars
  BY <1>6 DEF Cap!vars, CapacitorInv, Stage
<1> QED
  BY <1>1, <1>2, <1>3, <1>4, <1>5, <1>6, CapacitorSubmit
     DEF Cap!Next, Cap!Run, Cap!Discharge, Cap!Cancel

\* However many functions are submitted: none runs twice, Discharge and Cancel
\* never find an order under way, and a delayer that waits is the current one.
THEOREM CapacitorOrderly ==
    ASSUME MaxSubmits \in Nat
    PROVE  Cap!Init /\ [][Cap!Next]_(Cap!vars) => []Cap!DelayersOrderly
<1>1. Cap!Init => CapacitorType /\ CapacitorInv
  <2> SUFFICES ASSUME Cap!Init PROVE CapacitorType /\ CapacitorInv
    OBVIOUS
  <2>1. CapacitorType
    BY DEF Cap!Init, CapacitorType
  <2>2. \A d \in Cap!Funcs : Stage(d) = "new" /\ delayer[d].current = 0
                             /\ delayer[d].terminate = "empty" /\ executed[d] = 0
    BY DEF Cap!Init, Stage
  <2> QED
    BY <2>1, <2>2 DEF Cap!Init, CapacitorInv, Waiting
<1>2. CapacitorInv => Cap!DelayersOrderly
  BY DEF CapacitorInv, Cap!DelayersOrderly, Stage
<1>3. CapacitorType /\ CapacitorInv /\ [Cap!Next]_(Cap!vars) => CapacitorType' /\ CapacitorInv'
  BY CapacitorTypeStep, CapacitorStep
<1> QED
  BY <1>1, <1>2, <1>3, PTL

-----------------------------------------------------------------------------
(* The key cache.                                                          *)

CONSTANTS Resolvers, KeyIds, MaxRotation, MaxUpdates
VARIABLES rotation, pairs, keyLock, resolver, updater, existing, fresh, newCount, updates,
          keysShutdown

Key == INSTANCE KeyCache

\* The lock admits one at a time; what is cached was once current; what the
\* updater read before the lock is cached still; and what it has refreshed is
\* no older than what is cached, since nobody else stores while it holds the
\* lock.
KeyType ==
    /\ rotation \in [KeyIds -> Nat]
    /\ DOMAIN pairs \subseteq KeyIds
    /\ \A k \in DOMAIN pairs : pairs[k] \in Nat /\ pairs[k] <= rotation[k]

KeyLocked ==
    /\ resolver \in [Resolvers -> [stage : {"idle", "lock", "locked"}, key : KeyIds]]
    /\ updater = "locked" <=> keyLock = "updater"
    /\ \A r \in Resolvers : resolver[r].stage = "locked" => keyLock = r

KeyFresh ==
    /\ \A k \in DOMAIN existing : k \in DOMAIN pairs /\ existing[k] = pairs[k]
    /\ \A k \in DOMAIN fresh :
         /\ updater = "locked" /\ k \in KeyIds
         /\ fresh[k] \in Nat /\ fresh[k] <= rotation[k]
         /\ k \in DOMAIN pairs => pairs[k] <= fresh[k]

KeyInv == KeyType /\ KeyLocked /\ KeyFresh

LEMMA NoPairsIs == DOMAIN Key!NoPairs = {}
  BY DEF Key!NoPairs

LEMMA KeyRotates ==
    ASSUME KeyInv, NEW k \in KeyIds, Key!Rotate(k)
    PROVE  KeyInv' /\ pairs' = pairs
<1>0. /\ rotation[k] \in Nat /\ rotation' = [rotation EXCEPT ![k] = rotation[k] + 1]
      /\ UNCHANGED <<pairs, keyLock, resolver, updater, existing, fresh>>
  BY DEF KeyInv, KeyType, Key!Rotate, Key!updaterVars
<1>1. /\ rotation' \in [KeyIds -> Nat]
      /\ \A j \in KeyIds : rotation[j] \in Nat /\ rotation[j] <= rotation'[j]
  BY <1>0 DEF KeyInv, KeyType
<1>2. KeyType'
  BY <1>0, <1>1 DEF KeyInv, KeyType
<1>3. KeyLocked'
  BY <1>0 DEF KeyInv, KeyLocked
<1>4. KeyFresh'
  BY <1>0, <1>1 DEF KeyInv, KeyFresh
<1> QED
  BY <1>0, <1>2, <1>3, <1>4 DEF KeyInv

\* A resolver stores only what is missing, and only with the lock.
LEMMA KeyResolves ==
    ASSUME KeyInv, NEW r \in Resolvers, Key!Resolve(r), "updater" \notin Resolvers
    PROVE  KeyInv' /\ Key!KeysNeverOlder
<1>0. /\ keyLock = r /\ updater # "locked" /\ resolver[r].key \in KeyIds
  BY DEF KeyInv, KeyLocked, Key!Resolve
<1>1. /\ keyLock' = "free" /\ resolver' = [resolver EXCEPT ![r].stage = "idle"]
      /\ UNCHANGED <<rotation, updater, existing, fresh>>
  BY DEF Key!Resolve, Key!updaterVars
<1>2. DOMAIN fresh = {}
  BY <1>0, Zenon DEF KeyInv, KeyFresh
<1>3. /\ DOMAIN pairs \subseteq DOMAIN pairs'
      /\ \A j \in DOMAIN pairs : pairs'[j] = pairs[j]
      /\ \A j \in DOMAIN pairs' : j \notin DOMAIN pairs => j \in KeyIds /\ pairs'[j] = rotation[j]
  <2>1. CASE pairs' = pairs
    BY <2>1
  <2>2. CASE pairs' = Key!Put(pairs, resolver[r].key, rotation[resolver[r].key])
             /\ resolver[r].key \notin DOMAIN pairs
    <3> DEFINE k == resolver[r].key
    <3>1. /\ DOMAIN pairs' = DOMAIN pairs \cup {k} /\ pairs'[k] = rotation[k]
          /\ \A j \in DOMAIN pairs : j # k => pairs'[j] = pairs[j]
      BY <2>2 DEF Key!Put
    <3> QED
      BY <1>0, <2>2, <3>1
  <2> QED
    BY <2>1, <2>2 DEF Key!Resolve
<1>4. KeyType'
  BY <1>1, <1>3 DEF KeyInv, KeyType
<1>5. KeyLocked'
  <2>1. resolver' \in [Resolvers -> [stage : {"idle", "lock", "locked"}, key : KeyIds]]
    BY <1>1 DEF KeyInv, KeyLocked
  <2>2. \A q \in Resolvers : resolver'[q].stage # "locked"
    BY <1>0, <1>1 DEF KeyInv, KeyLocked
  <2> QED
    BY <1>0, <1>1, <2>1, <2>2 DEF KeyLocked
<1>6. KeyFresh'
  BY <1>1, <1>2, <1>3 DEF KeyInv, KeyFresh
<1>7. Key!KeysNeverOlder
  BY <1>3 DEF KeyInv, KeyType, Key!KeysNeverOlder
<1> QED
  BY <1>4, <1>5, <1>6, <1>7 DEF KeyInv

\* The updater's own steps.
LEMMA KeyUpdates ==
    ASSUME KeyInv, Key!Ticked \/ Key!UpdateStep,
           "updater" \notin Resolvers, "free" \notin Resolvers
    PROVE  KeyInv' /\ Key!KeysNeverOlder
<1>0. /\ rotation' = rotation /\ resolver' = resolver
  BY DEF Key!Ticked, Key!UpdateStep, Key!LockUpdate, Key!RefreshKey, Key!StoreKeys, Key!UpdaterEnds
<1>1. CASE Key!Ticked
  <2>1. /\ updater = "select" /\ updater' \in {"lock", "select"}
        /\ UNCHANGED <<pairs, keyLock>>
        /\ existing' = pairs /\ fresh' = Key!NoPairs
    BY <1>1 DEF Key!Ticked
  <2>2. KeyFresh'
    BY <2>1, NoPairsIs DEF KeyFresh
  <2>3. KeyType' /\ Key!KeysNeverOlder
    BY <1>0, <2>1 DEF KeyInv, KeyType, Key!KeysNeverOlder
  <2> QED
    BY <1>0, <2>1, <2>2, <2>3 DEF KeyInv, KeyLocked
<1>2. CASE Key!LockUpdate
  <2>1. /\ keyLock = "free" /\ keyLock' = "updater" /\ updater' = "locked"
        /\ UNCHANGED <<pairs, existing, fresh>>
    BY <1>2 DEF Key!LockUpdate
  <2>2. \A r \in Resolvers : resolver[r].stage # "locked"
    BY <2>1 DEF KeyInv, KeyLocked
  <2> QED
    BY <1>0, <2>1, <2>2 DEF KeyInv, KeyType, KeyLocked, KeyFresh, Key!KeysNeverOlder
<1>3. ASSUME NEW k \in KeyIds, Key!RefreshKey(k)
      PROVE  KeyInv' /\ Key!KeysNeverOlder
  <2>1. updater = "locked" /\ UNCHANGED <<pairs, keyLock, updater, existing>>
    BY <1>3 DEF Key!RefreshKey
  <2>2. PICK v : fresh' = Key!Put(fresh, k, v)
                 /\ (v = rotation[k] \/ (k \in DOMAIN existing /\ v = existing[k]))
    BY <1>3 DEF Key!RefreshKey
  <2>3. v \in Nat /\ v <= rotation[k] /\ (k \in DOMAIN pairs => pairs[k] <= v)
    BY <2>2 DEF KeyInv, KeyType, KeyFresh
  <2>4. /\ DOMAIN fresh' = DOMAIN fresh \cup {k} /\ fresh'[k] = v
        /\ \A j \in DOMAIN fresh : j # k => fresh'[j] = fresh[j]
    BY <2>2 DEF Key!Put
  <2>5. KeyFresh'
    BY <1>0, <2>1, <2>3, <2>4 DEF KeyInv, KeyFresh
  <2> QED
    BY <1>0, <2>1, <2>5 DEF KeyInv, KeyType, KeyLocked, Key!KeysNeverOlder
<1>4. CASE Key!StoreKeys
  <2>1. /\ updater = "locked" /\ keyLock' = "free" /\ updater' = "select"
        /\ existing' = Key!NoPairs /\ fresh' = Key!NoPairs
        /\ pairs' = fresh \/ pairs' = pairs
    BY <1>4 DEF Key!StoreKeys
  <2>2. KeyLocked'
    BY <1>0, <2>1 DEF KeyInv, KeyLocked
  <2>3. KeyType' /\ Key!KeysNeverOlder
    BY <1>0, <2>1 DEF KeyInv, KeyType, KeyFresh, Key!KeysNeverOlder
  <2>4. KeyFresh'
    BY <2>1, NoPairsIs DEF KeyFresh
  <2> QED
    BY <2>2, <2>3, <2>4 DEF KeyInv
<1>5. CASE Key!UpdaterEnds
  <2>1. updater = "select" /\ updater' = "gone" /\ UNCHANGED <<pairs, keyLock, existing, fresh>>
    BY <1>5 DEF Key!UpdaterEnds
  <2> QED
    BY <1>0, <2>1 DEF KeyInv, KeyType, KeyLocked, KeyFresh, Key!KeysNeverOlder
<1> QED
  BY <1>1, <1>2, <1>3, <1>4, <1>5 DEF Key!UpdateStep

LEMMA KeyStep ==
    ASSUME KeyInv, [Key!Next]_(Key!vars), "updater" \notin Resolvers, "free" \notin Resolvers
    PROVE  KeyInv' /\ Key!KeysNeverOlder
<1>1. ASSUME NEW k \in KeyIds, Key!Rotate(k) PROVE KeyInv' /\ Key!KeysNeverOlder
  BY <1>1, KeyRotates DEF KeyInv, KeyType, Key!KeysNeverOlder
<1>2. ASSUME NEW r \in Resolvers, NEW k \in KeyIds, Key!Miss(r, k)
      PROVE  KeyInv' /\ Key!KeysNeverOlder
  <2>1. /\ UNCHANGED <<rotation, pairs, keyLock, updater, existing, fresh>>
        /\ resolver' = [resolver EXCEPT ![r] = [stage |-> "lock", key |-> k]]
    BY <1>2 DEF Key!Miss, Key!updaterVars
  <2> QED
    BY <2>1 DEF KeyInv, KeyType, KeyLocked, KeyFresh, Key!KeysNeverOlder
<1>3. ASSUME NEW r \in Resolvers, Key!LockKey(r) PROVE KeyInv' /\ Key!KeysNeverOlder
  <2>1. /\ UNCHANGED <<rotation, pairs, updater, existing, fresh>>
        /\ keyLock = "free" /\ keyLock' = r
        /\ resolver' = [resolver EXCEPT ![r].stage = "locked"]
    BY <1>3 DEF Key!LockKey, Key!updaterVars
  <2>2. \A q \in Resolvers : resolver[q].stage # "locked"
    BY <2>1 DEF KeyInv, KeyLocked
  <2>3. KeyLocked'
    BY <2>1, <2>2 DEF KeyInv, KeyLocked
  <2> QED
    BY <2>1, <2>3 DEF KeyInv, KeyType, KeyFresh, Key!KeysNeverOlder
<1>4. CASE Key!CloseShutdown \/ UNCHANGED Key!vars
  <2>1. UNCHANGED <<rotation, pairs, keyLock, resolver, updater, existing, fresh>>
    BY <1>4 DEF Key!CloseShutdown, Key!updaterVars, Key!vars
  <2> QED
    BY <2>1 DEF KeyInv, KeyType, KeyLocked, KeyFresh, Key!KeysNeverOlder
<1> QED
  BY <1>1, <1>2, <1>3, <1>4, KeyResolves, KeyUpdates DEF Key!Next, Key!ResolveStep

LEMMA KeyInit == Key!Init /\ KeyIds # {} => KeyInv
  BY NoPairsIs DEF Key!Init, KeyInv, KeyType, KeyLocked, KeyFresh

-----------------------------------------------------------------------------
(* A device's metadata.                                                    *)

CONSTANTS Handlers, Refresh, MaxNow, MaxFrames, Writers, Sessions
VARIABLES now, cacheBytes, cacheExpiry, handler, served, refreshes, statistics, pump, snapshot,
          data, copy, onceDone

View == INSTANCE DeviceViews WITH updates <- refreshes

Doing(w) == copy[w].stage
Chosen(w) == copy[w].map.session
Keeping == {"session", "claims", "other"}

MetadataShape ==
    /\ DOMAIN data = Keeping
    /\ DOMAIN copy = Writers
    /\ \A w \in Writers : DOMAIN copy[w] = {"stage", "map"} /\ DOMAIN copy[w].map = Keeping

\* One writer at most is setting the session.
OneSetter ==
    \A w \in Writers : Doing(w) = "session" =>
      onceDone = "running" /\ \A v \in Writers : Doing(v) = "session" => v = w

\* Until it has done so there is none, in the metadata or in a copy;
\* afterwards there is only the one.
SessionAgreed ==
    /\ onceDone # "done" => /\ data.session = View!None
                            /\ \A w \in Writers : Chosen(w) = View!None
    /\ \A w \in Writers : Chosen(w) # View!None =>
         /\ data.session # View!None => Chosen(w) = data.session
         /\ \A v \in Writers : Chosen(v) # View!None => Chosen(w) = Chosen(v)

MetadataInv == MetadataShape /\ OneSetter /\ SessionAgreed

\* A writer loads the metadata, and perhaps begins to set the session.
LEMMA MetadataLoads ==
    ASSUME MetadataInv, NEW w \in Writers, NEW stage \in Keeping,
           copy[w].stage = "new", View!LoadCopy(w, stage), data' = data,
           \/ stage = "session" /\ onceDone = View!None /\ onceDone' = "running"
           \/ stage # "session" /\ onceDone' = onceDone
    PROVE  MetadataInv'
<1>1. /\ DOMAIN copy' = Writers
      /\ copy'[w] = [stage |-> stage, map |-> data]
      /\ \A v \in Writers : v # w => copy'[v] = copy[v]
  BY DEF MetadataInv, MetadataShape, View!LoadCopy
<1>2. /\ Doing(w)' = stage /\ Chosen(w)' = data.session
      /\ \A v \in Writers : v # w => Doing(v)' = Doing(v) /\ Chosen(v)' = Chosen(v)
  BY <1>1 DEF Doing, Chosen
<1>3. MetadataShape'
  BY <1>1 DEF MetadataInv, MetadataShape
<1>4. OneSetter'
  BY <1>2 DEF MetadataInv, OneSetter, View!None
<1>5. onceDone # "done" => onceDone' # "done"
  BY DEF View!None
<1>6. onceDone' # "done" => onceDone # "done"
  BY DEF View!None
<1>7. SessionAgreed'
  BY <1>2, <1>5, <1>6 DEF MetadataInv, SessionAgreed
<1> QED
  BY <1>3, <1>4, <1>7 DEF MetadataInv

\* A writer that has set its copy is done with it.
LEMMA MetadataEnds ==
    ASSUME MetadataShape, NEW w \in Writers, copy' = [copy EXCEPT ![w].stage = "done"],
           DOMAIN data' = Keeping
    PROVE  /\ MetadataShape'
           /\ Doing(w)' = "done"
           /\ \A v \in Writers : v # w => Doing(v)' = Doing(v)
           /\ \A v \in Writers : Chosen(v)' = Chosen(v)
<1>1. /\ DOMAIN copy' = Writers
      /\ DOMAIN copy'[w] = {"stage", "map"} /\ copy'[w].stage = "done"
      /\ copy'[w].map = copy[w].map
      /\ \A v \in Writers : v # w => copy'[v] = copy[v]
  BY DEF MetadataShape
<1>2. MetadataShape'
  BY <1>1 DEF MetadataShape
<1> QED
  BY <1>1, <1>2 DEF Doing, Chosen

\* A writer ends: with the session it may choose, or with the one it loaded.
LEMMA MetadataStores ==
    ASSUME MetadataInv, NEW w \in Writers, View!StoreData(w)
    PROVE  MetadataInv' /\ View!OneSession
<1>1. copy' = [copy EXCEPT ![w].stage = "done"]
  BY DEF View!StoreData
<1>2. CASE Doing(w) = "session"
  <2>1. /\ onceDone = "running" /\ data.session = View!None
        /\ \A v \in Writers : Chosen(v) = View!None
    BY <1>2 DEF MetadataInv, OneSetter, SessionAgreed
  <2>2. onceDone' = "done" /\ DOMAIN data' = Keeping
    BY <1>2 DEF View!StoreData, MetadataInv, MetadataShape, Doing
  <2>3. /\ MetadataShape'
        /\ Doing(w)' = "done" /\ \A v \in Writers : v # w => Doing(v)' = Doing(v)
        /\ \A v \in Writers : Chosen(v)' = Chosen(v)
    BY <1>1, <2>2, MetadataEnds DEF MetadataInv
  <2>4. OneSetter'
    BY <1>2, <2>3 DEF MetadataInv, OneSetter
  <2>5. SessionAgreed' /\ View!OneSession
    BY <2>1, <2>2, <2>3 DEF SessionAgreed, View!OneSession
  <2> QED
    BY <2>3, <2>4, <2>5 DEF MetadataInv
<1>3. CASE Doing(w) \in {"claims", "other"}
  <2>1. onceDone' = onceDone /\ DOMAIN data' = Keeping /\ data'.session = Chosen(w)
    BY <1>3 DEF View!StoreData, MetadataInv, MetadataShape, Doing, Chosen, Keeping
  <2>2. /\ MetadataShape'
        /\ Doing(w)' = "done" /\ \A v \in Writers : v # w => Doing(v)' = Doing(v)
        /\ \A v \in Writers : Chosen(v)' = Chosen(v)
    BY <1>1, <2>1, MetadataEnds DEF MetadataInv
  <2>3. OneSetter'
    BY <2>1, <2>2 DEF MetadataInv, OneSetter
  <2>4. SessionAgreed' /\ View!OneSession
    BY <2>1, <2>2 DEF MetadataInv, SessionAgreed, View!OneSession
  <2> QED
    BY <2>2, <2>3, <2>4 DEF MetadataInv
<1> QED
  BY <1>2, <1>3 DEF View!StoreData, Doing

LEMMA MetadataStep ==
    ASSUME MetadataInv, [View!MetaNext]_(View!metaVars)
    PROVE  MetadataInv' /\ View!OneSession
<1>1. ASSUME NEW w \in Writers, View!SetSessionID(w) \/ View!SetClaims(w) \/ View!StoreKey(w)
      PROVE  MetadataInv' /\ View!OneSession
  BY <1>1, MetadataLoads
     DEF View!SetSessionID, View!SetClaims, View!StoreKey, View!OneSession, Keeping
<1>2. ASSUME NEW w \in Writers, View!Ignored(w) PROVE MetadataInv' /\ View!OneSession
  <2>1. /\ UNCHANGED <<data, onceDone>> /\ copy[w].stage = "new"
        /\ copy' = [copy EXCEPT ![w].stage = "done"]
    BY <1>2 DEF View!Ignored
  <2>2. /\ MetadataShape'
        /\ Doing(w)' = "done" /\ \A v \in Writers : v # w => Doing(v)' = Doing(v)
        /\ \A v \in Writers : Chosen(v)' = Chosen(v)
    BY <2>1, MetadataEnds DEF MetadataInv, MetadataShape
  <2>3. OneSetter'
    BY <2>1, <2>2 DEF MetadataInv, OneSetter
  <2>4. SessionAgreed' /\ View!OneSession
    BY <2>1, <2>2 DEF MetadataInv, SessionAgreed, View!OneSession
  <2> QED
    BY <2>2, <2>3, <2>4 DEF MetadataInv
<1>3. CASE UNCHANGED View!metaVars
  BY <1>3 DEF View!metaVars, MetadataInv, MetadataShape, OneSetter, SessionAgreed, Doing, Chosen,
              View!OneSession
<1> QED
  BY <1>1, <1>2, <1>3, MetadataStores DEF View!MetaNext

LEMMA MetadataInit == View!Init => MetadataInv
<1> SUFFICES ASSUME View!Init PROVE MetadataInv
  OBVIOUS
<1>1. MetadataShape
  BY DEF View!Init, View!Blank, MetadataShape, Keeping
<1>2. OneSetter
  BY DEF View!Init, View!Blank, OneSetter, Doing
<1>3. SessionAgreed
  BY DEF View!Init, View!Blank, SessionAgreed, Chosen
<1> QED
  BY <1>1, <1>2, <1>3 DEF MetadataInv

LEMMA MetadataOnly == [View!Next]_(View!vars) => [View!MetaNext]_(View!metaVars)
  BY DEF View!Next, View!vars, View!ListNext, View!StatNext, View!ListTick, View!TryCache,
         View!UpdateCache, View!WriteList, View!MarshalJSON, View!WritePreparedMessage,
         View!AddBytes, View!AddMessages

-----------------------------------------------------------------------------
(* The cache of store, and the three together.                             *)

CONSTANTS Loaders, Period, MaxTime, MaxVersion, Clients, InitialSize, MaxSize, MaxObjects
VARIABLES clock, version, entry, updateLock, loader, objects, created, has

Cac == INSTANCE Cache

\* What is cached was current when it was stored, and versions only grow.
EntryInv ==
    /\ version \in Nat /\ DOMAIN entry = {"value", "expiry"}
    /\ entry.value \in Nat /\ entry.value <= version

LEMMA EntryStep ==
    ASSUME EntryInv, [Cac!Next]_(Cac!vars)
    PROVE  EntryInv' /\ Cac!CacheNeverOlder
<1>1. CASE Cac!SourceChanges
  BY <1>1 DEF Cac!SourceChanges, EntryInv, Cac!CacheNeverOlder
<1>2. ASSUME NEW l \in Loaders, Cac!Loaded(l) PROVE EntryInv' /\ Cac!CacheNeverOlder
  <2>1. version' = version /\ (entry' = entry \/ Cac!Store(l, version))
    BY <1>2 DEF Cac!Loaded, Cac!Return
  <2> QED
    BY <2>1 DEF Cac!Store, EntryInv, Cac!CacheNeverOlder
<1>3. ASSUME NEW l \in Loaders, Cac!LoadFails(l) PROVE EntryInv' /\ Cac!CacheNeverOlder
  <2>1. /\ version' = version
        /\ entry' = entry \/ entry' = [entry EXCEPT !.expiry = loader[l].now + Period]
    BY <1>3 DEF Cac!LoadFails, Cac!Return
  <2>2. DOMAIN entry' = {"value", "expiry"} /\ entry'.value = entry.value
    BY <2>1 DEF EntryInv
  <2> QED
    BY <2>1, <2>2 DEF EntryInv, Cac!CacheNeverOlder
<1>4. ASSUME UNCHANGED <<version, entry>> PROVE EntryInv' /\ Cac!CacheNeverOlder
  BY <1>4 DEF EntryInv, Cac!CacheNeverOlder
<1> QED
  BY <1>1, <1>2, <1>3, <1>4, Zenon
     DEF Cac!Next, Cac!CacheNext, Cac!PoolNext, Cac!CacheStep, Cac!Tick, Cac!Start, Cac!Fast,
         Cac!Lock, Cac!Finish, Cac!Get, Cac!Wait, Cac!WaitEnds, Cac!GetOrNew, Cac!Put,
         Cac!vars, Cac!cacheVars

LEMMA EntryInit == Cac!Init => EntryInv
  BY DEF Cac!Init, EntryInv

\* NeverOlder of MCLibrary.
NeverOlder ==
    [][/\ Cac!CacheNeverOlder
       /\ Key!KeysNeverOlder
       /\ View!OneSession]_<<Cac!vars, Key!vars, View!vars>>

\* For any number of goroutines, keys and versions: no step of the cache, of
\* the key cache or of a device's metadata replaces what is there by something
\* older, or a session by another one.
THEOREM LibraryNeverOlder ==
    ASSUME "updater" \notin Resolvers, "free" \notin Resolvers, KeyIds # {}
    PROVE  /\ Cac!Init /\ [][Cac!Next]_(Cac!vars)
           /\ Key!Init /\ [][Key!Next]_(Key!vars)
           /\ View!Init /\ [][View!Next]_(View!vars)
           => NeverOlder
<1>1. Key!Init => KeyInv
  BY KeyInit
<1>2. EntryInv /\ [Cac!Next]_(Cac!vars) => EntryInv' /\ Cac!CacheNeverOlder
  BY EntryStep
<1>3. KeyInv /\ [Key!Next]_(Key!vars) => KeyInv' /\ Key!KeysNeverOlder
  BY KeyStep
<1>4. MetadataInv /\ [View!Next]_(View!vars) => MetadataInv' /\ View!OneSession
  BY MetadataStep, MetadataOnly
<1> QED
  BY <1>1, <1>2, <1>3, <1>4, EntryInit, MetadataInit, PTL DEF NeverOlder
=============================================================================
