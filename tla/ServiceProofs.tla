--------------------------- MODULE ServiceProofs ----------------------------
(***************************************************************************)
(* Theorems about service discovery, for every value of the constants: the *)
(* events of a monitor, the environment's instancers and the registration  *)
(* bound to it.  Each theorem is about one instance: a variable that several *)
(* modules declare is that of the instance.  The part that needs theorems  *)
(* about finite sets comes last.                                           *)
(***************************************************************************)
EXTENDS Integers, Sequences, FiniteSets, TLAPS

-----------------------------------------------------------------------------
(* Discovery.                                                              *)

CONSTANTS Watches, Snapshots, Normal, Invalid, ChanSize, MaxChanges, MaxErrors
VARIABLES
    catalog, changes, errors, loop, answer, state, stop, registered, events, goroutine, accessor,
    stopped, closing, closed

D == INSTANCE Discovery

\* What Tail leaves.
LEMMA TailLast ==
    ASSUME NEW S, NEW s \in Seq(S), s # <<>>
    PROVE  IF Len(s) = 1 THEN Tail(s) = <<>> /\ Head(s) = s[Len(s)]
           ELSE Tail(s) # <<>> /\ Tail(s)[Len(Tail(s))] = s[Len(s)]
<1>1. Len(s) \in Nat /\ Len(s) # 0 /\ Head(s) = s[1]
  OBVIOUS
<1>2. /\ Tail(s) \in Seq(S) /\ Len(Tail(s)) = Len(s) - 1
      /\ \A i \in 1..(Len(s) - 1) : Tail(s)[i] = s[i + 1]
  OBVIOUS
<1>3. ASSUME NEW t \in Seq(S) PROVE t = <<>> <=> Len(t) = 0
  OBVIOUS
<1>4. Tail(s) = <<>> <=> Len(s) = 1
  BY <1>1, <1>2, <1>3
<1>5. ASSUME NEW m \in Nat, m # 0, m # 1 PROVE m - 1 \in 1..(m - 1) /\ (m - 1) + 1 = m
  BY <1>5
<1>6. Len(s) # 1 => Tail(s)[Len(s) - 1] = s[(Len(s) - 1) + 1]
  BY <1>1, <1>2, <1>5
<1> QED
  BY <1>1, <1>2, <1>4, <1>5, <1>6

DiscoveryType ==
    /\ loop \in [Watches -> {"query", "update", "send", "stopped"}]
    /\ state \in [Watches -> D!Raw] /\ answer \in [Watches -> D!Raw]
    /\ registered \in [Watches -> BOOLEAN]
    /\ events \in [Watches -> Seq(D!Raw)]
    /\ goroutine \in [Watches -> {"register", "select", "deregister", "done"}]
    /\ DOMAIN accessor = Watches
    /\ catalog \in [Watches -> Snapshots]

LEMMA DiscoveryTypeStep == DiscoveryType /\ [D!Next]_(D!vars) => DiscoveryType'
<1> SUFFICES ASSUME DiscoveryType, [D!Next]_(D!vars) PROVE DiscoveryType'
  OBVIOUS
<1>0. ASSUME NEW s \in Snapshots PROVE D!Found(s) \in D!Raw
  BY DEF D!Raw
<1>1. ASSUME NEW w \in Watches, D!CatalogChanges(w) PROVE DiscoveryType'
  BY <1>1 DEF D!CatalogChanges, D!instancerVars, D!monitorVars, DiscoveryType
<1>2. ASSUME NEW w \in Watches, D!QueryAnswered(w) \/ D!QueryFails(w) \/ D!QueryStopped(w)
      PROVE  DiscoveryType'
  <2>1. answer' \in [Watches -> D!Raw]
    BY <1>0, <1>2 DEF D!QueryAnswered, D!QueryFails, D!QueryStopped, DiscoveryType, D!Raw
  <2> QED
    BY <1>2, <2>1 DEF D!QueryAnswered, D!QueryFails, D!QueryStopped, D!monitorVars, D!consulVars,
       DiscoveryType
<1>3. ASSUME NEW w \in Watches, D!Update(w) PROVE DiscoveryType'
  <2>1. /\ loop' \in [Watches -> {"query", "update", "send", "stopped"}]
        /\ state' \in [Watches -> D!Raw]
    <3>1. /\ loop \in [Watches -> {"query", "update", "send", "stopped"}]
          /\ state \in [Watches -> D!Raw] /\ answer \in [Watches -> D!Raw]
      BY DEF DiscoveryType
    <3>2. CASE answer[w] = state[w]
      BY <1>3, <3>1, <3>2 DEF D!Update
    <3>3. CASE answer[w] # state[w]
      BY <1>3, <3>1, <3>3 DEF D!Update
    <3> QED
      BY <3>2, <3>3
  <2> QED
    BY <1>3, <2>1 DEF D!Update, D!monitorVars, D!consulVars, DiscoveryType
<1>4. ASSUME NEW w \in Watches, D!Send(w) PROVE DiscoveryType'
  <2>1. events \in [Watches -> Seq(D!Raw)] /\ state[w] \in D!Raw
    BY DEF DiscoveryType
  <2>2. Append(events[w], state[w]) \in Seq(D!Raw)
    BY <2>1
  <2>3. events' \in [Watches -> Seq(D!Raw)]
    BY <1>4, <2>1, <2>2 DEF D!Send
  <2> QED
    BY <1>4, <2>3 DEF D!Send, D!monitorVars, D!consulVars, DiscoveryType
<1>5. ASSUME NEW w \in Watches, D!Register(w) \/ D!Deregister(w) PROVE DiscoveryType'
  <2>1. events' \in [Watches -> Seq(D!Raw)]
    <3>1. events \in [Watches -> Seq(D!Raw)] /\ state[w] \in D!Raw
      BY DEF DiscoveryType
    <3>2. <<state[w]>> \in Seq(D!Raw) /\ <<>> \in Seq(D!Raw)
      BY <3>1
    <3> QED
      BY <1>5, <3>1, <3>2, Zenon DEF D!Register, D!Deregister
  <2> QED
    BY <1>5, <2>1, Zenon DEF D!Register, D!Deregister, D!instancerVars, D!consulVars, DiscoveryType
<1>6. ASSUME NEW w \in Watches, D!Dispatch(w) PROVE DiscoveryType'
  <2>1. events' \in [Watches -> Seq(D!Raw)]
    BY <1>6 DEF D!Dispatch, DiscoveryType
  <2> QED
    BY <1>6, <2>1 DEF D!Dispatch, D!instancerVars, D!consulVars, DiscoveryType
<1>7. ASSUME NEW w \in Watches, D!Exit(w) PROVE DiscoveryType'
  BY <1>7 DEF D!Exit, D!instancerVars, D!consulVars, DiscoveryType
<1>8. CASE D!Stop \/ D!Close \/ D!CloseStep \/ UNCHANGED D!vars
  BY <1>8 DEF D!Stop, D!Close, D!CloseStep, D!CloseEnds, D!CloseStops, D!vars, D!instancerVars,
     D!monitorVars, D!consulVars, DiscoveryType
<1> QED
  BY <1>1, <1>2, <1>3, <1>4, <1>5, <1>6, <1>7, <1>8 DEF D!Next, D!InstancerStep, D!MonitorStep

\* LastEventIsState is inductive, for each watch on its own.
LastEvent(w) ==
    registered[w] /\ goroutine[w] = "select" /\ loop[w] # "send" =>
        IF events[w] = <<>> THEN accessor[w] = D!Seen(state[w])
        ELSE events[w][Len(events[w])] = state[w]

LEMMA LastEventStep ==
    ASSUME DiscoveryType, [D!Next]_(D!vars), NEW v \in Watches, LastEvent(v)
    PROVE  LastEvent(v)'
<1>y. /\ loop \in [Watches -> {"query", "update", "send", "stopped"}]
      /\ state \in [Watches -> D!Raw] /\ registered \in [Watches -> BOOLEAN]
      /\ events \in [Watches -> Seq(D!Raw)]
      /\ goroutine \in [Watches -> {"register", "select", "deregister", "done"}]
      /\ DOMAIN accessor = Watches
  BY DEF DiscoveryType

\* A step of another watch.
<1>0. ASSUME UNCHANGED <<loop[v], state[v], registered[v], events[v], goroutine[v], accessor[v]>>
      PROVE  LastEvent(v)'
  BY <1>0, Zenon DEF LastEvent
<1>1. ASSUME NEW w \in Watches, D!QueryAnswered(w) \/ D!QueryFails(w) \/ D!QueryStopped(w)
      PROVE  LastEvent(v)'
  <2>1. /\ UNCHANGED <<state, registered, events, goroutine, accessor>>
        /\ loop[w] = "query" /\ loop'[w] \in {"update", "stopped"}
        /\ \A u \in Watches \ {w} : loop'[u] = loop[u]
    BY <1>1, <1>y DEF D!QueryAnswered, D!QueryFails, D!QueryStopped, D!monitorVars
  <2> QED
    BY <2>1 DEF LastEvent
<1>2. ASSUME NEW w \in Watches, D!Update(w) PROVE LastEvent(v)'
  <2>1. UNCHANGED <<registered, events, goroutine, accessor>> /\ loop[w] = "update"
    BY <1>2 DEF D!Update, D!monitorVars
  <2>2. \A u \in Watches \ {w} : loop'[u] = loop[u] /\ state'[u] = state[u]
    BY <1>2, <1>y DEF D!Update
  <2>3. state'[w] = state[w] \/ ~registered[w] \/ loop'[w] = "send"
    BY <1>2, <1>y DEF D!Update
  <2> QED
    BY <2>1, <2>2, <2>3 DEF LastEvent
<1>3. ASSUME NEW w \in Watches, D!Send(w) PROVE LastEvent(v)'
  <2>1. /\ UNCHANGED <<state, registered, goroutine, accessor>>
        /\ events'[w] = Append(events[w], state[w])
        /\ \A u \in Watches \ {w} : loop'[u] = loop[u] /\ events'[u] = events[u]
    BY <1>3, <1>y DEF D!Send, D!monitorVars
  <2>2. events[w] \in Seq(D!Raw) /\ state[w] \in D!Raw
    BY <1>y
  <2>3. events'[w] # <<>> /\ events'[w][Len(events'[w])] = state[w]
    BY <2>1, <2>2
  <2> QED
    BY <2>1, <2>3 DEF LastEvent
<1>4. ASSUME NEW w \in Watches, D!Register(w) PROVE LastEvent(v)'
  <2>1. /\ UNCHANGED <<state, loop, accessor>> /\ events'[w] = <<state[w]>>
        /\ \A u \in Watches \ {w} : /\ registered'[u] = registered[u]
                                    /\ goroutine'[u] = goroutine[u] /\ events'[u] = events[u]
    BY <1>4, <1>y DEF D!Register, D!instancerVars
  <2>2. events'[w] # <<>> /\ events'[w][Len(events'[w])] = state[w]
    BY <2>1
  <2> QED
    BY <2>1, <2>2 DEF LastEvent
<1>5. ASSUME NEW w \in Watches, D!Deregister(w) \/ D!Exit(w) PROVE LastEvent(v)'
  <2>1. /\ UNCHANGED <<state, loop>> /\ goroutine'[w] \in {"deregister", "done"}
        /\ \A u \in Watches \ {w} :
              /\ registered'[u] = registered[u] /\ goroutine'[u] = goroutine[u]
              /\ events'[u] = events[u] /\ accessor'[u] = accessor[u]
    BY <1>5, <1>y DEF D!Deregister, D!Exit, D!instancerVars
  <2> QED
    BY <2>1 DEF LastEvent
<1>6. ASSUME NEW w \in Watches, D!Dispatch(w) PROVE LastEvent(v)'
  <2>1. /\ UNCHANGED <<state, loop, registered, goroutine>> /\ events[w] # <<>>
        /\ accessor'[w] = D!Seen(Head(events[w])) /\ events'[w] = Tail(events[w])
        /\ \A u \in Watches \ {w} : events'[u] = events[u] /\ accessor'[u] = accessor[u]
    BY <1>6, <1>y DEF D!Dispatch, D!instancerVars
  <2>2. events[w] \in Seq(D!Raw)
    BY <1>y
  <2>3. CASE Len(events[w]) = 1
    <3>1. events'[w] = <<>> /\ Head(events[w]) = events[w][Len(events[w])]
      BY <2>1, <2>2, <2>3, TailLast
    <3> QED
      BY <2>1, <3>1 DEF LastEvent
  <2>4. CASE Len(events[w]) # 1
    <3>1. events'[w] # <<>> /\ events'[w][Len(events'[w])] = events[w][Len(events[w])]
      BY <2>1, <2>2, <2>4, TailLast
    <3> QED
      BY <2>1, <3>1, Zenon DEF LastEvent
  <2> QED
    BY <2>3, <2>4
<1>7. CASE (\E w \in Watches : D!CatalogChanges(w)) \/ D!Stop \/ D!Close \/ D!CloseStep
           \/ UNCHANGED D!vars
  <2>1. UNCHANGED <<loop, state, registered, events, goroutine, accessor>>
    BY <1>7 DEF D!CatalogChanges, D!Stop, D!Close, D!CloseStep, D!CloseEnds, D!CloseStops, D!vars,
       D!instancerVars, D!monitorVars
  <2> QED
    BY <2>1 DEF LastEvent
<1> QED
  BY <1>1, <1>2, <1>3, <1>4, <1>5, <1>6, <1>7 DEF D!Next, D!InstancerStep, D!MonitorStep

\* What a subscriber of a consul instancer has last got, or has in its channel,
\* is the instancer's state, for any number of watches and any channel size.
THEOREM DiscoveryLastEventIsState == D!FairSpec => []D!LastEventIsState
<1> DEFINE Inv == DiscoveryType /\ \A w \in Watches : LastEvent(w)
<1>1. D!Init => Inv
  <2> SUFFICES ASSUME D!Init PROVE Inv
    OBVIOUS
  <2>1. DiscoveryType
    BY DEF D!Init, DiscoveryType
  <2> QED
    BY <2>1 DEF D!Init, LastEvent
<1>2. Inv /\ [D!Next]_(D!vars) => Inv'
  BY DiscoveryTypeStep, LastEventStep
<1>3. Inv => D!LastEventIsState
  BY DEF D!LastEventIsState, LastEvent
<1> QED
  BY <1>1, <1>2, <1>3, PTL DEF D!FairSpec

-----------------------------------------------------------------------------
(* The environment's instancers.                                           *)

CONSTANTS Datacenters, CrossWatches, LocalWatches, MaxInstancers
VARIABLES
    known, items, listening, inactive, instancers, made, stops, watcher, todo, keys, present,
    toAdd, visited

E == INSTANCE Environment

EnvironmentType ==
    /\ made \in 0..MaxInstancers
    /\ instancers \in [E!Keys -> 0..made] /\ present \in [E!Keys -> 0..made]
    /\ toAdd \in [E!Keys -> 0..made]
    /\ stops \in [1..MaxInstancers -> 0..2]
    /\ known \subseteq Datacenters /\ todo \subseteq CrossWatches \X Datacenters

HeldBy(k, i) == instancers[k] = i \/ toAdd[k] = i

\* Until Close: those held run and those not held do not, no two keys hold the
\* same one, and what is about to be added has a free place under a key seen.
EnvironmentInv ==
    \/ closing
    \/ /\ \A i \in 1..MaxInstancers : stops[i] = 0 <=> (i > made \/ \E k \in E!Keys : HeldBy(k, i))
       /\ \A j, k \in E!Keys :
            /\ instancers[j] = instancers[k] /\ instancers[k] # 0 => j = k
            /\ toAdd[j] = toAdd[k] /\ toAdd[k] # 0 => j = k
            /\ instancers[j] = toAdd[k] => toAdd[k] = 0
       /\ \A k \in E!Keys : toAdd[k] # 0 => instancers[k] = 0 /\ k \in keys /\ k \notin todo
       /\ watcher = "build" => present = instancers
       /\ watcher \in {"select", "done"} => \A k \in E!Keys : toAdd[k] = 0

LEMMA EnvironmentTypeStep ==
    ASSUME MaxInstancers \in Nat, EnvironmentType, [E!Next]_(E!vars) PROVE EnvironmentType'
<1>y. /\ made \in 0..MaxInstancers /\ instancers \in [E!Keys -> 0..made]
      /\ present \in [E!Keys -> 0..made] /\ toAdd \in [E!Keys -> 0..made]
      /\ stops \in [1..MaxInstancers -> 0..2]
      /\ known \subseteq Datacenters /\ todo \subseteq CrossWatches \X Datacenters
  BY DEF EnvironmentType
<1>n. E!None \in [E!Keys -> 0..made] /\ 0 \in 0..made
  BY <1>y DEF E!None, E!NoInstancer
<1>s. ASSUME NEW i \in 1..MaxInstancers PROVE E!StopOf(i) \in 0..2
  <2>1. stops[i] \in 0..2
    BY <1>y, <1>s
  <2>2. ASSUME NEW m \in 0..2 PROVE (IF m < 2 THEN m + 1 ELSE 2) \in 0..2
    BY <2>2
  <2> QED
    BY <2>1, <2>2 DEF E!StopOf
<1>1. CASE E!Tick
  <2>1. UNCHANGED <<made, instancers, stops, known>> /\ present' = instancers /\ toAdd' = E!None
        /\ todo' = CrossWatches \X known
    BY <1>1 DEF E!Tick, E!sourceVars
  <2>2. todo' \subseteq CrossWatches \X Datacenters
    BY <1>y, <2>1
  <2> QED
    BY <1>y, <1>n, <2>1, <2>2 DEF EnvironmentType
<1>2. ASSUME NEW k \in CrossWatches \X Datacenters, E!CreateNewInstancer(k) PROVE EnvironmentType'
  <2>1. /\ UNCHANGED <<instancers, present, stops, known>> /\ todo' = todo \ {k}
        /\ \/ UNCHANGED <<made, toAdd>>
           \/ made < MaxInstancers /\ made' = made + 1 /\ toAdd' = [toAdd EXCEPT ![k] = made + 1]
    BY <1>2 DEF E!CreateNewInstancer, E!sourceVars
  <2>2. made' \in 0..MaxInstancers /\ 0..made \subseteq 0..made' /\ made' \in 0..made'
    BY <1>y, <2>1
  <2>3. toAdd' \in [E!Keys -> 0..made']
    BY <1>y, <2>1, <2>2, Zenon
  <2>4. instancers \in [E!Keys -> 0..made'] /\ present \in [E!Keys -> 0..made']
    BY <1>y, <2>2, Zenon
  <2>5. todo' \subseteq CrossWatches \X Datacenters
    BY <1>y, <2>1
  <2> QED
    BY <1>y, <2>1, <2>2, <2>3, <2>4, <2>5 DEF EnvironmentType
<1>3. ASSUME NEW k \in CrossWatches \X Datacenters, E!AddInstancer(k) PROVE EnvironmentType'
  <2>1. /\ UNCHANGED <<made, present, stops, known, todo>>
        /\ instancers' = [instancers EXCEPT ![k] = toAdd[k]]
        /\ toAdd' = [toAdd EXCEPT ![k] = 0]
    BY <1>3 DEF E!AddInstancer, E!sourceVars, E!NoInstancer
  <2>2. k \in E!Keys
    BY DEF E!Keys
  <2>3. instancers' \in [E!Keys -> 0..made] /\ toAdd' \in [E!Keys -> 0..made]
    BY <1>y, <1>n, <2>1, <2>2
  <2> QED
    BY <1>y, <2>1, <2>3 DEF EnvironmentType
<1>4. CASE E!RemoveOutdated
  <2>1. /\ UNCHANGED <<made, known, todo, toAdd>> /\ present' = E!None
        /\ instancers' = [k \in E!Keys |-> IF k \in keys THEN instancers[k] ELSE 0]
        /\ stops' = [i \in 1..MaxInstancers |->
                       IF \E k \in E!Keys \ keys : instancers[k] = i THEN E!StopOf(i) ELSE stops[i]]
    BY <1>4 DEF E!RemoveOutdated, E!sourceVars, E!NoInstancer
  <2>2. instancers' \in [E!Keys -> 0..made]
    BY <1>y, <1>n, <2>1
  <2>3. stops' \in [1..MaxInstancers -> 0..2]
    BY <1>y, <1>s, <2>1
  <2> QED
    BY <1>y, <1>n, <2>1, <2>2, <2>3 DEF EnvironmentType
<1>5. ASSUME NEW k \in E!Keys, E!CloseStops(k) PROVE EnvironmentType'
  <2>1. /\ UNCHANGED <<made, instancers, present, toAdd, known, todo>> /\ instancers[k] # 0
        /\ stops' = [stops EXCEPT ![instancers[k]] = E!StopOf(instancers[k])]
    BY <1>5, Zenon DEF E!CloseStops, E!sourceVars, E!watcherVars, E!NoInstancer
  <2>2. instancers[k] \in 1..MaxInstancers
    BY <1>y, <2>1
  <2>3. stops' \in [1..MaxInstancers -> 0..2]
    BY <1>y, <1>s, <2>1, <2>2
  <2> QED
    BY <1>y, <2>1, <2>3 DEF EnvironmentType
<1>6. CASE E!DatacentersChange
  <2>1. UNCHANGED <<made, instancers, present, toAdd, stops, todo>>
    BY <1>6 DEF E!DatacentersChange, E!watcherVars
  <2>2. known' \subseteq Datacenters
    BY <1>y, <1>6 DEF E!DatacentersChange
  <2> QED
    BY <1>y, <2>1, <2>2 DEF EnvironmentType
<1>7. CASE UNCHANGED <<made, instancers, present, toAdd, stops, known, todo>>
  BY <1>y, <1>7 DEF EnvironmentType
<1>8. \/ E!Tick \/ E!RemoveOutdated \/ E!DatacentersChange
      \/ \E k \in CrossWatches \X Datacenters : E!CreateNewInstancer(k) \/ E!AddInstancer(k)
      \/ \E k \in E!Keys : E!CloseStops(k)
      \/ UNCHANGED <<made, instancers, present, toAdd, stops, known, todo>>
  BY DEF E!Next, E!PullStep, E!Pull, E!PullDeletes, E!WatcherStep, E!Built, E!WatcherExits,
         E!Close, E!CloseStep, E!CloseEnds, E!vars, E!sourceVars, E!watcherVars
<1> QED
  BY <1>1, <1>2, <1>3, <1>4, <1>5, <1>6, <1>7, <1>8

LEMMA CreateHolds ==
    ASSUME MaxInstancers \in Nat, EnvironmentType, EnvironmentInv, ~closing,
           NEW k \in CrossWatches \X Datacenters, E!CreateNewInstancer(k)
    PROVE  EnvironmentInv'
<1>y. /\ made \in 0..MaxInstancers /\ instancers \in [E!Keys -> 0..made]
      /\ toAdd \in [E!Keys -> 0..made] /\ k \in E!Keys
  BY DEF EnvironmentType, E!Keys
<1>1. /\ UNCHANGED <<instancers, present, stops, watcher>> /\ todo' = todo \ {k} /\ k \in todo
      /\ watcher = "build"
      /\ \/ UNCHANGED <<made, toAdd>> /\ keys \subseteq keys'
         \/ /\ present[k] = 0 /\ made < MaxInstancers /\ keys' = keys \cup {k}
            /\ made' = made + 1 /\ toAdd' = [toAdd EXCEPT ![k] = made + 1]
  BY DEF E!CreateNewInstancer, E!NoInstancer
<1>2. CASE UNCHANGED <<made, toAdd>> /\ keys \subseteq keys'
  BY <1>1, <1>2, Zenon DEF EnvironmentInv, HeldBy
<1>3. CASE /\ present[k] = 0 /\ made < MaxInstancers /\ keys' = keys \cup {k}
           /\ made' = made + 1 /\ toAdd' = [toAdd EXCEPT ![k] = made + 1]
  <2>1. instancers[k] = 0 /\ toAdd[k] = 0
    BY <1>y, <1>1, <1>3 DEF EnvironmentInv
  <2>2. toAdd'[k] = made + 1 /\ \A j \in E!Keys : j # k => toAdd'[j] = toAdd[j]
    BY <1>y, <1>3
  <2>3. \A j \in E!Keys : instancers[j] \in 0..made /\ toAdd[j] \in 0..made
    BY <1>y
  <2>4. ASSUME NEW i \in 1..MaxInstancers
        PROVE  stops'[i] = 0 <=> (i > made' \/ \E j \in E!Keys : HeldBy(j, i)')
    <3>1. stops[i] = 0 <=> (i > made \/ \E j \in E!Keys : HeldBy(j, i))
      BY DEF EnvironmentInv
    <3>2. CASE i = made + 1
      BY <1>y, <1>1, <2>2, <3>1, <3>2 DEF HeldBy
    <3>3. CASE i # made + 1
      <4>1. \A j \in E!Keys : HeldBy(j, i)' <=> HeldBy(j, i)
        BY <1>1, <2>1, <2>2, <3>3, Zenon DEF HeldBy
      <4>2. i > made' <=> i > made
        BY <1>y, <1>3, <3>3
      <4> QED
        BY <1>1, <3>1, <4>1, <4>2, Zenon
    <3> QED
      BY <3>2, <3>3
  <2>5. ASSUME NEW i \in E!Keys, NEW j \in E!Keys
        PROVE  /\ instancers'[i] = instancers'[j] /\ instancers'[j] # 0 => i = j
               /\ toAdd'[i] = toAdd'[j] /\ toAdd'[j] # 0 => i = j
               /\ instancers'[i] = toAdd'[j] => toAdd'[j] = 0
    <3>1. made + 1 \notin 0..made
      BY <1>y
    <3>2. toAdd[i] # made + 1 /\ toAdd[j] # made + 1 /\ instancers[i] # made + 1
      BY <2>3, <3>1
    <3>3. /\ instancers[i] = instancers[j] /\ instancers[j] # 0 => i = j
          /\ toAdd[i] = toAdd[j] /\ toAdd[j] # 0 => i = j
          /\ instancers[i] = toAdd[j] => toAdd[j] = 0
      BY Zenon DEF EnvironmentInv
    <3> QED
      BY <1>1, <2>2, <3>2, <3>3
  <2>6. \A j \in E!Keys : toAdd'[j] # 0 => instancers'[j] = 0 /\ j \in keys' /\ j \notin todo'
    BY <1>1, <1>3, <2>1, <2>2, Zenon DEF EnvironmentInv
  <2> QED
    BY <1>1, <2>4, <2>5, <2>6, Zenon DEF EnvironmentInv
<1> QED
  BY <1>1, <1>2, <1>3, Zenon

LEMMA AddHolds ==
    ASSUME EnvironmentType, EnvironmentInv, ~closing,
           NEW k \in CrossWatches \X Datacenters, E!AddInstancer(k)
    PROVE  EnvironmentInv'
<1>y. /\ instancers \in [E!Keys -> 0..made] /\ toAdd \in [E!Keys -> 0..made] /\ k \in E!Keys
  BY DEF EnvironmentType, E!Keys
<1>1. /\ UNCHANGED <<made, stops, watcher, todo, keys>> /\ watcher = "add" /\ toAdd[k] # 0
      /\ instancers' = [instancers EXCEPT ![k] = toAdd[k]] /\ toAdd' = [toAdd EXCEPT ![k] = 0]
  BY DEF E!AddInstancer, E!NoInstancer
<1>2. /\ instancers'[k] = toAdd[k] /\ toAdd'[k] = 0 /\ instancers[k] = 0
      /\ \A j \in E!Keys : j # k => instancers'[j] = instancers[j] /\ toAdd'[j] = toAdd[j]
  BY <1>y, <1>1 DEF EnvironmentInv
<1>3. ASSUME NEW i \in 1..MaxInstancers PROVE \A j \in E!Keys : HeldBy(j, i)' <=> HeldBy(j, i)
  BY <1>2, <1>3, Zenon DEF HeldBy
<1>4. ASSUME NEW i \in 1..MaxInstancers
      PROVE  stops'[i] = 0 <=> (i > made' \/ \E j \in E!Keys : HeldBy(j, i)')
  BY <1>1, <1>3 DEF EnvironmentInv
<1>5. \A i, j \in E!Keys :
        /\ instancers'[i] = instancers'[j] /\ instancers'[j] # 0 => i = j
        /\ toAdd'[i] = toAdd'[j] /\ toAdd'[j] # 0 => i = j
        /\ instancers'[i] = toAdd'[j] => toAdd'[j] = 0
  BY <1>1, <1>2 DEF EnvironmentInv
<1>6. \A j \in E!Keys : toAdd'[j] # 0 => instancers'[j] = 0 /\ j \in keys' /\ j \notin todo'
  BY <1>1, <1>2 DEF EnvironmentInv
<1> QED
  BY <1>1, <1>4, <1>5, <1>6 DEF EnvironmentInv

LEMMA RemoveHolds ==
    ASSUME MaxInstancers \in Nat, EnvironmentType, EnvironmentInv, ~closing, E!RemoveOutdated
    PROVE  EnvironmentInv'
<1>y. /\ made \in 0..MaxInstancers /\ instancers \in [E!Keys -> 0..made]
      /\ stops \in [1..MaxInstancers -> 0..2]
  BY DEF EnvironmentType
<1>1. /\ UNCHANGED <<made, todo, toAdd>> /\ watcher' = "select" /\ toAdd = E!None
      /\ instancers' = [k \in E!Keys |-> IF k \in keys THEN instancers[k] ELSE 0]
      /\ stops' = [i \in 1..MaxInstancers |->
                     IF \E k \in E!Keys \ keys : instancers[k] = i THEN E!StopOf(i) ELSE stops[i]]
  BY DEF E!RemoveOutdated, E!NoInstancer
<1>2. \A k \in E!Keys : toAdd[k] = 0
  BY <1>1 DEF E!None, E!NoInstancer
<1>3. \A k \in E!Keys : instancers'[k] = IF k \in keys THEN instancers[k] ELSE 0
  BY <1>1
<1>4. ASSUME NEW i \in 1..MaxInstancers
      PROVE  stops'[i] = 0 <=> (i > made' \/ \E k \in E!Keys : HeldBy(k, i)')
  <2>1. stops[i] = 0 <=> (i > made \/ \E k \in E!Keys : HeldBy(k, i))
    BY DEF EnvironmentInv
  <2>2. \A k \in E!Keys : (HeldBy(k, i)' <=> k \in keys /\ instancers[k] = i)
                          /\ (HeldBy(k, i) <=> instancers[k] = i)
    BY <1>1, <1>2, <1>3 DEF HeldBy
  <2>3. CASE \E k \in E!Keys \ keys : instancers[k] = i
    <3>1. stops'[i] # 0
      BY <1>y, <1>1, <2>3 DEF E!StopOf
    <3>2. i <= made
      BY <1>y, <2>3
    <3>3. \A k \in E!Keys : ~HeldBy(k, i)'
      BY <2>2, <2>3 DEF EnvironmentInv
    <3> QED
      BY <1>y, <1>1, <3>1, <3>2, <3>3
  <2>4. CASE ~\E k \in E!Keys \ keys : instancers[k] = i
    <3>1. stops'[i] = stops[i]
      BY <1>1, <2>4
    <3> QED
      BY <1>1, <2>1, <2>2, <2>4, <3>1
  <2> QED
    BY <2>3, <2>4
<1>5. \A i, j \in E!Keys :
        /\ instancers'[i] = instancers'[j] /\ instancers'[j] # 0 => i = j
        /\ toAdd'[i] = toAdd'[j] /\ toAdd'[j] # 0 => i = j
        /\ instancers'[i] = toAdd'[j] => toAdd'[j] = 0
  BY <1>1, <1>2, <1>3 DEF EnvironmentInv
<1> QED
  BY <1>1, <1>2, <1>4, <1>5, Zenon DEF EnvironmentInv

LEMMA EnvironmentStep ==
    ASSUME MaxInstancers \in Nat, EnvironmentType, EnvironmentInv, [E!Next]_(E!vars)
    PROVE  EnvironmentInv'
<1>1. CASE closing'
  BY <1>1, Zenon DEF EnvironmentInv
<1>2. CASE closing /\ ~closing'
  BY <1>2, Zenon DEF E!Next, E!DatacentersChange, E!PullStep, E!Pull, E!PullDeletes,
         E!WatcherStep, E!Tick, E!Built, E!CreateNewInstancer, E!AddInstancer, E!RemoveOutdated,
         E!WatcherExits, E!Close,
         E!CloseStep, E!CloseStops, E!CloseEnds, E!vars, E!closeVars
<1>3. CASE ~closing /\ ~closing'
  <2>1. CASE E!Tick
    <3>1. /\ UNCHANGED <<made, instancers, stops>> /\ watcher = "select" /\ watcher' = "build"
          /\ present' = instancers /\ toAdd' = E!None
      BY <2>1 DEF E!Tick
    <3>2. \A k \in E!Keys : toAdd[k] = 0 /\ toAdd'[k] = 0
      BY <1>3, <3>1 DEF EnvironmentInv, E!None, E!NoInstancer
    <3>3. \A i : \A k \in E!Keys : HeldBy(k, i)' <=> HeldBy(k, i)
      BY <3>1, <3>2 DEF HeldBy
    <3> QED
      BY <1>3, <3>1, <3>2, <3>3, Zenon DEF EnvironmentInv
  <2>2. CASE E!Built \/ E!WatcherExits
    <3>1. /\ UNCHANGED <<made, instancers, stops, todo, keys, present, toAdd>>
          /\ watcher' = "add" \/ (watcher = "select" /\ watcher' = "done")
      BY <2>2 DEF E!Built, E!WatcherExits
    <3> QED
      BY <1>3, <3>1 DEF EnvironmentInv, HeldBy
  <2>3. CASE UNCHANGED <<made, instancers, stops, watcher, todo, keys, present, toAdd>>
    BY <1>3, <2>3 DEF EnvironmentInv, HeldBy
  <2>4. \/ E!Tick \/ E!RemoveOutdated \/ E!Built \/ E!WatcherExits
        \/ \E k \in CrossWatches \X Datacenters : E!CreateNewInstancer(k) \/ E!AddInstancer(k)
        \/ UNCHANGED <<made, instancers, stops, watcher, todo, keys, present, toAdd>>
    BY <1>3, Zenon DEF E!Next, E!DatacentersChange, E!PullStep, E!Pull, E!PullDeletes,
           E!WatcherStep, E!Close, E!CloseStep, E!CloseStops, E!CloseEnds, E!vars, E!sourceVars,
           E!watcherVars
  <2> QED
    BY <1>3, <2>1, <2>2, <2>3, <2>4, CreateHolds, AddHolds, RemoveHolds
<1> QED
  BY <1>1, <1>2, <1>3

-----------------------------------------------------------------------------
(* Registration.                                                           *)

CONSTANTS Checks, InitiallyRegistered, MaxEvents
VARIABLES
    listener, eventCount, shutdown, shut, updaters, consul, status, environment

R == INSTANCE Registration

\* The shutdown channel of the registration in force is open, and belongs to
\* one goroutine of each check; those of earlier registrations are closed.
RegistrarInv ==
    /\ made \in Nat /\ shutdown \in 0..made /\ shut \subseteq 1..made
    /\ updaters \subseteq [check : Checks, channel : 1..made]
    /\ shutdown \notin shut
    /\ consul \in BOOLEAN /\ (consul <=> shutdown # 0)
    /\ \A u \in updaters : u.channel \in shut \/ u.channel = shutdown
    /\ shutdown # 0 => \A c \in Checks : [check |-> c, channel |-> shutdown] \in updaters

\* Where the one listener is, against its state and what consul knows.
ListenerInv(w) ==
    /\ listener \in [{w} -> {"idle", "register", "deregister", "stop", "done"}]
    /\ state \in BOOLEAN
    /\ environment = "open" =>
         /\ listener[w] \in {"idle", "done"} => (consul <=> state)
         /\ listener[w] = "register" => state /\ ~consul
         /\ listener[w] \in {"deregister", "stop"} => ~state /\ consul

LEMMA RegisterKeeps == RegistrarInv /\ R!Register => RegistrarInv' /\ consul'
<1> SUFFICES ASSUME RegistrarInv, R!Register PROVE RegistrarInv' /\ consul'
  OBVIOUS
<1>1. CASE shutdown # 0
  <2>1. UNCHANGED <<shutdown, made, shut, updaters, consul>>
    BY <1>1 DEF R!Register, R!regVars
  <2> QED
    BY <1>1, <2>1, Zenon DEF RegistrarInv
<1>2. CASE shutdown = 0
  <2>1. /\ made' = made + 1 /\ shutdown' = made + 1 /\ consul' = TRUE /\ shut' = shut
        /\ updaters' = updaters \cup [check : Checks, channel : {made + 1}]
    BY <1>2 DEF R!Register
  <2>2. /\ made' \in Nat /\ shutdown' \in 0..made' /\ shut' \subseteq 1..made' /\ shutdown' # 0
        /\ shutdown' \notin shut'
    BY <2>1 DEF RegistrarInv
  <2>3. 1..made \subseteq 1..made' /\ made + 1 \in 1..made'
    BY <2>1 DEF RegistrarInv
  <2>4. updaters' \subseteq [check : Checks, channel : 1..made']
    BY <2>1, <2>3 DEF RegistrarInv
  <2>5. \A u \in updaters' : u.channel \in shut' \/ u.channel = shutdown'
    <3>1. ASSUME NEW u \in updaters PROVE u.channel \in shut
      <4>1. u.channel \in 1..made
        BY <3>1 DEF RegistrarInv
      <4> QED
        BY <1>2, <3>1, <4>1 DEF RegistrarInv
    <3> QED
      BY <2>1, <3>1
  <2>6. \A c \in Checks : [check |-> c, channel |-> shutdown'] \in updaters'
    BY <2>1
  <2> QED
    BY <2>1, <2>2, <2>4, <2>5, <2>6 DEF RegistrarInv
<1> QED
  BY <1>1, <1>2

LEMMA DeregisterKeeps == RegistrarInv /\ R!Deregister => RegistrarInv' /\ ~consul'
<1> SUFFICES ASSUME RegistrarInv, R!Deregister PROVE RegistrarInv' /\ ~consul'
  OBVIOUS
<1>1. CASE shutdown = 0
  <2>1. UNCHANGED <<shutdown, made, shut, updaters, consul>>
    BY <1>1 DEF R!Deregister, R!regVars
  <2> QED
    BY <1>1, <2>1, Zenon DEF RegistrarInv
<1>2. CASE shutdown # 0
  <2>1. /\ shut' = shut \cup {shutdown} /\ shutdown' = 0 /\ consul' = FALSE
        /\ made' = made /\ updaters' = updaters
    BY <1>2 DEF R!Deregister
  <2>2. shut' \subseteq 1..made /\ 0 \notin shut'
    BY <1>2, <2>1 DEF RegistrarInv
  <2>3. \A u \in updaters' : u.channel \in shut'
    BY <2>1 DEF RegistrarInv
  <2>4. made' \in Nat /\ 0 \in 0..made' /\ updaters' \subseteq [check : Checks, channel : 1..made']
    BY <2>1 DEF RegistrarInv
  <2> QED
    BY <2>1, <2>2, <2>3, <2>4, Zenon DEF RegistrarInv
<1> QED
  BY <1>1, <1>2

LEMMA RegistrarStep == RegistrarInv /\ [R!Next]_(R!vars) => RegistrarInv'
<1> SUFFICES ASSUME RegistrarInv, [R!Next]_(R!vars) PROVE RegistrarInv'
  OBVIOUS
<1>1. ASSUME NEW w \in Watches, R!CallRegister(w) PROVE RegistrarInv'
  BY <1>1, RegisterKeeps DEF R!CallRegister
<1>2. ASSUME NEW w \in Watches, R!CallDeregister(w) PROVE RegistrarInv'
  BY <1>2, DeregisterKeeps DEF R!CallDeregister
<1>3. CASE R!Close
  BY <1>3, DeregisterKeeps DEF R!Close
<1>4. ASSUME NEW u, R!TTLFail(u) PROVE RegistrarInv'
  <2>1. /\ u.channel \in shut /\ updaters' = updaters \ {u}
        /\ UNCHANGED <<shutdown, made, shut, consul>>
    BY <1>4 DEF R!TTLFail
  <2> QED
    BY <2>1 DEF RegistrarInv
<1>5. CASE UNCHANGED R!regVars
  BY <1>5 DEF R!regVars, RegistrarInv
<1>6. \/ \E w \in Watches : R!CallRegister(w) \/ R!CallDeregister(w)
      \/ \E u \in R!Updaters : R!TTLFail(u)
      \/ R!Close
      \/ UNCHANGED R!regVars
  BY DEF R!Next, R!ListenerStep, R!Updated, R!ErrorEvent, R!StoppedEvent, R!TTLPass, R!Stop,
         R!CloseEnds, R!vars
<1> QED
  BY <1>1, <1>2, <1>3, <1>4, <1>5, <1>6

LEMMA ListenerInvStep ==
    ASSUME NEW w, Watches = {w}, RegistrarInv, ListenerInv(w), [R!Next]_(R!vars)
    PROVE  ListenerInv(w)'
<1>y. listener \in [{w} -> {"idle", "register", "deregister", "stop", "done"}] /\ state \in BOOLEAN
  BY DEF ListenerInv
<1>1. CASE R!Updated(w) \/ R!ErrorEvent(w) \/ R!StoppedEvent(w)
  <2>1. UNCHANGED <<consul, environment>>
    BY <1>1 DEF R!Updated, R!ErrorEvent, R!StoppedEvent, R!regVars, R!endVars
  <2>2. CASE R!Updated(w)
    <3>1. /\ listener[w] = "idle" /\ state' = TRUE
          /\ listener' = [listener EXCEPT ![w] = IF state THEN "idle" ELSE "register"]
      BY <2>2 DEF R!Updated
    <3> QED
      BY <1>y, <2>1, <3>1 DEF ListenerInv
  <2>3. CASE R!ErrorEvent(w)
    <3>1. /\ listener[w] = "idle" /\ state' = FALSE
          /\ listener' = [listener EXCEPT ![w] = IF state THEN "deregister" ELSE "idle"]
      BY <2>3 DEF R!ErrorEvent
    <3> QED
      BY <1>y, <2>1, <3>1, Zenon DEF ListenerInv
  <2>4. CASE R!StoppedEvent(w)
    <3>1. /\ listener[w] = "idle" /\ state' = FALSE
          /\ listener' = [listener EXCEPT ![w] = IF state THEN "stop" ELSE "done"]
      BY <2>4 DEF R!StoppedEvent
    <3> QED
      BY <1>y, <2>1, <3>1, Zenon DEF ListenerInv
  <2> QED
    BY <1>1, <2>2, <2>3, <2>4
<1>2. CASE R!CallRegister(w)
  <2>1. /\ listener[w] = "register" /\ listener' = [listener EXCEPT ![w] = "idle"]
        /\ UNCHANGED <<state, environment>> /\ consul'
    BY <1>2, RegisterKeeps DEF R!CallRegister, R!endVars
  <2> QED
    BY <1>y, <2>1 DEF ListenerInv
<1>3. CASE R!CallDeregister(w)
  <2>1. /\ listener[w] \in {"deregister", "stop"} /\ UNCHANGED <<state, environment>> /\ ~consul'
        /\ listener' = [listener EXCEPT ![w] = IF listener[w] = "stop" THEN "done" ELSE "idle"]
    BY <1>3, DeregisterKeeps DEF R!CallDeregister, R!endVars
  <2> QED
    BY <1>y, <2>1 DEF ListenerInv
<1>4. CASE R!Close \/ R!CloseEnds
  <2>1. UNCHANGED <<listener, state>> /\ environment' # "open"
    BY <1>4 DEF R!Close, R!CloseEnds
  <2> QED
    BY <2>1 DEF ListenerInv
<1>5. CASE UNCHANGED <<listener, state, consul, environment>>
  BY <1>5 DEF ListenerInv
<1>6. \/ R!Updated(w) \/ R!ErrorEvent(w) \/ R!StoppedEvent(w) \/ R!CallRegister(w)
      \/ R!CallDeregister(w) \/ R!Close \/ R!CloseEnds
      \/ UNCHANGED <<listener, state, consul, environment>>
  BY DEF R!Next, R!ListenerStep, R!TTLPass, R!TTLFail, R!Stop, R!vars, R!regVars, R!endVars
<1> QED
  BY <1>1, <1>2, <1>3, <1>4, <1>5, <1>6

LEMMA RegistrarInit == R!Init /\ InitiallyRegistered \in BOOLEAN => RegistrarInv
<1> SUFFICES ASSUME R!Init, InitiallyRegistered \in BOOLEAN PROVE RegistrarInv
  OBVIOUS
<1>1. /\ made = (IF InitiallyRegistered THEN 1 ELSE 0) /\ shutdown = made /\ shut = {}
      /\ updaters = [check : Checks, channel : 1..made] /\ consul = InitiallyRegistered
  BY DEF R!Init
<1>2. made \in Nat /\ (consul <=> made # 0) /\ \A i \in 1..made : i = made
  BY <1>1
<1>3. made # 0 => made \in 1..made
  BY <1>2
<1> QED
  BY <1>1, <1>2, <1>3 DEF RegistrarInv

-----------------------------------------------------------------------------
(* Counting.                                                               *)

INSTANCE FiniteSetTheorems

LEMMA RegistrarOneUpdater == RegistrarInv => R!OneUpdater
<1> SUFFICES ASSUME RegistrarInv, NEW c \in Checks
             PROVE  Cardinality({u \in updaters : u.check = c /\ u.channel \notin shut})
                      = IF consul THEN 1 ELSE 0
  <2>1. ASSUME NEW S PROVE R!Cardinality(S) = Cardinality(S)
    BY DEF R!Cardinality, Cardinality
  <2> QED
    BY <2>1, Zenon DEF R!OneUpdater
<1> DEFINE U == {u \in updaters : u.check = c /\ u.channel \notin shut}
<1>1. \A u \in updaters : u.channel \in 1..made /\ u = [check |-> u.check, channel |-> u.channel]
  BY DEF RegistrarInv
<1>2. CASE consul
  <2>1. U = {[check |-> c, channel |-> shutdown]}
    BY <1>1, <1>2 DEF RegistrarInv
  <2> QED
    BY <1>2, <2>1, FS_Singleton, Zenon
<1>3. CASE ~consul
  <2>1. U = {}
    BY <1>1, <1>3 DEF RegistrarInv
  <2> QED
    BY <1>3, <2>1, FS_EmptySet, Zenon
<1> QED
  BY <1>2, <1>3

\* However many goroutines share the listener, a registered service has one
\* goroutine per check that nobody told to stop, and another has none.
THEOREM RegistrarOneUpdaterEach ==
    ASSUME InitiallyRegistered \in BOOLEAN PROVE R!FairSpec => []R!OneUpdater
BY RegistrarInit, RegistrarStep, RegistrarOneUpdater, PTL DEF R!FairSpec

\* With one watch, the service is registered between events exactly when the
\* last event that counted was an update, until the environment closes.
THEOREM RegistrationFollowsEvents ==
    ASSUME InitiallyRegistered \in BOOLEAN, NEW CONSTANT w, Watches = {w}
    PROVE  R!FairSpec => [](R!RegistrationFollows /\ R!OneUpdater)
<1>1. R!Init => ListenerInv(w)
  BY DEF R!Init, ListenerInv
<1>2. ListenerInv(w) => R!RegistrationFollows
  BY DEF ListenerInv, R!RegistrationFollows
<1>3. RegistrarInv /\ ListenerInv(w) /\ [R!Next]_(R!vars) => ListenerInv(w)'
  BY ListenerInvStep
<1> QED
  BY <1>1, <1>2, <1>3, RegistrarInit, RegistrarStep, RegistrarOneUpdater, PTL DEF R!FairSpec

\* Init's numbering of the first instancers exists, and leaves out no number.
LEMMA FirstInstancers ==
    ASSUME E!Init, IsFiniteSet(E!Watched(known))
    PROVE  /\ made \in Nat /\ made = Cardinality(E!Watched(known))
           /\ instancers \in [E!Keys -> 0..made]
           /\ \A j, k \in E!Keys : instancers[j] = instancers[k] /\ instancers[k] # 0 => j = k
           /\ \A i \in 1..made : \E k \in E!Keys : instancers[k] = i
<1> DEFINE W == E!Watched(known)
           Numbers(f) == \A k \in E!Keys :
                             /\ f[k] # 0 <=> k \in W
                             /\ \A j \in E!Keys : f[j] = f[k] /\ f[k] # 0 => j = k
<1>1. made = Cardinality(W) /\ known \subseteq Datacenters
  <2>1. ASSUME NEW S PROVE E!Cardinality(S) = Cardinality(S)
    BY DEF E!Cardinality, Cardinality
  <2>2. made = E!Cardinality(W) /\ known \in SUBSET Datacenters
    BY DEF E!Init
  <2> QED
    BY <2>1, <2>2
<1>2. made \in Nat /\ W \subseteq E!Keys
  BY <1>1, FS_CardinalityType DEF E!Watched, E!Keys
<1>3. IsFiniteSet(1..made) /\ Cardinality(1..made) = made
  <2>1. IsFiniteSet(1..made) /\ Cardinality(1..made) = IF 1 > made THEN 0 ELSE made - 1 + 1
    BY <1>2, FS_Interval
  <2> QED
    BY <1>2, <2>1
<1>4. \E f \in [E!Keys -> 0..made] : Numbers(f)
  <2>1. ExistsBijection(W, 1..made)
    BY <1>1, <1>3, FS_SameCardinalityBij
  <2>2. PICK b : b \in Bijection(W, 1..made)
    BY <2>1 DEF ExistsBijection
  <2>3. b \in [W -> 1..made] /\ \A j, k \in W : b[j] = b[k] => j = k
    BY <2>2 DEF Bijection, Injection, IsInjective
  <2> DEFINE f == [k \in E!Keys |-> IF k \in W THEN b[k] ELSE 0]
  <2>4. \A k \in E!Keys : f[k] = IF k \in W THEN b[k] ELSE 0
    OBVIOUS
  <2>5. \A k \in W : b[k] \in 1..made /\ b[k] \in 0..made /\ b[k] # 0
    BY <1>2, <2>3
  <2>6. f \in [E!Keys -> 0..made]
    BY <1>2, <2>5
  <2> HIDE DEF f
  <2>7. Numbers(f)
    BY <2>3, <2>4, <2>5
  <2> QED
    BY <2>6, <2>7
<1>5. instancers = CHOOSE f \in [E!Keys -> 0..made] : Numbers(f)
  BY DEF E!Init, E!NoInstancer
<1>6. instancers \in [E!Keys -> 0..made] /\ Numbers(instancers)
  BY <1>4, <1>5
<1>7. \A i \in 1..made : \E k \in W : instancers[k] = i
  <2> DEFINE g == [k \in W |-> instancers[k]]
  <2>1. \A k \in W : instancers[k] \in 1..made
    BY <1>2, <1>6
  <2>2. g \in Injection(W, 1..made)
    BY <1>2, <1>6, <2>1 DEF Injection, IsInjective
  <2> HIDE DEF g
  <2>3. g \in Surjection(W, 1..made)
    BY <1>1, <1>3, <2>2, FS_Injection
  <2>4. \A i \in 1..made : \E k \in W : g[k] = i
    BY <2>3 DEF Surjection
  <2> QED
    BY <2>4 DEF g
<1> QED
  BY <1>1, <1>2, <1>6, <1>7

LEMMA EnvironmentInit ==
    ASSUME E!Init, MaxInstancers \in Nat, IsFiniteSet(E!Watched(known)),
           Cardinality(E!Watched(known)) <= MaxInstancers
    PROVE  EnvironmentType /\ EnvironmentInv
<1>1. /\ made \in Nat /\ made <= MaxInstancers /\ instancers \in [E!Keys -> 0..made]
      /\ \A j, k \in E!Keys : instancers[j] = instancers[k] /\ instancers[k] # 0 => j = k
      /\ \A i \in 1..made : \E k \in E!Keys : instancers[k] = i
  BY FirstInstancers
<1>2. /\ stops = [i \in 1..MaxInstancers |-> 0] /\ todo = {} /\ present = E!None /\ toAdd = E!None
      /\ known \subseteq Datacenters /\ watcher = "select"
  BY DEF E!Init
<1>3. toAdd \in [E!Keys -> 0..made] /\ present \in [E!Keys -> 0..made]
  BY <1>1, <1>2 DEF E!None, E!NoInstancer
<1>4. EnvironmentType
  BY <1>1, <1>2, <1>3 DEF EnvironmentType
<1>5. \A k \in E!Keys : toAdd[k] = 0
  BY <1>2 DEF E!None, E!NoInstancer
<1>6. ASSUME NEW i \in 1..MaxInstancers PROVE i > made \/ \E k \in E!Keys : HeldBy(k, i)
  BY <1>1, <1>6 DEF HeldBy
<1> QED
  BY <1>1, <1>2, <1>4, <1>5, <1>6 DEF EnvironmentInv

\* Until the environment closes, an instancer runs exactly while the map holds
\* it or the watcher is about to put it there: for any watches and any
\* datacenters, as long as the first instancers fit into the bound.
THEOREM EnvironmentRunningIsHeld ==
    ASSUME MaxInstancers \in Nat,
           \A dcs \in SUBSET Datacenters :
               /\ IsFiniteSet(E!Watched(dcs))
               /\ Cardinality(E!Watched(dcs)) <= MaxInstancers
    PROVE  E!FairSpec => []E!RunningIsHeld
<1>1. E!Init => EnvironmentType /\ EnvironmentInv
  <2>1. E!Init => known \in SUBSET Datacenters
    BY DEF E!Init
  <2> QED
    BY <2>1, EnvironmentInit
<1>2. EnvironmentType /\ EnvironmentInv => E!RunningIsHeld
  <2> SUFFICES ASSUME EnvironmentType, EnvironmentInv, ~closing
               PROVE  E!Running = E!Held(instancers) \cup E!Held(toAdd)
    BY DEF E!RunningIsHeld
  <2>1. /\ made \in 0..MaxInstancers
        /\ \A k \in E!Keys : instancers[k] \in 0..made /\ toAdd[k] \in 0..made
    BY DEF EnvironmentType
  <2>2. \A i : i \in E!Running <=> i \in 1..made /\ \E k \in E!Keys : HeldBy(k, i)
    BY <2>1 DEF E!Running, EnvironmentInv
  <2>3. \A i : i \in E!Held(instancers) \cup E!Held(toAdd)
                 <=> i \in 1..made /\ \E k \in E!Keys : HeldBy(k, i)
    BY <2>1 DEF E!Held, E!NoInstancer, HeldBy
  <2> QED
    BY <2>2, <2>3
<1>3. EnvironmentType /\ EnvironmentInv /\ [E!Next]_(E!vars) => EnvironmentType' /\ EnvironmentInv'
  BY EnvironmentTypeStep, EnvironmentStep
<1> QED
  BY <1>1, <1>2, <1>3, PTL DEF E!FairSpec
=============================================================================
