----------------------------- MODULE MCService -----------------------------
(* The modules of service discovery, explored one at a time: part names    *)
(* the one that runs, the others stay in an initial state.                 *)
EXTENDS Integers, Sequences, FiniteSets

CONSTANTS w1, w2, local, east, west, check, host1, host2, blank, refused, me, other, d1, d2,
          DiscoveryWatches, RegistrationWatches, ChanSize, MaxChanges, MaxErrors, MaxEvents,
          MaxDatacenterChanges, MaxInstancers, Parts

VARIABLES part,
    catalog, changes, errors, loop, answer, state, stop, registered, events, goroutine, accessor,
    stopped, closing, closed,
    event, eventCount, listener, filterAccessor, device, stale, matched,
    regListener, regCount, regState, shutdown, regMade, shut, updaters, consul, status,
    regStopped, environment,
    known, items, dcChanges, listening, inactive, instancers, made, stops, watcher, todo, keys,
    present, toAdd, envClosing, visited, envClosed,
    options, setup, position, sdClient, datacenters, tries, watching, registrar, loopVariable,
    backend,
    gateOpen, gauge, lever, primary, failover, turnedAway, getter, updated,
    index, watched, resolvers, admin, dialer, records, connected, routeChanges, outdated

\* Consul may name an instance the filter refuses.
Snapshots == {{}, {host1}, {host2, blank}}
Normal == [i \in {host1, host2, blank} |-> IF i = blank THEN refused ELSE i]

\* With both servers up, d1 hashes to this process and d2 to the other.
Owner(servers, d) == IF servers = {me} \/ (me \in servers /\ d = d1) THEN me ELSE other

D == INSTANCE Discovery WITH Watches <- DiscoveryWatches, Invalid <- refused
H == INSTANCE Rehasher WITH
        Devices <- {d1, d2}, Servers <- {me, other}, Self <- {me}, accessor <- filterAccessor
R == INSTANCE Registration WITH
        Watches <- RegistrationWatches, Checks <- {check}, InitiallyRegistered <- TRUE,
        listener <- regListener, eventCount <- regCount, state <- regState, made <- regMade,
        stopped <- regStopped
E == INSTANCE Environment WITH
        Datacenters <- {east, west}, CrossWatches <- {w1}, LocalWatches <- {local},
        MaxChanges <- MaxDatacenterChanges, changes <- dcChanges, closing <- envClosing, closed <- envClosed

\* Configurations of up to two watches and up to two registrations: with an
\* id and all the rest, with an address only, and with nothing.
UpTo2(S) == {<<>>} \cup {<<x>> : x \in S} \cup {<<x, y>> : x, y \in S}
ConfiguredWatches == UpTo2([name : {"s"}, cross : BOOLEAN])
ConfiguredRegistrations ==
    UpTo2({[id |-> "r1", scheme |-> "https", address |-> "a", port |-> 80],
           [id |-> "", scheme |-> "", address |-> "a", port |-> 443],
           [id |-> "", scheme |-> "", address |-> "", port |-> 0]})

N == INSTANCE NewEnvironment WITH
        Watches <- ConfiguredWatches, Registrations <- ConfiguredRegistrations,
        Catalog <- {"x", "y"}, MaxRetries <- 1
G == INSTANCE Routing WITH
        Instances <- {host1, host2}, Datacenters <- {east, west}, Levers <- {d1, d2},
        MaxUpdates <- 2, refused <- turnedAway
X == INSTANCE Resolver WITH
        Schemes <- {"http", "ftp"}, Ports <- {0}, Dialers <- {d1, d2}, MaxChanges <- 3,
        changes <- routeChanges, stale <- outdated

discoveryVars == <<catalog, changes, errors, loop, answer, state, stop, registered, events,
                   goroutine, accessor, stopped, closing, closed>>
rehasherVars == <<event, eventCount, listener, filterAccessor, device, stale, matched>>
registrationVars == <<regListener, regCount, regState, shutdown, regMade, shut, updaters, consul,
                      status, regStopped, environment>>
environmentVars == <<known, items, dcChanges, listening, inactive, instancers, made, stops, watcher,
                     todo, keys, present, toAdd, envClosing, visited, envClosed>>
setupVars == <<options, setup, position, sdClient, datacenters, tries, watching, registrar,
               loopVariable, backend>>
routingVars == <<gateOpen, gauge, lever, primary, failover, turnedAway, getter, updated>>
resolverVars == <<index, watched, resolvers, admin, dialer, records, connected, routeChanges,
                  outdated>>
vars == <<part, discoveryVars, rehasherVars, registrationVars, environmentVars, setupVars,
          routingVars, resolverVars>>

Init ==
    /\ part \in Parts
    /\ D!Init /\ H!Init /\ R!Init /\ E!Init /\ N!Init /\ G!Init /\ X!Init
    /\ part # "discovery" => \A w \in DiscoveryWatches : catalog[w] = {} /\ state[w] = D!Failed
    /\ part # "environment" => known = {}

Still(name, variables) == IF part = name THEN TRUE ELSE UNCHANGED variables

\* The part that runs changes its own variables only.
Only(name) ==
    /\ part = name /\ UNCHANGED part
    /\ Still("discovery", discoveryVars) /\ Still("rehasher", rehasherVars)
    /\ Still("registration", registrationVars) /\ Still("environment", environmentVars)
    /\ Still("setup", setupVars) /\ Still("routing", routingVars)
    /\ Still("resolver", resolverVars)

Next ==
    \/ Only("discovery") /\ D!Next
    \/ Only("rehasher") /\ H!Next
    \/ Only("registration") /\ R!Next
    \/ Only("environment") /\ E!Next
    \/ Only("setup") /\ N!Next
    \/ Only("routing") /\ G!Next
    \/ Only("resolver") /\ X!Next

\* The fairness of each module, for the one that runs.
Fairness ==
    /\ \A w \in DiscoveryWatches :
          /\ WF_discoveryVars(part = "discovery" /\ D!InstancerStep(w))
          /\ WF_discoveryVars(part = "discovery" /\ D!MonitorStep(w))
    /\ WF_discoveryVars(part = "discovery" /\ D!CloseStep)
    /\ WF_rehasherVars(part = "rehasher" /\ H!ListenerStep)
    /\ \A w \in RegistrationWatches : WF_registrationVars(part = "registration" /\ R!ListenerStep(w))
    /\ \A u \in R!Updaters : /\ WF_registrationVars(part = "registration" /\ R!TTLPass(u))
                             /\ WF_registrationVars(part = "registration" /\ R!TTLFail(u))
    /\ WF_registrationVars(part = "registration" /\ R!CloseEnds)
    /\ WF_environmentVars(part = "environment" /\ E!WatcherStep)
    /\ WF_environmentVars(part = "environment" /\ E!PullStep)
    /\ WF_environmentVars(part = "environment" /\ E!CloseStep)

Spec == Init /\ [][Next]_vars
FairSpec == Spec /\ Fairness

\* Discovery: the last event a subscriber of a consul instancer has got, or
\* has in its channel, is the instancer's state.
LastEventIsState == D!LastEventIsState

\* Discovery: when consul settles, the accessors settle on what it reports.
Converges == part = "discovery" => D!Converges

\* Rehasher: between events only devices admitted before an event and
\* connected after it may hash to another process.
OthersAreGone == H!OthersAreGone

\* Registration: a service that stays registered passes its checks again and
\* again.
PassesAgain == part = "registration" => R!PassesAgain

\* Registration: after environment.Close the service ends up deregistered.
CloseDeregisters == R!CloseDeregisters

\* Registration: between events the service is registered exactly when the
\* registrar listener's state says so, and a registered service has one live
\* goroutine per TTL check, a deregistered one none.
RegistrationFollows == R!RegistrationFollows /\ R!OneUpdater

\* Environment: until Close exactly the instancers held, or about to be, run.
RunningIsHeld == E!RunningIsHeld

\* Environment: in the end the cross-datacenter watches cover the active
\* datacenters.
WatchesFollow == part = "environment" => E!WatchesFollow

\* service/monitor/monitor.go:22: Stop halts all goroutines that are
\* dispatching events.
StopHalts == D!StopHalts

\* NewEnvironment: a construction that fails, and Close, leave nothing behind;
\* what a process registers, it recognises when the backend reports it.
SetupClean == N!NothingLeft /\ N!SelfRecognised

\* Gate, layered accessor and resolver: the gate is where its levers say, a
\* request is routed to an instance that takes it, and the rotation of a
\* host's routes stays whole.
RoutesSound == G!LeverTells /\ G!RouteHonest /\ X!RotationWhole

\* service/environment.go:29: IsRegistered tests if the given instance is
\* registered in this environment.
RegistersItsInstances == N!RegistersItsInstances
=============================================================================
