----------------------------- MODULE MCLibrary -----------------------------
(* The packages that share no state with the device manager or with service *)
(* discovery, explored one at a time: part names the one that runs, the     *)
(* others stay in their initial state.                                      *)
EXTENDS Integers, Sequences, FiniteSets

CONSTANTS p, q, r,            \* goroutines, requests, connections, identifiers
          NoFilter, Obfuscated,
          Parts               \* the parts to explore

VARIABLES part,
    slots, semState, closedChan, caller, calls, resources, failures, closedGauge,
    submits, c_d, delayer, executed, cancelled,
    conn, semaphore, active, rejected, state, current,
    clock, version, entry, updateLock, loader, objects, created, has,
    rotation, pairs, keyLock, resolver, updater, existing, fresh, newCount, updates, keysShutdown,
    list, changes, hookClock, messages, prunes, update, applied, reader, listSize, unmarshallFailed,
    start, pending, startHooks, delivered,
    argus, argusClock, poll, watched, sizeGauge, listing,
    sub, confirmations, notices, proc, confirmed, subscriptionArn, publishers, notificationData,
    publishing, listings, unsubscribes, listed, excused, told,
    stats, request, added, monitor, toNotify, heard, report, healthShutdown,
    storage, kv, kvLock, kvResults, kvHistory,
    now, cacheBytes, cacheExpiry, handler, served, refreshes,
    statistics, pump, snapshot, data, copy, onceDone,
    deviceRegistry, filterStore, drain, http, createdCount, removedCount, writes,
    tokenClock, signingKey, authorization, reasons, offsets,
    accessors, events, fanout, results, targets, received, fanoutCtx, latest, answer,
    running, ctx, writer, busy, response,
    body, attempts, statusCode, open, call, hop,
    tasks, tasksClosed, sender, worker, finished, counts,
    runner, config, listening, server, shut, restarts, finalizer, doneClosed, shutdown, waitGroup,
    checker, auth, verdict, outcomes,
    metricPhase, given, configured, merged, preregistered, collectors, user,
    serverClock, starts, keyConfig, keyPhase, generated, privateKeys, publicKeys, issued

-----------------------------------------------------------------------------
(* The instances, and their bounds *)

Sem == INSTANCE Semaphore WITH Callers <- {p, q}, Count <- 1, MaxCalls <- 2
Cap == INSTANCE Capacitor WITH MaxSubmits <- 3
Lis == INSTANCE Listener WITH Conns <- {p, q, r}, MaxConnections <- 2
Cac == INSTANCE Cache WITH Loaders <- {p, q}, Period <- 1, MaxTime <- 2, MaxVersion <- 2,
           Clients <- {p, q}, InitialSize <- 1, MaxSize <- 2, MaxObjects <- 3
Key == INSTANCE KeyCache WITH Resolvers <- {p, q}, KeyIds <- {p}, MaxRotation <- 2, MaxUpdates <- 2
Hook == INSTANCE Webhooks WITH URLs <- {p, q}, Readers <- {p}, ChangesSize <- 1, Duration <- 1,
            MaxHookTime <- 1, MaxMessages <- 3, MaxPrunes <- 1
Src == INSTANCE HookSources WITH MaxFetches <- 3, Owners <- {p, q}, HookURLs <- {r}, Secrets <- {p},
           Lifetime <- 1, MaxArgusTime <- 1
Topic == INSTANCE Sns WITH MaxStarts <- 2, Messages <- {p}, ChannelSize <- 1
Hea == INSTANCE Health WITH Requests <- {p, q}, Listeners <- {p}, MaxMemory <- 1
Kv == INSTANCE KeyValue WITH KvCalls <- {p, q, r}, KvKeys <- {p, q}, KvValues <- {0, 1}
View == INSTANCE DeviceViews WITH Handlers <- {p, q}, Refresh <- 1, MaxNow <- 4, MaxFrames <- 2,
            Writers <- {p, q}, Sessions <- {p, q}, updates <- refreshes
Admin == INSTANCE DeviceHttp WITH Macs <- {p}, Keys <- {p}, Values <- {p, q}, AllowedFilters <- {p},
             Calls <- {p, q, r}
Tok == INSTANCE Tokens WITH AuthRequests <- {p}, Accepted <- {"secret"}, ExpLeeway <- 1,
           NbfLeeway <- 1, MaxTokenTime <- 3, MaxKey <- 2
Fan == INSTANCE Fanout WITH Endpoints <- {p, q, r}, Configured <- {}, ServiceKeys <- {p, q},
           Statuses <- {200, 404, 503}, MaxEvents <- 2
Dec == INSTANCE Decorators WITH HttpRequests <- {p, q}, MaxTransactions <- 1, MaxBody <- 1
Cli == INSTANCE Client WITH Retries <- 2, MaxRedirects <- 1, Size <- 2
Pool == INSTANCE HttpPool WITH Senders <- {p, q, r}, Workers <- {p, q}, QueueSize <- 1
ServerNames == {"primary", "health", "metric"}
Srv == INSTANCE Server WITH Names <- ServerNames, MaxRestarts <- 1
Capab == INSTANCE Capabilities WITH EndpointPatterns <- <<"/a", "/b">>, MaxJudged <- 1
Met == INSTANCE Metrics WITH MetricUsers <- {p, q}, MaxMetrics <- 2, phase <- metricPhase
Issuer == INSTANCE KeyServer WITH DefaultExpire <- 2, DefaultNotBefore <- 1, MaxServerTime <- 1,
              MaxServerStarts <- 2, MaxIssued <- 1, phase <- keyPhase

semaphoreVars == <<slots, semState, closedChan, caller, calls, resources, failures, closedGauge>>
capacitorVars == <<submits, c_d, delayer, executed, cancelled>>
listenerVars == <<conn, semaphore, active, rejected>>
limiterVars == <<state, current>>
cacheVars == <<clock, version, entry, updateLock, loader>>
poolVars == <<objects, created, has>>
keyVars == <<rotation, pairs, keyLock, resolver, updater, existing, fresh, newCount, updates,
             keysShutdown>>
hookVars == <<list, changes, hookClock, messages, prunes, update, applied, reader, listSize,
              unmarshallFailed>>
startVars == <<start, pending, startHooks, delivered>>
argusVars == <<argus, argusClock, poll, watched, sizeGauge, listing>>
snsVars == <<sub, confirmations, notices, proc, confirmed, subscriptionArn, publishers,
             notificationData, publishing, listings, unsubscribes, listed, excused, told>>
healthVars == <<stats, request, added, monitor, toNotify, heard, report, healthShutdown>>
kvVars == <<storage, kv, kvLock, kvResults, kvHistory>>
listVars == <<now, cacheBytes, cacheExpiry, handler, served, refreshes>>
statVars == <<statistics, pump, snapshot>>
metaVars == <<data, copy, onceDone>>
adminVars == <<deviceRegistry, filterStore, drain, http, createdCount, removedCount, writes>>
tokenVars == <<tokenClock, signingKey, authorization, reasons, offsets>>
fanoutVars == <<accessors, events, fanout, results, targets, received, fanoutCtx, latest, answer>>
decoratorVars == <<running, ctx, writer, busy, response>>
clientVars == <<body, attempts, statusCode, open, call, hop>>
taskVars == <<tasks, tasksClosed, sender, worker, finished, counts>>
serverVars == <<runner, config, listening, server, shut, restarts, finalizer, doneClosed, shutdown,
                waitGroup>>
capabilityVars == <<checker, auth, verdict, outcomes>>
metricVars == <<metricPhase, given, configured, merged, preregistered, collectors, user>>
issuerVars == <<serverClock, starts, keyConfig, keyPhase, generated, privateKeys, publicKeys, issued>>
vars == <<part, semaphoreVars, capacitorVars, listenerVars, limiterVars, cacheVars, poolVars,
          keyVars, hookVars, startVars, argusVars, snsVars, healthVars, kvVars, listVars, statVars,
          metaVars, adminVars, tokenVars, fanoutVars, decoratorVars, clientVars, taskVars,
          serverVars, capabilityVars, metricVars, issuerVars>>

-----------------------------------------------------------------------------
Init ==
    /\ part \in Parts
    /\ Sem!Init /\ Cap!Init /\ Lis!Init /\ Cac!Init /\ Key!Init /\ Hook!Init /\ Src!Init
    /\ Topic!Init /\ Hea!Init /\ Kv!Init /\ View!Init /\ Admin!Init /\ Tok!Init /\ Fan!Init
    /\ Dec!Init /\ Cli!Init /\ Pool!Init /\ Srv!Init
    /\ Capab!Init /\ Met!Init /\ Issuer!Init

Still(name, variables) == IF part = name THEN TRUE ELSE UNCHANGED variables

\* The part that runs changes its own variables only.
Only(name) ==
    /\ part = name /\ UNCHANGED part
    /\ Still("semaphore", semaphoreVars) /\ Still("capacitor", capacitorVars)
    /\ Still("listener", listenerVars) /\ Still("limiter", limiterVars)
    /\ Still("cache", cacheVars) /\ Still("pool", poolVars) /\ Still("keys", keyVars)
    /\ Still("hooks", hookVars) /\ Still("start", startVars) /\ Still("argus", argusVars)
    /\ Still("sns", snsVars) /\ Still("health", healthVars) /\ Still("kv", kvVars)
    /\ Still("list", listVars) /\ Still("statistics", statVars) /\ Still("metadata", metaVars)
    /\ Still("admin", adminVars) /\ Still("tokens", tokenVars) /\ Still("fanout", fanoutVars)
    /\ Still("decorators", decoratorVars) /\ Still("client", clientVars)
    /\ Still("tasks", taskVars) /\ Still("server", serverVars)
    /\ Still("capabilities", capabilityVars) /\ Still("metrics", metricVars)
    /\ Still("issuer", issuerVars)

Next ==
    \/ Only("semaphore") /\ Sem!Next
    \/ Only("capacitor") /\ Cap!Next
    \/ Only("listener") /\ Lis!ListenerNext
    \/ Only("limiter") /\ Lis!LimiterNext
    \/ Only("cache") /\ Cac!CacheNext
    \/ Only("pool") /\ Cac!PoolNext
    \/ Only("keys") /\ Key!Next
    \/ Only("hooks") /\ Hook!Next
    \/ Only("start") /\ Src!StartNext
    \/ Only("argus") /\ Src!ArgusNext
    \/ Only("sns") /\ Topic!Next
    \/ Only("health") /\ Hea!Next
    \/ Only("kv") /\ Kv!Next
    \/ Only("list") /\ View!ListNext
    \/ Only("statistics") /\ View!StatNext
    \/ Only("metadata") /\ View!MetaNext
    \/ Only("admin") /\ Admin!Next
    \/ Only("tokens") /\ Tok!Next
    \/ Only("fanout") /\ Fan!Next
    \/ Only("decorators") /\ Dec!Next
    \/ Only("client") /\ Cli!Next
    \/ Only("tasks") /\ Pool!Next
    \/ Only("server") /\ Srv!Next
    \/ Only("capabilities") /\ Capab!Next
    \/ Only("metrics") /\ Met!Next
    \/ Only("issuer") /\ Issuer!Next

\* A Go mutex is handed over in the end, and a select does not pass over a
\* timer for ever: what p, whose waiting Waits is about, needs of it.  Only one
\* part runs, so fairness of the disjunction is fairness of each disjunct.
HandedOver ==
    \/ Only("cache") /\ Cac!Lock(p)
    \/ Only("keys") /\ Key!LockKey(p)
    \/ Only("start") /\ Src!TimedOut

\* The fairness of each module, for the one that runs: goroutines that can go
\* on do, and so do timers and deadlines.
Fairness ==
    /\ \A x \in {p, q} :
          /\ WF_semaphoreVars(part = "semaphore" /\ Sem!CallerStep(x))
          /\ WF_cacheVars(part = "cache" /\ Cac!CacheStep(x))
          /\ WF_keyVars(part = "keys" /\ Key!ResolveStep(x))
          /\ WF_decoratorVars(part = "decorators" /\ Dec!ServerStep(x))
          /\ WF_decoratorVars(part = "decorators" /\ Dec!ContextDone(x))
          /\ WF_taskVars(part = "tasks" /\ Pool!WorkerStep(x))
    /\ \A x \in {p, q, r} :
          /\ WF_fanoutVars(part = "fanout" /\ Fan!Execute(x))
          /\ WF_taskVars(part = "tasks" /\ Pool!SenderStep(x))
    /\ WF_semaphoreVars(part = "semaphore" /\ Sem!CloseStep)
    /\ WF_keyVars(part = "keys" /\ Key!UpdateStep)
    /\ SF_keyVars(part = "keys" /\ Key!LockUpdate)
    /\ SF_vars(HandedOver)
    /\ WF_hookVars(part = "hooks" /\ Hook!Monitor)
    /\ WF_startVars(part = "start" /\ Src!StartStep)
    /\ WF_startVars(part = "start" /\ Src!TimerFires)
    /\ \A t \in 1..2 : WF_snsVars(part = "sns" /\ Topic!ServerStep(t))
    /\ WF_healthVars(part = "health" /\ Hea!LoopStep)
    /\ WF_fanoutVars(part = "fanout" /\ Fan!HandlerStep)
    /\ \A n \in ServerNames :
          /\ WF_serverVars(part = "server" /\ Srv!Finalize(n))
          /\ WF_serverVars(part = "server" /\ n \in shut /\ Srv!ServerExits(n))
    /\ WF_serverVars(part = "server" /\ Srv!RunnerStep)
    /\ WF_serverVars(part = "server" /\ (Srv!CloseServer \/ Srv!FinalizerDone))
    /\ WF_serverVars(part = "server" /\ Srv!HealthEnds)

Spec == Init /\ [][Next]_vars
FairSpec == Spec /\ Fairness

-----------------------------------------------------------------------------
\* semaphore, xlistener, the connection limiter of server, store's pool,
\* httppool and Busy: what is taken is taken once, counted once and given back
\* once, and no limit is exceeded.
Conserved ==
    /\ Sem!SlotsConserved
    /\ Lis!ConnectionsBounded
    /\ Cac!ObjectsConserved
    /\ Pool!TasksAccounted
    /\ Dec!BusyIsRunning

\* capacitor: no function runs twice, and no delayer is forgotten: one that
\* waits can still be discharged or cancelled.
DelayersOrderly == Cap!DelayersOrderly

\* store, secure/key and device metadata: no step replaces what is cached by
\* something older, or a session by another one.
NeverOlder == [][Cac!CacheNeverOlder /\ Key!KeysNeverOlder /\ View!OneSession]_vars

\* webhook, xwebhook and webhook/aws: the hooks a server holds are the ones
\* it was last told, from whichever source, and a new start's cleanup takes
\* exactly the subscriptions of earlier ones.
HooksFollow ==
    /\ Hook!HooksFollow
    /\ Src!StartHonest
    /\ Src!WatchesAgree
    /\ Topic!CleanupIsExact

\* health, device statistics, device list, concurrent and xmetrics: what a
\* reader gets was true at one moment, is built no more often than promised,
\* and is what the other readers get.
ViewsAgree ==
    /\ Hea!StatsBalance
    /\ View!SnapshotsAgree
    /\ View!ListRefreshes
    /\ Kv!ReadsAtomic
    /\ Met!OneCollector
    /\ Met!LastOfEachName

\* xhttp/fanout, the retrying client, and the device, filter and drain
\* handlers: what a client is answered is what happened.
AnswersHonest ==
    /\ Fan!FanoutAnswers
    /\ Cli!RetriesResend
    /\ Admin!OneIdentifier
    /\ Admin!CreatedOnce
    /\ Admin!CancelWaits

\* secure, basculechecks and the key server: any one validator that accepts a
\* token serves the request, only who is entitled passes the capability check,
\* the measures agree with the verdicts, and what is issued can be verified.
TokensJudged ==
    /\ Tok!AnyValidatorServes
    /\ Tok!OffsetsAgree
    /\ Capab!MonitoringForetells
    /\ Capab!OnlyEntitledPass
    /\ Capab!CountingIsNeutral
    /\ Issuer!IssuedVerifies
    /\ Issuer!ServerClaimsWin

\* server: done is closed once, after every server of the slice was closed.
DoneIsLast == Srv!DoneIsLast

\* Someone waits: for a semaphore that is closed, for the cache or a key, for
\* the webhook monitor, the peers' list or the topic, for the health monitor,
\* for the fanout, a handler or the pool, or for the servers to end.  p stands
\* for each of several goroutines that differ in name only.
Waits ==
    CASE part = "semaphore" -> Sem!WaitsForClosed(p)
      [] part = "cache" -> Cac!Loading(p)
      [] part = "keys" -> Key!Resolving(p) \/ Key!UpdaterLeft
      [] part = "hooks" -> Hook!ChangesWait
      [] part = "start" -> Src!Starting
      [] part = "sns" -> \E t \in 1..2 : Topic!Noticed(t, p)
      [] part = "health" -> Hea!Unheard(p)
      [] part = "fanout" -> Fan!FanoutRuns
      [] part = "decorators" -> Dec!Unanswered(p)
      [] part = "tasks" -> Pool!Draining
      [] part = "server" -> Srv!Ending \/ Srv!Signalled
      [] OTHER -> FALSE

\* Whoever waits in one of these packages stops waiting.
WaitsEnd == Waits ~> ~Waits
=============================================================================
