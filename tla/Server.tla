------------------------------- MODULE Server -------------------------------
(***************************************************************************)
(* The start and the end of a WebPA node (server/webpa.go, viper.go,       *)
(* signalWait.go, concurrent/runnable.go): Initialize reads configuration  *)
(* and builds the metrics registry, Prepare's runnable creates the servers *)
(* and starts a goroutine for each, and Await waits for a signal, closes   *)
(* the shutdown channel and waits for the goroutines that registered.      *)
(*                                                                         *)
(* Every server goroutine runs RestartableFunc, which serves again after   *)
(* any error but http.ErrServerClosed, and then the one finalizer the      *)
(* servers share.  The http.Server itself is external: Serve may return    *)
(* any error, and returns ErrServerClosed once it is closed.               *)
(***************************************************************************)
EXTENDS Naturals, Sequences, FiniteSets

CONSTANTS
    Names,        \* the servers of the node, "primary" among them
    MaxRestarts   \* bound: how often a server goroutine may serve again

VARIABLES
    runner,       \* where the application's main goroutine stands
    config,       \* server -> what its section of the configuration holds
    listening,    \* servers whose listener Prepare has opened
    server,       \* server -> "none", "serving", "exited", "finalized"
    shut,         \* servers that are closed, so that Serve returns ErrServerClosed
    restarts,     \* how many times a server goroutine has served again
    finalizer,    \* the servers the one finalizer has yet to close, or a state
    doneClosed,   \* how often the done channel has been closed
    shutdown,     \* whether the shutdown channel is closed
    waitGroup     \* the goroutines that Await waits for

vars == <<runner, config, listening, server, shut, restarts, finalizer,
          doneClosed, shutdown, waitGroup>>

\* The order in which the runnable starts the servers.
StartOrder == <<"alternate", "primary", "health", "pprof", "metric">>

\* A section without an address disables its server; one whose TLS files
\* cannot be loaded disables it too, except that the health and the metrics
\* servers have certificate fields but never read them.
Kinds == {"empty", "plain", "badTLS"}
BasicNew(n) == config[n] = "plain"
HealthNew == config["health"] # "empty"
MetricNew == config["metric"] # "empty"
Created(n) == CASE n = "health" -> HealthNew
                [] n = "metric" -> MetricNew
                [] OTHER -> BasicNew(n)

\* The slice the finalizer walks: every server but the primary.
Servers == {n \in Names \ {"primary"} : Created(n)}

TypeOK == /\ runner \in {"new", "initialized", "aborted", "created", "bound",
                         "starting", "waiting", "signalled", "failed", "returned"}
          /\ config \in [Names -> Kinds]
          /\ server \in [Names -> {"none", "serving", "exited", "finalized"}]
          /\ listening \subseteq {"primary", "alternate"}
          /\ shut \subseteq Names
          /\ restarts \in 0..MaxRestarts /\ doneClosed \in 0..2
          /\ shutdown \in BOOLEAN /\ waitGroup \subseteq {"health"}

Init == /\ runner = "new"
        /\ config = [n \in Names |-> "empty"]
        /\ listening = {} /\ shut = {} /\ waitGroup = {}
        /\ server = [n \in Names |-> "none"]
        /\ restarts = 0 /\ doneClosed = 0
        /\ finalizer = "idle" /\ shutdown = FALSE

------------------------------------------------------------------------------
\* Initialize: the flags are parsed, the configuration is read and
\* unmarshalled and the registry is built; the first of them to fail leaves
\* the caller with an error, a default logger and no WebPA.
Initialize ==
    /\ runner = "new"
    /\ \/ runner' = "aborted" /\ UNCHANGED config
       \/ /\ runner' = "initialized"
          /\ config' \in [Names -> Kinds]
    /\ UNCHANGED <<listening, server, shut, restarts, finalizer, doneClosed,
                   shutdown, waitGroup>>

\* The runnable creates every server first, so that the slice the finalizer
\* walks is complete before any goroutine can reach it.  A node without a
\* primary server closes done and fails.
CreateServers ==
    /\ runner = "initialized"
    /\ IF Created("primary")
       THEN runner' = "created" /\ UNCHANGED doneClosed
       ELSE runner' = "failed" /\ doneClosed' = doneClosed + 1
    /\ UNCHANGED <<config, listening, server, shut, restarts, finalizer,
                   shutdown, waitGroup>>

\* The primary listener, then the alternate one where there is an alternate
\* server.  An error closes done and ends the runnable; a primary listener
\* that is already open stays open.
NewListener(n) ==
    /\ \/ n = "primary" /\ runner = "created"
       \/ n = "alternate" /\ runner = "bound" /\ Created(n) /\ n \notin listening
    /\ \/ /\ listening' = listening \cup {n}
          /\ runner' = "bound"
          /\ UNCHANGED doneClosed
       \/ /\ runner' = "failed"
          /\ doneClosed' = doneClosed + 1
          /\ UNCHANGED listening
    /\ UNCHANGED <<config, server, shut, restarts, finalizer, shutdown, waitGroup>>

\* The next server of the start order that exists and has no goroutine yet.
ToStart == {n \in Names : Created(n) /\ server[n] = "none"}
Position(n) == CHOOSE i \in DOMAIN StartOrder : StartOrder[i] = n
First(S) == CHOOSE n \in S : \A m \in S : Position(n) <= Position(m)

\* Serve and ListenAndServe start a goroutine; the health server's start
\* also runs the health dispatcher, which joins the wait group.
Serve ==
    /\ \/ runner = "starting"
       \/ runner = "bound" /\ ("alternate" \in Servers => "alternate" \in listening)
    /\ ToStart # {}
    /\ LET n == First(ToStart)
       IN /\ server' = [server EXCEPT ![n] = "serving"]
          /\ waitGroup' = IF n = "health" THEN waitGroup \cup {n} ELSE waitGroup
    /\ runner' = "starting"
    /\ UNCHANGED <<config, listening, shut, restarts, finalizer, doneClosed, shutdown>>

\* The runnable returns and Await waits for a signal.
Started ==
    /\ runner = "starting" /\ ToStart = {}
    /\ runner' = "waiting"
    /\ UNCHANGED <<config, listening, server, shut, restarts, finalizer,
                   doneClosed, shutdown, waitGroup>>

------------------------------------------------------------------------------
\* RestartableFunc: any error but ErrServerClosed serves again at once.  A
\* server that is closed fails with ErrServerClosed, so it never does.
Restart(n) ==
    /\ server[n] = "serving" /\ n \notin shut
    /\ restarts < MaxRestarts
    /\ restarts' = restarts + 1
    /\ UNCHANGED <<runner, config, listening, server, shut, finalizer,
                   doneClosed, shutdown, waitGroup>>

\* Serve returns ErrServerClosed: the server is closed, by the finalizer or
\* from outside, and the goroutine goes on to the finalizer.
ServerExits(n) ==
    /\ server[n] = "serving"
    /\ shut' = shut \cup {n}
    /\ server' = [server EXCEPT ![n] = "exited"]
    /\ UNCHANGED <<runner, config, listening, restarts, finalizer, doneClosed,
                   shutdown, waitGroup>>

\* finalizeOnce: the first goroutine to come closes the servers one by one
\* and then done; the others wait for it and do nothing.
FinalizeAgain(n) ==
    /\ server[n] = "exited" /\ finalizer \in {"idle", "ran"}
    /\ server' = [server EXCEPT ![n] = "finalized"]
    /\ finalizer' = "closing"
    /\ UNCHANGED <<runner, config, listening, shut, restarts, doneClosed,
                   shutdown, waitGroup>>

Finalize(n) ==
    /\ server[n] = "exited" /\ finalizer \in {"idle", "ran"}
    /\ server' = [server EXCEPT ![n] = "finalized"]
    /\ finalizer' = IF finalizer = "idle" THEN "closing" ELSE "ran"
    /\ UNCHANGED <<runner, config, listening, shut, restarts, doneClosed,
                   shutdown, waitGroup>>

CloseServer ==
    /\ finalizer = "closing"
    /\ \E n \in Servers \ shut : shut' = shut \cup {n}
    /\ UNCHANGED <<runner, config, listening, server, restarts, finalizer,
                   doneClosed, shutdown, waitGroup>>

FinalizerDoneEarly ==
    /\ finalizer = "closing"
    /\ finalizer' = "ran"
    /\ doneClosed' = doneClosed + 1
    /\ UNCHANGED <<runner, config, listening, server, shut, restarts, shutdown, waitGroup>>

FinalizerDone ==
    /\ finalizer = "closing" /\ Servers \subseteq shut
    /\ finalizer' = "ran"
    /\ doneClosed' = doneClosed + 1
    /\ UNCHANGED <<runner, config, listening, server, shut, restarts, shutdown, waitGroup>>

------------------------------------------------------------------------------
\* Await receives any signal; SignalWait, which an application may use in its
\* place, passes over the signals it does not wait for and so only waits longer.
Signal ==
    /\ runner = "waiting"
    /\ runner' = "signalled" /\ shutdown' = TRUE
    /\ UNCHANGED <<config, listening, server, shut, restarts, finalizer,
                   doneClosed, waitGroup>>

\* The health dispatcher sees the closed shutdown channel and leaves.
HealthEnds ==
    /\ shutdown /\ waitGroup # {}
    /\ waitGroup' = {}
    /\ UNCHANGED <<runner, config, listening, server, shut, restarts,
                   finalizer, doneClosed, shutdown>>

AwaitReturns ==
    /\ runner = "signalled" /\ waitGroup = {}
    /\ runner' = "returned"
    /\ UNCHANGED <<config, listening, server, shut, restarts, finalizer,
                   doneClosed, shutdown, waitGroup>>

RunnerStep == Initialize \/ CreateServers \/ (\E n \in Names : NewListener(n))
                \/ Serve \/ Started \/ AwaitReturns
GoroutineStep == CloseServer \/ FinalizerDone \/ HealthEnds
                   \/ \E n \in Names : Finalize(n) \/ (n \in shut /\ ServerExits(n))

Next == RunnerStep \/ GoroutineStep \/ Signal
          \/ \E n \in Names : Restart(n) \/ ServerExits(n)

Spec == Init /\ [][Next]_vars

------------------------------------------------------------------------------
\* done tells the application that the node is going down.  It is closed at
\* most once (a second close panics), and when the finalizer closed it, every
\* server of the slice had been told to close before.
DoneIsLast == /\ doneClosed <= 1
              /\ finalizer = "ran" => Servers \subseteq shut

\* A server has ended and another one of the slice has not, or done is open.
Ending == /\ \E n \in Names : server[n] \in {"exited", "finalized"}
          /\ doneClosed = 0 \/ \E m \in Servers : server[m] = "serving"
Signalled == runner = "signalled"
==============================================================================
