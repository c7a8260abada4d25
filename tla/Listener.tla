------------------------------ MODULE Listener ------------------------------
(***************************************************************************)
(* The two ways to bound the connections of a server: the listener of      *)
(* xlistener/listener.go, whose semaphore a connection holds from Accept   *)
(* to its first Close, and the ConnState callback of                       *)
(* conlimiter/conlimiter.go.  One goroutine accepts; connections are       *)
(* closed from any goroutine, and more than once.                          *)
(***************************************************************************)
EXTENDS Integers, FiniteSets

CONSTANTS
    Conns,            \* connections that arrive
    MaxConnections    \* the limit; 0: the listener has no semaphore

VARIABLES
    conn,         \* of each connection: where it is
    semaphore,    \* tokens in the listener's channel
    active,       \* the active gauge
    rejected,     \* the rejected counter
    state,        \* of each connection: its http.ConnState
    current       \* the limiter's counter

limiterVars == <<state, current>>
listenerVars == <<conn, semaphore, active, rejected>>
vars == <<listenerVars, limiterVars>>

TypeOK ==
    /\ conn \in [Conns -> {"none", "arrived", "acquired", "open", "closing",
                           "uncounted", "closed", "rejected"}]
    /\ semaphore \in Nat
    /\ active \in Int
    /\ rejected \in Nat
    /\ state \in [Conns -> {"none", "new", "kept", "refused", "hijacked", "closed"}]
    /\ current \in Int

Init ==
    /\ conn = [c \in Conns |-> "none"]
    /\ semaphore = 0
    /\ active = 0
    /\ rejected = 0
    /\ state = [c \in Conns |-> "none"]
    /\ current = 0

Conn(c, from, to) ==
    /\ conn[c] = from
    /\ conn' = [conn EXCEPT ![c] = to]
    /\ UNCHANGED limiterVars

-----------------------------------------------------------------------------
(* xlistener                                                               *)

\* The delegate's Accept returns a connection; the loop handles it before the
\* next one.
Arrive(c) ==
    /\ \A o \in Conns : conn[o] \notin {"arrived", "acquired"}
    /\ Conn(c, "none", "arrived")
    /\ UNCHANGED <<semaphore, active, rejected>>

\* acquire: the select on the semaphore does not wait.
Acquire(c) ==
    /\ MaxConnections > 0 => semaphore < MaxConnections
    /\ semaphore' = IF MaxConnections > 0 THEN semaphore + 1 ELSE semaphore
    /\ Conn(c, "arrived", "acquired")
    /\ UNCHANGED <<active, rejected>>

Reject(c) ==
    /\ MaxConnections > 0 /\ semaphore = MaxConnections
    /\ rejected' = rejected + 1
    /\ Conn(c, "arrived", "rejected")
    /\ UNCHANGED <<semaphore, active>>

CountActive(c) ==
    /\ active' = active + 1
    /\ Conn(c, "acquired", "open")
    /\ UNCHANGED <<semaphore, rejected>>

\* conn.Close: the first call runs release, the later ones find the Once used.
CloseConn(c) ==
    /\ Conn(c, "open", "closing")
    /\ UNCHANGED <<semaphore, active, rejected>>

\* Mutant: without the Once every Close releases.
ReleaseAgain(c) ==
    /\ conn[c] \in {"closing", "closed"}
    /\ active' = active - 1
    /\ conn' = [conn EXCEPT ![c] = "uncounted"]
    /\ UNCHANGED <<semaphore, rejected, limiterVars>>

\* release: the gauge first, then the token.
Release(c) ==
    /\ active' = active - 1
    /\ Conn(c, "closing", "uncounted")
    /\ UNCHANGED <<semaphore, rejected>>

ReturnToken(c) ==
    /\ MaxConnections > 0 => semaphore > 0
    /\ semaphore' = IF MaxConnections > 0 THEN semaphore - 1 ELSE semaphore
    /\ Conn(c, "uncounted", "closed")
    /\ UNCHANGED <<active, rejected>>

-----------------------------------------------------------------------------
(* conlimiter                                                              *)

State(c, from, to) ==
    /\ state[c] \in from
    /\ state' = [state EXCEPT ![c] = to]
    /\ UNCHANGED listenerVars

\* StateNew, from the accepting goroutine: add, then load and compare.
StateNew(c) ==
    /\ \A o \in Conns : state[o] # "new"
    /\ current' = current + 1
    /\ State(c, {"none"}, "new")

Compare(c) ==
    /\ State(c, {"new"}, IF MaxConnections < current THEN "refused" ELSE "kept")
    /\ UNCHANGED current

\* The server reports the end of a connection once: closed, or hijacked.
StateClosed(c) ==
    /\ current' = current - 1
    /\ State(c, {"kept", "refused"}, "closed")

StateHijacked(c) ==
    /\ current' = current - 1
    /\ State(c, {"kept"}, "hijacked")

-----------------------------------------------------------------------------
ListenerNext ==
    \E c \in Conns : Arrive(c) \/ Acquire(c) \/ Reject(c) \/ CountActive(c)
                       \/ CloseConn(c) \/ Release(c) \/ ReturnToken(c)

LimiterNext ==
    \E c \in Conns : StateNew(c) \/ Compare(c) \/ StateClosed(c) \/ StateHijacked(c)

Next == ListenerNext \/ LimiterNext

-----------------------------------------------------------------------------
Placed(places) == {c \in Conns : conn[c] \in places}
States(kinds) == {c \in Conns : state[c] \in kinds}

\* No more connections are open than the limit allows, each one holds one token
\* and is counted once, however often it is closed, and release never waits; a
\* connection the limiter keeps was within its limit, and its counter is the
\* number of connections that have not ended.
ConnectionsBounded ==
    /\ MaxConnections > 0 =>
          /\ semaphore = Cardinality(Placed({"acquired", "open", "closing", "uncounted"}))
          /\ semaphore <= MaxConnections
    /\ active = Cardinality(Placed({"open", "closing"}))
    /\ current = Cardinality(States({"new", "kept", "refused"}))
    /\ Cardinality(States({"kept"})) <= MaxConnections
=============================================================================
