----------------------------- MODULE Semaphore -----------------------------
(***************************************************************************)
(* The closeable semaphore and its instrumentation (semaphore/).  A plain  *)
(* semaphore is one that nobody closes; xhttp.Busy acquires one with the   *)
(* context of a request and releases it after the handler.                 *)
(***************************************************************************)
EXTENDS Integers, FiniteSets

CONSTANTS
    Callers,     \* goroutines that use the semaphore
    Count,       \* the capacity of its channel
    MaxCalls     \* bound: acquisitions per caller

VARIABLES
    slots,       \* tokens in the channel
    semState,    \* "open", "closed": the atomic state
    closedChan,  \* the closed channel is closed
    caller,      \* of each caller: where it is; its mode, while it selects
    calls,       \* of each caller: how often it has acquired
    resources,   \* the metrics
    failures,
    closedGauge

meters == <<resources, failures, closedGauge>>
vars == <<slots, semState, closedChan, caller, calls, meters>>

Modes == {"Acquire", "AcquireWait", "AcquireCtx", "TryAcquire"}

TypeOK ==
    /\ slots \in 0..Count
    /\ semState \in {"open", "closed"}
    /\ closedChan \in BOOLEAN
    /\ caller \in [Callers -> Modes \cup {"idle", "taken", "acquired", "failed",
                                       "held", "releasing", "given"}]
    /\ calls \in [Callers -> 0..MaxCalls]
    /\ resources \in Int
    /\ failures \in Nat
    /\ closedGauge \in {"open", "closed"}

Init ==
    /\ slots = 0
    /\ semState = "open"
    /\ closedChan = FALSE
    /\ caller = [c \in Callers |-> "idle"]
    /\ calls = [c \in Callers |-> 0]
    /\ resources = 0
    /\ failures = 0
    /\ closedGauge = "open"

Goto(c, place) == caller' = [caller EXCEPT ![c] = place]

-----------------------------------------------------------------------------
(* Acquire, AcquireWait, AcquireCtx and TryAcquire.                        *)

\* The first checkClosed.
Call(c) ==
    /\ caller[c] = "idle"
    /\ calls[c] < MaxCalls
    /\ calls' = [calls EXCEPT ![c] = @ + 1]
    /\ \E m \in Modes : Goto(c, IF semState = "closed" THEN "failed" ELSE m)
    /\ UNCHANGED <<slots, semState, closedChan, meters>>

\* The select puts a token into the channel.
Take(c) ==
    /\ caller[c] \in Modes
    /\ slots < Count
    /\ slots' = slots + 1
    /\ Goto(c, "taken")
    /\ UNCHANGED <<semState, closedChan, calls, meters>>

\* The second checkClosed, with the token taken.
Recheck(c) ==
    /\ caller[c] = "taken"
    /\ Goto(c, IF semState = "closed" THEN "failed" ELSE "acquired")
    /\ UNCHANGED <<slots, semState, closedChan, calls, meters>>

\* The other cases of the select: the semaphore is closed, or TryAcquire finds
\* the channel full.
GiveUp(c) ==
    /\ \/ caller[c] \in Modes \ {"TryAcquire"} /\ closedChan
       \/ caller[c] = "TryAcquire" /\ slots = Count
    /\ Goto(c, "failed")
    /\ UNCHANGED <<slots, semState, closedChan, calls, meters>>

\* The time is up, or the context is done.
Expire(c) ==
    /\ caller[c] \in {"AcquireWait", "AcquireCtx"}
    /\ Goto(c, "failed")
    /\ UNCHANGED <<slots, semState, closedChan, calls, meters>>

\* Mutant: the caller releases what it failed to acquire, as a release that is
\* deferred before the error is looked at would.
CountResultReleases(c) ==
    /\ \/ caller[c] = "acquired" /\ resources' = resources + 1 /\ UNCHANGED failures
       \/ caller[c] = "failed" /\ failures' = failures + 1 /\ UNCHANGED resources
    /\ Goto(c, "held")
    /\ UNCHANGED <<slots, semState, closedChan, calls, closedGauge>>

\* The instrumented semaphore counts the result.
CountResult(c) ==
    /\ \/ /\ caller[c] = "acquired"
          /\ resources' = resources + 1
          /\ UNCHANGED failures
          /\ Goto(c, "held")
       \/ /\ caller[c] = "failed"
          /\ failures' = failures + 1
          /\ UNCHANGED resources
          /\ Goto(c, "idle")
    /\ UNCHANGED <<slots, semState, closedChan, calls, closedGauge>>

-----------------------------------------------------------------------------
(* Release and Close.                                                      *)

\* ErrClosed leaves the token where it is.
Release(c) ==
    /\ caller[c] = "held"
    /\ Goto(c, IF semState = "closed" THEN "idle" ELSE "releasing")
    /\ UNCHANGED <<slots, semState, closedChan, calls, meters>>

Give(c) ==
    /\ caller[c] = "releasing"
    /\ slots > 0
    /\ slots' = slots - 1
    /\ Goto(c, "given")
    /\ UNCHANGED <<semState, closedChan, calls, meters>>

CountRelease(c) ==
    /\ caller[c] = "given"
    /\ resources' = resources - 1
    /\ Goto(c, "idle")
    /\ UNCHANGED <<slots, semState, closedChan, calls, failures, closedGauge>>

\* The state is swapped, then the channel closed; instrumentation follows.
Close ==
    /\ semState = "open"
    /\ semState' = "closed"
    /\ UNCHANGED <<slots, closedChan, caller, calls, meters>>

CloseChan ==
    /\ semState = "closed"
    /\ ~closedChan
    /\ closedChan' = TRUE
    /\ UNCHANGED <<slots, semState, caller, calls, meters>>

\* The end of the first Close, or of one that got ErrClosed.
CloseGauge ==
    /\ semState = "closed"
    /\ closedGauge = "open"
    /\ closedGauge' = "closed"
    /\ UNCHANGED <<slots, semState, closedChan, caller, calls, resources, failures>>

-----------------------------------------------------------------------------
CallerStep(c) ==
    \/ Take(c) \/ Recheck(c) \/ GiveUp(c) \/ CountResult(c)
    \/ Release(c) \/ Give(c) \/ CountRelease(c)

CloseStep == CloseChan \/ CloseGauge

Next == (\E c \in Callers : Call(c) \/ Expire(c) \/ CallerStep(c)) \/ Close \/ CloseStep

-----------------------------------------------------------------------------
In(places) == {c \in Callers : caller[c] \in places}

\* No more resources are out than there are, a Release never waits for a
\* token, and while the semaphore is open none is lost: every token belongs to
\* a caller and the metric counts those that are out.
SlotsConserved ==
    /\ Cardinality(In({"acquired", "held", "releasing"})) <= slots
    /\ semState = "open" =>
          /\ slots = Cardinality(In({"taken", "acquired", "held", "releasing"}))
          /\ resources = Cardinality(In({"held", "releasing", "given"}))

\* c waits for a resource of a semaphore that is closed.
WaitsForClosed(c) == semState = "closed" /\ caller[c] \in Modes
=============================================================================
