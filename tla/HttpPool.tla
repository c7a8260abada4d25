------------------------------ MODULE HttpPool ------------------------------
(***************************************************************************)
(* The pool of goroutines that sends HTTP requests (httppool/client.go),   *)
(* with the health listener of httppool/health that counts its events.     *)
(* A task is the goroutine that hands it in.                               *)
(***************************************************************************)
EXTENDS Integers, Sequences, FiniteSets

CONSTANTS
    Senders,      \* goroutines that Send or Offer one task each
    Workers,
    QueueSize     \* capacity of the tasks channel

VARIABLES
    tasks,        \* the channel
    tasksClosed,
    sender,       \* of each sender: where it is
    worker,       \* of each worker: its stage and its task
    finished,     \* tasks handled
    counts        \* TotalNotifications: queued, rejected, succeeded, failed

vars == <<tasks, tasksClosed, sender, worker, finished, counts>>

Nobody == "none"

TypeOK ==
    /\ tasks \in Seq(Senders) /\ Len(tasks) <= QueueSize
    /\ tasksClosed \in BOOLEAN
    /\ sender \in [Senders -> {"new", "sending", "taken", "refused", "queued", "rejected"}]
    /\ worker \in [Workers -> [stage : {"idle", "ticker", "handle", "gone"},
                               task : Senders \cup {Nobody}]]
    /\ finished \subseteq Senders
    /\ counts \in [queued : Nat, rejected : Nat, succeeded : Nat, failed : Nat]

Init ==
    /\ tasks = <<>> /\ tasksClosed = FALSE
    /\ sender = [s \in Senders |-> "new"]
    /\ worker = [w \in Workers |-> [stage |-> "idle", task |-> Nobody]]
    /\ finished = {}
    /\ counts = [queued |-> 0, rejected |-> 0, succeeded |-> 0, failed |-> 0]

Place(s, place) == sender' = [sender EXCEPT ![s] = place]
Idle == [stage |-> "idle", task |-> Nobody]
\* The health listener: every event adds one to its counter.
On(event) == counts' = [counts EXCEPT ![event] = @ + 1]

-----------------------------------------------------------------------------
(* Send and Offer                                                          *)

Send(s) ==
    /\ sender[s] = "new"
    /\ Place(s, "sending")
    /\ UNCHANGED <<tasks, tasksClosed, worker, finished, counts>>

\* The send finds room.
Enqueue(s) ==
    /\ sender[s] \in {"new", "sending"}
    /\ ~tasksClosed /\ Len(tasks) < QueueSize
    /\ tasks' = Append(tasks, s)
    /\ Place(s, "taken")
    /\ UNCHANGED <<tasksClosed, worker, finished, counts>>

\* The channel is closed, before the send or while it waits: the panic is
\* recovered.  Offer also gives up on a full channel.
Refuse(s) ==
    /\ \/ tasksClosed /\ sender[s] \in {"new", "sending"}
       \/ sender[s] = "new" /\ Len(tasks) = QueueSize
    /\ Place(s, "refused")
    /\ UNCHANGED <<tasks, tasksClosed, worker, finished, counts>>

\* The deferred dispatch of the queue or the reject event.
ReportSend(s) ==
    /\ \/ /\ sender[s] = "taken" /\ Place(s, "queued")
          /\ On("queued")
       \/ /\ sender[s] = "refused" /\ Place(s, "rejected")
          /\ On("rejected")
    /\ UNCHANGED <<tasks, tasksClosed, worker, finished>>

\* A second Close panics, is recovered and changes nothing.
Close ==
    /\ ~tasksClosed
    /\ tasksClosed' = TRUE
    /\ UNCHANGED <<tasks, sender, worker, finished, counts>>

-----------------------------------------------------------------------------
(* The workers                                                             *)

Take(w) ==
    /\ worker[w].stage = "idle" /\ tasks # <<>>
    /\ worker' = [worker EXCEPT ![w] = [stage |-> "ticker", task |-> Head(tasks)]]
    /\ tasks' = Tail(tasks)
    /\ UNCHANGED <<tasksClosed, sender, finished, counts>>

\* A limited worker waits for its ticker.
Ticked(w) ==
    /\ worker[w].stage = "ticker"
    /\ worker' = [worker EXCEPT ![w].stage = "handle"]
    /\ UNCHANGED <<tasks, tasksClosed, sender, finished, counts>>

\* Mutant: a task that panics dispatches no finish event.
HandleTaskSilent(w) ==
    /\ worker[w].stage = "handle"
    /\ finished' = finished \cup {worker[w].task}
    /\ worker' = [worker EXCEPT ![w] = Idle]
    /\ UNCHANGED counts \/ \E end \in {"succeeded", "failed"} : On(end)
    /\ UNCHANGED <<tasks, tasksClosed, sender>>

\* handleTask: the task fails or expired, the transaction fails, something
\* panics, or all is well; the finish event says which.
HandleTask(w) ==
    /\ worker[w].stage = "handle"
    /\ finished' = finished \cup {worker[w].task}
    /\ worker' = [worker EXCEPT ![w] = Idle]
    /\ \E end \in {"succeeded", "failed"} : On(end)
    /\ UNCHANGED <<tasks, tasksClosed, sender>>

\* Mutant: the worker looks at the closed channel before it looks at the tasks.
WorkerEndsEarly(w) ==
    /\ worker[w].stage = "idle" /\ tasksClosed
    /\ worker' = [worker EXCEPT ![w].stage = "gone"]
    /\ UNCHANGED <<tasks, tasksClosed, sender, finished, counts>>

\* The range ends when the channel is closed and empty.
WorkerEnds(w) ==
    /\ worker[w].stage = "idle" /\ tasks = <<>> /\ tasksClosed
    /\ worker' = [worker EXCEPT ![w].stage = "gone"]
    /\ UNCHANGED <<tasks, tasksClosed, sender, finished, counts>>

-----------------------------------------------------------------------------
WorkerStep(w) == Take(w) \/ Ticked(w) \/ HandleTask(w) \/ WorkerEnds(w)
SenderStep(s) == Enqueue(s) \/ Refuse(s) \/ ReportSend(s)

Next ==
    \/ Close
    \/ \E s \in Senders : Send(s) \/ SenderStep(s)
    \/ \E w \in Workers : WorkerStep(w)

-----------------------------------------------------------------------------
At(places) == {s \in Senders : sender[s] \in places}

\* A task that was taken is in the channel, with one worker, or handled; one
\* that was refused is nowhere; the events add up.
TasksAccounted ==
    /\ \A s \in Senders :
          LET copies == Cardinality({i \in DOMAIN tasks : tasks[i] = s})
                        + Cardinality({w \in Workers : worker[w].task = s})
                        + (IF s \in finished THEN 1 ELSE 0)
          IN  copies = IF sender[s] \in {"taken", "queued"} THEN 1 ELSE 0
    /\ counts.queued = Cardinality(At({"queued"}))
    /\ counts.rejected = Cardinality(At({"rejected"}))
    /\ counts.succeeded + counts.failed = Cardinality(finished)

\* After Close, a task that was taken is not handled, a worker has not ended,
\* or a Send still waits.
Draining == tasksClosed /\ (\/ tasks # <<>>
                            \/ \E w \in Workers : worker[w].stage # "gone"
                            \/ At({"sending"}) # {})
=============================================================================
