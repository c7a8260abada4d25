------------------------------ MODULE Drainer ------------------------------
(***************************************************************************)
(* The drainer disconnects a number of devices in batches                  *)
(* (device/drain/drainer.go, device/drain/tracker.go).                     *)
(*                                                                         *)
(* A job is named by the call of Start that made it: current is the job    *)
(* whose id is currentID.  VisitAll holds the registry's lock, so a visit  *)
(* is one step; between two visits, and between the disconnections of a    *)
(* batch, devices come and go.                                             *)
(***************************************************************************)
EXTENDS DeviceGate, Integers, FiniteSets

CONSTANTS
    IDs,         \* device identifiers
    Kinds,       \* the descriptors devices have
    Offline,     \* no device under an ID
    Jobs,        \* calls of Start
    NoJob,       \* no job was started yet
    JobInputs,   \* what Start is called with
    BatchSize,   \* disconnectBatchSize
    MaxChanges   \* bound: devices that come or go by themselves

NoFilter == [key \in FilterKeys |-> NoValue]

ASSUME DrainerAssumption ==
    /\ IsFiniteSet(IDs)
    /\ Kinds \subseteq Descriptors
    /\ Offline \notin Kinds
    /\ NoJob \notin Jobs
    /\ JobInputs \subseteq [count : Int, percent : Nat, rate : Int, filter : FilterStores]
    /\ BatchSize \in Nat \ {0}
    /\ MaxChanges \in Nat

VARIABLES
    online,      \* the registry
    changes,     \* how often it changed by itself
    active,      \* drainer.active
    current,     \* the latest job
    gauge,       \* the drain state metric
    pc,          \* of each call of Start and of the job it starts
    job,         \* jobContext.j, normalized
    cancelled,   \* jobContext.cancel is closed
    remaining,   \* devices the job still wants to disconnect
    batch,       \* the IDs in its batch channel
    visited,     \* what nextBatch counted in this batch
    skipped,
    drained,
    progress,    \* the job's tracker
    target,      \* history: what an undisturbed job must disconnect
    disturbed    \* history: the registry changed otherwise, or the job was cancelled

controlVars == <<active, current, gauge>>
batchVars == <<batch, visited, skipped, drained>>
historyVars == <<target, disturbed>>
vars == <<online, changes, controlVars, pc, job, cancelled, remaining, batchVars, progress, historyVars>>

Connected == {id \in IDs : online[id] # Offline}
RegistryLen == Cardinality(Connected)
Least(a, b) == IF a < b THEN a ELSE b

TypeOK ==
    /\ online \in [IDs -> Kinds \cup {Offline}]
    /\ changes \in 0..MaxChanges
    /\ active \in BOOLEAN
    /\ current \in Jobs \cup {NoJob}
    /\ gauge \in {"draining", "not draining"}
    /\ pc \in [Jobs -> {"idle", "start", "refused", "loop", "disconnect", "check",
                        "finish", "release", "close", "done"}]
    /\ job \in [Jobs -> [count : Nat, rate : Nat, filter : FilterStores]]
    /\ cancelled \in [Jobs -> BOOLEAN]
    /\ remaining \in [Jobs -> Int]
    /\ batch \in [Jobs -> SUBSET IDs]
    /\ visited \in [Jobs -> Nat]
    /\ skipped \in [Jobs -> Nat]
    /\ drained \in [Jobs -> Nat]
    /\ progress \in [Jobs -> [visited : Nat, drained : Nat, finished : BOOLEAN]]
    /\ target \in [Jobs -> Nat]
    /\ disturbed \in [Jobs -> BOOLEAN]

Init ==
    /\ online \in [IDs -> Kinds \cup {Offline}]
    /\ changes = 0
    /\ active = FALSE
    /\ current = NoJob
    /\ gauge = "not draining"
    /\ pc = [j \in Jobs |-> "idle"]
    /\ job = [j \in Jobs |-> [count |-> 0, rate |-> 0, filter |-> NoFilter]]
    /\ cancelled = [j \in Jobs |-> FALSE]
    /\ remaining = [j \in Jobs |-> 0]
    /\ batch = [j \in Jobs |-> {}]
    /\ visited = [j \in Jobs |-> 0]
    /\ skipped = [j \in Jobs |-> 0]
    /\ drained = [j \in Jobs |-> 0]
    /\ progress = [j \in Jobs |-> [visited |-> 0, drained |-> 0, finished |-> FALSE]]
    /\ target = [j \in Jobs |-> 0]
    /\ disturbed = [j \in Jobs |-> FALSE]

-----------------------------------------------------------------------------
(* The registry, as the drainer sees it.                                   *)

\* The devices the job would disconnect, and those its filter lets stay.
Candidates(j) == {id \in Connected : job[j].filter = NoFilter \/ ~AllowConnection(job[j].filter, online[id])}
Allowed(j) == Connected \ Candidates(j)

\* The registry changes under all jobs but j.
Disturb(others) == disturbed' = [j \in Jobs |-> disturbed[j] \/ j \in others]

\* A device connects, disconnects, or is replaced by one with the same ID.
DeviceChanges(id) ==
    /\ changes < MaxChanges
    /\ changes' = changes + 1
    /\ \E k \in Kinds \cup {Offline} : k # online[id] /\ online' = [online EXCEPT ![id] = k]
    /\ Disturb(Jobs)
    /\ UNCHANGED <<controlVars, pc, job, cancelled, remaining, batchVars, progress, target>>

-----------------------------------------------------------------------------
(* Start and Cancel.                                                       *)

\* Percent is computed in floating point and truncated: where the exact value
\* is a whole number the result may be one less.
PercentOf(n, percent) ==
    LET exact == (n * percent) \div 100
    IN  {exact} \cup {c \in {exact - 1} : c >= 0 /\ n * percent = 100 * exact}

\* Job.normalize for n connected devices.
Normalize(input, n) ==
    {[count |-> c, rate |-> IF input.rate > 0 THEN input.rate ELSE 0, filter |-> input.filter] :
        c \in IF input.percent > 0 THEN PercentOf(n, input.percent)
              ELSE IF input.count <= 0 THEN {n} ELSE {input.count}}

\* Start reads the number of devices before it has the lock.
StartNormalize(j) ==
    /\ pc[j] = "idle"
    /\ \E input \in JobInputs : \E normal \in Normalize(input, RegistryLen) :
          job' = [job EXCEPT ![j] = normal]
    /\ pc' = [pc EXCEPT ![j] = "start"]
    /\ UNCHANGED <<online, changes, controlVars, cancelled, remaining, batchVars, progress, historyVars>>

\* Under the lock: ErrActive, or the goroutine of the job starts.
Start(j) ==
    /\ pc[j] = "start"
    /\ IF active
       THEN /\ pc' = [pc EXCEPT ![j] = "refused"]
            /\ UNCHANGED <<controlVars, remaining, historyVars>>
       ELSE /\ active' = TRUE
            /\ current' = j
            /\ gauge' = "draining"
            /\ pc' = [pc EXCEPT ![j] = "loop"]
            /\ remaining' = [remaining EXCEPT ![j] = job[j].count]
            /\ target' = [target EXCEPT ![j] = Least(job[j].count, Cardinality(Candidates(j)))]
            /\ disturbed' = [disturbed EXCEPT ![j] = FALSE]
    /\ UNCHANGED <<online, changes, job, cancelled, batchVars, progress>>

\* ErrNotActive changes nothing.
Cancel ==
    /\ active
    /\ active' = FALSE
    /\ gauge' = "not draining"
    /\ cancelled' = [cancelled EXCEPT ![current] = TRUE]
    /\ Disturb({current})
    /\ UNCHANGED <<online, changes, current, pc, job, remaining, batchVars, progress, target>>

-----------------------------------------------------------------------------
(* The goroutine of a job: drain with a rate, disconnect without.          *)

\* Mutant: a last batch is as large as the others.
CapacityOfBatch(j) == IF job[j].rate > 0 THEN job[j].rate ELSE BatchSize

\* Mutant: one device less.
CapacityShort(j) == Least(remaining[j], IF job[j].rate > 0 THEN job[j].rate ELSE BatchSize) - 1

\* The size of the batch channel.
Capacity(j) == Least(remaining[j], IF job[j].rate > 0 THEN job[j].rate ELSE BatchSize)

\* The visit of nextBatch stops when the batch is full; a cancelled job stops
\* at the next device it would enqueue, unless the select enqueues it.
VisitOutcomes(j) ==
    {o \in [batch : SUBSET Candidates(j), skipped : 0..Cardinality(Allowed(j)), more : BOOLEAN] :
        LET n == Cardinality(o.batch)
            c == Cardinality(Candidates(j))
        IN  IF o.more
            THEN /\ n = Least(Capacity(j), c)
                 /\ c <= Capacity(j) => o.skipped = Cardinality(Allowed(j))
                 /\ cancelled[j] => c <= Capacity(j)
            ELSE cancelled[j] /\ n < c /\ n <= Capacity(j)}

\* One visit of the registry; with a rate, once the ticker has ticked.
NextBatch(j) ==
    /\ pc[j] = "loop"
    /\ remaining[j] > 0
    /\ \E o \in VisitOutcomes(j) :
        /\ batch' = [batch EXCEPT ![j] = o.batch]
        /\ visited' = [visited EXCEPT ![j] = Cardinality(o.batch)]
        /\ skipped' = [skipped EXCEPT ![j] = o.skipped]
        /\ drained' = [drained EXCEPT ![j] = 0]
        /\ pc' = [pc EXCEPT ![j] = IF o.more /\ o.batch # {} THEN "disconnect" ELSE "finish"]
    /\ UNCHANGED <<online, changes, controlVars, job, cancelled, remaining, progress, historyVars>>

\* Mutant: a job that has nothing left to drain waits on.
LoopEndsCancelled(j) ==
    /\ pc[j] = "loop"
    /\ cancelled[j]
    /\ pc' = [pc EXCEPT ![j] = "finish"]
    /\ UNCHANGED <<online, changes, controlVars, job, cancelled, remaining, batchVars, progress, historyVars>>

\* A job with a rate waits for the ticker or for its cancellation.
LoopEnds(j) ==
    /\ pc[j] = "loop"
    /\ remaining[j] <= 0 \/ (job[j].rate > 0 /\ cancelled[j])
    /\ pc' = [pc EXCEPT ![j] = "finish"]
    /\ UNCHANGED <<online, changes, controlVars, job, cancelled, remaining, batchVars, progress, historyVars>>

\* One device of the batch is disconnected, if it is still there.
DisconnectOne(j, id) ==
    /\ pc[j] = "disconnect"
    /\ id \in batch[j]
    /\ batch' = [batch EXCEPT ![j] = @ \ {id}]
    /\ IF online[id] = Offline
       THEN UNCHANGED <<online, changes, drained, disturbed>>
       ELSE /\ online' = [online EXCEPT ![id] = Offline]
            /\ drained' = [drained EXCEPT ![j] = @ + 1]
            /\ Disturb(Jobs \ {j})
    /\ UNCHANGED <<changes, controlVars, pc, job, cancelled, remaining, visited, skipped, progress, target>>

\* The batch is empty, or the job is cancelled; the tracker is told.
BatchDone(j) ==
    /\ pc[j] = "disconnect"
    /\ cancelled[j] \/ batch[j] = {}
    /\ progress' = [progress EXCEPT ![j].visited = @ + visited[j],
                                    ![j].drained = @ + drained[j]]
    /\ remaining' = [remaining EXCEPT ![j] = @ - visited[j]]
    /\ pc' = [pc EXCEPT ![j] = IF cancelled[j] THEN "finish"
                               ELSE IF job[j].rate > 0 THEN "check" ELSE "loop"]
    /\ UNCHANGED <<online, changes, controlVars, job, cancelled, batchVars, historyVars>>

\* drain stops when it skipped as many devices as are left.
CheckSkipped(j) ==
    /\ pc[j] = "check"
    /\ pc' = [pc EXCEPT ![j] = IF skipped[j] = RegistryLen THEN "finish" ELSE "loop"]
    /\ UNCHANGED <<online, changes, controlVars, job, cancelled, remaining, batchVars, progress, historyVars>>

-----------------------------------------------------------------------------
(* jobFinished.                                                            *)

\* The locals of the loop are gone.
FinishTracker(j) ==
    /\ pc[j] = "finish"
    /\ remaining' = [remaining EXCEPT ![j] = 0]
    /\ batch' = [batch EXCEPT ![j] = {}]
    /\ visited' = [visited EXCEPT ![j] = 0]
    /\ skipped' = [skipped EXCEPT ![j] = 0]
    /\ drained' = [drained EXCEPT ![j] = 0]
    /\ progress' = [progress EXCEPT ![j].finished = TRUE]
    /\ pc' = [pc EXCEPT ![j] = "release"]
    /\ UNCHANGED <<online, changes, controlVars, job, cancelled, historyVars>>

\* Mutant: the job does not compare its id with currentID.
ReleaseAny(j) ==
    /\ pc[j] = "release"
    /\ active' = FALSE
    /\ gauge' = "not draining"
    /\ pc' = [pc EXCEPT ![j] = "close"]
    /\ UNCHANGED <<online, changes, current, job, cancelled, remaining, batchVars, progress, historyVars>>

\* Under the lock: only the current job makes the drainer inactive.
Release(j) ==
    /\ pc[j] = "release"
    /\ IF current = j /\ active
       THEN active' = FALSE /\ gauge' = "not draining"
       ELSE UNCHANGED <<active, gauge>>
    /\ pc' = [pc EXCEPT ![j] = "close"]
    /\ UNCHANGED <<online, changes, current, job, cancelled, remaining, batchVars, progress, historyVars>>

CloseDone(j) ==
    /\ pc[j] = "close"
    /\ pc' = [pc EXCEPT ![j] = "done"]
    /\ UNCHANGED <<online, changes, controlVars, job, cancelled, remaining, batchVars, progress, historyVars>>

-----------------------------------------------------------------------------
JobStep(j) ==
    \/ NextBatch(j) \/ LoopEnds(j)
    \/ \E id \in IDs : DisconnectOne(j, id)
    \/ BatchDone(j) \/ CheckSkipped(j)
    \/ FinishTracker(j) \/ Release(j) \/ CloseDone(j)

Next ==
    \/ \E id \in IDs : DeviceChanges(id)
    \/ \E j \in Jobs : StartNormalize(j) \/ Start(j) \/ JobStep(j)
    \/ Cancel

\* A goroutine that can run does, and the ticker of a job ticks.
FairSpec == Init /\ [][Next]_vars /\ \A j \in Jobs : WF_vars(JobStep(j))

-----------------------------------------------------------------------------
(* Properties that hold.                                                   *)

\* "Visited ... will not exceed the Job.Count value", nor does Drained exceed
\* Visited, whatever devices do meanwhile.
ProgressBounded ==
    \A j \in Jobs : progress[j].drained <= progress[j].visited /\ progress[j].visited <= job[j].count

\* The drainer is active exactly while its latest job runs and has not been
\* cancelled: an older job that finishes late does not clear the state of its
\* successor, and Cancel never closes a cancel channel twice.
ActiveIsCurrent ==
    /\ active <=> /\ current # NoJob
                  /\ ~cancelled[current]
                  /\ pc[current] \notin {"close", "done"}
    /\ gauge = IF active THEN "draining" ELSE "not draining"

\* A job nobody disturbs disconnects what it was asked to: its count, or every
\* device its filter does not let stay, in batches of any size.
DrainsItsShare ==
    \A j \in Jobs : pc[j] = "done" /\ ~disturbed[j] => progress[j].drained = target[j]

\* Every job ends, also while devices keep connecting.
JobEnds == \A j \in Jobs : pc[j] = "loop" ~> pc[j] = "done"

-----------------------------------------------------------------------------
(* What the documentation says and the code does not do.                   *)

\* device/drain/drainer.go:175: only one job runs at any time.
OneJobRuns ==
    \A j, k \in Jobs : pc[j] \in {"loop", "disconnect", "check"} /\ pc[k] \in {"loop", "disconnect", "check"}
                       => j = k
=============================================================================
