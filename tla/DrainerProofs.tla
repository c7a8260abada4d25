--------------------------- MODULE DrainerProofs ---------------------------
(***************************************************************************)
(* Theorems about Drainer for any number of devices and of jobs, any       *)
(* filters and descriptors, and any batch size.                            *)
(***************************************************************************)
EXTENDS Drainer, TLAPS

\* What the library proves of the sizes of finite sets; the end of the module
\* takes it from there.
FiniteFacts ==
    /\ IsFiniteSet({}) /\ Cardinality({}) = 0
    /\ \A S : IsFiniteSet(S) =>
         /\ Cardinality(S) \in Nat
         /\ \A T \in SUBSET S : IsFiniteSet(T) /\ Cardinality(T) <= Cardinality(S)
         /\ \A x \in S : IsFiniteSet(S \ {x}) /\ Cardinality(S \ {x}) = Cardinality(S) - 1
    /\ \A S, T : IsFiniteSet(S) /\ IsFiniteSet(T) =>
         /\ IsFiniteSet(S \cup T)
         /\ Cardinality(S \cup T) = Cardinality(S) + Cardinality(T) - Cardinality(S \cap T)

-----------------------------------------------------------------------------
(* The inductive invariants.                                               *)

NotStarted == {"idle", "start", "refused"}
InLoop == {"loop", "disconnect", "check"}

\* What a job has visited and what it still wants add up to its count; what is
\* in the batch channel was visited and is not drained yet.
ProgressOf(j) ==
    /\ progress[j].drained <= progress[j].visited
    /\ progress[j].visited <= job[j].count
    /\ pc[j] \in NotStarted => progress[j].visited = 0
    /\ pc[j] \in InLoop => remaining[j] = job[j].count - progress[j].visited
    /\ pc[j] = "disconnect" => /\ visited[j] <= remaining[j]
                               /\ drained[j] + Cardinality(batch[j]) <= visited[j]

ProgressInv == \A j \in Jobs : ProgressOf(j)

\* Only a job that was started is current or cancelled.
ControlInv ==
    /\ ActiveIsCurrent
    /\ current # NoJob => pc[current] \notin NotStarted
    /\ \A j \in Jobs : cancelled[j] => pc[j] \notin NotStarted

\* The share of an undisturbed job: what it drained and what it can still
\* drain make up its target, and what it skipped is still there.
Share(j) ==
    /\ ~cancelled[j]
    /\ pc[j] \in {"loop", "check"} =>
          /\ progress[j].drained = progress[j].visited
          /\ target[j] = progress[j].drained + Least(remaining[j], Cardinality(Candidates(j)))
    /\ pc[j] = "disconnect" =>
          /\ progress[j].drained = progress[j].visited
          /\ batch[j] \subseteq Candidates(j)
          /\ visited[j] = drained[j] + Cardinality(batch[j])
          /\ target[j] = progress[j].drained + drained[j]
                           + Least(remaining[j] - drained[j], Cardinality(Candidates(j)))
    /\ pc[j] \in {"disconnect", "check"} => skipped[j] <= Cardinality(Allowed(j))
    /\ pc[j] \in {"finish", "release", "close", "done"} => target[j] = progress[j].drained

ShareInv == \A j \in Jobs : pc[j] \notin NotStarted /\ ~disturbed[j] => Share(j)

-----------------------------------------------------------------------------
(* Types.                                                                  *)

\* The registry is finite, so its parts have sizes.
LEMMA SubsetsOfIDs ==
    ASSUME FiniteFacts, NEW S, S \subseteq IDs
    PROVE  IsFiniteSet(S) /\ Cardinality(S) \in Nat
BY DrainerAssumption DEF FiniteFacts

LEMMA RegistryParts ==
    ASSUME FiniteFacts, NEW j
    PROVE  /\ Candidates(j) \subseteq Connected /\ Allowed(j) \subseteq Connected
           /\ Connected \subseteq IDs
           /\ Cardinality(Candidates(j)) \in Nat /\ Cardinality(Allowed(j)) \in Nat
           /\ RegistryLen \in Nat
<1>1. /\ Candidates(j) \subseteq Connected /\ Allowed(j) \subseteq Connected
      /\ Connected \subseteq IDs
  BY DEF Candidates, Allowed, Connected
<1> QED
  BY <1>1, SubsetsOfIDs DEF RegistryLen

LEMMA NormalizeType ==
    ASSUME NEW input \in JobInputs, NEW n \in Nat, NEW normal \in Normalize(input, n)
    PROVE  normal \in [count : Nat, rate : Nat, filter : FilterStores]
<1>1. input \in [count : Int, percent : Nat, rate : Int, filter : FilterStores]
  BY DrainerAssumption
<1>2. PercentOf(n, input.percent) \subseteq Nat
  <2>1. n * input.percent \in Nat
    BY <1>1
  <2>2. (n * input.percent) \div 100 \in Nat
    BY <2>1
  <2> QED
    BY <2>1, <2>2 DEF PercentOf
<1>3. (IF input.percent > 0 THEN PercentOf(n, input.percent)
       ELSE IF input.count <= 0 THEN {n} ELSE {input.count}) \subseteq Nat
  BY <1>1, <1>2
<1>4. (IF input.rate > 0 THEN input.rate ELSE 0) \in Nat
  BY <1>1
<1> QED
  BY <1>1, <1>3, <1>4 DEF Normalize

\* What nextBatch returns.
LEMMA OutcomeType ==
    ASSUME FiniteFacts, NEW j \in Jobs, NEW o \in VisitOutcomes(j)
    PROVE  /\ o.batch \subseteq Candidates(j) /\ o.batch \subseteq IDs
           /\ Cardinality(o.batch) \in Nat
           /\ o.skipped \in Nat /\ o.skipped <= Cardinality(Allowed(j))
           /\ o.more \in BOOLEAN
<1>1. /\ o.batch \in SUBSET Candidates(j) /\ o.skipped \in 0..Cardinality(Allowed(j))
      /\ o.more \in BOOLEAN
  BY DEF VisitOutcomes
<1> QED
  BY <1>1, RegistryParts, SubsetsOfIDs

LEMMA DrainerTypeInit == Init => TypeOK
<1>1. NoFilter \in FilterStores
  BY DEF NoFilter, FilterStores
<1> SUFFICES ASSUME Init PROVE TypeOK
  OBVIOUS
<1>2. job \in [Jobs -> [count : Nat, rate : Nat, filter : FilterStores]]
  BY <1>1, Zenon DEF Init
<1>3. progress \in [Jobs -> [visited : Nat, drained : Nat, finished : BOOLEAN]]
  BY Zenon DEF Init
<1>4. changes \in 0..MaxChanges
  <2>1. changes = 0
    BY Zenon DEF Init
  <2>2. MaxChanges \in Nat
    BY DrainerAssumption
  <2> QED
    BY <2>1, <2>2
<1>5. active \in BOOLEAN /\ cancelled \in [Jobs -> BOOLEAN] /\ disturbed \in [Jobs -> BOOLEAN]
  BY Zenon DEF Init
<1>6. /\ current \in Jobs \cup {NoJob} /\ gauge \in {"draining", "not draining"}
      /\ pc \in [Jobs -> {"idle", "start", "refused", "loop", "disconnect", "check",
                          "finish", "release", "close", "done"}]
  BY Zenon DEF Init
<1>7. /\ remaining \in [Jobs -> Int] /\ batch \in [Jobs -> SUBSET IDs]
      /\ visited \in [Jobs -> Nat] /\ skipped \in [Jobs -> Nat]
      /\ drained \in [Jobs -> Nat] /\ target \in [Jobs -> Nat]
  <2>1. /\ remaining = [j \in Jobs |-> 0] /\ batch = [j \in Jobs |-> {}]
        /\ visited = [j \in Jobs |-> 0] /\ skipped = [j \in Jobs |-> 0]
        /\ drained = [j \in Jobs |-> 0] /\ target = [j \in Jobs |-> 0]
    BY Zenon DEF Init
  <2> QED
    BY <2>1
<1>8. online \in [IDs -> Kinds \cup {Offline}]
  BY Zenon DEF Init
<1> QED
  BY <1>2, <1>3, <1>4, <1>5, <1>6, <1>7, <1>8, Zenon DEF TypeOK

LEMMA DrainerTypeStep == FiniteFacts /\ TypeOK /\ [Next]_vars => TypeOK'
<1> SUFFICES ASSUME FiniteFacts, TypeOK, [Next]_vars PROVE TypeOK'
  OBVIOUS
<1>1. ASSUME NEW id \in IDs, DeviceChanges(id) PROVE TypeOK'
  <2>0. /\ online \in [IDs -> Kinds \cup {Offline}] /\ disturbed \in [Jobs -> BOOLEAN]
        /\ changes \in 0..MaxChanges
    BY Zenon DEF TypeOK
  <2>1. online' \in [IDs -> Kinds \cup {Offline}] /\ disturbed' \in [Jobs -> BOOLEAN]
    BY <1>1, <2>0 DEF DeviceChanges, Disturb
  <2>2. changes' \in 0..MaxChanges
    BY <1>1, <2>0, DrainerAssumption DEF DeviceChanges
  <2> QED
    BY <1>1, <2>1, <2>2, Zenon DEF DeviceChanges, controlVars, batchVars, TypeOK
<1>2. ASSUME NEW j \in Jobs, StartNormalize(j) PROVE TypeOK'
  <2>1. PICK input \in JobInputs : \E normal \in Normalize(input, RegistryLen) :
          job' = [job EXCEPT ![j] = normal]
    BY <1>2, Zenon DEF StartNormalize
  <2>2. job' \in [Jobs -> [count : Nat, rate : Nat, filter : FilterStores]]
    <3>1. job \in [Jobs -> [count : Nat, rate : Nat, filter : FilterStores]]
      BY Zenon DEF TypeOK
    <3>2. PICK normal \in Normalize(input, RegistryLen) : job' = [job EXCEPT ![j] = normal]
      BY <2>1, Zenon
    <3>3. normal \in [count : Nat, rate : Nat, filter : FilterStores]
      BY RegistryParts, NormalizeType
    <3> QED
      BY <3>1, <3>2, <3>3
  <2>3. pc' \in [Jobs -> {"idle", "start", "refused", "loop", "disconnect", "check",
                          "finish", "release", "close", "done"}]
    BY <1>2, Zenon DEF StartNormalize, TypeOK
  <2> QED
    BY <1>2, <2>2, <2>3, Zenon DEF StartNormalize, controlVars, batchVars, historyVars, TypeOK
<1>3. ASSUME NEW j \in Jobs, Start(j) PROVE TypeOK'
  <2>1. job[j].count \in Nat /\ Least(job[j].count, Cardinality(Candidates(j))) \in Nat
    BY RegistryParts, Zenon DEF Least, TypeOK
  <2>2. /\ pc' \in [Jobs -> {"idle", "start", "refused", "loop", "disconnect", "check",
                             "finish", "release", "close", "done"}]
        /\ active' \in BOOLEAN /\ current' \in Jobs \cup {NoJob}
        /\ gauge' \in {"draining", "not draining"}
    BY <1>3, Zenon DEF Start, controlVars, TypeOK
  <2>3. /\ remaining' \in [Jobs -> Int] /\ target' \in [Jobs -> Nat]
        /\ disturbed' \in [Jobs -> BOOLEAN]
    <3>1. /\ remaining \in [Jobs -> Int] /\ target \in [Jobs -> Nat]
          /\ disturbed \in [Jobs -> BOOLEAN]
      BY Zenon DEF TypeOK
    <3>2. disturbed' \in [Jobs -> BOOLEAN]
      BY <1>3, <3>1, Zenon DEF Start, historyVars
    <3> QED
      BY <1>3, <2>1, <3>1, <3>2 DEF Start, historyVars
  <2> QED
    BY <1>3, <2>2, <2>3, Zenon DEF Start, batchVars, TypeOK
<1>4. ASSUME NEW j \in Jobs, NextBatch(j) PROVE TypeOK'
  <2>1. PICK o \in VisitOutcomes(j) :
          /\ batch' = [batch EXCEPT ![j] = o.batch]
          /\ visited' = [visited EXCEPT ![j] = Cardinality(o.batch)]
          /\ skipped' = [skipped EXCEPT ![j] = o.skipped]
          /\ drained' = [drained EXCEPT ![j] = 0]
          /\ pc' = [pc EXCEPT ![j] = IF o.more /\ o.batch # {} THEN "disconnect" ELSE "finish"]
    BY <1>4, Zenon DEF NextBatch
  <2>2. /\ batch' \in [Jobs -> SUBSET IDs] /\ visited' \in [Jobs -> Nat]
        /\ skipped' \in [Jobs -> Nat] /\ drained' \in [Jobs -> Nat]
        /\ pc' \in [Jobs -> {"idle", "start", "refused", "loop", "disconnect", "check",
                             "finish", "release", "close", "done"}]
    BY <2>1, OutcomeType, Zenon DEF TypeOK
  <2> QED
    BY <1>4, <2>2, Zenon DEF NextBatch, controlVars, historyVars, TypeOK
<1>5. ASSUME NEW j \in Jobs, LoopEnds(j) \/ CheckSkipped(j) \/ Release(j) \/ CloseDone(j)
      PROVE  TypeOK'
  <2>1. /\ pc' \in [Jobs -> {"idle", "start", "refused", "loop", "disconnect", "check",
                             "finish", "release", "close", "done"}]
        /\ active' \in BOOLEAN /\ gauge' \in {"draining", "not draining"}
    BY <1>5, Zenon DEF LoopEnds, CheckSkipped, Release, CloseDone, controlVars, TypeOK
  <2> QED
    BY <1>5, <2>1, Zenon DEF LoopEnds, CheckSkipped, Release, CloseDone, controlVars, batchVars,
       historyVars, TypeOK
<1>6. ASSUME NEW j \in Jobs, FinishTracker(j) PROVE TypeOK'
  <2>1. /\ pc' \in [Jobs -> {"idle", "start", "refused", "loop", "disconnect", "check",
                             "finish", "release", "close", "done"}]
        /\ remaining' \in [Jobs -> Int] /\ batch' \in [Jobs -> SUBSET IDs]
        /\ visited' \in [Jobs -> Nat] /\ skipped' \in [Jobs -> Nat] /\ drained' \in [Jobs -> Nat]
    <3>1. /\ pc \in [Jobs -> {"idle", "start", "refused", "loop", "disconnect", "check",
                              "finish", "release", "close", "done"}]
          /\ remaining \in [Jobs -> Int] /\ batch \in [Jobs -> SUBSET IDs]
          /\ visited \in [Jobs -> Nat] /\ skipped \in [Jobs -> Nat] /\ drained \in [Jobs -> Nat]
      BY Zenon DEF TypeOK
    <3> QED
      BY <1>6, <3>1 DEF FinishTracker
  <2>2. progress' \in [Jobs -> [visited : Nat, drained : Nat, finished : BOOLEAN]]
    <3>1. progress \in [Jobs -> [visited : Nat, drained : Nat, finished : BOOLEAN]]
      BY Zenon DEF TypeOK
    <3> QED
      BY <1>6, <3>1, Zenon DEF FinishTracker
  <2> QED
    BY <1>6, <2>1, <2>2, Zenon DEF FinishTracker, controlVars, historyVars, TypeOK
<1>7. ASSUME NEW j \in Jobs, NEW id \in IDs, DisconnectOne(j, id) PROVE TypeOK'
  <2>1. /\ online' \in [IDs -> Kinds \cup {Offline}] /\ drained' \in [Jobs -> Nat]
        /\ batch' \in [Jobs -> SUBSET IDs] /\ disturbed' \in [Jobs -> BOOLEAN]
    <3>1. /\ online \in [IDs -> Kinds \cup {Offline}] /\ drained \in [Jobs -> Nat]
          /\ batch \in [Jobs -> SUBSET IDs] /\ disturbed \in [Jobs -> BOOLEAN]
      BY Zenon DEF TypeOK
    <3>2. online' \in [IDs -> Kinds \cup {Offline}] /\ disturbed' \in [Jobs -> BOOLEAN]
      BY <1>7, <3>1, Zenon DEF DisconnectOne, Disturb
    <3> QED
      BY <1>7, <3>1, <3>2 DEF DisconnectOne
  <2> QED
    BY <1>7, <2>1, Zenon DEF DisconnectOne, controlVars, TypeOK
<1>8. ASSUME NEW j \in Jobs, BatchDone(j) PROVE TypeOK'
  <2>1. progress' \in [Jobs -> [visited : Nat, drained : Nat, finished : BOOLEAN]]
    <3>1. /\ progress \in [Jobs -> [visited : Nat, drained : Nat, finished : BOOLEAN]]
          /\ visited \in [Jobs -> Nat] /\ drained \in [Jobs -> Nat]
      BY Zenon DEF TypeOK
    <3>2. progress' = [progress EXCEPT ![j].visited = @ + visited[j],
                                       ![j].drained = @ + drained[j]]
      BY <1>8 DEF BatchDone
    <3>3. /\ progress[j].visited + visited[j] \in Nat /\ progress[j].drained + drained[j] \in Nat
          /\ progress[j] \in [visited : Nat, drained : Nat, finished : BOOLEAN]
      BY <3>1
    <3>4. [progress[j] EXCEPT !.visited = @ + visited[j], !.drained = @ + drained[j]]
             \in [visited : Nat, drained : Nat, finished : BOOLEAN]
      BY <3>3, Zenon
    <3>5. progress' = [progress EXCEPT ![j] =
                         [progress[j] EXCEPT !.visited = @ + visited[j],
                           !.drained = @ + drained[j]]]
      BY <3>1, <3>2, Zenon
    <3> QED
      BY <3>1, <3>4, <3>5
  <2>2. /\ pc' \in [Jobs -> {"idle", "start", "refused", "loop", "disconnect", "check",
                             "finish", "release", "close", "done"}]
        /\ remaining' \in [Jobs -> Int]
    <3>1. /\ pc \in [Jobs -> {"idle", "start", "refused", "loop", "disconnect", "check",
                              "finish", "release", "close", "done"}]
          /\ remaining \in [Jobs -> Int] /\ visited \in [Jobs -> Nat]
      BY Zenon DEF TypeOK
    <3> QED
      BY <1>8, <3>1 DEF BatchDone
  <2> QED
    BY <1>8, <2>1, <2>2, Zenon DEF BatchDone, controlVars, batchVars, historyVars, TypeOK
<1>9. CASE Cancel
  <2>1. cancelled' \in [Jobs -> BOOLEAN] /\ disturbed' \in [Jobs -> BOOLEAN]
    BY <1>9, Zenon DEF Cancel, Disturb, TypeOK
  <2> QED
    BY <1>9, <2>1, Zenon DEF Cancel, batchVars, TypeOK
<1>10. CASE UNCHANGED vars
  BY <1>10, Zenon DEF vars, controlVars, batchVars, historyVars, TypeOK
<1> QED
  BY <1>1, <1>2, <1>3, <1>4, <1>5, <1>6, <1>7, <1>8, <1>9, <1>10 DEF Next, JobStep

-----------------------------------------------------------------------------
(* The drainer is active while its latest job is.                          *)

Started == {"loop", "disconnect", "check", "finish", "release"}

\* A step of a job that is not one of Start, Cancel and Release.
LEMMA ControlFrame ==
    ASSUME TypeOK, ControlInv, UNCHANGED <<active, current, gauge, cancelled>>, NEW j \in Jobs,
           NEW x, pc' = [pc EXCEPT ![j] = x],
           \/ pc[j] = "idle" /\ x = "start"
           \/ pc[j] = "start" /\ x = "refused"
           \/ pc[j] \in Started /\ x \in Started
           \/ pc[j] = "close" /\ x = "done"
    PROVE  ControlInv'
<1>1. /\ \A k \in Jobs : pc[k] \in NotStarted <=> pc'[k] \in NotStarted
      /\ \A k \in Jobs : pc[k] \in {"close", "done"} <=> pc'[k] \in {"close", "done"}
  BY Zenon DEF NotStarted, Started, TypeOK
<1>2. current \in Jobs \cup {NoJob}
  BY Zenon DEF TypeOK
<1> QED
  BY <1>1, <1>2, Zenon DEF ControlInv, ActiveIsCurrent

LEMMA ControlStep == TypeOK /\ ControlInv /\ [Next]_vars => ControlInv'
<1> SUFFICES ASSUME TypeOK, ControlInv, [Next]_vars PROVE ControlInv'
  OBVIOUS
<1>y. /\ current \in Jobs \cup {NoJob} /\ cancelled \in [Jobs -> BOOLEAN] /\ active \in BOOLEAN
      /\ pc \in [Jobs -> {"idle", "start", "refused", "loop", "disconnect", "check",
                          "finish", "release", "close", "done"}]
  BY Zenon DEF TypeOK
<1>1. CASE (\E id \in IDs : DeviceChanges(id)) \/ UNCHANGED vars
  <2>1. UNCHANGED <<active, current, gauge, cancelled, pc>>
    BY <1>1 DEF DeviceChanges, vars, controlVars
  <2> QED
    BY <2>1, Zenon DEF ControlInv, ActiveIsCurrent
<1>2. ASSUME NEW j \in Jobs, StartNormalize(j) \/ LoopEnds(j) \/ CheckSkipped(j) \/ CloseDone(j)
      PROVE  ControlInv'
  <2>1. \E x : /\ pc' = [pc EXCEPT ![j] = x]
               /\ \/ pc[j] = "idle" /\ x = "start"
                  \/ pc[j] \in Started /\ x \in Started
                  \/ pc[j] = "close" /\ x = "done"
    BY <1>2, Zenon DEF StartNormalize, LoopEnds, CheckSkipped, CloseDone, Started
  <2>2. UNCHANGED <<active, current, gauge, cancelled>>
    BY <1>2 DEF StartNormalize, LoopEnds, CheckSkipped, CloseDone, controlVars
  <2> QED
    BY <2>1, <2>2, ControlFrame, Zenon
<1>3. ASSUME NEW j \in Jobs, NextBatch(j) \/ BatchDone(j) \/ FinishTracker(j)
      PROVE  ControlInv'
  <2>1. \E x \in Started : pc' = [pc EXCEPT ![j] = x] /\ pc[j] \in Started
    BY <1>3 DEF NextBatch, BatchDone, FinishTracker, Started
  <2>2. UNCHANGED <<active, current, gauge, cancelled>>
    BY <1>3 DEF NextBatch, BatchDone, FinishTracker, controlVars
  <2> QED
    BY <2>1, <2>2, ControlFrame, Zenon
<1>4. ASSUME NEW j \in Jobs, NEW id \in IDs, DisconnectOne(j, id) PROVE ControlInv'
  BY <1>4, Zenon DEF DisconnectOne, controlVars, ControlInv, ActiveIsCurrent
<1>5. ASSUME NEW j \in Jobs, Start(j) PROVE ControlInv'
  <2>1. pc[j] = "start" /\ cancelled' = cancelled
    BY <1>5, Zenon DEF Start
  <2>2. CASE active
    <3>1. UNCHANGED <<active, current, gauge>> /\ pc' = [pc EXCEPT ![j] = "refused"]
      BY <1>5, <2>2 DEF Start, controlVars
    <3> QED
      BY <2>1, <3>1, ControlFrame, Zenon
  <2>3. CASE ~active
    <3>1. /\ active' /\ current' = j /\ gauge' = "draining"
          /\ pc' = [pc EXCEPT ![j] = "loop"]
      BY <1>5, <2>3 DEF Start
    <3>2. ~cancelled'[j] /\ j # NoJob
      BY <2>1, DrainerAssumption DEF ControlInv, NotStarted
    <3>3. pc'[j] = "loop" /\ \A k \in Jobs \ {j} : pc'[k] = pc[k]
      BY <1>y, <3>1
    <3> QED
      BY <2>1, <3>1, <3>2, <3>3, Zenon DEF ControlInv, ActiveIsCurrent, NotStarted
  <2> QED
    BY <2>2, <2>3
<1>6. CASE Cancel
  <2>1. /\ active /\ ~active' /\ gauge' = "not draining" /\ current' = current /\ pc' = pc
        /\ cancelled' = [cancelled EXCEPT ![current] = TRUE]
    BY <1>6, Zenon DEF Cancel
  <2>2. current \in Jobs
    BY <1>y, <2>1, Zenon DEF ControlInv, ActiveIsCurrent
  <2>3. cancelled'[current] /\ \A k \in Jobs \ {current} : cancelled'[k] = cancelled[k]
    BY <1>y, <2>1, <2>2, Zenon
  <2> QED
    BY <2>1, <2>2, <2>3, DrainerAssumption, Zenon DEF ControlInv, ActiveIsCurrent
<1>7. ASSUME NEW j \in Jobs, Release(j) PROVE ControlInv'
  <2>1. /\ pc[j] = "release" /\ pc' = [pc EXCEPT ![j] = "close"]
        /\ current' = current /\ cancelled' = cancelled
    BY <1>7, Zenon DEF Release
  <2>2. pc'[j] = "close" /\ \A k \in Jobs \ {j} : pc'[k] = pc[k]
    BY <1>y, <2>1
  <2>3. IF current = j THEN ~active' /\ gauge' = "not draining"
        ELSE active' = active /\ gauge' = gauge
    <3>1. CASE current = j /\ active
      BY <1>7, <3>1, Zenon DEF Release
    <3>2. CASE ~(current = j /\ active)
      <4>1. active' = active /\ gauge' = gauge
        BY <1>7, <3>2, Zenon DEF Release
      <4>2. ~active => gauge = "not draining"
        BY Zenon DEF ControlInv, ActiveIsCurrent
      <4> QED
        BY <3>2, <4>1, <4>2, Zenon
    <3> QED
      BY <3>1, <3>2, Zenon
  <2>4. ActiveIsCurrent'
    BY <1>y, <2>1, <2>2, <2>3, Zenon DEF ControlInv, ActiveIsCurrent
  <2>5. \A k \in Jobs : pc[k] \in NotStarted <=> pc'[k] \in NotStarted
    BY <2>1, <2>2 DEF NotStarted
  <2> QED
    BY <1>y, <2>1, <2>4, <2>5 DEF ControlInv
<1> QED
  BY <1>1, <1>2, <1>3, <1>4, <1>5, <1>6, <1>7 DEF Next, JobStep

-----------------------------------------------------------------------------
(* The tracker of a job.                                                   *)

\* What a step of one job does not touch of another.
Same(k) ==
    /\ pc'[k] = pc[k] /\ job'[k] = job[k] /\ cancelled'[k] = cancelled[k]
    /\ remaining'[k] = remaining[k] /\ batch'[k] = batch[k] /\ visited'[k] = visited[k]
    /\ skipped'[k] = skipped[k] /\ drained'[k] = drained[k] /\ progress'[k] = progress[k]
    /\ target'[k] = target[k]

LEMMA OthersKeep ==
    ASSUME TypeOK, NEW j \in Jobs, StartNormalize(j) \/ Start(j) \/ JobStep(j),
           NEW k \in Jobs, k # j
    PROVE  Same(k)
<1>1. CASE StartNormalize(j)
  BY <1>1, Zenon DEF StartNormalize, batchVars, historyVars, Same, TypeOK
<1>2. CASE Start(j)
  BY <1>2, Zenon DEF Start, batchVars, historyVars, Same, TypeOK
<1>3. CASE NextBatch(j)
  BY <1>3, Zenon DEF NextBatch, historyVars, Same, TypeOK
<1>4. CASE LoopEnds(j) \/ CheckSkipped(j) \/ Release(j) \/ CloseDone(j)
  BY <1>4, Zenon DEF LoopEnds, CheckSkipped, Release, CloseDone, batchVars, historyVars, Same,
         TypeOK
<1>5. ASSUME NEW id \in IDs, DisconnectOne(j, id) PROVE Same(k)
  BY <1>5, Zenon DEF DisconnectOne, Same, TypeOK
<1>6. CASE BatchDone(j)
  BY <1>6, Zenon DEF BatchDone, batchVars, historyVars, Same, TypeOK
<1>7. CASE FinishTracker(j)
  BY <1>7, Zenon DEF FinishTracker, historyVars, Same, TypeOK
<1> QED
  BY <1>1, <1>2, <1>3, <1>4, <1>5, <1>6, <1>7 DEF JobStep

\* The visit of nextBatch puts at most Capacity devices in the batch.
LEMMA OutcomeSize ==
    ASSUME FiniteFacts, TypeOK, NEW j \in Jobs, remaining[j] > 0, NEW o \in VisitOutcomes(j)
    PROVE  /\ Capacity(j) \in Nat \ {0} /\ Capacity(j) <= remaining[j]
           /\ Cardinality(o.batch) <= Capacity(j)
           /\ o.more => Cardinality(o.batch) = Least(Capacity(j), Cardinality(Candidates(j)))
           /\ ~o.more => cancelled[j]
<1>1. remaining[j] \in Int /\ job[j].rate \in Nat /\ BatchSize \in Nat \ {0}
  BY DrainerAssumption, Zenon DEF TypeOK
<1>2. Capacity(j) \in Nat \ {0} /\ Capacity(j) <= remaining[j]
  BY <1>1 DEF Capacity, Least
<1>3. Cardinality(Candidates(j)) \in Nat
  BY RegistryParts
<1>4. IF o.more THEN Cardinality(o.batch) = Least(Capacity(j), Cardinality(Candidates(j)))
      ELSE cancelled[j] /\ Cardinality(o.batch) <= Capacity(j)
  BY Zenon DEF VisitOutcomes
<1>5. o.more => Cardinality(o.batch) <= Capacity(j)
  BY <1>2, <1>3, <1>4 DEF Least
<1> QED
  BY <1>2, <1>4, <1>5

LEMMA ProgressFrame ==
    ASSUME NEW k, ProgressOf(k), Same(k)
    PROVE  ProgressOf(k)'
BY Zenon DEF ProgressOf, Same

\* The numbers of one job.
LEMMA NumbersType ==
    ASSUME FiniteFacts, TypeOK, NEW j \in Jobs
    PROVE  /\ progress[j].visited \in Nat /\ progress[j].drained \in Nat
           /\ job[j].count \in Nat /\ remaining[j] \in Int /\ target[j] \in Nat
           /\ visited[j] \in Nat /\ skipped[j] \in Nat /\ drained[j] \in Nat
           /\ IsFiniteSet(batch[j]) /\ Cardinality(batch[j]) \in Nat
<1>1. batch[j] \subseteq IDs
  BY Zenon DEF TypeOK
<1> QED
  BY <1>1, SubsetsOfIDs, Zenon DEF TypeOK

\* What the tracker of j says after batchDone.
LEMMA BatchDoneProgress ==
    ASSUME TypeOK, NEW j \in Jobs, BatchDone(j)
    PROVE  /\ progress'[j].visited = progress[j].visited + visited[j]
           /\ progress'[j].drained = progress[j].drained + drained[j]
           /\ remaining'[j] = remaining[j] - visited[j]
<1>1. progress \in [Jobs -> [visited : Nat, drained : Nat, finished : BOOLEAN]]
  BY Zenon DEF TypeOK
<1>2. progress' = [progress EXCEPT ![j].visited = @ + visited[j], ![j].drained = @ + drained[j]]
  BY DEF BatchDone
<1>3. remaining \in [Jobs -> Int] /\ remaining' = [remaining EXCEPT ![j] = @ - visited[j]]
  BY Zenon DEF BatchDone, TypeOK
<1> QED
  BY <1>1, <1>2, <1>3

LEMMA ProgressOwn ==
    ASSUME FiniteFacts, TypeOK, ProgressInv, NEW j \in Jobs,
           StartNormalize(j) \/ Start(j) \/ JobStep(j)
    PROVE  ProgressOf(j)'
<1>y. pc \in [Jobs -> {"idle", "start", "refused", "loop", "disconnect", "check",
                       "finish", "release", "close", "done"}]
  BY Zenon DEF TypeOK
<1>t. TypeOK'
  BY DrainerTypeStep DEF Next
<1>n. /\ progress[j].visited \in Nat /\ progress[j].drained \in Nat
      /\ job[j].count \in Nat /\ remaining[j] \in Int
      /\ visited[j] \in Nat /\ drained[j] \in Nat
      /\ IsFiniteSet(batch[j]) /\ Cardinality(batch[j]) \in Nat
  BY NumbersType, Zenon
<1>o. ProgressOf(j)
  BY DEF ProgressInv
<1>1. CASE StartNormalize(j)
  <2>1. pc[j] = "idle" /\ pc'[j] = "start" /\ progress' = progress
    BY <1>y, <1>1 DEF StartNormalize
  <2>2. job'[j].count \in Nat
    BY <1>t, Zenon DEF TypeOK
  <2> QED
    BY <1>o, <2>1, <2>2, <1>n DEF ProgressOf, NotStarted, InLoop
<1>2. CASE Start(j)
  <2>1. pc[j] = "start" /\ UNCHANGED <<progress, job>>
    BY <1>2 DEF Start
  <2>0. DOMAIN remaining = Jobs /\ DOMAIN pc = Jobs
    BY Zenon DEF TypeOK
  <2>2. \/ pc'[j] = "refused"
        \/ pc'[j] = "loop" /\ remaining'[j] = job[j].count
    BY <1>2, <2>0, Zenon DEF Start
  <2>3. progress[j].visited = 0
    BY <1>o, <2>1, Zenon DEF ProgressOf, NotStarted
  <2>4. job[j].count = job[j].count - progress[j].visited
    BY <1>n, <2>3
  <2> QED
    BY <1>o, <2>1, <2>2, <2>3, <2>4, Zenon DEF ProgressOf, NotStarted, InLoop
<1>3. CASE NextBatch(j)
  <2>1. pc[j] = "loop" /\ remaining[j] > 0 /\ UNCHANGED <<job, remaining, progress>>
    BY <1>3, Zenon DEF NextBatch
  <2>2. PICK o \in VisitOutcomes(j) :
          /\ batch' = [batch EXCEPT ![j] = o.batch]
          /\ visited' = [visited EXCEPT ![j] = Cardinality(o.batch)]
          /\ drained' = [drained EXCEPT ![j] = 0]
          /\ pc' = [pc EXCEPT ![j] = IF o.more /\ o.batch # {} THEN "disconnect" ELSE "finish"]
    BY <1>3, Zenon DEF NextBatch
  <2>3. /\ batch'[j] = o.batch /\ visited'[j] = Cardinality(o.batch) /\ drained'[j] = 0
        /\ pc'[j] \in {"disconnect", "finish"}
    BY <1>y, <2>2, Zenon DEF TypeOK
  <2>4. Cardinality(o.batch) \in Nat /\ Cardinality(o.batch) <= remaining[j]
    BY <2>1, OutcomeType, OutcomeSize, <1>n
  <2>5. drained'[j] + Cardinality(batch'[j]) <= visited'[j]
    BY <2>3, <2>4
  <2> QED
    BY <1>o, <2>1, <2>3, <2>4, <2>5, Zenon DEF ProgressOf, NotStarted, InLoop
<1>4. CASE LoopEnds(j) \/ CheckSkipped(j) \/ Release(j) \/ CloseDone(j)
  <2>1. UNCHANGED <<progress, job, remaining>>
    BY <1>4, Zenon DEF LoopEnds, CheckSkipped, Release, CloseDone
  <2>2. pc[j] \notin NotStarted /\ pc'[j] \in {"loop", "finish", "close", "done"}
    BY <1>y, <1>4, Zenon DEF LoopEnds, CheckSkipped, Release, CloseDone, NotStarted
  <2>3. pc'[j] = "loop" => pc[j] = "check"
    BY <1>y, <1>4, Zenon DEF LoopEnds, CheckSkipped, Release, CloseDone
  <2> QED
    BY <1>o, <2>1, <2>2, <2>3, Zenon DEF ProgressOf, NotStarted, InLoop
<1>5. ASSUME NEW id \in IDs, DisconnectOne(j, id) PROVE ProgressOf(j)'
  <2>1. /\ pc[j] = "disconnect" /\ id \in batch[j] /\ batch'[j] = batch[j] \ {id}
        /\ UNCHANGED <<pc, progress, job, remaining, visited>>
    BY <1>5, Zenon DEF DisconnectOne, TypeOK
  <2>2. drained'[j] = drained[j] \/ drained'[j] = drained[j] + 1
    BY <1>5, Zenon DEF DisconnectOne, TypeOK
  <2>3. Cardinality(batch'[j]) = Cardinality(batch[j]) - 1
    BY <2>1, <1>n DEF FiniteFacts
  <2>4. drained'[j] + Cardinality(batch'[j]) <= visited[j]
    BY <1>o, <2>1, <2>2, <2>3, <1>n DEF ProgressOf
  <2> QED
    BY <1>o, <2>1, <2>4, Zenon DEF ProgressOf, NotStarted, InLoop
<1>6. CASE BatchDone(j)
  <2>1. /\ pc[j] = "disconnect" /\ pc'[j] \in {"finish", "check", "loop"} /\ job' = job
    BY <1>y, <1>6 DEF BatchDone
  <2>2. /\ visited[j] <= remaining[j] /\ drained[j] <= visited[j]
        /\ remaining[j] = job[j].count - progress[j].visited
    BY <1>o, <2>1, <1>n DEF ProgressOf, InLoop
  <2>3. /\ progress'[j].visited = progress[j].visited + visited[j]
        /\ progress'[j].drained = progress[j].drained + drained[j]
        /\ remaining'[j] = remaining[j] - visited[j]
    BY <1>6, BatchDoneProgress, Zenon
  <2> QED
    BY <1>n, <1>o, <2>1, <2>2, <2>3 DEF ProgressOf, NotStarted, InLoop
<1>7. CASE FinishTracker(j)
  <2>1. pc[j] = "finish" /\ pc'[j] = "release" /\ job' = job
    BY <1>y, <1>7 DEF FinishTracker
  <2>2. progress'[j].visited = progress[j].visited /\ progress'[j].drained = progress[j].drained
    <3>1. progress \in [Jobs -> [visited : Nat, drained : Nat, finished : BOOLEAN]]
      BY Zenon DEF TypeOK
    <3> QED
      BY <1>7, <3>1 DEF FinishTracker
  <2> QED
    BY <1>o, <2>1, <2>2, Zenon DEF ProgressOf, NotStarted, InLoop
<1> QED
  BY <1>1, <1>2, <1>3, <1>4, <1>5, <1>6, <1>7 DEF JobStep

LEMMA ProgressStep == FiniteFacts /\ TypeOK /\ ProgressInv /\ [Next]_vars => ProgressInv'
<1> SUFFICES ASSUME FiniteFacts, TypeOK, ProgressInv, [Next]_vars, NEW k \in Jobs
             PROVE  ProgressOf(k)'
  BY DEF ProgressInv
<1>0. ProgressOf(k)
  BY DEF ProgressInv
<1>1. ASSUME NEW j \in Jobs, StartNormalize(j) \/ Start(j) \/ JobStep(j) PROVE ProgressOf(k)'
  BY <1>0, <1>1, ProgressOwn, ProgressFrame, OthersKeep
<1>2. CASE (\E id \in IDs : DeviceChanges(id)) \/ Cancel \/ UNCHANGED vars
  <2>1. UNCHANGED <<pc, progress, job, remaining, visited, drained, batch>>
    BY <1>2, Zenon DEF DeviceChanges, Cancel, vars, batchVars
  <2> QED
    BY <1>0, <2>1 DEF ProgressOf
<1> QED
  BY <1>1, <1>2 DEF Next

-----------------------------------------------------------------------------
(* What an undisturbed job disconnects.                                    *)

LEMMA SameDevices ==
    ASSUME NEW k, online' = online, job'[k] = job[k]
    PROVE  Candidates(k)' = Candidates(k) /\ Allowed(k)' = Allowed(k)
BY DEF Candidates, Allowed, Connected

\* To disconnect a candidate leaves the other candidates and all that stay.
LEMMA OneDeviceLess ==
    ASSUME FiniteFacts, TypeOK, NEW j \in Jobs, NEW id \in Candidates(j), job' = job,
           online' = [online EXCEPT ![id] = Offline]
    PROVE  /\ Candidates(j)' = Candidates(j) \ {id} /\ Allowed(j)' = Allowed(j)
           /\ Cardinality(Candidates(j)') = Cardinality(Candidates(j)) - 1
<1>1. id \in IDs /\ Candidates(j) \subseteq IDs
  BY RegistryParts
<1>2. online'[id] = Offline /\ \A i \in IDs \ {id} : online'[i] = online[i]
  BY <1>1, Zenon DEF TypeOK
<1>3. Connected' = Connected \ {id}
  BY <1>1, <1>2 DEF Connected
<1>4. \A i \in Connected' : online'[i] = online[i]
  BY <1>2, <1>3, RegistryParts
<1>5. Candidates(j)' = Candidates(j) \ {id}
  BY <1>3, <1>4 DEF Candidates
<1>6. Allowed(j)' = Allowed(j)
  BY <1>3, <1>5 DEF Allowed
<1>7. Cardinality(Candidates(j) \ {id}) = Cardinality(Candidates(j)) - 1
  BY <1>1, SubsetsOfIDs, Zenon DEF FiniteFacts
<1> QED
  BY <1>5, <1>6, <1>7

LEMMA ShareFrame ==
    ASSUME NEW k, Share(k), Same(k), online' = online
    PROVE  Share(k)'
<1>1. job'[k] = job[k]
  BY Zenon DEF Same
<1>2. Candidates(k)' = Candidates(k) /\ Allowed(k)' = Allowed(k)
  BY <1>1, SameDevices
<1> QED
  BY <1>2, Zenon DEF Share, Same

LEMMA DisturbStep ==
    ASSUME TypeOK, NEW j \in Jobs, StartNormalize(j) \/ Start(j) \/ JobStep(j),
           NEW k \in Jobs, k # j, ~disturbed'[k]
    PROVE  ~disturbed[k] /\ online' = online
<1>1. CASE Start(j)
  BY <1>1, Zenon DEF Start, historyVars, TypeOK
<1>2. CASE StartNormalize(j) \/ NextBatch(j) \/ LoopEnds(j) \/ BatchDone(j) \/ CheckSkipped(j)
           \/ FinishTracker(j) \/ Release(j) \/ CloseDone(j)
  BY <1>2, Zenon DEF StartNormalize, NextBatch, LoopEnds, BatchDone, CheckSkipped, FinishTracker,
     Release, CloseDone, historyVars
<1>3. ASSUME NEW id \in IDs, DisconnectOne(j, id) PROVE ~disturbed[k] /\ online' = online
  BY <1>3, Zenon DEF DisconnectOne, Disturb
<1> QED
  BY <1>1, <1>2, <1>3 DEF JobStep

LEMMA ShareOwn ==
    ASSUME FiniteFacts, TypeOK, ProgressInv, ControlInv, ShareInv, NEW j \in Jobs,
           StartNormalize(j) \/ Start(j) \/ JobStep(j),
           pc'[j] \notin NotStarted, ~disturbed'[j]
    PROVE  Share(j)'
<1>y. pc \in [Jobs -> {"idle", "start", "refused", "loop", "disconnect", "check",
                       "finish", "release", "close", "done"}]
  BY Zenon DEF TypeOK
<1>o. ProgressOf(j)
  BY DEF ProgressInv
<1>n. /\ progress[j].visited \in Nat /\ progress[j].drained \in Nat
      /\ job[j].count \in Nat /\ remaining[j] \in Int /\ target[j] \in Nat
      /\ visited[j] \in Nat /\ skipped[j] \in Nat /\ drained[j] \in Nat
      /\ IsFiniteSet(batch[j]) /\ Cardinality(batch[j]) \in Nat
      /\ Cardinality(Candidates(j)) \in Nat /\ Cardinality(Allowed(j)) \in Nat
  BY NumbersType, RegistryParts, Zenon
<1>s. ASSUME JobStep(j) PROVE Share(j)
  <2>1. pc[j] \notin NotStarted
    BY <1>s, Zenon DEF JobStep, NextBatch, LoopEnds, DisconnectOne, BatchDone, CheckSkipped,
       FinishTracker, Release, CloseDone, NotStarted
  <2>2. ~disturbed[j]
    <3>1. ASSUME NEW id \in IDs, DisconnectOne(j, id) PROVE ~disturbed[j]
      BY <3>1, Zenon DEF DisconnectOne, Disturb
    <3> QED
      BY <1>s, <3>1, Zenon DEF JobStep, NextBatch, LoopEnds, BatchDone, CheckSkipped, FinishTracker,
         Release, CloseDone, historyVars
  <2> QED
    BY <2>1, <2>2 DEF ShareInv
<1>1. CASE StartNormalize(j)
  BY <1>1, <1>y DEF StartNormalize, NotStarted
<1>2. CASE Start(j)
  <2>1. pc[j] = "start" /\ UNCHANGED <<online, job, progress, cancelled>>
    BY <1>2 DEF Start
  <2>2. ~active
    BY <1>2, <1>y DEF Start, NotStarted
  <2>3. /\ pc'[j] = "loop" /\ remaining'[j] = job[j].count
        /\ target'[j] = Least(job[j].count, Cardinality(Candidates(j)))
    <3>1. DOMAIN remaining = Jobs /\ DOMAIN pc = Jobs /\ DOMAIN target = Jobs
      BY Zenon DEF TypeOK
    <3> QED
      BY <1>2, <2>2, <3>1, Zenon DEF Start
  <2>4. progress[j].visited = 0 /\ progress[j].drained = 0 /\ ~cancelled[j]
    BY <1>o, <1>n, <2>1 DEF ProgressOf, ControlInv, NotStarted
  <2>5. Candidates(j)' = Candidates(j)
    BY <2>1, SameDevices
  <2>6. target'[j] = 0 + Least(remaining'[j], Cardinality(Candidates(j)'))
    BY <1>n, <2>3, <2>5 DEF Least
  <2> QED
    BY <2>1, <2>3, <2>4, <2>6, Zenon DEF Share
<1>3. CASE NextBatch(j)
  <2>0. Share(j)
    BY <1>3, <1>s, Zenon DEF JobStep
  <2>1. /\ pc[j] = "loop" /\ remaining[j] > 0
        /\ UNCHANGED <<online, job, remaining, progress, cancelled, target>>
    BY <1>3, Zenon DEF NextBatch, historyVars
  <2>2. PICK o \in VisitOutcomes(j) :
          /\ batch' = [batch EXCEPT ![j] = o.batch]
          /\ visited' = [visited EXCEPT ![j] = Cardinality(o.batch)]
          /\ skipped' = [skipped EXCEPT ![j] = o.skipped]
          /\ drained' = [drained EXCEPT ![j] = 0]
          /\ pc' = [pc EXCEPT ![j] = IF o.more /\ o.batch # {} THEN "disconnect" ELSE "finish"]
    BY <1>3, Zenon DEF NextBatch
  <2>3. /\ batch'[j] = o.batch /\ visited'[j] = Cardinality(o.batch)
        /\ skipped'[j] = o.skipped /\ drained'[j] = 0
    BY <2>2, Zenon DEF TypeOK
  <2>4. /\ progress[j].drained = progress[j].visited /\ ~cancelled[j]
        /\ target[j] = progress[j].drained + Least(remaining[j], Cardinality(Candidates(j)))
    BY <2>0, <2>1, Zenon DEF Share
  <2>5. /\ o.more /\ Capacity(j) \in Nat \ {0}
        /\ Cardinality(o.batch) = Least(Capacity(j), Cardinality(Candidates(j)))
    BY <2>1, <2>4, OutcomeSize, Zenon
  <2>6. /\ o.batch \subseteq Candidates(j) /\ Cardinality(o.batch) \in Nat
        /\ o.skipped <= Cardinality(Allowed(j))
    BY OutcomeType
  <2>7. Candidates(j)' = Candidates(j) /\ Allowed(j)' = Allowed(j)
    BY <2>1, SameDevices
  <2>8. CASE o.batch # {}
    <3>1. pc'[j] = "disconnect"
      BY <1>y, <2>2, <2>5, <2>8
    <3>2. /\ visited'[j] = drained'[j] + Cardinality(batch'[j])
          /\ target'[j] = progress[j].drained + drained'[j]
                            + Least(remaining[j] - drained'[j], Cardinality(Candidates(j)))
      BY <1>n, <2>1, <2>3, <2>4, <2>6
    <3> QED
      BY <2>1, <2>3, <2>4, <2>6, <2>7, <3>1, <3>2, Zenon DEF Share
  <2>9. CASE o.batch = {}
    <3>1. pc'[j] = "finish"
      BY <1>y, <2>2, <2>9, Zenon
    <3>2. Cardinality(Candidates(j)) = 0
      BY <1>n, <2>5, <2>9, Zenon DEF Least, FiniteFacts
    <3>3. target[j] = progress[j].drained
      BY <1>n, <2>1, <2>4, <3>2 DEF Least
    <3> QED
      BY <2>1, <2>4, <3>1, <3>3, Zenon DEF Share
  <2> QED
    BY <2>8, <2>9, Zenon
<1>4. CASE LoopEnds(j)
  <2>0. Share(j)
    BY <1>4, <1>s, Zenon DEF JobStep
  <2>1. /\ pc[j] = "loop" /\ pc'[j] = "finish" /\ UNCHANGED <<progress, cancelled, target>>
    BY <1>4, <1>y DEF LoopEnds, historyVars
  <2>2. remaining[j] <= 0
    BY <1>4, <2>0 DEF LoopEnds, Share
  <2>3. remaining[j] >= 0
    BY <1>o, <1>n, <2>1 DEF ProgressOf, InLoop
  <2>4. target[j] = progress[j].drained
    BY <1>n, <2>0, <2>1, <2>2, <2>3 DEF Share, Least
  <2> QED
    BY <2>0, <2>1, <2>4, Zenon DEF Share
<1>5. ASSUME NEW id \in IDs, DisconnectOne(j, id) PROVE Share(j)'
  <2>0. Share(j)
    BY <1>5, <1>s, Zenon DEF JobStep
  <2>1. /\ pc[j] = "disconnect" /\ id \in batch[j] /\ batch'[j] = batch[j] \ {id}
        /\ UNCHANGED <<pc, progress, job, cancelled, remaining, visited, skipped, target>>
    BY <1>5, Zenon DEF DisconnectOne, TypeOK
  <2>2. /\ progress[j].drained = progress[j].visited /\ batch[j] \subseteq Candidates(j)
        /\ visited[j] = drained[j] + Cardinality(batch[j])
        /\ target[j] = progress[j].drained + drained[j]
                         + Least(remaining[j] - drained[j], Cardinality(Candidates(j)))
        /\ skipped[j] <= Cardinality(Allowed(j)) /\ ~cancelled[j]
    BY <2>0, <2>1, Zenon DEF Share
  <2>3. online[id] # Offline /\ id \in Candidates(j)
    BY <2>1, <2>2, Zenon DEF Candidates, Connected
  <2>4. online' = [online EXCEPT ![id] = Offline] /\ drained'[j] = drained[j] + 1
    BY <1>5, <2>3, Zenon DEF DisconnectOne, TypeOK
  <2>5. /\ Candidates(j)' = Candidates(j) \ {id} /\ Allowed(j)' = Allowed(j)
        /\ Cardinality(Candidates(j)') = Cardinality(Candidates(j)) - 1
    BY <2>1, <2>3, <2>4, OneDeviceLess, Zenon
  <2>6. Cardinality(batch'[j]) = Cardinality(batch[j]) - 1
    <3>1. IsFiniteSet(batch[j])
      BY <1>n
    <3> QED
      BY <2>1, <3>1, Zenon DEF FiniteFacts
  <2>7. /\ visited[j] = drained'[j] + Cardinality(batch'[j])
        /\ target[j] = progress[j].drained + drained'[j]
                         + Least(remaining[j] - drained'[j], Cardinality(Candidates(j)'))
    BY <1>n, <2>2, <2>4, <2>5, <2>6 DEF Least
  <2>8. batch'[j] \subseteq Candidates(j)'
    BY <2>1, <2>2, <2>5, Zenon
  <2> QED
    BY <2>1, <2>2, <2>5, <2>7, <2>8, Zenon DEF Share
<1>6. CASE BatchDone(j)
  <2>0. Share(j)
    BY <1>6, <1>s, Zenon DEF JobStep
  <2>1. /\ pc[j] = "disconnect" /\ (cancelled[j] \/ batch[j] = {})
        /\ UNCHANGED <<online, job, cancelled, skipped, target>>
    BY <1>6 DEF BatchDone, batchVars, historyVars
  <2>2. /\ progress[j].drained = progress[j].visited
        /\ visited[j] = drained[j] + Cardinality(batch[j])
        /\ target[j] = progress[j].drained + drained[j]
                         + Least(remaining[j] - drained[j], Cardinality(Candidates(j)))
        /\ skipped[j] <= Cardinality(Allowed(j)) /\ ~cancelled[j]
    BY <2>0, <2>1, Zenon DEF Share
  <2>3. visited[j] = drained[j]
    BY <1>n, <2>1, <2>2 DEF FiniteFacts
  <2>4. pc'[j] \in {"check", "loop"}
    BY <1>6, <1>y, <2>2 DEF BatchDone
  <2>5. Candidates(j)' = Candidates(j) /\ Allowed(j)' = Allowed(j)
    BY <2>1, SameDevices, Zenon
  <2>6. /\ progress'[j].drained = progress'[j].visited
        /\ target[j] = progress'[j].drained + Least(remaining'[j], Cardinality(Candidates(j)))
    BY <1>6, <1>n, <2>2, <2>3, BatchDoneProgress, Zenon
  <2> QED
    BY <2>1, <2>2, <2>4, <2>5, <2>6, Zenon DEF Share
<1>7. CASE CheckSkipped(j)
  <2>0. Share(j)
    BY <1>7, <1>s, Zenon DEF JobStep
  <2>1. /\ pc[j] = "check" /\ pc'[j] = (IF skipped[j] = RegistryLen THEN "finish" ELSE "loop")
        /\ UNCHANGED <<online, job, cancelled, remaining, progress, target>>
    BY <1>7, <1>y DEF CheckSkipped, historyVars
  <2>2. Candidates(j)' = Candidates(j) /\ Allowed(j)' = Allowed(j)
    BY <2>1, SameDevices, Zenon
  <2>3. CASE skipped[j] # RegistryLen
    BY <2>0, <2>1, <2>2, <2>3, Zenon DEF Share
  <2>4. CASE skipped[j] = RegistryLen
    <3>1. RegistryLen = Cardinality(Candidates(j)) + Cardinality(Allowed(j))
      <4>1. /\ Connected = Candidates(j) \cup Allowed(j) /\ Candidates(j) \cap Allowed(j) = {}
            /\ IsFiniteSet(Candidates(j)) /\ IsFiniteSet(Allowed(j))
        BY RegistryParts, SubsetsOfIDs, Zenon DEF Allowed
      <4>2. Cardinality({}) = 0
        BY Zenon DEF FiniteFacts
      <4>3. Cardinality(Connected)
              = Cardinality(Candidates(j)) + Cardinality(Allowed(j)) - Cardinality({})
        BY <4>1 DEF FiniteFacts
      <4> QED
        BY <1>n, <4>2, <4>3 DEF RegistryLen
    <3>2. Cardinality(Candidates(j)) = 0
      BY <1>n, <2>0, <2>1, <2>4, <3>1 DEF Share
    <3>3. remaining[j] >= 0
      BY <1>o, <1>n, <2>1 DEF ProgressOf, InLoop
    <3>4. target[j] = progress[j].drained
      BY <1>n, <2>0, <2>1, <3>2, <3>3 DEF Share, Least
    <3> QED
      BY <2>0, <2>1, <2>4, <3>4, Zenon DEF Share
  <2> QED
    BY <2>3, <2>4, Zenon
<1>8. CASE FinishTracker(j) \/ Release(j) \/ CloseDone(j)
  <2>0. Share(j)
    BY <1>8, <1>s, Zenon DEF JobStep
  <2>1. /\ pc[j] \in {"finish", "release", "close"} /\ pc'[j] \in {"release", "close", "done"}
        /\ UNCHANGED <<cancelled, target>>
    BY <1>8, <1>y, Zenon DEF FinishTracker, Release, CloseDone, historyVars
  <2>2. progress'[j].drained = progress[j].drained
    <3>1. progress \in [Jobs -> [visited : Nat, drained : Nat, finished : BOOLEAN]]
      BY Zenon DEF TypeOK
    <3> QED
      BY <1>8, <3>1, Zenon DEF FinishTracker, Release, CloseDone
  <2> QED
    BY <2>0, <2>1, <2>2, Zenon DEF Share
<1> QED
  BY <1>1, <1>2, <1>3, <1>4, <1>5, <1>6, <1>7, <1>8 DEF JobStep

LEMMA ShareStep ==
    FiniteFacts /\ TypeOK /\ ProgressInv /\ ControlInv /\ ShareInv /\ [Next]_vars => ShareInv'
<1> SUFFICES ASSUME FiniteFacts, TypeOK, ProgressInv, ControlInv, ShareInv, [Next]_vars,
                    NEW k \in Jobs, pc'[k] \notin NotStarted, ~disturbed'[k]
             PROVE  Share(k)'
  BY DEF ShareInv
<1>1. ASSUME NEW j \in Jobs, StartNormalize(j) \/ Start(j) \/ JobStep(j) PROVE Share(k)'
  <2>1. CASE j = k
    BY <1>1, <2>1, ShareOwn, Zenon
  <2>2. CASE j # k
    <3>1. Same(k) /\ ~disturbed[k] /\ online' = online
      BY <1>1, <2>2, OthersKeep, DisturbStep, Zenon
    <3>2. Share(k)
      BY <3>1, Zenon DEF Same, ShareInv
    <3> QED
      BY <3>1, <3>2, ShareFrame
  <2> QED
    BY <2>1, <2>2, Zenon
<1>2. ASSUME NEW id \in IDs, DeviceChanges(id) PROVE FALSE
  BY <1>2, Zenon DEF DeviceChanges, Disturb
<1>3. CASE Cancel \/ UNCHANGED vars
  <2>1. ~disturbed[k] /\ cancelled'[k] = cancelled[k]
    BY <1>3, Zenon DEF Cancel, Disturb, vars, historyVars, TypeOK
  <2>2. UNCHANGED <<online, pc, job, remaining, batch, visited, skipped, drained, progress, target>>
    BY <1>3, Zenon DEF Cancel, vars, batchVars, historyVars
  <2>3. Same(k) /\ Share(k)
    BY <2>1, <2>2, Zenon DEF Same, ShareInv
  <2> QED
    BY <2>2, <2>3, ShareFrame
<1> QED
  BY <1>1, <1>2, <1>3, Zenon DEF Next

-----------------------------------------------------------------------------
(* The theorems.                                                           *)

INSTANCE FiniteSetTheorems

LEMMA FiniteHold == FiniteFacts
<1>1. \A S : IsFiniteSet(S) =>
         /\ Cardinality(S) \in Nat
         /\ \A T \in SUBSET S : IsFiniteSet(T) /\ Cardinality(T) <= Cardinality(S)
  BY FS_CardinalityType, FS_Subset
<1>2. \A S : IsFiniteSet(S) => \A x \in S :
         IsFiniteSet(S \ {x}) /\ Cardinality(S \ {x}) = Cardinality(S) - 1
  BY FS_RemoveElement
<1>3. \A S, T : IsFiniteSet(S) /\ IsFiniteSet(T) =>
         /\ IsFiniteSet(S \cup T)
         /\ Cardinality(S \cup T) = Cardinality(S) + Cardinality(T) - Cardinality(S \cap T)
  BY FS_Union
<1> QED
  BY <1>1, <1>2, <1>3, FS_EmptySet DEF FiniteFacts

\* The drainer is active exactly while its latest job runs uncancelled.
THEOREM DrainerActiveIsCurrent == FairSpec => []ActiveIsCurrent
<1>1. Init => ControlInv
  BY DrainerAssumption, Zenon DEF Init, ControlInv, ActiveIsCurrent
<1>2. ControlInv => ActiveIsCurrent
  BY DEF ControlInv
<1> QED
  BY <1>1, <1>2, ControlStep, DrainerTypeInit, DrainerTypeStep, FiniteHold, PTL DEF FairSpec

\* "Visited ... will not exceed the Job.Count value" (device/drain/tracker.go),
\* and a job never claims to have drained more than it visited.
THEOREM DrainerProgressBounded == FairSpec => []ProgressBounded
<1>1. Init => ProgressInv
  <2> SUFFICES ASSUME Init, NEW j \in Jobs PROVE ProgressOf(j)
    BY DEF ProgressInv
  <2>1. pc[j] = "idle" /\ job[j].count = 0 /\ progress[j].visited = 0 /\ progress[j].drained = 0
    BY Zenon DEF Init
  <2> QED
    BY <2>1 DEF ProgressOf, NotStarted, InLoop
<1>2. ProgressInv => ProgressBounded
  BY DEF ProgressInv, ProgressOf, ProgressBounded
<1> QED
  BY <1>1, <1>2, ProgressStep, DrainerTypeInit, DrainerTypeStep, FiniteHold, PTL DEF FairSpec

\* A job nobody disturbs disconnects its count, or every device its filter does
\* not let stay, however its batches fall.
THEOREM DrainerDrainsItsShare == FairSpec => []DrainsItsShare
<1>1. Init => ProgressInv /\ ControlInv /\ ShareInv
  <2> SUFFICES ASSUME Init, NEW j \in Jobs PROVE ProgressOf(j) /\ ControlInv /\ pc[j] \in NotStarted
    BY Zenon DEF ProgressInv, ShareInv, Init, ControlInv, ActiveIsCurrent
  <2>1. pc[j] = "idle" /\ job[j].count = 0 /\ progress[j].visited = 0 /\ progress[j].drained = 0
    BY Zenon DEF Init
  <2>2. ControlInv
    BY DrainerAssumption, Zenon DEF Init, ControlInv, ActiveIsCurrent
  <2> QED
    BY <2>1, <2>2 DEF ProgressOf, NotStarted, InLoop
<1>2. ShareInv => DrainsItsShare
  BY DEF ShareInv, Share, NotStarted, DrainsItsShare
<1> QED
  BY <1>1, <1>2, ShareStep, ProgressStep, ControlStep, DrainerTypeInit, DrainerTypeStep,
     FiniteHold, PTL DEF FairSpec
=============================================================================
