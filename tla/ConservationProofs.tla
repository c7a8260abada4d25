------------------------- MODULE ConservationProofs -------------------------
(***************************************************************************)
(* Theorems about what the library counts and hands out: tasks of a pool,  *)
(* slots of a semaphore, connections, pooled objects and running handlers. *)
(* What is taken is counted once and given back once, and no limit is      *)
(* exceeded, for every value of the constants.                             *)
(***************************************************************************)
EXTENDS Integers, Sequences, FiniteSets, TLAPS

-----------------------------------------------------------------------------
(* Counting the members of a finite set that are in certain places.  What   *)
(* the proofs use is Counts, which every finite set has by CardinalityFacts; *)
(* those are taken from the library at the end of the module.              *)

Among(D, f, P) == {c \in D : f[c] \in P}

\* What becomes of the number of those in P when c goes from f[c] to g[c].
Moves(D, f, g, c, P) ==
    LET n == Cardinality(Among(D, f, P))
        m == Cardinality(Among(D, g, P))
    IN  /\ n \in Nat /\ m \in Nat
        /\ f[c] \in P /\ g[c] \notin P => m = n - 1
        /\ f[c] \notin P /\ g[c] \in P => m = n + 1
        /\ (f[c] \in P <=> g[c] \in P) => m = n

Counts(D) ==
    /\ \A f, g, P : \A c \in D : (\A d \in D : d # c => g[d] = f[d]) => Moves(D, f, g, c, P)
    /\ \A f, P, Q : P \subseteq Q => Cardinality(Among(D, f, P)) <= Cardinality(Among(D, f, Q))
    /\ \A f, P : Cardinality(Among(D, f, P)) \in Nat
    /\ \A f, P : (\A d \in D : f[d] \notin P) => Cardinality(Among(D, f, P)) = 0
    /\ \A S \in SUBSET D : /\ Cardinality(S) \in Nat
                           /\ \A x \in D \ S : Cardinality(S \cup {x}) = Cardinality(S) + 1

\* The smallest sets.
CountsFew == Cardinality({}) = 0 /\ \A x : Cardinality({x}) = 1

\* What the library proves of Cardinality.
CardinalityFacts ==
    /\ Cardinality({}) = 0
    /\ \A x : Cardinality({x}) = 1
    /\ \A S : IsFiniteSet(S) =>
         /\ Cardinality(S) \in Nat
         /\ \A T \in SUBSET S : IsFiniteSet(T) /\ Cardinality(T) <= Cardinality(S)
         /\ \A x : x \notin S => Cardinality(S \cup {x}) = Cardinality(S) + 1
         /\ \A x \in S : Cardinality(S \ {x}) = Cardinality(S) - 1

LEMMA FewCounts == CardinalityFacts => CountsFew
  BY Zenon DEF CardinalityFacts, CountsFew

LEMMA FiniteMoves ==
    ASSUME CardinalityFacts, NEW D, IsFiniteSet(D), NEW f, NEW g, NEW c \in D, NEW P,
           \A d \in D : d # c => g[d] = f[d]
    PROVE  Moves(D, f, g, c, P)
<1>1. IsFiniteSet(Among(D, f, P)) /\ IsFiniteSet(Among(D, g, P))
  BY DEF Among, CardinalityFacts
<1>2. Cardinality(Among(D, f, P)) \in Nat /\ Cardinality(Among(D, g, P)) \in Nat
  BY <1>1 DEF CardinalityFacts
<1>3. f[c] \in P /\ g[c] \notin P => /\ Among(D, g, P) = Among(D, f, P) \ {c}
                                     /\ c \in Among(D, f, P)
  BY DEF Among
<1>4. f[c] \notin P /\ g[c] \in P => /\ Among(D, g, P) = Among(D, f, P) \cup {c}
                                     /\ c \notin Among(D, f, P)
  BY DEF Among
<1>5. (f[c] \in P <=> g[c] \in P) => Among(D, g, P) = Among(D, f, P)
  BY DEF Among
<1> QED
  BY <1>1, <1>2, <1>3, <1>4, <1>5 DEF Moves, CardinalityFacts

LEMMA FiniteCounts ==
    ASSUME CardinalityFacts, NEW D, IsFiniteSet(D)
    PROVE  Counts(D)
<1>1. \A f, g, P : \A c \in D : (\A d \in D : d # c => g[d] = f[d]) => Moves(D, f, g, c, P)
  BY FiniteMoves, Zenon
<1>2. \A f, P : IsFiniteSet(Among(D, f, P)) /\ Cardinality(Among(D, f, P)) \in Nat
  BY DEF Among, CardinalityFacts
<1>3. ASSUME NEW f, NEW P, NEW Q, P \subseteq Q
      PROVE  Cardinality(Among(D, f, P)) <= Cardinality(Among(D, f, Q))
  <2>1. Among(D, f, P) \in SUBSET Among(D, f, Q)
    BY <1>3 DEF Among
  <2> QED
    BY <1>2, <2>1 DEF CardinalityFacts
<1>4. ASSUME NEW f, NEW P, \A d \in D : f[d] \notin P
      PROVE  Cardinality(Among(D, f, P)) = 0
  <2>1. Among(D, f, P) = {}
    BY <1>4 DEF Among
  <2> QED
    BY <2>1 DEF CardinalityFacts
<1>5. ASSUME NEW S \in SUBSET D
      PROVE  /\ Cardinality(S) \in Nat
             /\ \A x \in D \ S : Cardinality(S \cup {x}) = Cardinality(S) + 1
  <2>1. IsFiniteSet(S)
    BY DEF CardinalityFacts
  <2> QED
    BY <2>1 DEF CardinalityFacts
<1> QED
  BY <1>1, <1>2, <1>3, <1>4, <1>5, Zenon DEF Counts

LEMMA MoveCount ==
    ASSUME NEW D, Counts(D), NEW f, NEW g, NEW c \in D, NEW P,
           \A d \in D : d # c => g[d] = f[d]
    PROVE  Moves(D, f, g, c, P)
  BY Zenon DEF Counts

LEMMA CountSubset ==
    ASSUME NEW D, Counts(D), NEW f, NEW P, NEW Q, P \subseteq Q
    PROVE  Cardinality(Among(D, f, P)) <= Cardinality(Among(D, f, Q))
  BY Zenon DEF Counts

LEMMA CountType ==
    ASSUME NEW D, Counts(D), NEW f, NEW P PROVE Cardinality(Among(D, f, P)) \in Nat
  BY Zenon DEF Counts

LEMMA CountNone ==
    ASSUME NEW D, Counts(D), NEW f, NEW P, \A d \in D : f[d] \notin P
    PROVE  Cardinality(Among(D, f, P)) = 0
  BY Zenon DEF Counts

-----------------------------------------------------------------------------
(* The pool of goroutines.                                                 *)

CONSTANTS Senders, Workers, QueueSize
VARIABLES tasks, tasksClosed, sender, worker, finished, counts

Pool == INSTANCE HttpPool

Task(w) == worker[w].task
Accepted == {"taken", "queued"}

TaskType ==
    /\ tasks \in Seq(Senders)
    /\ DOMAIN sender = Senders /\ finished \subseteq Senders
    /\ worker \in [Workers -> [stage : {"idle", "ticker", "handle", "gone"},
                               task : Senders \cup {Pool!Nobody}]]
    /\ \A w \in Workers : worker[w].stage \in {"ticker", "handle"} <=> Task(w) \in Senders

\* A task is in one place at most, and in one if it was accepted.
TaskPlaces ==
    /\ \A i, j \in 1..Len(tasks) : tasks[i] = tasks[j] => i = j
    /\ \A i \in 1..Len(tasks) : tasks[i] \notin finished
    /\ \A i \in 1..Len(tasks) : \A w \in Workers : Task(w) # tasks[i]
    /\ \A w, v \in Workers : Task(w) \in Senders /\ Task(w) = Task(v) => w = v
    /\ \A w \in Workers : Task(w) \notin finished

TaskKept ==
    \A s \in Senders : sender[s] \in Accepted <=> \/ \E i \in 1..Len(tasks) : tasks[i] = s
                                                  \/ \E w \in Workers : Task(w) = s
                                                  \/ s \in finished

LEMMA NobodyIs == "none" \notin Senders => Pool!Nobody \notin Senders
  BY DEF Pool!Nobody

LEMMA PlaceIs ==
    ASSUME DOMAIN sender = Senders, NEW s \in Senders, NEW place, Pool!Place(s, place)
    PROVE  /\ DOMAIN sender' = Senders /\ sender'[s] = place
           /\ \A q \in Senders : q # s => sender'[q] = sender[q]
  BY DEF Pool!Place

\* The senders' steps: a task is put into the channel by its sender only.
LEMMA SenderPlaces ==
    ASSUME TaskType, TaskPlaces, TaskKept, NEW s \in Senders, Pool!Send(s) \/ Pool!SenderStep(s)
    PROVE  TaskType' /\ TaskPlaces' /\ TaskKept'
<1>d. DOMAIN sender = Senders
  BY DEF TaskType
<1>1. CASE Pool!Send(s) \/ Pool!Refuse(s) \/ Pool!ReportSend(s)
  <2>1. UNCHANGED <<tasks, worker, finished>>
    BY <1>1 DEF Pool!Send, Pool!Refuse, Pool!ReportSend
  <2>2. PICK place : /\ Pool!Place(s, place)
                     /\ sender[s] \in Accepted <=> place \in Accepted
    BY <1>1 DEF Pool!Send, Pool!Refuse, Pool!ReportSend, Accepted
  <2>3. /\ DOMAIN sender' = Senders
        /\ \A q \in Senders : sender'[q] \in Accepted <=> sender[q] \in Accepted
    BY <1>d, <2>2, PlaceIs
  <2>4. TaskType' /\ TaskPlaces'
    BY <2>1, <2>3 DEF TaskType, TaskPlaces, Task
  <2> QED
    BY <2>1, <2>3, <2>4 DEF TaskKept, Task
<1>2. CASE Pool!Enqueue(s)
  <2>1. /\ UNCHANGED <<worker, finished>> /\ sender[s] \notin Accepted
        /\ tasks' = Append(tasks, s) /\ Pool!Place(s, "taken")
    BY <1>2 DEF Pool!Enqueue, Accepted
  <2>2. /\ DOMAIN sender' = Senders /\ sender'[s] = "taken"
        /\ \A q \in Senders : q # s => sender'[q] = sender[q]
    BY <1>d, <2>1, PlaceIs
  <2>3. /\ Len(tasks) \in Nat /\ tasks' \in Seq(Senders) /\ Len(tasks') = Len(tasks) + 1
        /\ tasks'[Len(tasks')] = s /\ Len(tasks') \in 1..Len(tasks')
        /\ \A i \in 1..Len(tasks') : i # Len(tasks') => i \in 1..Len(tasks) /\ tasks'[i] = tasks[i]
        /\ \A i \in 1..Len(tasks) : i \in 1..Len(tasks') /\ tasks'[i] = tasks[i]
    BY <2>1 DEF TaskType
  <2>4. /\ \A i \in 1..Len(tasks) : tasks[i] # s
        /\ \A w \in Workers : Task(w) # s
        /\ s \notin finished
    BY <2>1 DEF TaskKept
  <2>5. TaskType'
    BY <2>1, <2>2, <2>3 DEF TaskType, Task
  <2>6. \A i, j \in 1..Len(tasks') : tasks'[i] = tasks'[j] => i = j
    BY <2>3, <2>4 DEF TaskPlaces
  <2>7. \A i \in 1..Len(tasks') : tasks'[i] \notin finished
          /\ \A w \in Workers : Task(w) # tasks'[i]
    BY <2>3, <2>4 DEF TaskPlaces
  <2>8. TaskPlaces'
    BY <2>1, <2>6, <2>7 DEF TaskPlaces, Task
  <2>9. TaskKept'
    <3>1. \A w \in Workers : Task(w)' = Task(w)
      BY <2>1 DEF Task
    <3>2. ASSUME NEW q \in Senders, q # s
          PROVE  (\E i \in 1..Len(tasks') : tasks'[i] = q)
                   <=> (\E i \in 1..Len(tasks) : tasks[i] = q)
      BY <2>3, <3>2
    <3>3. \E i \in 1..Len(tasks') : tasks'[i] = s
      BY <2>3
    <3>4. sender'[s] \in Accepted
      BY <2>2 DEF Accepted
    <3> QED
      BY <2>1, <2>2, <3>1, <3>2, <3>3, <3>4 DEF TaskKept
  <2> QED
    BY <2>5, <2>8, <2>9
<1> QED
  BY <1>1, <1>2 DEF Pool!SenderStep

\* The workers' steps: a task goes from the channel to one worker, and is
\* finished by it.
LEMMA WorkerPlaces ==
    ASSUME TaskType, TaskPlaces, TaskKept, NEW w \in Workers, Pool!WorkerStep(w),
           "none" \notin Senders
    PROVE  TaskType' /\ TaskPlaces' /\ TaskKept'
<1>s. sender' = sender
  BY DEF Pool!WorkerStep, Pool!Take, Pool!Ticked, Pool!HandleTask, Pool!WorkerEnds
<1>n. Pool!Nobody \notin Senders
  BY NobodyIs
<1>1. CASE Pool!Ticked(w) \/ Pool!WorkerEnds(w)
  <2>1. UNCHANGED <<tasks, finished>>
    BY <1>1 DEF Pool!Ticked, Pool!WorkerEnds
  <2>2. PICK stage \in {"handle", "gone"} :
           /\ worker' = [worker EXCEPT ![w].stage = stage]
           /\ worker[w].stage \in {"ticker", "handle"} <=> stage = "handle"
    BY <1>1 DEF Pool!Ticked, Pool!WorkerEnds
  <2>3. /\ worker' \in [Workers -> [stage : {"idle", "ticker", "handle", "gone"},
                                    task : Senders \cup {Pool!Nobody}]]
        /\ worker'[w].stage = stage
        /\ \A v \in Workers : v # w => worker'[v].stage = worker[v].stage
    BY <2>2 DEF TaskType
  <2>4. \A v \in Workers : Task(v)' = Task(v)
    BY <2>2 DEF TaskType, Task
  <2>5. TaskType'
    BY <1>s, <2>1, <2>2, <2>3, <2>4 DEF TaskType
  <2>6. TaskPlaces'
    BY <2>1, <2>4 DEF TaskPlaces
  <2> QED
    BY <1>s, <2>1, <2>4, <2>5, <2>6 DEF TaskKept
<1>2. CASE Pool!Take(w)
  <2>1. /\ finished' = finished /\ worker[w].stage = "idle" /\ tasks # <<>>
        /\ worker' = [worker EXCEPT ![w] = [stage |-> "ticker", task |-> Head(tasks)]]
        /\ tasks' = Tail(tasks)
    BY <1>2 DEF Pool!Take
  <2>2. /\ Len(tasks) \in Nat /\ 1 \in 1..Len(tasks) /\ tasks' \in Seq(Senders)
        /\ Len(tasks') = Len(tasks) - 1 /\ Head(tasks) = tasks[1] /\ tasks[1] \in Senders
        /\ \A i \in 1..Len(tasks') : i + 1 \in 1..Len(tasks) /\ tasks'[i] = tasks[i + 1]
        /\ \A i \in 1..Len(tasks) : i # 1 => i - 1 \in 1..Len(tasks') /\ tasks'[i - 1] = tasks[i]
    BY <2>1 DEF TaskType
  <2>3. /\ worker' \in [Workers -> [stage : {"idle", "ticker", "handle", "gone"},
                                    task : Senders \cup {Pool!Nobody}]]
        /\ worker'[w].stage = "ticker" /\ Task(w)' = tasks[1]
        /\ \A v \in Workers : v # w => worker'[v].stage = worker[v].stage /\ Task(v)' = Task(v)
    BY <2>1, <2>2 DEF TaskType, Task
  <2>4. Task(w) \notin Senders
    BY <2>1 DEF TaskType
  <2>5. TaskType'
    BY <1>s, <2>1, <2>2, <2>3 DEF TaskType
  <2>6. \A i \in 1..Len(tasks') : tasks'[i] # tasks[1] /\ tasks'[i] \notin finished
    BY <2>2 DEF TaskPlaces
  <2>7. ASSUME NEW i \in 1..Len(tasks'), NEW j \in 1..Len(tasks'), tasks'[i] = tasks'[j] PROVE i = j
    <3>1. i + 1 \in 1..Len(tasks) /\ j + 1 \in 1..Len(tasks) /\ tasks[i + 1] = tasks[j + 1]
      BY <2>2, <2>7
    <3>2. i + 1 = j + 1
      BY <3>1 DEF TaskPlaces
    <3> QED
      BY <2>2, <3>2
  <2>8. \A i \in 1..Len(tasks') : \A v \in Workers : Task(v)' # tasks'[i]
    BY <2>2, <2>3, <2>6 DEF TaskPlaces
  <2>9. /\ \A v, u \in Workers : Task(v)' \in Senders /\ Task(v)' = Task(u)' => v = u
        /\ \A v \in Workers : Task(v)' \notin finished
    BY <2>2, <2>3 DEF TaskPlaces
  <2>10. TaskPlaces'
    BY <2>1, <2>6, <2>7, <2>8, <2>9 DEF TaskPlaces
  <2>11. ASSUME NEW s \in Senders
         PROVE  (\/ \E i \in 1..Len(tasks') : tasks'[i] = s
                 \/ \E v \in Workers : Task(v)' = s) <=>
                (\/ \E i \in 1..Len(tasks) : tasks[i] = s
                 \/ \E v \in Workers : Task(v) = s)
    <3>1. CASE s = tasks[1]
      BY <2>2, <2>3, <3>1
    <3>2. CASE s # tasks[1]
      <4>1. (\E i \in 1..Len(tasks') : tasks'[i] = s) <=> (\E i \in 1..Len(tasks) : tasks[i] = s)
        BY <2>2, <3>2
      <4>2. (\E v \in Workers : Task(v)' = s) <=> (\E v \in Workers : Task(v) = s)
        BY <2>3, <2>4, <3>2
      <4> QED
        BY <4>1, <4>2
    <3> QED
      BY <3>1, <3>2
  <2>12. TaskKept'
    BY <1>s, <2>1, <2>11 DEF TaskKept
  <2> QED
    BY <2>5, <2>10, <2>12
<1>3. CASE Pool!HandleTask(w)
  <2>1. /\ tasks' = tasks /\ worker[w].stage = "handle"
        /\ worker' = [worker EXCEPT ![w] = [stage |-> "idle", task |-> Pool!Nobody]]
        /\ finished' = finished \cup {Task(w)}
    BY <1>3 DEF Pool!HandleTask, Pool!Idle, Task
  <2>2. Task(w) \in Senders
    BY <2>1 DEF TaskType
  <2>3. /\ worker' \in [Workers -> [stage : {"idle", "ticker", "handle", "gone"},
                                    task : Senders \cup {Pool!Nobody}]]
        /\ worker'[w].stage = "idle" /\ Task(w)' = Pool!Nobody
        /\ \A v \in Workers : v # w => worker'[v].stage = worker[v].stage /\ Task(v)' = Task(v)
    BY <2>1 DEF TaskType, Task
  <2>4. TaskType'
    BY <1>s, <1>n, <2>1, <2>2, <2>3 DEF TaskType
  <2>5. \A i \in 1..Len(tasks) : tasks[i] \in Senders
    BY DEF TaskType
  <2>6. \A i \in 1..Len(tasks) : tasks[i] \notin finished' /\ \A v \in Workers : Task(v)' # tasks[i]
    BY <1>n, <2>1, <2>3, <2>5 DEF TaskPlaces
  <2>7. /\ \A v, u \in Workers : Task(v)' \in Senders /\ Task(v)' = Task(u)' => v = u
        /\ \A v \in Workers : Task(v)' \notin finished'
    <3>1. finished \subseteq Senders
      BY DEF TaskType
    <3> QED
      BY <1>n, <2>1, <2>2, <2>3, <3>1 DEF TaskPlaces
  <2>8. TaskPlaces'
    BY <2>1, <2>6, <2>7 DEF TaskPlaces
  <2>9. ASSUME NEW s \in Senders
        PROVE  ((\E v \in Workers : Task(v)' = s) \/ s \in finished') <=>
               ((\E v \in Workers : Task(v) = s) \/ s \in finished)
    <3>1. CASE s = Task(w)
      BY <2>1, <3>1
    <3>2. CASE s # Task(w)
      BY <1>n, <2>1, <2>3, <3>2
    <3> QED
      BY <3>1, <3>2
  <2> QED
    BY <1>s, <2>1, <2>4, <2>8, <2>9 DEF TaskKept
<1> QED
  BY <1>1, <1>2, <1>3 DEF Pool!WorkerStep

TaskCounts ==
    /\ counts \in [queued : Nat, rejected : Nat, succeeded : Nat, failed : Nat]
    /\ counts.queued = Cardinality(Among(Senders, sender, {"queued"}))
    /\ counts.rejected = Cardinality(Among(Senders, sender, {"rejected"}))
    /\ counts.succeeded + counts.failed = Cardinality(finished)

LEMMA CountEvent ==
    ASSUME counts \in [queued : Nat, rejected : Nat, succeeded : Nat, failed : Nat],
           NEW event \in {"queued", "rejected", "succeeded", "failed"}, Pool!On(event)
    PROVE  /\ counts' \in [queued : Nat, rejected : Nat, succeeded : Nat, failed : Nat]
           /\ counts'[event] = counts[event] + 1
           /\ event # "queued" => counts'.queued = counts.queued
           /\ event # "rejected" => counts'.rejected = counts.rejected
           /\ event # "succeeded" => counts'.succeeded = counts.succeeded
           /\ event # "failed" => counts'.failed = counts.failed
  BY DEF Pool!On

LEMMA TaskCountsStep ==
    ASSUME TaskType, TaskPlaces, TaskCounts, [Pool!Next]_(Pool!vars), Counts(Senders)
    PROVE  TaskCounts'
<1> DEFINE Q == Cardinality(Among(Senders, sender, {"queued"}))
           R == Cardinality(Among(Senders, sender, {"rejected"}))
           F == Cardinality(finished)
<1>m. ASSUME NEW s \in Senders, NEW place, Pool!Place(s, place)
      PROVE  /\ Q \in Nat /\ R \in Nat
             /\ sender[s] \notin {"queued", "rejected"} =>
                  /\ Q' = IF place = "queued" THEN Q + 1 ELSE Q
                  /\ R' = IF place = "rejected" THEN R + 1 ELSE R
  <2>1. /\ DOMAIN sender' = Senders /\ sender'[s] = place
        /\ \A q \in Senders : q # s => sender'[q] = sender[q]
    BY <1>m, PlaceIs DEF TaskType
  <2>2. Moves(Senders, sender, sender', s, {"queued"})
          /\ Moves(Senders, sender, sender', s, {"rejected"})
    BY <2>1, MoveCount, Zenon
  <2>3. /\ Q' = Cardinality(Among(Senders, sender', {"queued"}))
        /\ R' = Cardinality(Among(Senders, sender', {"rejected"}))
    BY DEF Among
  <2> QED
    BY <2>1, <2>2, <2>3, Zenon DEF Moves
<1>u. sender' = sender => Q' = Q /\ R' = R
  BY DEF Among
<1>i. /\ counts \in [queued : Nat, rejected : Nat, succeeded : Nat, failed : Nat]
      /\ counts.queued = Q /\ counts.rejected = R /\ counts.succeeded + counts.failed = F
  BY DEF TaskCounts
<1>p. TaskCounts' <=>
        /\ counts' \in [queued : Nat, rejected : Nat, succeeded : Nat, failed : Nat]
        /\ counts'.queued = Q' /\ counts'.rejected = R' /\ counts'.succeeded + counts'.failed = F'
  BY DEF TaskCounts
<1>f. finished' = finished => F' = F
  OBVIOUS
<1>g. finished \in SUBSET Senders /\ F \in Nat
  BY Zenon DEF TaskType, Counts
<1> HIDE DEF Q, R, F
<1>1. ASSUME NEW s \in Senders, Pool!Send(s) \/ Pool!Enqueue(s) \/ Pool!Refuse(s) PROVE TaskCounts'
  <2>1. UNCHANGED <<finished, counts>> /\ sender[s] \notin {"queued", "rejected"}
    BY <1>1 DEF Pool!Send, Pool!Enqueue, Pool!Refuse
  <2>2. PICK place \in {"sending", "taken", "refused"} : Pool!Place(s, place)
    BY <1>1 DEF Pool!Send, Pool!Enqueue, Pool!Refuse
  <2> QED
    BY <1>m, <1>i, <1>p, <1>f, <2>1, <2>2
<1>2. ASSUME NEW s \in Senders, Pool!ReportSend(s) PROVE TaskCounts'
  <2>0. finished' = finished
    BY <1>2 DEF Pool!ReportSend
  <2>1. CASE sender[s] = "taken" /\ Pool!Place(s, "queued") /\ Pool!On("queued")
    <3>1. Q \in Nat /\ Q' = Q + 1 /\ R' = R
      BY <1>m, <2>1
    <3>2. /\ counts' \in [queued : Nat, rejected : Nat, succeeded : Nat, failed : Nat]
          /\ counts'.queued = counts.queued + 1 /\ counts'.rejected = counts.rejected
          /\ counts'.succeeded = counts.succeeded /\ counts'.failed = counts.failed
      BY <1>i, <2>1, CountEvent
    <3> QED
      BY <1>i, <1>p, <1>f, <2>0, <3>1, <3>2
  <2>2. CASE sender[s] = "refused" /\ Pool!Place(s, "rejected") /\ Pool!On("rejected")
    <3>1. R \in Nat /\ R' = R + 1 /\ Q' = Q
      BY <1>m, <2>2
    <3>2. /\ counts' \in [queued : Nat, rejected : Nat, succeeded : Nat, failed : Nat]
          /\ counts'.queued = counts.queued /\ counts'.rejected = counts.rejected + 1
          /\ counts'.succeeded = counts.succeeded /\ counts'.failed = counts.failed
      BY <1>i, <2>2, CountEvent
    <3> QED
      BY <1>i, <1>p, <1>f, <2>0, <3>1, <3>2
  <2> QED
    BY <1>2, <2>1, <2>2 DEF Pool!ReportSend
<1>3. ASSUME NEW w \in Workers, Pool!HandleTask(w) PROVE TaskCounts'
  <2>1. sender' = sender /\ finished' = finished \cup {Task(w)}
    BY <1>3 DEF Pool!HandleTask, Task
  <2>2. Task(w) \in Senders \ finished
    BY <1>3 DEF TaskPlaces, TaskType, Pool!HandleTask, Task
  <2>3. F' = F + 1
    BY <1>g, <2>1, <2>2, Zenon DEF F, Counts
  <2>4. /\ counts' \in [queued : Nat, rejected : Nat, succeeded : Nat, failed : Nat]
        /\ counts'.queued = counts.queued /\ counts'.rejected = counts.rejected
        /\ \/ counts'.succeeded = counts.succeeded + 1 /\ counts'.failed = counts.failed
           \/ counts'.succeeded = counts.succeeded /\ counts'.failed = counts.failed + 1
    BY <1>3, <1>i, CountEvent DEF Pool!HandleTask
  <2>5. counts'.succeeded + counts'.failed = F + 1
    BY <1>i, <2>4
  <2> QED
    BY <1>u, <1>i, <1>p, <2>1, <2>3, <2>4, <2>5
<1>4. ASSUME UNCHANGED <<sender, finished, counts>> PROVE TaskCounts'
  BY <1>4, <1>u, <1>i, <1>p, <1>f
<1> QED
  BY <1>1, <1>2, <1>3, <1>4
     DEF Pool!Next, Pool!SenderStep, Pool!WorkerStep, Pool!Close, Pool!Take, Pool!Ticked,
         Pool!WorkerEnds, Pool!vars

TaskInv == TaskType /\ TaskPlaces /\ TaskKept /\ TaskCounts

LEMMA TaskStep ==
    ASSUME TaskInv, [Pool!Next]_(Pool!vars), Counts(Senders), "none" \notin Senders
    PROVE  TaskInv'
<1>1. TaskCounts'
  BY TaskCountsStep DEF TaskInv
<1>2. CASE Pool!Close \/ UNCHANGED Pool!vars
  <2>1. UNCHANGED <<tasks, sender, worker, finished>>
    BY <1>2 DEF Pool!Close, Pool!vars
  <2> QED
    BY <1>1, <2>1 DEF TaskInv, TaskType, TaskPlaces, TaskKept, Task
<1> QED
  BY <1>1, <1>2, SenderPlaces, WorkerPlaces DEF TaskInv, Pool!Next

LEMMA TaskInit == Pool!Init /\ Counts(Senders) /\ CountsFew /\ "none" \notin Senders => TaskInv
<1> SUFFICES ASSUME Pool!Init, Counts(Senders), CountsFew, "none" \notin Senders PROVE TaskInv
  OBVIOUS
<1>1. \A s \in Senders : sender[s] \notin {"queued"} /\ sender[s] \notin {"rejected"}
                         /\ sender[s] \notin Accepted
  BY DEF Pool!Init, Accepted
<1>2. /\ Cardinality(Among(Senders, sender, {"queued"})) = 0
      /\ Cardinality(Among(Senders, sender, {"rejected"})) = 0
      /\ Cardinality({}) = 0
  BY <1>1, CountNone DEF CountsFew
<1>3. TaskCounts
  BY <1>2 DEF Pool!Init, TaskCounts
<1>4. /\ tasks = <<>> /\ finished = {} /\ DOMAIN sender = Senders
      /\ worker = [w \in Workers |-> [stage |-> "idle", task |-> Pool!Nobody]]
  BY DEF Pool!Init
<1>5. tasks \in Seq(Senders) /\ 1..Len(tasks) = {}
  BY <1>4
<1>6. \A w \in Workers : Task(w) = Pool!Nobody /\ Task(w) \notin Senders
  BY <1>4, NobodyIs DEF Task
<1>7. TaskType
  BY <1>4, <1>5, <1>6 DEF TaskType, Task
<1> QED
  BY <1>1, <1>3, <1>4, <1>5, <1>6, <1>7 DEF TaskInv, TaskPlaces, TaskKept

LEMMA TasksAreAccounted == TaskInv /\ CountsFew /\ "none" \notin Senders => Pool!TasksAccounted
<1> SUFFICES ASSUME TaskInv, CountsFew, "none" \notin Senders PROVE Pool!TasksAccounted
  OBVIOUS
<1>c. \A S : Pool!Cardinality(S) = Cardinality(S)
  BY DEF Pool!Cardinality, Cardinality
<1>1. \A P : Pool!At(P) = Among(Senders, sender, P)
  BY DEF Pool!At, Among
<1>2. /\ counts.queued = Pool!Cardinality(Pool!At({"queued"}))
      /\ counts.rejected = Pool!Cardinality(Pool!At({"rejected"}))
      /\ counts.succeeded + counts.failed = Pool!Cardinality(finished)
  BY <1>c, <1>1 DEF TaskInv, TaskCounts
<1>3. ASSUME NEW s \in Senders
      PROVE  Pool!Cardinality({i \in DOMAIN tasks : tasks[i] = s})
               + Pool!Cardinality({w \in Workers : worker[w].task = s})
               + (IF s \in finished THEN 1 ELSE 0)
             = IF sender[s] \in {"taken", "queued"} THEN 1 ELSE 0
  <2> DEFINE I == {i \in DOMAIN tasks : tasks[i] = s}
             W == {w \in Workers : worker[w].task = s}
  <2>d. DOMAIN tasks = 1..Len(tasks)
    BY DEF TaskInv, TaskType
  <2>1. CASE \E i \in 1..Len(tasks) : tasks[i] = s
    <3>1. PICK i \in 1..Len(tasks) : tasks[i] = s
      BY <2>1
    <3>2. I = {i} /\ W = {} /\ s \notin finished
      BY <2>d, <3>1 DEF TaskInv, TaskPlaces, Task
    <3>3. sender[s] \in {"taken", "queued"}
      BY <3>1 DEF TaskInv, TaskKept, Accepted
    <3>4. Pool!Cardinality(I) = 1 /\ Pool!Cardinality(W) = 0
      BY <1>c, <3>2, Zenon DEF CountsFew
    <3> QED
      BY <3>2, <3>3, <3>4
  <2>2. CASE \E w \in Workers : worker[w].task = s
    <3>1. PICK w \in Workers : worker[w].task = s
      BY <2>2
    <3>2. I = {} /\ W = {w} /\ s \notin finished
      BY <2>d, <3>1 DEF TaskInv, TaskPlaces, Task
    <3>3. sender[s] \in {"taken", "queued"}
      BY <3>1 DEF TaskInv, TaskKept, Accepted, Task
    <3>4. Pool!Cardinality(I) = 0 /\ Pool!Cardinality(W) = 1
      BY <1>c, <3>2, Zenon DEF CountsFew
    <3> QED
      BY <3>2, <3>3, <3>4
  <2>3. CASE ~(\E i \in 1..Len(tasks) : tasks[i] = s) /\ ~(\E w \in Workers : worker[w].task = s)
    <3>1. I = {} /\ W = {}
      BY <2>d, <2>3
    <3>2. sender[s] \in {"taken", "queued"} <=> s \in finished
      BY <2>3 DEF TaskInv, TaskKept, Accepted, Task
    <3>3. Pool!Cardinality(I) = 0 /\ Pool!Cardinality(W) = 0
      BY <1>c, <3>1, Zenon DEF CountsFew
    <3> QED
      BY <3>2, <3>3
  <2> QED
    BY <2>1, <2>2, <2>3
<1> QED
  BY <1>2, <1>3 DEF Pool!TasksAccounted

LEMMA TasksKept ==
    ASSUME Counts(Senders), CountsFew, "none" \notin Senders
    PROVE  Pool!Init /\ [][Pool!Next]_(Pool!vars) => []Pool!TasksAccounted
<1>1. TaskInv /\ [Pool!Next]_(Pool!vars) => TaskInv'
  BY TaskStep
<1>2. Pool!Init => TaskInv
  BY TaskInit
<1>3. TaskInv => Pool!TasksAccounted
  BY TasksAreAccounted
<1> QED
  BY <1>1, <1>2, <1>3, PTL

-----------------------------------------------------------------------------
(* The handler chain.                                                      *)

CONSTANTS HttpRequests, MaxTransactions, MaxBody
VARIABLES running, ctx, writer, busy, response

Dec == INSTANCE Decorators

\* A buffer that a status may have been set on.
Buffer(w) ==
    /\ w \in [closed : BOOLEAN, code : Nat, body : Nat]
    /\ w.code = 0 \/ w.code >= 100

\* The answer a is what the buffer w holds.
IsContent(a, w) ==
    /\ a.body = w.body
    /\ a.code = IF w.code = 0 THEN 200 ELSE w.code

\* One request: a handler's answer is taken from a buffer that is closed with
\* it, after the handler has returned: nothing is written there any more.
Answered(r) ==
    /\ ctx[r] = "new" => running[r] = "none"
    /\ Buffer(writer[r])
    /\ response[r].by = "handler" => running[r] = "returned" /\ IsContent(response[r], writer[r])

DecoratorInv ==
    /\ DOMAIN running = HttpRequests /\ DOMAIN ctx = HttpRequests
    /\ DOMAIN writer = HttpRequests /\ DOMAIN response = HttpRequests
    /\ busy \in Int /\ busy = Cardinality(Among(HttpRequests, running, {"handler"}))
    /\ \A r \in HttpRequests : Answered(r)

LEMMA HeaderIs ==
    ASSUME NEW w, Buffer(w), NEW code \in {200, 404, 503}
    PROVE  Buffer(Dec!Header(w, code))
  BY DEF Dec!Header, Buffer

LEMMA BodyIs ==
    ASSUME NEW w, Buffer(w)
    PROVE  Buffer(Dec!Body(w))
<1> DEFINE h == Dec!Header(w, 200)
<1>1. Buffer(h)
  BY HeaderIs
<1> HIDE DEF h
<1>2. Buffer([h EXCEPT !.body = h.body + 1])
  BY <1>1 DEF Buffer
<1> QED
  BY <1>2 DEF Dec!Body, h

LEMMA ClosedIs ==
    ASSUME NEW w, Buffer(w), NEW v, v = [w EXCEPT !.closed = TRUE]
    PROVE  /\ Buffer(v) /\ v.code = w.code /\ v.body = w.body
<1>1. v = [closed |-> TRUE, code |-> w.code, body |-> w.body]
  BY Zenon DEF Buffer
<1> QED
  BY <1>1, Zenon DEF Buffer

LEMMA RequestStep ==
    ASSUME DecoratorInv, NEW r \in HttpRequests,
           \/ Dec!ServeRequest(r) \/ Dec!AcquireCtx(r) \/ Dec!ServerBusy(r)
           \/ Dec!WriteHeader(r) \/ Dec!WriteBody(r) \/ Dec!HandlerEnds(r)
           \/ Dec!ContextDone(r) \/ Dec!ServerStep(r)
    PROVE  /\ DOMAIN ctx' = HttpRequests
           /\ DOMAIN writer' = HttpRequests /\ DOMAIN response' = HttpRequests
           /\ \A q \in HttpRequests : Answered(q)'
<1>d. /\ DOMAIN running = HttpRequests /\ DOMAIN ctx = HttpRequests
      /\ DOMAIN writer = HttpRequests /\ DOMAIN response = HttpRequests
  BY DEF DecoratorInv
<1>a. \A q \in HttpRequests : Answered(q)
  BY DEF DecoratorInv
<1>f. /\ DOMAIN ctx' = HttpRequests
      /\ DOMAIN writer' = HttpRequests /\ DOMAIN response' = HttpRequests
      /\ \A q \in HttpRequests : q # r => /\ ctx'[q] = ctx[q] /\ running'[q] = running[q]
                                          /\ writer'[q] = writer[q] /\ response'[q] = response[q]
  <2>1. CASE Dec!ServeRequest(r) \/ Dec!AcquireCtx(r)
    BY <1>d, <2>1 DEF Dec!ServeRequest, Dec!AcquireCtx
  <2>2. CASE Dec!ServerBusy(r) \/ Dec!WriteHeader(r)
    BY <1>d, <2>2 DEF Dec!ServerBusy, Dec!WriteHeader
  <2>3. CASE Dec!WriteBody(r) \/ Dec!HandlerEnds(r) \/ Dec!ContextDone(r)
    BY <1>d, <2>3 DEF Dec!WriteBody, Dec!HandlerEnds, Dec!ContextDone
  <2>4. CASE Dec!SelectDone(r) \/ Dec!SelectPanic(r)
    BY <1>d, <2>4 DEF Dec!SelectDone, Dec!SelectPanic, Dec!Answer
  <2>5. CASE Dec!SelectTimeout(r)
    BY <1>d, <2>5 DEF Dec!SelectTimeout, Dec!Answer
  <2> QED
    BY <2>1, <2>2, <2>3, <2>4, <2>5 DEF Dec!ServerStep
<1>o. \A q \in HttpRequests : q # r => Answered(q)'
  BY <1>a, <1>f DEF Answered
<1>r. Answered(r)'
  <2>1. CASE Dec!ServeRequest(r)
    <3>1. ctx[r] = "new" /\ ctx'[r] = "live" /\ UNCHANGED <<writer, response>>
      BY <1>d, <2>1 DEF Dec!ServeRequest
    <3> QED
      BY <1>a, <3>1 DEF Answered
  <2>2. CASE Dec!AcquireCtx(r) \/ Dec!HandlerEnds(r)
    <3>1. running[r] \in {"waiting", "handler"} /\ UNCHANGED <<ctx, writer, response>>
      BY <2>2 DEF Dec!AcquireCtx, Dec!HandlerEnds
    <3> QED
      BY <1>a, <3>1 DEF Answered
  <2>3. CASE Dec!ServerBusy(r) \/ Dec!WriteHeader(r)
    <3>1. running[r] \in {"waiting", "handler"} /\ UNCHANGED <<ctx, response>>
      BY <2>3 DEF Dec!ServerBusy, Dec!WriteHeader
    <3>2. PICK code \in {200, 404, 503} : writer'[r] = Dec!Header(writer[r], code)
      BY <1>d, <2>3 DEF Dec!ServerBusy, Dec!WriteHeader, Dec!ServiceUnavailable
    <3>3. Buffer(writer'[r])
      BY <1>a, <3>2, HeaderIs DEF Answered
    <3> QED
      BY <1>a, <3>1, <3>3 DEF Answered
  <2>4. CASE Dec!WriteBody(r)
    <3>1. running[r] = "handler" /\ UNCHANGED <<ctx, response>> /\ writer'[r] = Dec!Body(writer[r])
      BY <1>d, <2>4 DEF Dec!WriteBody
    <3>2. Buffer(writer'[r])
      BY <1>a, <3>1, BodyIs DEF Answered
    <3> QED
      BY <1>a, <3>1, <3>2 DEF Answered
  <2>5. CASE Dec!ContextDone(r)
    <3>1. ctx'[r] = "done" /\ UNCHANGED <<running, writer, response>>
      BY <1>d, <2>5 DEF Dec!ContextDone
    <3> QED
      BY <1>a, <3>1 DEF Answered
  <2>6. CASE Dec!SelectDone(r)
    <3>1. /\ running[r] = "returned" /\ UNCHANGED <<running, ctx>>
          /\ writer'[r] = [writer[r] EXCEPT !.closed = TRUE]
          /\ response'[r] = [code |-> IF writer[r].code < 100 THEN 200 ELSE writer[r].code,
                             body |-> writer[r].body, by |-> "handler"]
      BY <1>d, <2>6 DEF Dec!SelectDone, Dec!Answer
    <3>2. Buffer(writer[r]) /\ Buffer(writer'[r])
          /\ writer'[r].code = writer[r].code /\ writer'[r].body = writer[r].body
      BY <1>a, <3>1, ClosedIs, Zenon DEF Answered
    <3>3. writer[r].code \in Nat /\ (writer[r].code = 0 \/ writer[r].code >= 100)
      BY <3>2 DEF Buffer
    <3>4. IsContent(response'[r], writer'[r])
      BY <3>1, <3>2, <3>3 DEF IsContent
    <3> QED
      BY <1>a, <3>1, <3>2, <3>4 DEF Answered
  <2>7. CASE Dec!SelectPanic(r)
    <3>1. response'[r].by = "panic" /\ UNCHANGED <<running, ctx, writer>>
      BY <1>d, <2>7 DEF Dec!SelectPanic, Dec!Answer
    <3> QED
      BY <1>a, <3>1 DEF Answered
  <2>8. CASE Dec!SelectTimeout(r)
    <3>1. /\ response'[r].by = "timeout" /\ UNCHANGED <<running, ctx>>
          /\ writer'[r] = [writer[r] EXCEPT !.closed = TRUE]
      BY <1>d, <2>8 DEF Dec!SelectTimeout, Dec!Answer
    <3>2. Buffer(writer'[r])
      BY <1>a, <3>1, ClosedIs, Zenon DEF Answered
    <3> QED
      BY <1>a, <3>1, <3>2 DEF Answered
  <2> QED
    BY <2>1, <2>2, <2>3, <2>4, <2>5, <2>6, <2>7, <2>8 DEF Dec!ServerStep
<1> QED
  BY <1>f, <1>o, <1>r

LEMMA BusyStep ==
    ASSUME DecoratorInv, [Dec!Next]_(Dec!vars), Counts(HttpRequests)
    PROVE  /\ DOMAIN running' = HttpRequests /\ busy' \in Int
           /\ busy' = Cardinality(Among(HttpRequests, running, {"handler"}))'
<1> DEFINE B == Cardinality(Among(HttpRequests, running, {"handler"}))
       Goes(r, place) == running' = [running EXCEPT ![r] = place]
<1>m. ASSUME NEW r \in HttpRequests, NEW place, Goes(r, place)
      PROVE  /\ DOMAIN running' = HttpRequests /\ B \in Nat /\ B' \in Nat
             /\ running[r] = "handler" /\ place # "handler" => B' = B - 1
             /\ running[r] # "handler" /\ place = "handler" => B' = B + 1
             /\ running[r] # "handler" /\ place # "handler" => B' = B
  <2>1. /\ DOMAIN running' = HttpRequests /\ running'[r] = place
        /\ \A d \in HttpRequests : d # r => running'[d] = running[d]
    BY <1>m DEF DecoratorInv
  <2>2. Moves(HttpRequests, running, running', r, {"handler"})
    BY <2>1, MoveCount, Zenon
  <2>3. B' = Cardinality(Among(HttpRequests, running', {"handler"}))
    BY DEF Among
  <2> QED
    BY <2>1, <2>2, <2>3 DEF Moves
<1>u. running' = running => B' = B
  BY DEF Among
<1>i. DOMAIN running = HttpRequests /\ busy = B /\ busy \in Int
  BY DEF DecoratorInv
<1> HIDE DEF B, Goes
<1> SUFFICES DOMAIN running' = HttpRequests /\ busy' \in Int /\ busy' = B'
  BY DEF B
<1>1. ASSUME NEW r \in HttpRequests, Dec!ServeRequest(r)
      PROVE  DOMAIN running' = HttpRequests /\ busy' \in Int /\ busy' = B'
  <2>1. running[r] = "none" /\ busy' = busy /\ Goes(r, "waiting")
    BY <1>1 DEF Dec!ServeRequest, DecoratorInv, Answered, Goes
  <2> QED
    BY <1>m, <1>i, <2>1
<1>2. ASSUME NEW r \in HttpRequests, Dec!AcquireCtx(r)
      PROVE  DOMAIN running' = HttpRequests /\ busy' \in Int /\ busy' = B'
  <2>1. /\ running[r] = "waiting" /\ busy' = busy + 1
        /\ Goes(r, "handler")
    BY <1>2 DEF Dec!AcquireCtx, Goes
  <2> QED
    BY <1>m, <1>i, <2>1
<1>3. ASSUME NEW r \in HttpRequests, Dec!ServerBusy(r)
      PROVE  DOMAIN running' = HttpRequests /\ busy' \in Int /\ busy' = B'
  <2>1. /\ running[r] = "waiting" /\ busy' = busy
        /\ Goes(r, "returned")
    BY <1>3 DEF Dec!ServerBusy, Goes
  <2> QED
    BY <1>m, <1>i, <2>1
<1>4. ASSUME NEW r \in HttpRequests, Dec!HandlerEnds(r)
      PROVE  DOMAIN running' = HttpRequests /\ busy' \in Int /\ busy' = B'
  <2>1. PICK end \in {"returned", "panicked"} : Goes(r, end)
    BY <1>4, Zenon DEF Dec!HandlerEnds, Goes
  <2>2. running[r] = "handler" /\ busy' = busy - 1
    BY <1>4 DEF Dec!HandlerEnds
  <2> QED
    BY <1>m, <1>i, <2>1, <2>2
<1>5. ASSUME UNCHANGED <<running, busy>>
      PROVE  DOMAIN running' = HttpRequests /\ busy' \in Int /\ busy' = B'
  BY <1>5, <1>u, <1>i
<1> QED
  BY <1>1, <1>2, <1>3, <1>4, <1>5
     DEF Dec!Next, Dec!WriteHeader, Dec!WriteBody, Dec!ContextDone, Dec!ServerStep,
         Dec!SelectDone, Dec!SelectPanic, Dec!SelectTimeout, Dec!vars

LEMMA DecoratorStep ==
    ASSUME DecoratorInv, [Dec!Next]_(Dec!vars), Counts(HttpRequests)
    PROVE  DecoratorInv'
<1>1. CASE UNCHANGED Dec!vars
  BY <1>1 DEF Dec!vars, DecoratorInv, Answered, Among
<1>2. CASE Dec!Next
  <2>1. /\ DOMAIN ctx' = HttpRequests
        /\ DOMAIN writer' = HttpRequests /\ DOMAIN response' = HttpRequests
        /\ \A q \in HttpRequests : Answered(q)'
    BY <1>2, RequestStep, Zenon DEF Dec!Next
  <2> QED
    BY <2>1, BusyStep DEF DecoratorInv
<1> QED
  BY <1>1, <1>2

LEMMA DecoratorInit == Dec!Init /\ Counts(HttpRequests) => DecoratorInv
<1> SUFFICES ASSUME Dec!Init, Counts(HttpRequests) PROVE DecoratorInv
  OBVIOUS
<1>1. \A r \in HttpRequests : running[r] \notin {"handler"}
  BY DEF Dec!Init
<1>2. Cardinality(Among(HttpRequests, running, {"handler"})) = 0
  BY <1>1, CountNone
<1>3. \A r \in HttpRequests : Answered(r)
  BY DEF Dec!Init, Dec!Unwritten, Dec!Nothing, Answered, Buffer
<1> QED
  BY <1>2, <1>3 DEF Dec!Init, DecoratorInv

LEMMA DecoratorBusy == DecoratorInv => Dec!BusyIsRunning
<1> SUFFICES ASSUME DecoratorInv PROVE Dec!BusyIsRunning
  OBVIOUS
<1>1. \A S : Dec!Cardinality(S) = Cardinality(S)
  BY DEF Dec!Cardinality, Cardinality
<1>2. {r \in HttpRequests : running[r] = "handler"} = Among(HttpRequests, running, {"handler"})
  BY DEF Among
<1>3. busy = Dec!Cardinality({r \in HttpRequests : running[r] = "handler"})
  BY <1>1, <1>2, Zenon DEF DecoratorInv
<1>4. \A r \in HttpRequests : response[r].by = "handler" =>
         /\ running[r] = "returned"
         /\ response[r].body = writer[r].body
         /\ response[r].code = IF writer[r].code = 0 THEN 200 ELSE writer[r].code
  BY Zenon DEF DecoratorInv, Answered, IsContent
<1> QED
  BY <1>3, <1>4, Zenon DEF Dec!BusyIsRunning

LEMMA DecoratorsKeep ==
    ASSUME Counts(HttpRequests)
    PROVE  Dec!Init /\ [][Dec!Next]_(Dec!vars) => []Dec!BusyIsRunning
<1>1. DecoratorInv /\ [Dec!Next]_(Dec!vars) => DecoratorInv'
  BY DecoratorStep
<1>2. Dec!Init => DecoratorInv
  BY DecoratorInit
<1> QED
  BY <1>1, <1>2, DecoratorBusy, PTL

-----------------------------------------------------------------------------
(* The semaphore.                                                          *)

CONSTANTS Callers, Count, MaxCalls
VARIABLES slots, semState, closedChan, caller, calls, resources, failures, closedGauge

Sem == INSTANCE Semaphore

Taken == {"taken", "acquired", "held", "releasing"}
Out == {"held", "releasing", "given"}

\* Every caller that has put a token into the channel, and has not taken one
\* out, finds its token there; a token is left behind only by a closed
\* semaphore, whose metric is not kept either.
SemaphoreInv ==
    /\ slots \in Nat /\ resources \in Int
    /\ DOMAIN caller = Callers
    /\ Cardinality(Among(Callers, caller, Taken)) <= slots
    /\ semState = "open" => /\ slots = Cardinality(Among(Callers, caller, Taken))
                            /\ resources = Cardinality(Among(Callers, caller, Out))

LEMMA SemaphoreStep ==
    ASSUME SemaphoreInv, [Sem!Next]_(Sem!vars), Counts(Callers)
    PROVE  SemaphoreInv'
<1> DEFINE T == Cardinality(Among(Callers, caller, Taken))
           O == Cardinality(Among(Callers, caller, Out))
<1>m. ASSUME NEW c \in Callers, NEW place, Sem!Goto(c, place)
      PROVE  /\ DOMAIN caller' = Callers
             /\ T \in Nat /\ T' \in Nat /\ O \in Nat /\ O' \in Nat
             /\ caller[c] \in Taken /\ place \notin Taken => T' = T - 1
             /\ caller[c] \notin Taken /\ place \in Taken => T' = T + 1
             /\ (caller[c] \in Taken <=> place \in Taken) => T' = T
             /\ caller[c] \in Out /\ place \notin Out => O' = O - 1
             /\ caller[c] \notin Out /\ place \in Out => O' = O + 1
             /\ (caller[c] \in Out <=> place \in Out) => O' = O
  <2>1. /\ DOMAIN caller' = Callers /\ caller'[c] = place
        /\ \A d \in Callers : d # c => caller'[d] = caller[d]
    BY <1>m DEF SemaphoreInv, Sem!Goto
  <2>2. \A P : Moves(Callers, caller, caller', c, P)
    BY <2>1, MoveCount, Zenon
  <2>4. T' = Cardinality(Among(Callers, caller', Taken))
          /\ O' = Cardinality(Among(Callers, caller', Out))
    BY DEF Among, Taken, Out
  <2>5. T = Cardinality(Among(Callers, caller, Taken))
          /\ O = Cardinality(Among(Callers, caller, Out))
    OBVIOUS
  <2> HIDE DEF T, O
  <2> QED
    BY <2>1, <2>2, <2>4, <2>5 DEF Moves
<1>i. SemaphoreInv <=> /\ slots \in Nat /\ resources \in Int
                       /\ DOMAIN caller = Callers /\ T <= slots
                       /\ semState = "open" => slots = T /\ resources = O
  BY DEF SemaphoreInv
<1>p. SemaphoreInv' <=> /\ slots' \in Nat /\ resources' \in Int
                        /\ DOMAIN caller' = Callers /\ T' <= slots'
                        /\ semState' = "open" => slots' = T' /\ resources' = O'
  BY DEF SemaphoreInv
<1> HIDE DEF T, O
<1>1. ASSUME NEW c \in Callers, Sem!Call(c) \/ Sem!GiveUp(c) \/ Sem!Expire(c) PROVE SemaphoreInv'
  <2>1. /\ UNCHANGED <<slots, semState, resources>>
        /\ caller[c] \notin Taken \cup Out
    BY <1>1 DEF Sem!Call, Sem!GiveUp, Sem!Expire, Sem!meters, Sem!Modes, Taken, Out
  <2>2. PICK place \in Sem!Modes \cup {"failed"} : Sem!Goto(c, place)
    BY <1>1 DEF Sem!Call, Sem!GiveUp, Sem!Expire
  <2>3. place \notin Taken \cup Out
    BY <2>2 DEF Sem!Modes, Taken, Out
  <2> QED
    BY <1>m, <1>i, <1>p, <2>1, <2>2, <2>3
<1>2. ASSUME NEW c \in Callers, Sem!Take(c) PROVE SemaphoreInv'
  <2>1. /\ UNCHANGED <<semState, resources>> /\ slots' = slots + 1 /\ Sem!Goto(c, "taken")
        /\ caller[c] \notin Taken \cup Out
    BY <1>2 DEF Sem!Take, Sem!meters, Sem!Modes, Taken, Out
  <2>2. "taken" \in Taken /\ "taken" \notin Out
    BY DEF Taken, Out
  <2> QED
    BY <1>m, <1>i, <1>p, <2>1, <2>2
<1>3. ASSUME NEW c \in Callers, Sem!Recheck(c) \/ Sem!Release(c) PROVE SemaphoreInv'
  <2>1. UNCHANGED <<slots, semState, resources>> /\ caller[c] \in Taken
    BY <1>3 DEF Sem!Recheck, Sem!Release, Sem!meters, Taken
  <2>2. CASE semState = "closed"
    <3>1. PICK place \in {"failed", "idle"} : Sem!Goto(c, place)
      BY <1>3, <2>2 DEF Sem!Recheck, Sem!Release
    <3>2. place \notin Taken
      BY <3>1 DEF Taken
    <3> QED
      BY <1>m, <1>i, <1>p, <2>1, <2>2, <3>1, <3>2
  <2>3. CASE semState # "closed"
    <3>1. PICK place \in {"acquired", "releasing"} :
             Sem!Goto(c, place) /\ (caller[c] \in Out <=> place \in Out)
      BY <1>3, <2>3 DEF Sem!Recheck, Sem!Release, Out
    <3>2. place \in Taken
      BY <3>1 DEF Taken
    <3> QED
      BY <1>m, <1>i, <1>p, <2>1, <3>1, <3>2
  <2> QED
    BY <2>2, <2>3
<1>4. ASSUME NEW c \in Callers, Sem!CountResult(c) PROVE SemaphoreInv'
  <2>0. UNCHANGED <<slots, semState>>
    BY <1>4 DEF Sem!CountResult
  <2>1. CASE caller[c] = "acquired" /\ resources' = resources + 1 /\ Sem!Goto(c, "held")
    <3>1. caller[c] \in Taken /\ caller[c] \notin Out /\ "held" \in Taken /\ "held" \in Out
      BY <2>1 DEF Taken, Out
    <3> QED
      BY <1>m, <1>i, <1>p, <2>0, <2>1, <3>1
  <2>2. CASE caller[c] = "failed" /\ resources' = resources /\ Sem!Goto(c, "idle")
    <3>1. caller[c] \notin Taken \cup Out /\ "idle" \notin Taken \cup Out
      BY <2>2 DEF Taken, Out
    <3> QED
      BY <1>m, <1>i, <1>p, <2>0, <2>2, <3>1
  <2> QED
    BY <1>4, <2>1, <2>2 DEF Sem!CountResult
<1>5. ASSUME NEW c \in Callers, Sem!Give(c) PROVE SemaphoreInv'
  <2>1. /\ UNCHANGED <<semState, resources>> /\ slots > 0 /\ slots' = slots - 1
        /\ Sem!Goto(c, "given") /\ caller[c] \in Taken /\ caller[c] \in Out
    BY <1>5 DEF Sem!Give, Sem!meters, Taken, Out
  <2>2. "given" \notin Taken /\ "given" \in Out
    BY DEF Taken, Out
  <2> QED
    BY <1>m, <1>i, <1>p, <2>1, <2>2
<1>6. ASSUME NEW c \in Callers, Sem!CountRelease(c) PROVE SemaphoreInv'
  <2>1. /\ UNCHANGED <<semState, slots>> /\ resources' = resources - 1
        /\ Sem!Goto(c, "idle") /\ caller[c] \notin Taken /\ caller[c] \in Out
    BY <1>6 DEF Sem!CountRelease, Taken, Out
  <2>2. "idle" \notin Taken \cup Out
    BY DEF Taken, Out
  <2> QED
    BY <1>m, <1>i, <1>p, <2>1, <2>2
<1>7. CASE Sem!Close \/ Sem!CloseStep \/ UNCHANGED Sem!vars
  <2>1. UNCHANGED <<slots, caller, resources>> /\ (semState' = "open" => semState = "open")
    BY <1>7 DEF Sem!Close, Sem!CloseStep, Sem!CloseChan, Sem!CloseGauge, Sem!vars, Sem!meters
  <2>2. T' = T /\ O' = O
    BY <2>1 DEF T, O, Among, Taken, Out
  <2> QED
    BY <1>i, <1>p, <2>1, <2>2
<1> QED
  BY <1>1, <1>2, <1>3, <1>4, <1>5, <1>6, <1>7 DEF Sem!Next, Sem!CallerStep

LEMMA SemaphoreInit == Sem!Init /\ Counts(Callers) => SemaphoreInv
<1> SUFFICES ASSUME Sem!Init, Counts(Callers) PROVE SemaphoreInv
  OBVIOUS
<1>1. \A c \in Callers : caller[c] \notin Taken /\ caller[c] \notin Out
  BY DEF Sem!Init, Taken, Out
<1>2. Cardinality(Among(Callers, caller, Taken)) = 0 /\ Cardinality(Among(Callers, caller, Out)) = 0
  BY <1>1, CountNone
<1> QED
  BY <1>2 DEF Sem!Init, SemaphoreInv

LEMMA SemaphoreConserves == SemaphoreInv /\ Counts(Callers) => Sem!SlotsConserved
<1> SUFFICES ASSUME SemaphoreInv, Counts(Callers) PROVE Sem!SlotsConserved
  OBVIOUS
<1>1. \A S : Sem!Cardinality(S) = Cardinality(S)
  BY DEF Sem!Cardinality, Cardinality
<1>2. \A P : Sem!In(P) = Among(Callers, caller, P)
  BY DEF Sem!In, Among
<1>3. Cardinality(Among(Callers, caller, {"acquired", "held", "releasing"}))
        <= Cardinality(Among(Callers, caller, Taken))
  BY CountSubset DEF Taken
<1>4. Cardinality(Among(Callers, caller, {"acquired", "held", "releasing"})) \in Nat
      /\ Cardinality(Among(Callers, caller, Taken)) \in Nat
  BY CountType
<1>5. Cardinality(Among(Callers, caller, {"acquired", "held", "releasing"})) <= slots
  BY <1>3, <1>4 DEF SemaphoreInv
<1> QED
  BY <1>1, <1>2, <1>5 DEF SemaphoreInv, Sem!SlotsConserved, Taken, Out

LEMMA SemaphoreKeeps ==
    ASSUME Counts(Callers)
    PROVE  Sem!Init /\ [][Sem!Next]_(Sem!vars) => []Sem!SlotsConserved
<1>1. SemaphoreInv /\ [Sem!Next]_(Sem!vars) => SemaphoreInv'
  BY SemaphoreStep
<1>2. SemaphoreInv => Sem!SlotsConserved
  BY SemaphoreConserves
<1>3. Sem!Init => SemaphoreInv
  BY SemaphoreInit
<1> QED
  BY <1>1, <1>2, <1>3, PTL

-----------------------------------------------------------------------------
(* The two limiters of connections.                                        *)

CONSTANTS Conns, MaxConnections
VARIABLES conn, semaphore, active, rejected, state, current

Lis == INSTANCE Listener

Holding == {"acquired", "open", "closing", "uncounted"}
Active == {"open", "closing"}
Unended == {"new", "kept", "refused"}

ListenerInv ==
    /\ semaphore \in Nat /\ active \in Int
    /\ DOMAIN conn = Conns
    /\ MaxConnections > 0 => /\ semaphore = Cardinality(Among(Conns, conn, Holding))
                             /\ semaphore <= MaxConnections
    /\ active = Cardinality(Among(Conns, conn, Active))

LimiterInv ==
    /\ current \in Int /\ DOMAIN state = Conns
    /\ current = Cardinality(Among(Conns, state, Unended))
    /\ Cardinality(Among(Conns, state, {"kept"})) <= MaxConnections

LEMMA ListenerStep ==
    ASSUME ListenerInv, [Lis!ListenerNext]_(Lis!listenerVars), Counts(Conns),
           MaxConnections \in Nat
    PROVE  ListenerInv'
<1> DEFINE H == Cardinality(Among(Conns, conn, Holding))
           A == Cardinality(Among(Conns, conn, Active))
<1>m. ASSUME NEW c \in Conns, NEW from, NEW to, Lis!Conn(c, from, to)
      PROVE  /\ DOMAIN conn' = Conns
             /\ H \in Nat /\ H' \in Nat /\ A \in Nat /\ A' \in Nat
             /\ from \in Holding /\ to \notin Holding => H' = H - 1
             /\ from \notin Holding /\ to \in Holding => H' = H + 1
             /\ (from \in Holding <=> to \in Holding) => H' = H
             /\ from \in Active /\ to \notin Active => A' = A - 1
             /\ from \notin Active /\ to \in Active => A' = A + 1
             /\ (from \in Active <=> to \in Active) => A' = A
  <2>1. /\ DOMAIN conn' = Conns /\ conn[c] = from /\ conn'[c] = to
        /\ \A d \in Conns : d # c => conn'[d] = conn[d]
    BY <1>m DEF ListenerInv, Lis!Conn
  <2>2. \A P : Moves(Conns, conn, conn', c, P)
    BY <2>1, MoveCount, Zenon
  <2>3. H' = Cardinality(Among(Conns, conn', Holding))
          /\ A' = Cardinality(Among(Conns, conn', Active))
    BY DEF Among, Holding, Active
  <2>4. H = Cardinality(Among(Conns, conn, Holding)) /\ A = Cardinality(Among(Conns, conn, Active))
    OBVIOUS
  <2> HIDE DEF H, A
  <2> QED
    BY <2>1, <2>2, <2>3, <2>4 DEF Moves
<1>i. /\ semaphore \in Nat /\ active \in Int /\ DOMAIN conn = Conns
      /\ MaxConnections > 0 => semaphore = H /\ semaphore <= MaxConnections
      /\ active = A
  BY DEF ListenerInv
<1>p. ListenerInv' <=> /\ semaphore' \in Nat /\ active' \in Int /\ DOMAIN conn' = Conns
                       /\ MaxConnections > 0 => semaphore' = H' /\ semaphore' <= MaxConnections
                       /\ active' = A'
  BY DEF ListenerInv
<1> HIDE DEF H, A
<1>1. ASSUME NEW c \in Conns, Lis!Arrive(c) PROVE ListenerInv'
  <2>1. UNCHANGED <<semaphore, active>> /\ Lis!Conn(c, "none", "arrived")
    BY <1>1 DEF Lis!Arrive
  <2> QED
    BY <1>m, <1>i, <1>p, <2>1 DEF Holding, Active
<1>2. ASSUME NEW c \in Conns, Lis!Acquire(c) PROVE ListenerInv'
  <2>1. /\ MaxConnections > 0 => semaphore < MaxConnections /\ semaphore' = semaphore + 1
        /\ ~(MaxConnections > 0) => semaphore' = semaphore
        /\ active' = active /\ Lis!Conn(c, "arrived", "acquired")
    BY <1>2 DEF Lis!Acquire
  <2> QED
    BY <1>m, <1>i, <1>p, <2>1 DEF Holding, Active
<1>3. ASSUME NEW c \in Conns, Lis!Reject(c) PROVE ListenerInv'
  <2>1. UNCHANGED <<semaphore, active>> /\ Lis!Conn(c, "arrived", "rejected")
    BY <1>3 DEF Lis!Reject
  <2> QED
    BY <1>m, <1>i, <1>p, <2>1 DEF Holding, Active
<1>4. ASSUME NEW c \in Conns, Lis!CountActive(c) PROVE ListenerInv'
  <2>1. semaphore' = semaphore /\ active' = active + 1 /\ Lis!Conn(c, "acquired", "open")
    BY <1>4 DEF Lis!CountActive
  <2> QED
    BY <1>m, <1>i, <1>p, <2>1 DEF Holding, Active
<1>5. ASSUME NEW c \in Conns, Lis!CloseConn(c) PROVE ListenerInv'
  <2>1. UNCHANGED <<semaphore, active>> /\ Lis!Conn(c, "open", "closing")
    BY <1>5 DEF Lis!CloseConn
  <2> QED
    BY <1>m, <1>i, <1>p, <2>1 DEF Holding, Active
<1>6. ASSUME NEW c \in Conns, Lis!Release(c) PROVE ListenerInv'
  <2>1. semaphore' = semaphore /\ active' = active - 1 /\ Lis!Conn(c, "closing", "uncounted")
    BY <1>6 DEF Lis!Release
  <2> QED
    BY <1>m, <1>i, <1>p, <2>1 DEF Holding, Active
<1>7. ASSUME NEW c \in Conns, Lis!ReturnToken(c) PROVE ListenerInv'
  <2>1. /\ MaxConnections > 0 => semaphore > 0 /\ semaphore' = semaphore - 1
        /\ ~(MaxConnections > 0) => semaphore' = semaphore
        /\ active' = active /\ Lis!Conn(c, "uncounted", "closed")
    BY <1>7 DEF Lis!ReturnToken
  <2> QED
    BY <1>m, <1>i, <1>p, <2>1 DEF Holding, Active
<1>8. CASE UNCHANGED Lis!listenerVars
  BY <1>8 DEF Lis!listenerVars, ListenerInv, Among, Holding, Active
<1> QED
  BY <1>1, <1>2, <1>3, <1>4, <1>5, <1>6, <1>7, <1>8 DEF Lis!ListenerNext

LEMMA LimiterStep ==
    ASSUME LimiterInv, [Lis!LimiterNext]_(Lis!limiterVars), Counts(Conns),
           MaxConnections \in Nat
    PROVE  LimiterInv'
<1> DEFINE U == Cardinality(Among(Conns, state, Unended))
           K == Cardinality(Among(Conns, state, {"kept"}))
<1>m. ASSUME NEW c \in Conns, NEW from, NEW to, Lis!State(c, from, to)
      PROVE  /\ DOMAIN state' = Conns /\ state[c] \in from
             /\ U \in Nat /\ U' \in Nat /\ K \in Nat /\ K' \in Nat
             /\ state[c] \in Unended /\ to \notin Unended => U' = U - 1
             /\ state[c] \notin Unended /\ to \in Unended => U' = U + 1
             /\ (state[c] \in Unended <=> to \in Unended) => U' = U
             /\ to # "kept" => K' <= K
             /\ K' <= U'
  <2>1. /\ DOMAIN state' = Conns /\ state[c] \in from /\ state'[c] = to
        /\ \A d \in Conns : d # c => state'[d] = state[d]
    BY <1>m DEF LimiterInv, Lis!State
  <2>2. \A P : Moves(Conns, state, state', c, P)
    BY <2>1, MoveCount, Zenon
  <2>3. U' = Cardinality(Among(Conns, state', Unended))
          /\ K' = Cardinality(Among(Conns, state', {"kept"}))
    BY DEF Among, Unended
  <2>4. U = Cardinality(Among(Conns, state, Unended))
          /\ K = Cardinality(Among(Conns, state, {"kept"}))
    OBVIOUS
  <2>5. Cardinality(Among(Conns, state', {"kept"})) <= Cardinality(Among(Conns, state', Unended))
    BY CountSubset DEF Unended
  <2> HIDE DEF U, K
  <2>6. Moves(Conns, state, state', c, Unended) /\ Moves(Conns, state, state', c, {"kept"})
    BY <2>2
  <2> QED
    BY <2>1, <2>3, <2>4, <2>5, <2>6 DEF Moves
<1>i. current \in Int /\ DOMAIN state = Conns /\ current = U /\ K <= MaxConnections
  BY DEF LimiterInv
<1>p. LimiterInv' <=> current' \in Int /\ DOMAIN state' = Conns /\ current' = U'
        /\ K' <= MaxConnections
  BY DEF LimiterInv
<1> HIDE DEF U, K
<1>1. ASSUME NEW c \in Conns, Lis!StateNew(c) PROVE LimiterInv'
  <2>1. current' = current + 1 /\ Lis!State(c, {"none"}, "new")
    BY <1>1 DEF Lis!StateNew
  <2> QED
    BY <1>m, <1>i, <1>p, <2>1 DEF Unended
<1>2. ASSUME NEW c \in Conns, Lis!Compare(c) PROVE LimiterInv'
  <2>1. CASE MaxConnections < current /\ Lis!State(c, {"new"}, "refused")
    BY <1>2, <1>m, <1>i, <1>p, <2>1 DEF Unended, Lis!Compare
  <2>2. CASE ~(MaxConnections < current) /\ Lis!State(c, {"new"}, "kept")
    BY <1>2, <1>m, <1>i, <1>p, <2>2 DEF Unended, Lis!Compare
  <2> QED
    BY <1>2, <2>1, <2>2 DEF Lis!Compare
<1>3. ASSUME NEW c \in Conns, Lis!StateClosed(c) PROVE LimiterInv'
  <2>1. current' = current - 1 /\ Lis!State(c, {"kept", "refused"}, "closed")
    BY <1>3 DEF Lis!StateClosed
  <2> QED
    BY <1>m, <1>i, <1>p, <2>1 DEF Unended
<1>4. ASSUME NEW c \in Conns, Lis!StateHijacked(c) PROVE LimiterInv'
  <2>1. current' = current - 1 /\ Lis!State(c, {"kept"}, "hijacked")
    BY <1>4 DEF Lis!StateHijacked
  <2> QED
    BY <1>m, <1>i, <1>p, <2>1 DEF Unended
<1>5. CASE UNCHANGED Lis!limiterVars
  BY <1>5 DEF Lis!limiterVars, LimiterInv, Among, Unended
<1> QED
  BY <1>1, <1>2, <1>3, <1>4, <1>5, SMTT(20) DEF Lis!LimiterNext

LEMMA LimitersStep ==
    ASSUME ListenerInv, LimiterInv, [Lis!Next]_(Lis!vars), Counts(Conns),
           MaxConnections \in Nat
    PROVE  ListenerInv' /\ LimiterInv'
<1>1. [Lis!ListenerNext]_(Lis!listenerVars) /\ [Lis!LimiterNext]_(Lis!limiterVars)
  BY DEF Lis!Next, Lis!vars, Lis!ListenerNext, Lis!LimiterNext, Lis!StateNew, Lis!Compare,
         Lis!StateClosed, Lis!StateHijacked, Lis!State, Lis!Arrive, Lis!Acquire, Lis!Reject,
         Lis!CountActive, Lis!CloseConn, Lis!Release, Lis!ReturnToken, Lis!Conn
<1> QED
  BY <1>1, ListenerStep, LimiterStep

LEMMA LimitersInit ==
    Lis!Init /\ Counts(Conns) /\ MaxConnections \in Nat => ListenerInv /\ LimiterInv
<1> SUFFICES ASSUME Lis!Init, Counts(Conns), MaxConnections \in Nat PROVE ListenerInv /\ LimiterInv
  OBVIOUS
<1>1. \A c \in Conns : /\ conn[c] \notin Holding /\ conn[c] \notin Active
                       /\ state[c] \notin Unended /\ state[c] \notin {"kept"}
  BY DEF Lis!Init, Holding, Active, Unended
<1>2. /\ Cardinality(Among(Conns, conn, Holding)) = 0
      /\ Cardinality(Among(Conns, conn, Active)) = 0
      /\ Cardinality(Among(Conns, state, Unended)) = 0
      /\ Cardinality(Among(Conns, state, {"kept"})) = 0
  BY <1>1, CountNone
<1> QED
  BY <1>2 DEF Lis!Init, ListenerInv, LimiterInv

LEMMA LimitersBound == ListenerInv /\ LimiterInv => Lis!ConnectionsBounded
<1> SUFFICES ASSUME ListenerInv, LimiterInv PROVE Lis!ConnectionsBounded
  OBVIOUS
<1>1. \A S : Lis!Cardinality(S) = Cardinality(S)
  BY DEF Lis!Cardinality, Cardinality
<1>2. \A P : Lis!Placed(P) = Among(Conns, conn, P) /\ Lis!States(P) = Among(Conns, state, P)
  BY DEF Lis!Placed, Lis!States, Among
<1> QED
  BY <1>1, <1>2 DEF ListenerInv, LimiterInv, Lis!ConnectionsBounded, Holding, Active, Unended

LEMMA ListenerKeeps ==
    ASSUME Counts(Conns), MaxConnections \in Nat
    PROVE  Lis!Init /\ [][Lis!Next]_(Lis!vars) => []Lis!ConnectionsBounded
<1>1. ListenerInv /\ LimiterInv /\ [Lis!Next]_(Lis!vars) => ListenerInv' /\ LimiterInv'
  BY LimitersStep
<1>2. Lis!Init => ListenerInv /\ LimiterInv
  BY LimitersInit
<1> QED
  BY <1>1, <1>2, LimitersBound, PTL

-----------------------------------------------------------------------------
(* The circular pool of objects.                                           *)

CONSTANTS Loaders, Period, MaxTime, MaxVersion, Clients, InitialSize, MaxSize, MaxObjects
VARIABLES clock, version, entry, updateLock, loader, objects, created, has

Cac == INSTANCE Cache

\* Objects are numbered as they are made: a new one is nowhere yet.
ObjectInv ==
    /\ created \in Nat /\ objects \in Seq(Int)
    /\ DOMAIN has = Clients
    /\ \A c \in Clients : has[c] \in Int /\ has[c] <= created
    /\ \A i \in 1..Len(objects) : objects[i] > 0 /\ objects[i] <= created
    /\ \A i, j \in 1..Len(objects) : objects[i] = objects[j] => i = j
    /\ \A c \in Clients : \A i \in 1..Len(objects) : objects[i] # has[c]
    /\ \A c, d \in Clients : has[c] > 0 /\ has[c] = has[d] => c = d

LEMMA ObjectStep ==
    ASSUME ObjectInv, [Cac!PoolNext]_(Cac!poolVars)
    PROVE  ObjectInv'
<1>m. ASSUME NEW c \in Clients, NEW o, has' = [has EXCEPT ![c] = o]
      PROVE  DOMAIN has' = Clients /\ has'[c] = o /\ \A d \in Clients : d # c => has'[d] = has[d]
  BY <1>m DEF ObjectInv
<1>1. ASSUME NEW c \in Clients, Cac!Get(c) PROVE ObjectInv'
  <2>1. /\ objects # <<>> /\ has' = [has EXCEPT ![c] = Head(objects)]
        /\ objects' = Tail(objects) /\ created' = created
    BY <1>1 DEF Cac!Get
  <2>2. /\ Len(objects) \in Nat /\ Len(objects) > 0 /\ objects' \in Seq(Int)
        /\ Len(objects') = Len(objects) - 1 /\ Head(objects) = objects[1]
        /\ \A i \in 1..Len(objects') : i + 1 \in 1..Len(objects) /\ objects'[i] = objects[i + 1]
    BY <2>1 DEF ObjectInv
  <2>3. /\ DOMAIN has' = Clients /\ has'[c] = objects[1]
        /\ \A d \in Clients : d # c => has'[d] = has[d]
    BY <1>m, <2>1, <2>2, Zenon
  <2>4. objects[1] \in Int /\ objects[1] > 0 /\ objects[1] <= created /\ 1 \in 1..Len(objects)
    BY <2>2 DEF ObjectInv
  <2>5. \A i \in 1..Len(objects') : objects'[i] # objects[1]
    BY <2>2, <2>4 DEF ObjectInv
  <2>6. ASSUME NEW i \in 1..Len(objects'), NEW j \in 1..Len(objects'), objects'[i] = objects'[j]
        PROVE  i = j
    <3>1. i + 1 \in 1..Len(objects) /\ j + 1 \in 1..Len(objects) /\ objects[i + 1] = objects[j + 1]
      BY <2>2, <2>6
    <3>2. i + 1 = j + 1
      BY <3>1 DEF ObjectInv
    <3> QED
      BY <2>2, <3>2
  <2> QED
    BY <2>1, <2>2, <2>3, <2>4, <2>5, <2>6 DEF ObjectInv
<1>2. ASSUME NEW c \in Clients, Cac!Wait(c) \/ Cac!WaitEnds(c) PROVE ObjectInv'
  <2>1. PICK o \in {0, -1} : has' = [has EXCEPT ![c] = o] /\ UNCHANGED <<objects, created>>
    BY <1>2 DEF Cac!Wait, Cac!WaitEnds
  <2>2. /\ DOMAIN has' = Clients /\ has'[c] = o
        /\ \A d \in Clients : d # c => has'[d] = has[d]
    BY <1>m, <2>1, Zenon
  <2> QED
    BY <2>1, <2>2 DEF ObjectInv
<1>3. ASSUME NEW c \in Clients, Cac!GetOrNew(c) PROVE ObjectInv'
  <2>1. has' = [has EXCEPT ![c] = created + 1] /\ created' = created + 1 /\ objects' = objects
    BY <1>3 DEF Cac!GetOrNew
  <2>2. /\ DOMAIN has' = Clients /\ has'[c] = created + 1
        /\ \A d \in Clients : d # c => has'[d] = has[d]
    BY <1>m, <2>1, Zenon
  <2> QED
    BY <2>1, <2>2 DEF ObjectInv
<1>4. ASSUME NEW c \in Clients, Cac!Put(c) PROVE ObjectInv'
  <2>1. /\ has[c] > 0 /\ has' = [has EXCEPT ![c] = 0] /\ created' = created
        /\ objects' = Append(objects, has[c]) \/ objects' = objects
    BY <1>4 DEF Cac!Put
  <2>2. /\ DOMAIN has' = Clients /\ has'[c] = 0
        /\ \A d \in Clients : d # c => has'[d] = has[d]
    BY <1>m, <2>1, Zenon
  <2>3. CASE objects' = objects
    BY <2>1, <2>2, <2>3 DEF ObjectInv
  <2>4. CASE objects' = Append(objects, has[c])
    <3>1. /\ Len(objects) \in Nat /\ has[c] \in Int /\ objects' \in Seq(Int)
          /\ Len(objects') = Len(objects) + 1
          /\ objects'[Len(objects')] = has[c]
          /\ \A i \in 1..Len(objects') :
               i # Len(objects') => i \in 1..Len(objects) /\ objects'[i] = objects[i]
      BY <2>4 DEF ObjectInv
    <3>2. ASSUME NEW i \in 1..Len(objects'), NEW j \in 1..Len(objects'), objects'[i] = objects'[j]
          PROVE  i = j
      <4>1. CASE i # Len(objects') /\ j # Len(objects')
        BY <3>1, <3>2, <4>1, Zenon DEF ObjectInv
      <4>2. CASE i = Len(objects') /\ j # Len(objects')
        BY <3>1, <3>2, <4>2, Zenon DEF ObjectInv
      <4>3. CASE i # Len(objects') /\ j = Len(objects')
        BY <3>1, <3>2, <4>3, Zenon DEF ObjectInv
      <4> QED
        BY <4>1, <4>2, <4>3, Zenon
    <3>3. \A i \in 1..Len(objects') : objects'[i] > 0 /\ objects'[i] <= created
      BY <2>1, <3>1, Zenon DEF ObjectInv
    <3>4. ASSUME NEW d \in Clients, NEW i \in 1..Len(objects') PROVE objects'[i] # has'[d]
      <4>1. CASE d = c
        BY <2>2, <3>3, <4>1
      <4>2. CASE d # c /\ i # Len(objects')
        BY <2>2, <3>1, <4>2, Zenon DEF ObjectInv
      <4>3. CASE d # c /\ i = Len(objects')
        BY <2>1, <2>2, <3>1, <4>3 DEF ObjectInv
      <4> QED
        BY <4>1, <4>2, <4>3, SMTT(20)
    <3>5. \A d \in Clients : has'[d] \in Int /\ has'[d] <= created
      BY <2>2 DEF ObjectInv
    <3>6. \A d, e \in Clients : has'[d] > 0 /\ has'[d] = has'[e] => d = e
      BY <2>2 DEF ObjectInv
    <3>7. created \in Nat
      BY DEF ObjectInv
    <3> QED
      BY <2>1, <2>2, <3>1, <3>2, <3>3, <3>4, <3>5, <3>6, <3>7 DEF ObjectInv
  <2> QED
    BY <2>1, <2>3, <2>4
<1>5. CASE UNCHANGED Cac!poolVars
  BY <1>5 DEF Cac!poolVars, ObjectInv
<1> QED
  BY <1>1, <1>2, <1>3, <1>4, <1>5 DEF Cac!PoolNext

LEMMA PoolOnly == [Cac!Next]_(Cac!vars) => [Cac!PoolNext]_(Cac!poolVars)
  BY Zenon DEF Cac!Next, Cac!vars, Cac!CacheNext, Cac!CacheStep, Cac!Tick, Cac!SourceChanges,
         Cac!Start,
         Cac!Fast, Cac!Lock, Cac!Loaded, Cac!LoadFails, Cac!Finish, Cac!Return

LEMMA ObjectInit == Cac!Init /\ InitialSize \in Nat => ObjectInv
<1> SUFFICES ASSUME Cac!Init, InitialSize \in Nat PROVE ObjectInv
  OBVIOUS
<1>1. objects \in Seq(Int) /\ Len(objects) = InitialSize
      /\ \A i \in 1..InitialSize : objects[i] = i
  BY DEF Cac!Init
<1> QED
  BY <1>1 DEF Cac!Init, ObjectInv

LEMMA ObjectsKept == ObjectInv => Cac!ObjectsConserved
<1> SUFFICES ASSUME ObjectInv PROVE Cac!ObjectsConserved
  OBVIOUS
<1>1. DOMAIN objects = 1..Len(objects)
  BY DEF ObjectInv
<1> QED
  BY <1>1 DEF ObjectInv, Cac!ObjectsConserved

\* However many clients, and whatever the sizes of the pool: an object is in
\* the pool once or with one client, also when objects are made beyond the
\* pool's size or dropped by it.
THEOREM PoolObjectsConserved ==
    ASSUME InitialSize \in Nat
    PROVE  Cac!Init /\ [][Cac!Next]_(Cac!vars) => []Cac!ObjectsConserved
<1>1. ObjectInv /\ [Cac!Next]_(Cac!vars) => ObjectInv'
  BY ObjectStep, PoolOnly
<1>2. Cac!Init => ObjectInv
  BY ObjectInit
<1> QED
  BY <1>1, <1>2, ObjectsKept, PTL

-----------------------------------------------------------------------------
(* The library's facts about finite sets.                                  *)

INSTANCE FiniteSetTheorems

LEMMA CardinalityHolds == CardinalityFacts
<1>1. \A S : IsFiniteSet(S) =>
        /\ Cardinality(S) \in Nat
        /\ \A T \in SUBSET S : IsFiniteSet(T) /\ Cardinality(T) <= Cardinality(S)
  BY FS_CardinalityType, FS_Subset
<1>2. \A S : IsFiniteSet(S) =>
        /\ \A x : x \notin S => Cardinality(S \cup {x}) = Cardinality(S) + 1
        /\ \A x \in S : Cardinality(S \ {x}) = Cardinality(S) - 1
  BY FS_AddElement, FS_RemoveElement
<1> QED
  BY <1>1, <1>2, FS_EmptySet, FS_Singleton DEF CardinalityFacts

-----------------------------------------------------------------------------
(* What is conserved.                                                     *)

\* However many callers and slots: no more resources are out than there are,
\* and while the semaphore is open every token belongs to a caller and the
\* metric counts those that are out.
THEOREM SemaphoreSlotsConserved ==
    ASSUME IsFiniteSet(Callers)
    PROVE  Sem!Init /\ [][Sem!Next]_(Sem!vars) => []Sem!SlotsConserved
  BY CardinalityHolds, FiniteCounts, SemaphoreKeeps

\* However many connections arrive, whatever the limit: no more are open than
\* it allows, each holds one token and is counted once however often it is
\* closed, and the limiter keeps only connections within its limit.
THEOREM ListenerConnectionsBounded ==
    ASSUME IsFiniteSet(Conns), MaxConnections \in Nat
    PROVE  Lis!Init /\ [][Lis!Next]_(Lis!vars) => []Lis!ConnectionsBounded
  BY CardinalityHolds, FiniteCounts, ListenerKeeps

\* However many requests: Busy counts the handlers that run, those included
\* whose client already got the timeout, and a client's answer is the whole of
\* what its handler wrote or nothing of it.
THEOREM DecoratorsBusyIsRunning ==
    ASSUME IsFiniteSet(HttpRequests)
    PROVE  Dec!Init /\ [][Dec!Next]_(Dec!vars) => []Dec!BusyIsRunning
  BY CardinalityHolds, FiniteCounts, DecoratorsKeep

\* However many senders and workers: a task that was taken is in the channel,
\* with one worker or handled, one that was refused is nowhere, and the events
\* the health listener counted add up.
THEOREM PoolTasksAccounted ==
    ASSUME IsFiniteSet(Senders), "none" \notin Senders
    PROVE  Pool!Init /\ [][Pool!Next]_(Pool!vars) => []Pool!TasksAccounted
  BY CardinalityHolds, FiniteCounts, FewCounts, TasksKept

\* Conserved of MCLibrary: the five together, as the run checks them.
Conserved ==
    /\ Sem!SlotsConserved
    /\ Lis!ConnectionsBounded
    /\ Cac!ObjectsConserved
    /\ Pool!TasksAccounted
    /\ Dec!BusyIsRunning

\* What is counted and handed out is conserved: semaphore slots, connections,
\* pooled objects, queued tasks and running handlers.
THEOREM LibraryConserved ==
    ASSUME IsFiniteSet(Callers), IsFiniteSet(Conns), MaxConnections \in Nat, InitialSize \in Nat,
           IsFiniteSet(Senders), "none" \notin Senders, IsFiniteSet(HttpRequests)
    PROVE  /\ Sem!Init /\ [][Sem!Next]_(Sem!vars)
           /\ Lis!Init /\ [][Lis!Next]_(Lis!vars)
           /\ Cac!Init /\ [][Cac!Next]_(Cac!vars)
           /\ Pool!Init /\ [][Pool!Next]_(Pool!vars)
           /\ Dec!Init /\ [][Dec!Next]_(Dec!vars)
           => []Conserved
BY SemaphoreSlotsConserved, ListenerConnectionsBounded, PoolObjectsConserved, PoolTasksAccounted,
   DecoratorsBusyIsRunning, PTL DEF Conserved
=============================================================================
