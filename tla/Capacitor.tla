----------------------------- MODULE Capacitor -----------------------------
(***************************************************************************)
(* The capacitor (capacitor/capacitor.go): of the functions submitted      *)
(* within the delay only the last one runs.  Functions are 1, 2, ... in    *)
(* the order of their submission; the delayer that the n-th submission     *)
(* creates is n.  Submit, Discharge and Cancel hold the lock throughout.   *)
(***************************************************************************)
EXTENDS Integers

CONSTANT MaxSubmits   \* bound: functions submitted

VARIABLES
    submits,     \* functions submitted so far
    c_d,         \* the current delayer, 0 if there is none
    delayer,     \* the delayers: stage, the function held, the terminate channel
    executed,    \* executed[f]: how often f has run
    cancelled    \* functions some Cancel dropped

vars == <<submits, c_d, delayer, executed, cancelled>>

Funcs == 1..MaxSubmits

TypeOK ==
    /\ submits \in 0..MaxSubmits
    /\ c_d \in 0..submits
    /\ delayer \in [Funcs -> [stage : {"new", "select", "timer", "execute", "cleanup", "done"},
                              current : 0..submits,
                              terminate : {"empty", "discharge", "cancel"}]]
    /\ executed \in [Funcs -> Nat]
    /\ cancelled \subseteq Funcs

Init ==
    /\ submits = 0
    /\ c_d = 0
    /\ delayer = [d \in Funcs |-> [stage |-> "new", current |-> 0, terminate |-> "empty"]]
    /\ executed = [f \in Funcs |-> 0]
    /\ cancelled = {}

-----------------------------------------------------------------------------
Submit ==
    /\ submits < MaxSubmits
    /\ submits' = submits + 1
    /\ \/ /\ c_d = 0
          /\ c_d' = submits'
          /\ delayer' = [delayer EXCEPT ![submits'].stage = "select",
                                        ![submits'].current = submits']
       \/ /\ c_d # 0
          /\ delayer' = [delayer EXCEPT ![c_d].current = submits']
          /\ UNCHANGED c_d
    /\ UNCHANGED <<executed, cancelled>>

\* The send finds the buffer of one empty, or it would hold the lock forever.
Terminate(how) ==
    /\ c_d # 0
    /\ delayer[c_d].terminate = "empty"
    /\ delayer' = [delayer EXCEPT ![c_d].terminate = how]
    /\ c_d' = 0
    /\ UNCHANGED <<submits, executed>>

Discharge == Terminate("discharge") /\ UNCHANGED cancelled

Cancel == Terminate("cancel") /\ cancelled' = cancelled \cup {delayer[c_d].current}

-----------------------------------------------------------------------------
(* delayer.run                                                             *)

TimerFires(d) ==
    /\ delayer[d].stage = "select"
    /\ delayer' = [delayer EXCEPT ![d].stage = "timer"]
    /\ UNCHANGED <<submits, c_d, executed, cancelled>>

\* The nested select of the timer's case, or the terminate channel itself.
Chosen(d) ==
    /\ \/ delayer[d].stage = "timer"
       \/ delayer[d].stage = "select" /\ delayer[d].terminate # "empty"
    /\ delayer' = [delayer EXCEPT
           ![d].stage = IF delayer[d].terminate = "cancel" THEN "cleanup" ELSE "execute",
           ![d].terminate = "empty"]
    /\ UNCHANGED <<submits, c_d, executed, cancelled>>

Execute(d) ==
    /\ delayer[d].stage = "execute"
    /\ executed' = [executed EXCEPT ![delayer[d].current] = @ + 1]
    /\ delayer' = [delayer EXCEPT ![d].stage = "cleanup"]
    /\ UNCHANGED <<submits, c_d, cancelled>>

\* Mutant: the delayer that ends is cleared whether or not it is the current one.
CleanupAny(d) ==
    /\ delayer[d].stage = "cleanup"
    /\ delayer' = [delayer EXCEPT ![d].stage = "done"]
    /\ c_d' = 0
    /\ UNCHANGED <<submits, executed, cancelled>>

\* Only a delayer that is still the current one is cleared.
Cleanup(d) ==
    /\ delayer[d].stage = "cleanup"
    /\ delayer' = [delayer EXCEPT ![d].stage = "done"]
    /\ c_d' = IF c_d = d THEN 0 ELSE c_d
    /\ UNCHANGED <<submits, executed, cancelled>>

Run(d) == Chosen(d) \/ Execute(d) \/ Cleanup(d)

Next == Submit \/ Discharge \/ Cancel \/ \E d \in Funcs : TimerFires(d) \/ Run(d)

-----------------------------------------------------------------------------
\* A function runs at most once, a terminate channel in use is never the
\* current delayer's (Discharge and Cancel would block under the lock), and a
\* delayer that still waits without an order is the current one: it can be
\* discharged, cancelled, or given a newer function.
DelayersOrderly ==
    /\ \A f \in Funcs : executed[f] <= 1
    /\ c_d # 0 => delayer[c_d].terminate = "empty" /\ delayer[c_d].stage # "done"
    /\ \A d \in Funcs :
          delayer[d].stage = "select" /\ delayer[d].terminate = "empty" => c_d = d
=============================================================================
