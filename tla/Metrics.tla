------------------------------- MODULE Metrics -------------------------------
(***************************************************************************)
(* The metrics registry (xmetrics): modules and options are merged by      *)
(* fully-qualified name (metric.go), the result is registered with         *)
(* Prometheus (registry.go), and goroutines then ask for metrics, those    *)
(* that were registered and ad hoc ones.                                   *)
(***************************************************************************)
EXTENDS Integers, Sequences, FiniteSets

CONSTANTS
    MetricUsers,          \* goroutines that ask for metrics
    MaxMetrics            \* bound: metrics of the modules and the options

VARIABLES
    phase,                \* of NewRegistry
    given,                \* what is left to merge: [override, metric], in order
    configured,           \* all of it, as it was given
    merged,               \* Merger.merged: from names to metrics
    preregistered,        \* from names to collectors
    collectors,           \* what Prometheus holds, a set of collectors
    user                  \* of each goroutine: what it asked for and got

vars == <<phase, given, configured, merged, preregistered, collectors, user>>

-----------------------------------------------------------------------------
(* A name is the sequence of the words that underscores separate in it.    *)

\* prometheus.BuildFQName: the parts that are not empty, joined; nothing if
\* there is no name.
BuildFQName(namespace, subsystem, name) ==
    IF name = <<>> THEN <<>> ELSE namespace \o subsystem \o name

defaultNamespace == <<"o">>
defaultSubsystem == <<"s">>

Types == {"counter", "gauge", "histogram", "summary"}
Metric(namespace, subsystem, name, type, labels) ==
    [namespace |-> namespace, subsystem |-> subsystem, name |-> name, type |-> type,
     labels |-> labels]
SomeMetrics ==
    {Metric(<<>>, <<>>, <<"x">>, "counter", {}), Metric(<<>>, <<>>, <<"x">>, "gauge", {}),
     Metric(<<"o">>, <<"s">>, <<"x">>, "counter", {"l"}), Metric(<<>>, <<>>, <<"y">>, "summary", {}),
     Metric(<<>>, <<>>, <<"y">>, "timer", {}), Metric(<<>>, <<>>, <<>>, "gauge", {})}

\* Namespace and subsystem default to those of the options.
Qualified(m) ==
    [m EXCEPT !.namespace = IF @ = <<>> THEN defaultNamespace ELSE @,
              !.subsystem = IF @ = <<>> THEN defaultSubsystem ELSE @]
FQN(m) == BuildFQName(m.namespace, m.subsystem, m.name)

\* A collector, by who made it; help is the name when there is none.
Collector(fqn, type, help, labels, maker) ==
    [fqn |-> fqn, type |-> type, help |-> help, labels |-> labels, maker |-> maker]
NewCollector(m) == Collector(FQN(m), m.type, m.name, m.labels, "registry")

(* Prometheus' Register, under its lock: the descriptor of a collector is  *)
(* its name, help and labels, and does not tell a counter from a gauge.    *)
Holding(fqn) == {c \in collectors : c.fqn = fqn}
Inconsistent(c) == \E h \in Holding(c.fqn) : h.help # c.help \/ h.labels # c.labels

-----------------------------------------------------------------------------
Idle == [stage |-> "idle"]

TypeOK ==
    /\ phase \in {"new", "merging", "registering", "returned", "failed"}
    /\ \A f \in DOMAIN merged : FQN(merged[f]) = f
    /\ \A u \in MetricUsers : user[u].stage \in {"idle", "made", "got", "panicked"}

Init ==
    /\ phase = "new"
    /\ given = <<>> /\ configured = <<>>
    /\ merged = <<>> /\ preregistered = <<>> /\ collectors = {}
    /\ user = [u \in MetricUsers |-> Idle]

\* NewRegistry is called with some modules and options: those of the modules
\* are added first, and only the options may override.
NewRegistry ==
    /\ phase = "new" /\ phase' = "merging"
    /\ \E modules, options \in UNION {[1..n -> SomeMetrics] : n \in 0..MaxMetrics} :
          /\ Len(modules) + Len(options) <= MaxMetrics
          /\ given' = [i \in DOMAIN modules |-> [override |-> FALSE, metric |-> modules[i]]]
                      \o [i \in DOMAIN options |-> [override |-> TRUE, metric |-> options[i]]]
    /\ configured' = given'
    /\ UNCHANGED <<merged, preregistered, collectors, user>>

\* Mutant: the type of what is overridden is not looked at.
tryAddAnyType ==
    LET g == Head(given)
        m == Qualified(g.metric)
        refused == m.name = <<>> \/ (FQN(m) \in DOMAIN merged /\ ~g.override)
    IN  /\ phase = "merging" /\ given # <<>>
        /\ given' = Tail(given)
        /\ phase' = IF refused THEN "failed" ELSE phase
        /\ merged' = IF refused THEN merged
                     ELSE [f \in DOMAIN merged \cup {FQN(m)} |-> IF f = FQN(m) THEN m ELSE merged[f]]
        /\ UNCHANGED <<configured, preregistered, collectors, user>>

\* The first error ends the merge, and NewRegistry with it.
tryAdd ==
    LET g == Head(given)
        m == Qualified(g.metric)
        refused == \/ m.name = <<>>
                   \/ FQN(m) \in DOMAIN merged /\ (~g.override \/ merged[FQN(m)].type # m.type)
    IN  /\ phase = "merging" /\ given # <<>>
        /\ given' = Tail(given)
        /\ phase' = IF refused THEN "failed" ELSE phase
        /\ merged' = IF refused THEN merged
                     ELSE [f \in DOMAIN merged \cup {FQN(m)} |-> IF f = FQN(m) THEN m ELSE merged[f]]
        /\ UNCHANGED <<configured, preregistered, collectors, user>>

Merged ==
    /\ phase = "merging" /\ given = <<>>
    /\ phase' = "registering"
    /\ UNCHANGED <<given, configured, merged, preregistered, collectors, user>>

\* One turn of the loop over the merged metrics, a map: in any order.
RegisterMerged ==
    /\ phase = "registering"
    /\ \E f \in DOMAIN merged \ DOMAIN preregistered :
          LET c == NewCollector(merged[f])
              failed == c.type \notin Types \/ Holding(f) # {}
          IN  /\ phase' = IF failed THEN "failed" ELSE phase
              /\ collectors' = IF failed THEN collectors ELSE collectors \cup {c}
              /\ preregistered' = IF failed THEN preregistered
                                  ELSE [g \in DOMAIN preregistered \cup {f} |->
                                           IF g = f THEN c ELSE preregistered[g]]
    /\ UNCHANGED <<given, configured, merged, user>>

Return ==
    /\ phase = "registering" /\ DOMAIN merged = DOMAIN preregistered
    /\ phase' = "returned"
    /\ UNCHANGED <<given, configured, merged, preregistered, collectors, user>>

-----------------------------------------------------------------------------
(* What goroutines ask for: NewCounter and NewGauge under the default      *)
(* namespace and subsystem, NewHistogram, for which a summary will do too, *)
(* NewSummaryVec, and NewCounterVecEx, which says all three parts.         *)

Ask(accepts, type, namespace, subsystem, name) ==
    [accepts |-> accepts, type |-> type, fqn |-> BuildFQName(namespace, subsystem, name),
     name |-> name]
NewCounter(name) == Ask({"counter"}, "counter", defaultNamespace, defaultSubsystem, name)
NewGauge(name) == Ask({"gauge"}, "gauge", defaultNamespace, defaultSubsystem, name)
NewHistogram(name) == Ask({"histogram", "summary"}, "histogram", defaultNamespace, defaultSubsystem, name)
NewSummaryVec(name) == Ask({"summary"}, "summary", defaultNamespace, defaultSubsystem, name)
NewCounterVecEx(namespace, subsystem, name) == Ask({"counter"}, "counter", namespace, subsystem, name)
Asks == {NewCounter(<<"x">>), NewGauge(<<"x">>), NewHistogram(<<"y">>), NewSummaryVec(<<"y">>),
         NewCounterVecEx(<<"o">>, <<>>, <<"s", "x">>)}

Got(a, c) == [stage |-> "got", asked |-> a, collector |-> c]
Panicked(a) == [stage |-> "panicked", asked |-> a]

\* What was registered by NewRegistry is handed out, if it is of the type;
\* else a new collector is made.
Lookup(u, a) ==
    /\ phase = "returned" /\ user[u] = Idle
    /\ user' = [user EXCEPT ![u] =
          IF a.fqn \notin DOMAIN preregistered
          THEN [stage |-> "made", asked |-> a, collector |-> Collector(a.fqn, a.type, a.name, {}, u)]
          ELSE IF preregistered[a.fqn].type \in a.accepts THEN Got(a, preregistered[a.fqn])
          ELSE Panicked(a)]
    /\ UNCHANGED <<phase, given, configured, merged, preregistered, collectors>>

\* Mutant: who comes second keeps the collector it made.
RegisterOwn(u) ==
    LET a == user[u].asked
        c == user[u].collector
    IN  /\ user[u].stage = "made"
        /\ collectors' = IF Holding(a.fqn) = {} THEN collectors \cup {c} ELSE collectors
        /\ user' = [user EXCEPT ![u] = Got(a, c)]
        /\ UNCHANGED <<phase, given, configured, merged, preregistered>>

\* Register, and what is made of its error: the collector that is there
\* already is handed out, when it is of the very type.
Register(u) ==
    LET a == user[u].asked
        c == user[u].collector
    IN  /\ user[u].stage = "made"
        /\ collectors' = IF Holding(a.fqn) = {} THEN collectors \cup {c} ELSE collectors
        /\ user' = [user EXCEPT ![u] =
              IF Holding(a.fqn) = {} THEN Got(a, c)
              ELSE IF Inconsistent(c) \/ \E h \in Holding(a.fqn) : h.type # a.type THEN Panicked(a)
              ELSE Got(a, CHOOSE h \in Holding(a.fqn) : TRUE)]
        /\ UNCHANGED <<phase, given, configured, merged, preregistered>>

Next ==
    \/ NewRegistry \/ tryAdd \/ Merged \/ RegisterMerged \/ Return
    \/ \E u \in MetricUsers : (\E a \in Asks : Lookup(u, a)) \/ Register(u)

Spec == Init /\ [][Next]_vars

-----------------------------------------------------------------------------
\* Goroutines that ask for the same metric hold the same collector, one that
\* Prometheus gathers and that is of a type they asked for, whoever came first
\* and whether it was registered beforehand: no count goes where nobody looks.
OneCollector ==
    \A u \in MetricUsers : user[u].stage = "got" =>
        /\ user[u].collector \in collectors
        /\ user[u].collector.type \in user[u].asked.accepts
        /\ \A v \in MetricUsers :
              (user[v].stage = "got" /\ user[v].asked.fqn = user[u].asked.fqn) =>
                  user[v].collector = user[u].collector

\* The name the i-th configured metric is registered under.
Named(i) == FQN(Qualified(configured[i].metric))

\* What a registry starts with: of every name that was configured, the metric
\* given last, and never of another type than one given before it.
LastOfEachName ==
    phase = "returned" =>
        /\ DOMAIN preregistered = {Named(i) : i \in DOMAIN configured}
        /\ \A i, j \in DOMAIN configured : (i < j /\ Named(i) = Named(j)) =>
              configured[j].override /\ configured[i].metric.type = configured[j].metric.type
        /\ \A i \in DOMAIN configured :
              (\A j \in DOMAIN configured : Named(j) = Named(i) => j <= i) =>
                  preregistered[Named(i)] = NewCollector(Qualified(configured[i].metric))
=============================================================================
