------------------------------- MODULE Fanout -------------------------------
(***************************************************************************)
(* The fanout handler (xhttp/fanout): one original request becomes one     *)
(* request per endpoint, the first good answer is the answer, and a later  *)
(* one is dropped.  The endpoints are the configured ones or, with none    *)
(* configured, what service discovery said last for each key.              *)
(***************************************************************************)
EXTENDS Integers, Sequences, FiniteSets, FiniteSetsExt, SequencesExt

CONSTANTS
    Endpoints,
    Configured,   \* Configuration.Endpoints, possibly none
    ServiceKeys,  \* keys of monitored services
    Statuses,     \* status codes an endpoint answers with
    MaxEvents     \* bound: discovery events

VARIABLES
    accessors,    \* ServiceEndpoints.accessors: key -> endpoint of the hash, or none
    events,
    fanout,       \* of each endpoint: "none", "running", or the result it sent
    results,      \* the channel, of capacity Cardinality(targets)
    targets,      \* the endpoints fanned out to
    received,     \* results taken, in order
    fanoutCtx,    \* "live" or "done"
    latest,       \* statusCode and latestResponse
    answer        \* what the handler wrote

vars == <<accessors, events, fanout, results, targets, received, fanoutCtx, latest, answer>>

None == "none"
ServiceUnavailable == 503
GatewayTimeout == 504

Result(e, status, header) == [from |-> e, status |-> status, header |-> header]
NoResult == Result(None, 0, {})
NoAnswer == [status |-> 0, header |-> {}, by |-> None, times |-> 0]
Results == [from : Endpoints \cup {None}, status : Nat, header : SUBSET Endpoints]

TypeOK ==
    /\ accessors \in [ServiceKeys -> Endpoints \cup {None, "empty"}]
    /\ events \in 0..MaxEvents
    /\ fanout \in [Endpoints -> {"none", "running", "sent"}]
    /\ results \in Seq(Results) /\ received \in Seq(Results)
    /\ targets \subseteq Endpoints
    /\ fanoutCtx \in {"new", "live", "done"}
    /\ latest \in Results
    /\ answer \in [status : Nat, header : SUBSET Endpoints,
                   by : {None, "after", "failure", "timeout", "error"}, times : 0..2]

Init ==
    /\ accessors = [k \in ServiceKeys |-> None]
    /\ events = 0
    /\ fanout = [e \in Endpoints |-> "none"]
    /\ results = <<>> /\ received = <<>>
    /\ targets = {}
    /\ fanoutCtx = "new"
    /\ latest = NoResult
    /\ answer = NoAnswer

-----------------------------------------------------------------------------
(* The endpoints                                                           *)

\* A service's instances changed: another accessor, which may have none.
MonitorEvent(k) ==
    /\ events < MaxEvents
    /\ events' = events + 1
    /\ \E e \in Endpoints \cup {"empty"} : accessors' = [accessors EXCEPT ![k] = e]
    /\ UNCHANGED <<fanout, results, targets, received, fanoutCtx, latest, answer>>

\* ServiceEndpoints.FanoutURLs: an accessor that fails is passed over.
DiscoveredURLs == {accessors[k] : k \in ServiceKeys} \ {None, "empty"}
\* NewEndpoints
FanoutURLs == IF Configured # {} THEN Configured ELSE DiscoveredURLs

\* DefaultShouldTerminate
ShouldTerminate(result) == result.status < 400

-----------------------------------------------------------------------------
(* The handler                                                             *)

Write(status, header, by) ==
    answer' = [status |-> status, header |-> header, by |-> by, times |-> answer.times + 1]

\* newFanoutRequests fails: the body cannot be read, there is no hash key, no
\* URL, or a request function refuses.
CannotFanout ==
    /\ fanoutCtx = "new"
    /\ fanoutCtx' = "done"
    /\ Write(ServiceUnavailable, {}, "error")
    /\ UNCHANGED <<accessors, events, fanout, results, targets, received, latest>>

\* The requests are built and their goroutines started.
StartFanout ==
    /\ fanoutCtx = "new" /\ FanoutURLs # {}
    /\ fanoutCtx' = "live"
    /\ targets' = FanoutURLs
    /\ fanout' = [e \in Endpoints |-> IF e \in FanoutURLs THEN "running" ELSE "none"]
    /\ UNCHANGED <<accessors, events, results, received, latest, answer>>

\* Mutant: the channel of the results has no room, so that a goroutine waits
\* for the handler to take its result.
ExecuteUnbuffered(e) ==
    /\ fanout[e] = "running"
    /\ results = <<>> /\ answer.times = 0
    /\ fanout' = [fanout EXCEPT ![e] = "sent"]
    /\ \E s \in Statuses : results' = <<Result(e, s, {e})>>
    /\ UNCHANGED <<accessors, events, targets, received, fanoutCtx, latest, answer>>

\* execute: the endpoint's answer; or an error, which counts as 504 when it
\* is the context's and 503 otherwise, a broken transactor's included.
Execute(e) ==
    /\ fanout[e] = "running"
    /\ Len(results) < Cardinality(targets)
    /\ fanout' = [fanout EXCEPT ![e] = "sent"]
    /\ \E r \in {Result(e, s, {e}) : s \in Statuses}
                \cup {Result(e, s, {}) : s \in {ServiceUnavailable, GatewayTimeout}} :
          results' = Append(results, r)
    /\ UNCHANGED <<accessors, events, targets, received, fanoutCtx, latest, answer>>

Waiting == fanoutCtx # "new" /\ answer.times = 0

\* The context ends: the fanout's timeout or a client that went away.
ContextEnds ==
    /\ fanoutCtx = "live"
    /\ fanoutCtx' = "done"
    /\ UNCHANGED <<accessors, events, fanout, results, targets, received, latest, answer>>

Canceled ==
    /\ Waiting /\ fanoutCtx = "done" /\ Len(received) < Cardinality(targets)
    /\ Write(GatewayTimeout, {}, "timeout")
    /\ UNCHANGED <<accessors, events, fanout, results, targets, received, fanoutCtx, latest>>

\* Mutant: the last failure is the answer, not the worst one.
ReceiveLast ==
    /\ Waiting /\ results # <<>>
    /\ LET result == Head(results)
       IN  /\ received' = Append(received, result)
           /\ results' = Tail(results)
           /\ latest' = result
           /\ IF ShouldTerminate(result) \/ Len(received') = Cardinality(targets)
              THEN Write(result.status, result.header, IF ShouldTerminate(result) THEN "after" ELSE "failure")
              ELSE UNCHANGED answer
    /\ UNCHANGED <<accessors, events, fanout, targets, fanoutCtx>>

\* One result: finish with it, or keep it if it is the worst so far and, with
\* the last one, finish with the worst.
ReceiveResult ==
    /\ Waiting /\ results # <<>>
    /\ LET result == Head(results)
           worst == IF latest.status < result.status THEN result ELSE latest
       IN  /\ received' = Append(received, result)
           /\ results' = Tail(results)
           /\ IF ShouldTerminate(result)
              THEN Write(result.status, result.header, "after") /\ UNCHANGED latest
              ELSE /\ latest' = worst
                   /\ IF Len(received') = Cardinality(targets)
                      THEN Write(worst.status, worst.header, "failure")
                      ELSE UNCHANGED answer
    /\ UNCHANGED <<accessors, events, fanout, targets, fanoutCtx>>

-----------------------------------------------------------------------------
HandlerStep == Canceled \/ ReceiveResult \/ StartFanout \/ CannotFanout

Next ==
    \/ HandlerStep
    \/ ContextEnds
    \/ \E k \in ServiceKeys : MonitorEvent(k)
    \/ \E e \in Endpoints : Execute(e)

-----------------------------------------------------------------------------
\* The client gets one answer, and it is that of one endpoint of this fanout:
\* the first good one to arrive, or, when every endpoint failed, one with the
\* highest status; a timeout is answered only after the context ended.
FanoutAnswers ==
    /\ answer.times <= 1
    /\ answer.by = "after" =>
          /\ answer.status < 400 /\ answer.header = {Last(received).from}
          /\ \A i \in 1..(Len(received) - 1) : received[i].status >= 400
    /\ answer.by = "failure" =>
          /\ {received[i].from : i \in DOMAIN received} = targets
          /\ answer.status = Max({received[i].status : i \in DOMAIN received})
          /\ \E i \in DOMAIN received : received[i].status = answer.status
                                        /\ received[i].header = answer.header
    /\ answer.by = "timeout" => fanoutCtx = "done"

\* The handler has not answered, or a goroutine of it is left.
FanoutRuns == fanoutCtx # "new" /\ (answer.times = 0 \/ \E e \in Endpoints : fanout[e] = "running")
=============================================================================
