---------------------------- MODULE Capabilities ----------------------------
(***************************************************************************)
(* The capability checks of basculechecks: the checkers, the validator     *)
(* that asks them (capabilitiesvalidator.go, capabilitiesmap.go) and the   *)
(* one that also counts what they say (metricvalidator.go).  The same      *)
(* requests pass a validator that only monitors and one that enforces.     *)
(***************************************************************************)
EXTENDS Integers, Sequences, FiniteSets

CONSTANTS
    EndpointPatterns,     \* the endpoints of the metric, a sequence of patterns
    MaxJudged             \* bound: requests judged

VARIABLES
    checker,              \* the CapabilitiesChecker both validators use
    auth,                 \* the request being judged
    verdict,              \* of each mode: what its validator returned and counted
    outcomes              \* of each mode: the outcome counter

vars == <<checker, auth, verdict, outcomes>>

-----------------------------------------------------------------------------
(* Regular expressions: where the leftmost match begins, -1 if there is    *)
(* none.  "(" does not compile.                                            *)

Urls == {"/a", "/b/a"}
FindStringIndex(pattern, url) ==
    CASE pattern = ".*" -> 0
      [] pattern = "/a" -> IF url = "/a" THEN 0 ELSE 2
      [] pattern = "/b" -> IF url = "/b/a" THEN 0 ELSE -1
      [] OTHER -> -1
Compiles(pattern) == pattern # "("

(* A capability is <prefix><endpoint regex>:<method>; a method in it is    *)
(* lower case already, or it is the word for all of them.                  *)
Capability(prefixed, endpoint, method) ==
    [prefixed |-> prefixed, endpoint |-> endpoint, method |-> method]
SomeCapabilities ==
    {Capability(TRUE, "/a", "get"), Capability(TRUE, ".*", "put"), Capability(TRUE, "/b", "all"),
     Capability(TRUE, "(", "all"), Capability(FALSE, ".*", "all")}
ToLower(method) == CASE method = "GET" -> "get" [] method = "PUT" -> "put"

AlwaysCheck(b) == [kind |-> "always", always |-> b]
ConstCheck(c) == [kind |-> "const", const |-> c]
EndpointRegexCheck(acceptAllMethod) == [kind |-> "regex", acceptAllMethod |-> acceptAllMethod]
NilChecker == [kind |-> "nil"]

Authorized(check, c, url, method) ==
    CASE check.kind = "always" -> check.always
      [] check.kind = "const" -> check.const = c
      [] check.kind = "regex" ->
            /\ c.prefixed
            /\ c.method \in {check.acceptAllMethod, ToLower(method)}
            /\ Compiles(c.endpoint)
            /\ FindStringIndex(c.endpoint, url) = 0

-----------------------------------------------------------------------------
(* A request: what it has of the things a check asks for, in "has"; the    *)
(* partners and the capabilities of its token; its URL and method.         *)

Needed == {"auth", "token", "attributes", "partners", "partnerSlice", "capabilities",
           "capabilitySlice", "url"}
Whole ==
    [has : {Needed}, principal : {"client"}, partners : {<<"x">>},
     capabilities : {<<>>} \cup UNION {[1..n -> SomeCapabilities] : n \in 1..2},
     url : Urls, method : {"GET", "PUT"}]
Partnered ==
    [has : {Needed}, principal : {"client"}, partners : {<<>>, <<"*">>, <<"x", "*">>, <<"x", "y">>},
     capabilities : {<<Capability(TRUE, ".*", "all")>>}, url : Urls, method : {"GET"}]
Lacking ==
    [has : {Needed \ lost : lost \in {l \in SUBSET Needed : Cardinality(l) \in 1..2}},
     principal : {"client"}, partners : {<<"x">>}, capabilities : {<<Capability(TRUE, ".*", "all")>>},
     url : {"/a"}, method : {"GET"}]

Reason(reason, err) == [reason |-> reason, err |-> err]
Nil == Reason("", "nil")

getCapabilities(a) ==
    IF "attributes" \notin a.has THEN Reason("undetermined_capabilities", "ErrNilAttributes")
    ELSE IF ~({"capabilities", "capabilitySlice"} \subseteq a.has)
         THEN Reason("undetermined_capabilities", "error")
    ELSE IF a.capabilities = <<>> THEN Reason("empty_capabilities_list", "ErrNoVals")
    ELSE Nil

checkCapabilities(check, a) ==
    IF \E i \in DOMAIN a.capabilities : Authorized(check, a.capabilities[i], a.url, a.method) THEN Nil
    ELSE Reason("no_capabilities_match", "ErrNoValidCapabilityFound")

NoToken == Reason("auth_is_missing_values", "ErrNoToken")
NoURL == Reason("auth_is_missing_values", "ErrNoURL")

ValidatorCheck(check, a) ==
    IF "token" \notin a.has THEN NoToken
    ELSE IF getCapabilities(a) # Nil THEN getCapabilities(a)
    ELSE IF "url" \notin a.has THEN NoURL
    ELSE checkCapabilities(check, a)

\* Mutant: an endpoint without a checker of its own is let through.
MapCheckOpen(checkers, default, a, endpoint) ==
    IF endpoint \in DOMAIN checkers THEN checkCapabilities(checkers[endpoint], a) ELSE Nil

\* The endpoint's own checker, else the default one, else nothing matches.
MapCheck(checkers, default, a, endpoint) ==
    LET own == IF endpoint \in DOMAIN checkers THEN checkers[endpoint] ELSE NilChecker
        check == IF own = NilChecker THEN default ELSE own
    IN  IF "token" \notin a.has THEN NoToken
        ELSE IF "url" \notin a.has THEN NoURL
        ELSE IF endpoint = "" THEN Reason("empty_parsed_URL", "ErrEmptyEndpoint")
        ELSE IF getCapabilities(a) # Nil THEN getCapabilities(a)
        ELSE IF check = NilChecker THEN Reason("no_capabilities_match", "ErrNoValidCapabilityFound")
        ELSE checkCapabilities(check, a)

Check(a, endpoint) ==
    IF checker.map THEN MapCheck(checker.checkers, checker.default, a, endpoint)
    ELSE ValidatorCheck(checker.default, a)

-----------------------------------------------------------------------------
(* The labels of the metric *)

DeterminePartnerMetric(partners) ==
    IF partners = <<>> THEN "none"
    ELSE IF \E i \in DOMAIN partners : partners[i] = "*" THEN "wildcard"
    ELSE IF Len(partners) = 1 THEN partners[1]
    ELSE "many"

\* Mutant: a match anywhere in the URL counts.
determineEndpointMetricAnywhere(url) ==
    LET hits == {i \in DOMAIN EndpointPatterns : FindStringIndex(EndpointPatterns[i], url) >= 0}
    IN  IF hits = {} THEN "not_recognized"
        ELSE EndpointPatterns[CHOOSE i \in hits : \A j \in hits : i <= j]

\* The first pattern that matches from the beginning.
determineEndpointMetric(url) ==
    LET hits == {i \in DOMAIN EndpointPatterns : FindStringIndex(EndpointPatterns[i], url) = 0}
    IN  IF hits = {} THEN "not_recognized"
        ELSE EndpointPatterns[CHOOSE i \in hits : \A j \in hits : i <= j]

Labels(client, partner, endpoint) == [client |-> client, partner |-> partner, endpoint |-> endpoint]
NoLabels == Labels("", "", "")

prepMetrics(a) ==
    LET partner == DeterminePartnerMetric(a.partners)
    IN  IF "token" \notin a.has THEN [labels |-> NoLabels, why |-> NoToken]
        ELSE IF "attributes" \notin a.has
             THEN [labels |-> Labels(a.principal, "", ""),
                   why |-> Reason("auth_is_missing_values", "ErrNilAttributes")]
        ELSE IF ~({"partners", "partnerSlice"} \subseteq a.has)
             THEN [labels |-> Labels(a.principal, "", ""),
                   why |-> Reason("undetermined_partner_ID", "error")]
        ELSE IF "url" \notin a.has THEN [labels |-> Labels(a.principal, partner, ""), why |-> NoURL]
        ELSE [labels |-> Labels(a.principal, partner, determineEndpointMetric(a.url)), why |-> Nil]

-----------------------------------------------------------------------------
Modes == {"monitor", "enforce"}
errorOut(mode) == mode = "enforce"
NoVerdict == [judged |-> FALSE]
NoAuth == [has |-> {}]
NoChecker == [map |-> FALSE]
NoCounts == [accepted |-> 0, rejected |-> 0]

Checkers ==
    {[map |-> FALSE, default |-> c] : c \in {EndpointRegexCheck("all"), ConstCheck(Capability(TRUE, "(", "all"))}}
    \cup {[map |-> TRUE, default |-> d, checkers |-> [e \in {"/a"} |-> c]] :
             d \in {NilChecker, AlwaysCheck(FALSE)}, c \in {EndpointRegexCheck("all"), AlwaysCheck(TRUE), NilChecker}}

TypeOK ==
    /\ checker \in Checkers \cup {NoChecker}
    /\ \A m \in Modes : verdict[m].judged \in BOOLEAN /\ outcomes[m] \in [{"accepted", "rejected"} -> 0..MaxJudged]

Init ==
    /\ checker = NoChecker
    /\ auth = NoAuth
    /\ verdict = [m \in Modes |-> NoVerdict]
    /\ outcomes = [m \in Modes |-> NoCounts]

\* Both validators are created around the checker.
CreateValidator ==
    /\ checker = NoChecker
    /\ checker' \in Checkers
    /\ UNCHANGED <<auth, verdict, outcomes>>

\* The next request.
Arrive ==
    /\ checker # NoChecker /\ auth = NoAuth
    /\ \E a \in Whole \cup Partnered \cup Lacking : auth' = a
    /\ UNCHANGED <<checker, verdict, outcomes>>

\* The counter is added to before the validator returns.
Judge(mode, labels, why) ==
    LET failed == why # Nil
        outcome == IF failed /\ errorOut(mode) THEN "rejected" ELSE "accepted"
    IN  /\ outcomes' = [outcomes EXCEPT ![mode][outcome] = @ + 1]
        /\ verdict' = [verdict EXCEPT ![mode] =
              [judged |-> TRUE, labels |-> labels, reason |-> why.reason,
               err |-> IF errorOut(mode) THEN why.err ELSE "nil"]]

\* MetricValidator.CreateValidator's function.
Validate(mode) ==
    LET prepared == prepMetrics(auth)
    IN  /\ auth # NoAuth /\ ~verdict[mode].judged
        /\ outcomes[mode].accepted + outcomes[mode].rejected < MaxJudged
        /\ IF "auth" \notin auth.has THEN Judge(mode, NoLabels, Reason("auth_missing", "ErrNoAuth"))
           ELSE IF prepared.why # Nil THEN Judge(mode, prepared.labels, prepared.why)
           ELSE Judge(mode, prepared.labels, Check(auth, prepared.labels.endpoint))
        /\ UNCHANGED <<checker, auth>>

\* CapabilitiesValidator.CreateValidator's function, which counts nothing.
Unmeasured(mode, a) ==
    IF ~errorOut(mode) THEN "nil"
    ELSE IF "auth" \notin a.has THEN "ErrNoAuth"
    ELSE ValidatorCheck(checker.default, a).err

\* Both have judged: the request is done with.
Leave ==
    /\ \A m \in Modes : verdict[m].judged
    /\ auth' = NoAuth
    /\ verdict' = [m \in Modes |-> NoVerdict]
    /\ UNCHANGED <<checker, outcomes>>

Next == CreateValidator \/ Arrive \/ (\E m \in Modes : Validate(m)) \/ Leave
Spec == Init /\ [][Next]_vars

-----------------------------------------------------------------------------
\* Monitoring foretells enforcement: of the same request, the validator that
\* does not error out counts the reason and the labels the enforcing one
\* counts, lets it through in any case, and the enforcing one refuses it
\* exactly when there is a reason.
MonitoringForetells ==
    (\A m \in Modes : verdict[m].judged) =>
        /\ verdict["monitor"].err = "nil"
        /\ verdict["monitor"].reason = verdict["enforce"].reason
        /\ verdict["monitor"].labels = verdict["enforce"].labels
        /\ (verdict["enforce"].err # "nil") = (verdict["enforce"].reason # "")

\* All the request needs is there, and one of its capabilities is good for the
\* endpoint: by the checker of the first endpoint the URL begins with, or the
\* default one.
Entitled(a) ==
    LET prefixes == {i \in DOMAIN EndpointPatterns : FindStringIndex(EndpointPatterns[i], a.url) = 0}
        own == {checker.checkers[EndpointPatterns[i]] :
                   i \in {j \in prefixes : /\ \A k \in prefixes : j <= k
                                           /\ EndpointPatterns[j] \in DOMAIN checker.checkers}}
        asked == IF ~checker.map \/ own \subseteq {NilChecker} THEN {checker.default} ELSE own
    IN  /\ a.has = Needed
        /\ \E check \in asked \ {NilChecker}, i \in DOMAIN a.capabilities :
              Authorized(check, a.capabilities[i], a.url, a.method)

\* The enforcing validator lets a request through exactly when it is entitled.
OnlyEntitledPass ==
    verdict["enforce"].judged => (verdict["enforce"].err = "nil") = Entitled(auth)

\* With one checker and no map, counting changes no verdict but for a token
\* whose partners cannot be told.
CountingIsNeutral ==
    \A m \in Modes :
        (verdict[m].judged /\ ~checker.map /\ verdict[m].reason # "undetermined_partner_ID") =>
            ((verdict[m].err = "nil") = (Unmeasured(m, auth) = "nil"))
=============================================================================
