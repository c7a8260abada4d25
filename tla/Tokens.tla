------------------------------- MODULE Tokens -------------------------------
(***************************************************************************)
(* The authorization handler (secure/handler/authorizationHandler.go), the *)
(* parsing of its header (secure/token.go) and the chain of validators it  *)
(* asks (secure/validator.go), while time passes and keys are rotated.     *)
(***************************************************************************)
EXTENDS Integers, Sequences

CONSTANTS
    AuthRequests,
    Accepted,             \* the values the exact match validator was given
    ExpLeeway, NbfLeeway,
    MaxTokenTime,         \* bound: the clock
    MaxKey                \* bound: rotations of the key

VARIABLES
    tokenClock,
    signingKey,           \* the key the resolver returns, a number; 0: it fails
    authorization,        \* of each request: stage, token, validator, verdict
    reasons,              \* the validation reason counter
    offsets               \* of each request: what the histograms observed

vars == <<tokenClock, signingKey, authorization, reasons, offsets>>

-----------------------------------------------------------------------------
(* A header is a token type as written and what follows it; a bearer's     *)
(* value may be a JWS with an algorithm, a key, claims and capabilities.   *)

Plain == [jws : {FALSE}, text : {"secret", "wrong"}]
Signed ==
    [jws : {TRUE}, alg : BOOLEAN, key : 0..MaxKey, exp : {1, MaxTokenTime + 1}, nbf : {0, 1},
     capabilities : BOOLEAN]
Headers == [type : {"basic", "Bearer", "none"}, value : Plain \cup Signed]

ParseTokenType(written) ==
    CASE written \in {"basic", "Basic"} -> "Basic"
      [] written \in {"bearer", "Bearer"} -> "Bearer"
      [] written \in {"digest", "Digest"} -> "Digest"
      [] OTHER -> "Invalid"

NoToken == [type |-> "Invalid"]
ParseAuthorization(h) ==
    IF ParseTokenType(h.type) = "Invalid" THEN NoToken
    ELSE [type |-> ParseTokenType(h.type), value |-> h.value]

-----------------------------------------------------------------------------
(* Validators.  A verdict is whether the token is valid, whether there was *)
(* an error, and the reason that is counted, if one is.                    *)

Verdict(valid, err, reason) == [valid |-> valid, err |-> err, reason |-> reason]

ExactMatchValidator(t) ==
    Verdict(~t.value.jws /\ t.value.text \in Accepted, FALSE, "none")

\* claims.Validate of the JWT library.
ClaimsError(claims) ==
    IF tokenClock > claims.exp + ExpLeeway THEN "expired_token"
    ELSE IF tokenClock <= claims.nbf - NbfLeeway THEN "premature_token"
    ELSE "none"

\* The first to fail decides; only an error of the signature or of the claims,
\* and success, are counted.
JWSValidator(t) ==
    LET v == t.value
    IN  IF t.type # "Bearer" THEN Verdict(FALSE, FALSE, "none")
        ELSE IF ~v.jws \/ ~v.alg \/ signingKey = 0 THEN Verdict(FALSE, TRUE, "none")
        ELSE IF v.key # signingKey THEN Verdict(FALSE, TRUE, "invalid_signature")
        ELSE IF ClaimsError(v) # "none" THEN Verdict(FALSE, TRUE, ClaimsError(v))
        ELSE IF v.capabilities THEN Verdict(TRUE, FALSE, "ok")
        ELSE Verdict(FALSE, FALSE, "none")

\* Mutant: the leeway moves the wrong way.
ObserveMeasuresLate(t) ==
    [nbf |-> tokenClock - (t.value.nbf + NbfLeeway), exp |-> tokenClock - (t.value.exp + ExpLeeway)]

\* How far from its bounds the token was seen, by the clock its claims were
\* checked with: once the signature is found good.
ObserveMeasures(t) ==
    [nbf |-> tokenClock - (t.value.nbf - NbfLeeway), exp |-> tokenClock - (t.value.exp + ExpLeeway)]
Observed(t) == t.type = "Bearer" /\ t.value.jws /\ t.value.alg /\ t.value.key = signingKey /\ signingKey # 0

Validators == <<"exact", "jws">>
Validate(i, t) == IF Validators[i] = "exact" THEN ExactMatchValidator(t) ELSE JWSValidator(t)

-----------------------------------------------------------------------------
Reasons == {"missing_header", "invalid_header", "expired_token", "premature_token",
            "invalid_signature", "ok"}
NewRequest == [stage |-> "new", token |-> NoToken, next |-> 1, verdict |-> Verdict(FALSE, FALSE, "none")]
NoOffsets == [nbf |-> 0, exp |-> 0]

TypeOK ==
    /\ tokenClock \in 0..MaxTokenTime /\ signingKey \in 0..MaxKey
    /\ \A r \in AuthRequests :
          authorization[r].stage \in {"new", "validate", "served", "denied"}
    /\ reasons \in [Reasons -> Nat]

Init ==
    /\ tokenClock = 0 /\ signingKey = 1
    /\ authorization = [r \in AuthRequests |-> NewRequest]
    /\ reasons = [s \in Reasons |-> 0]
    /\ offsets = [r \in AuthRequests |-> NoOffsets]

Tick ==
    /\ tokenClock < MaxTokenTime
    /\ tokenClock' = tokenClock + 1
    /\ UNCHANGED <<signingKey, authorization, reasons, offsets>>

\* The key server may also stop answering.
Rotate ==
    /\ \E k \in 0..MaxKey : signingKey' = k
    /\ UNCHANGED <<tokenClock, authorization, reasons, offsets>>

Count(reason) ==
    reasons' = IF reason = "none" THEN reasons ELSE [reasons EXCEPT ![reason] = @ + 1]

MissingHeader(r) ==
    /\ authorization[r].stage = "new"
    /\ authorization' = [authorization EXCEPT ![r].stage = "denied"]
    /\ Count("missing_header")
    /\ UNCHANGED <<tokenClock, signingKey, offsets>>

ParseHeader(r, h) ==
    /\ authorization[r].stage = "new"
    /\ IF ParseAuthorization(h) = NoToken
       THEN /\ authorization' = [authorization EXCEPT ![r].stage = "denied"]
            /\ Count("invalid_header")
       ELSE /\ authorization' = [authorization EXCEPT ![r].stage = "validate",
                                                      ![r].token = ParseAuthorization(h)]
            /\ UNCHANGED reasons
    /\ UNCHANGED <<tokenClock, signingKey, offsets>>

\* Mutant: the whole list is asked, and its last answer taken.
ValidateNextLast(r) ==
    LET a == authorization[r]
        v == Validate(a.next, a.token)
    IN  /\ a.stage = "validate"
        /\ authorization' = [authorization EXCEPT ![r].next = @ + 1, ![r].verdict = v,
                ![r].stage = IF a.next < Len(Validators) THEN "validate"
                             ELSE IF v.valid /\ ~v.err THEN "served" ELSE "denied"]
        /\ Count(v.reason)
        /\ offsets' = IF Validators[a.next] = "jws" /\ Observed(a.token)
                      THEN [offsets EXCEPT ![r] = ObserveMeasures(a.token)] ELSE offsets
        /\ UNCHANGED <<tokenClock, signingKey>>

\* One turn of the loop in Validators.Validate; after the last the handler
\* serves the request or denies it.
ValidateNext(r) ==
    LET a == authorization[r]
        v == Validate(a.next, a.token)
        accepted == v.valid /\ ~v.err
    IN  /\ a.stage = "validate"
        /\ authorization' = [authorization EXCEPT ![r].next = @ + 1, ![r].verdict = v,
                ![r].stage = IF accepted THEN "served"
                             ELSE IF a.next = Len(Validators) THEN "denied" ELSE "validate"]
        /\ Count(v.reason)
        /\ offsets' = IF Validators[a.next] = "jws" /\ Observed(a.token)
                      THEN [offsets EXCEPT ![r] = ObserveMeasures(a.token)] ELSE offsets
        /\ UNCHANGED <<tokenClock, signingKey>>

Next ==
    \/ Tick \/ Rotate
    \/ \E r \in AuthRequests :
          \/ MissingHeader(r) \/ ValidateNext(r)
          \/ \E h \in Headers : ParseHeader(r, h)

-----------------------------------------------------------------------------
\* The chain is a disjunction: a request whose token is an accepted value is
\* never denied, and a request is served only for such a token or for a
\* bearer with capabilities.
AnyValidatorServes ==
    \A r \in AuthRequests :
        LET a == authorization[r]
            exact == a.token # NoToken /\ ~a.token.value.jws /\ a.token.value.text \in Accepted
        IN  /\ a.stage = "denied" => ~exact
            /\ a.stage = "served" =>
                  \/ exact
                  \/ a.token.type = "Bearer" /\ a.token.value.jws /\ a.token.value.capabilities

\* What the histograms observed agrees with the verdict: past the end of its
\* life exactly when it had expired, not past the beginning exactly when it
\* was premature.
OffsetsAgree ==
    \A r \in AuthRequests :
        LET reason == authorization[r].verdict.reason
        IN  /\ reason = "expired_token" => offsets[r].exp > 0
            /\ reason = "premature_token" => offsets[r].nbf <= 0
            /\ reason = "ok" => offsets[r].exp <= 0 /\ offsets[r].nbf > 0
=============================================================================
