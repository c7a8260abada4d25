------------------------------ MODULE KeyServer ------------------------------
(***************************************************************************)
(* The key server (secure/tools/cmd/keyserver): it loads some keys from    *)
(* resources and generates others whenever it starts, serves the public    *)
(* ones and issues tokens signed with the private ones.  It may be stopped *)
(* and started again.                                                      *)
(***************************************************************************)
EXTENDS Integers, Sequences, FiniteSets

CONSTANTS
    DefaultExpire, DefaultNotBefore,   \* the default durations of exp and nbf
    MaxServerTime,        \* bound: the clock
    MaxServerStarts,      \* bound: times the server is started
    MaxIssued             \* bound: tokens issued

VARIABLES
    serverClock,
    starts,               \* how often the server was started
    keyConfig,            \* its configuration: [keys, generate]
    phase,                \* of main: down, resolving, generating, serving
    generated,            \* how much of the list was generated
    privateKeys,          \* from key identifiers to keys
    publicKeys,
    issued                \* the tokens it issued

vars == <<serverClock, starts, keyConfig, phase, generated, privateKeys, publicKeys, issued>>

-----------------------------------------------------------------------------
(* An identifier may be blank, or have a space before or after it.         *)

KeyIDs == {"a", "b"}
TrimSpace(id) == IF id \in {"", " "} THEN "" ELSE IF id = " a" THEN "a" ELSE id
ValidID(id) == TrimSpace(id) # "" /\ TrimSpace(id) = id

\* A resource has a pair, only a public key, or cannot be read.
Resources == {"pair", "public", "unreadable"}
Configurations ==
    {[keys |-> k, generate |-> g] :
        k \in UNION {[ids -> Resources] : ids \in {{}, {"a"}}}
              \cup {[id \in {" a"} |-> "pair"], [id \in {"a", "b"} |-> "pair"]},
        g \in {<<>>, <<"b">>, <<"b", "b">>, <<"a">>, <<" ">>}}
NoConfiguration == [keys |-> <<>>, generate |-> <<>>]

\* Mutant: an identifier may be in both lists.
ValidateAmbiguous(c) ==
    /\ DOMAIN c.keys # {} \/ c.generate # <<>>
    /\ \A id \in DOMAIN c.keys : ValidID(id)
    /\ \A i \in DOMAIN c.generate : ValidID(c.generate[i])

Validate(c) ==
    /\ DOMAIN c.keys # {} \/ c.generate # <<>>
    /\ \A id \in DOMAIN c.keys : ValidID(id)
    /\ \A i \in DOMAIN c.generate : ValidID(c.generate[i]) /\ c.generate[i] \notin DOMAIN c.keys

\* A key, by where it comes from: a resource always has the same.
Loaded(id) == [id |-> id, from |-> "resource", start |-> 0, nth |-> 0]
Generated(id, nth) == [id |-> id, from |-> "generate", start |-> starts, nth |-> nth]
With(f, id, v) == [i \in DOMAIN f \cup {id} |-> IF i = id THEN v ELSE f[i]]

-----------------------------------------------------------------------------
(* Requests for a token.  A date is absent, blank, a duration, an absolute *)
(* time, or text that cannot be parsed; claims may come in the body.       *)

Absent == [form |-> "absent"]
Blank == [form |-> "blank"]
Duration(d) == [form |-> "duration", duration |-> d]
Absolute(t) == [form |-> "absolute", absolute |-> t]
Unparseable == [form |-> "unparseable"]

\* A duration of zero is what a blank is stored as.
IsZero(date) == date.form = "blank" \/ (date.form = "duration" /\ date.duration = 0)
Compute(date, now) == IF date.form = "duration" THEN now + date.duration ELSE date.absolute
DateClaim(date, default, now, inBody) ==
    IF date = Absent THEN inBody
    ELSE IF IsZero(date) THEN now + default
    ELSE Compute(date, now)

NoClaim == -1
NoClaims == [iss |-> "none", iat |-> NoClaim, exp |-> NoClaim, nbf |-> NoClaim]
Bodies == {NoClaims, [iss |-> "other", iat |-> 0, exp |-> 0, nbf |-> NoClaim]}
IssueRequests ==
    [kid : KeyIDs \cup {""}, exp : {Absent, Blank, Duration(0), Duration(1), Absolute(0), Unparseable},
     nbf : {Absent, Blank, Duration(1)}, alg : {"supported", "unsupported"}, readable : BOOLEAN,
     body : Bodies]

NewIssueRequest(r) == r.kid # "" /\ Unparseable \notin {r.exp, r.nbf} /\ r.alg = "supported"

AddToClaims(r, now) ==
    [iss |-> r.body.iss, iat |-> now,
     exp |-> DateClaim(r.exp, DefaultExpire, now, r.body.exp),
     nbf |-> DateClaim(r.nbf, DefaultNotBefore, now, r.body.nbf)]

-----------------------------------------------------------------------------
TypeOK ==
    /\ serverClock \in 0..MaxServerTime /\ starts \in 0..MaxServerStarts
    /\ phase \in {"down", "resolving", "generating", "serving"}
    /\ generated \in 0..Len(keyConfig.generate)
    /\ DOMAIN publicKeys \subseteq DOMAIN privateKeys

Init ==
    /\ serverClock = 0 /\ starts = 0 /\ keyConfig = NoConfiguration
    /\ phase = "down" /\ generated = 0
    /\ privateKeys = <<>> /\ publicKeys = <<>> /\ issued = {}

Tick ==
    /\ serverClock < MaxServerTime /\ phase = "serving"
    /\ serverClock' = serverClock + 1
    /\ UNCHANGED <<starts, keyConfig, phase, generated, privateKeys, publicKeys, issued>>

\* Nothing is kept from one start to the next but the configuration file.
\* One that is not valid ends the program.
Start ==
    /\ phase = "down" /\ starts < MaxServerStarts
    /\ starts' = starts + 1
    /\ IF starts = 0 THEN keyConfig' \in Configurations ELSE UNCHANGED keyConfig
    /\ phase' = IF Validate(keyConfig') THEN "resolving" ELSE "down"
    /\ generated' = 0 /\ privateKeys' = <<>> /\ publicKeys' = <<>>
    /\ UNCHANGED <<serverClock, issued>>

\* One turn of the loop in resolveKeys, over a map.
resolveKeys ==
    /\ phase = "resolving"
    /\ \E id \in DOMAIN keyConfig.keys \ DOMAIN privateKeys :
          IF keyConfig.keys[id] = "pair"
          THEN privateKeys' = With(privateKeys, id, Loaded(id)) /\ UNCHANGED phase
          ELSE phase' = "down" /\ UNCHANGED privateKeys
    /\ UNCHANGED <<serverClock, starts, keyConfig, generated, publicKeys, issued>>

Resolved ==
    /\ phase = "resolving" /\ DOMAIN keyConfig.keys \subseteq DOMAIN privateKeys
    /\ phase' = "generating"
    /\ UNCHANGED <<serverClock, starts, keyConfig, generated, privateKeys, publicKeys, issued>>

\* An identifier that is listed twice is generated twice.
generateKeys ==
    LET id == keyConfig.generate[generated + 1]
    IN  /\ phase = "generating" /\ generated < Len(keyConfig.generate)
        /\ generated' = generated + 1
        /\ privateKeys' = With(privateKeys, id, Generated(id, generated + 1))
        /\ UNCHANGED <<serverClock, starts, keyConfig, phase, publicKeys, issued>>

GenerateFails ==
    /\ phase = "generating" /\ generated < Len(keyConfig.generate)
    /\ phase' = "down"
    /\ UNCHANGED <<serverClock, starts, keyConfig, generated, privateKeys, publicKeys, issued>>

\* The public half of each key, once all the private ones are there.
marshalPublicKeys ==
    /\ phase = "generating" /\ generated = Len(keyConfig.generate)
    /\ publicKeys' = privateKeys
    /\ phase' = "serving"
    /\ UNCHANGED <<serverClock, starts, keyConfig, generated, privateKeys, issued>>

Stop ==
    /\ phase # "down"
    /\ phase' = "down"
    /\ UNCHANGED <<serverClock, starts, keyConfig, generated, privateKeys, publicKeys, issued>>

\* Mutant: the claims of the body are laid over those of the request.
IssueBodyLast(r) ==
    /\ phase = "serving" /\ Cardinality(issued) < MaxIssued
    /\ NewIssueRequest(r) /\ r.readable /\ r.kid \in DOMAIN privateKeys
    /\ issued' = issued \cup {[kid |-> r.kid, signedWith |-> privateKeys[r.kid], start |-> starts,
                               request |-> r, at |-> serverClock,
                               claims |-> IF r.body # NoClaims THEN r.body
                                          ELSE [AddToClaims(r, serverClock) EXCEPT !.iss = "server"]]}
    /\ UNCHANGED <<serverClock, starts, keyConfig, phase, generated, privateKeys, publicKeys>>

\* A token is issued; a request that is not good, a body that cannot be read
\* or a key that is not there is answered with an error and changes nothing.
Issue(r) ==
    /\ phase = "serving" /\ Cardinality(issued) < MaxIssued
    /\ NewIssueRequest(r) /\ r.readable /\ r.kid \in DOMAIN privateKeys
    /\ issued' = issued \cup {[kid |-> r.kid, signedWith |-> privateKeys[r.kid], start |-> starts,
                               request |-> r, at |-> serverClock,
                               claims |-> [AddToClaims(r, serverClock) EXCEPT !.iss = "server"]]}
    /\ UNCHANGED <<serverClock, starts, keyConfig, phase, generated, privateKeys, publicKeys>>

Next ==
    \/ Tick \/ Start \/ resolveKeys \/ Resolved \/ generateKeys \/ GenerateFails
    \/ marshalPublicKeys \/ Stop
    \/ \E r \in IssueRequests : Issue(r)

Spec == Init /\ [][Next]_vars

-----------------------------------------------------------------------------
\* The public key served under the identifier a token names is the one its
\* signature verifies with: for as long as the server runs, and across starts
\* when the key comes from a resource.
IssuedVerifies ==
    phase = "serving" =>
        \A t \in issued :
            (t.start = starts \/ t.kid \in DOMAIN keyConfig.keys) =>
                t.kid \in DOMAIN publicKeys /\ publicKeys[t.kid] = t.signedWith

\* The server has the last word on issuer, time of issue and the dates that
\* were asked for; a date nobody asked for stays as the body has it.
ServerClaimsWin ==
    \A t \in issued :
        /\ t.claims.iss = "server" /\ t.claims.iat = t.at
        /\ t.request.exp = Absent => t.claims.exp = t.request.body.exp
        /\ t.request.exp.form = "duration" => t.claims.exp > t.at
        /\ t.request.nbf # Absent => t.claims.nbf > t.at
=============================================================================
