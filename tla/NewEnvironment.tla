--------------------------- MODULE NewEnvironment ---------------------------
(***************************************************************************)
(* How a service discovery environment is built from its options:          *)
(* service/servicecfg chooses the backend, service/zk and service/consul   *)
(* make the client, the instancers and the registrars, any step of which   *)
(* may fail, and service/environment.go then registers and closes them.    *)
(***************************************************************************)
EXTENDS Integers, Sequences, FiniteSets

CONSTANTS
    Watches,        \* set of sequences of watches [name, cross]
    Registrations,  \* set of sequences of registrations [id, scheme, address, port]
    Catalog,        \* consul's datacenters
    MaxRetries      \* datacenterRetries

VARIABLES
    options,        \* [kind, scheme, generate, watches, registrations]
    setup,          \* how far NewEnvironment is
    position,       \* in the list it works through
    sdClient,       \* the backend's client
    datacenters, tries,
    watching,       \* key -> "running" or "stopped", for each instancer made
    registrar,      \* instance -> the registration its registrar was made with
    loopVariable,   \* consul: what the registrars' pointer refers to
    backend         \* the registrations the backend holds

vars == <<options, setup, position, sdClient, datacenters, tries, watching, registrar,
          loopVariable, backend>>

-----------------------------------------------------------------------------
(* Instances                                                               *)

NoPort == -1
DefaultScheme == "https"
DefaultPort(scheme) ==
    CASE scheme \in {"http", "HTTP"} -> 80 [] scheme \in {"https", "HTTPS"} -> 443 [] OTHER -> NoPort

FormatInstance(scheme, address, port) ==
    LET s == IF scheme = "" THEN DefaultScheme ELSE scheme
    IN  [scheme |-> s, address |-> address,
         port |-> IF port > 0 /\ port # DefaultPort(s) THEN port ELSE NoPort]

Invalid == [invalid |-> TRUE]

\* Mutant: the scheme is added and the rest left as it was found.
NormalizeInstancePrefix(defaultScheme, i) ==
    IF i.address = "" THEN Invalid
    ELSE [i EXCEPT !.scheme = IF i.scheme = "" THEN DefaultScheme ELSE i.scheme]

NormalizeInstance(defaultScheme, i) ==
    IF i.address = "" THEN Invalid
    ELSE FormatInstance(IF i.scheme = "" THEN defaultScheme ELSE i.scheme, i.address, i.port)

\* consul reports an address and a port, the node's address when the service
\* has none; zookeeper reports what the registrar wrote.
Discovered(kind, instance, r) ==
    IF kind = "zk" THEN instance
    ELSE [scheme |-> "", address |-> IF r.address = "" THEN "node" ELSE r.address, port |-> r.port]

-----------------------------------------------------------------------------
(* Options                                                                 *)

\* zk: an address, a port and a scheme of their own when there are none.
ZkInstance(r) ==
    FormatInstance(IF r.scheme = "" THEN "http" ELSE r.scheme,
                   IF r.address = "" THEN "localhost" ELSE r.address,
                   IF r.port > 0 THEN r.port ELSE 8080)

\* servicecfg: the scheme of the environment; consul's registrations take the
\* option as it is.
EnvironmentScheme == IF options.scheme = "" THEN DefaultScheme ELSE options.scheme

InstanceOf(r) ==
    IF options.kind = "zk" THEN ZkInstance(r) ELSE FormatInstance(options.scheme, r.address, r.port)

NoOptions == [kind |-> "none", scheme |-> "", generate |-> FALSE, watches |-> <<>>, registrations |-> <<>>]

Schemes == {"", "http", "HTTP"}
Keys == {<<w.name, dc>> : w \in UNION {{ws[i] : i \in DOMAIN ws} : ws \in Watches},
                          dc \in Catalog \cup {""}}

TypeOK ==
    /\ options.kind \in {"none", "fixed", "zk", "consul"}
    /\ setup \in {"new", "client", "instancers", "datacenters", "registrars",
                  "ready", "registered", "closed", "failed"}
    /\ sdClient \in {"none", "open", "stopped"}
    /\ datacenters \subseteq Catalog /\ tries \in 0..MaxRetries
    /\ DOMAIN watching \subseteq Keys \cup {<<"fixed", "">>}
    /\ \A k \in DOMAIN watching : watching[k] \in {"running", "stopped"}

Init ==
    /\ options = NoOptions /\ setup = "new" /\ position = 0
    /\ sdClient = "none" /\ datacenters = {} /\ tries = 0
    /\ watching = <<>> /\ registrar = <<>>
    /\ loopVariable = [id |-> "none"] /\ backend = {}

With(f, k, v) == [x \in DOMAIN f \cup {k} |-> IF x = k THEN v ELSE f[x]]
Stopped == [k \in DOMAIN watching |-> "stopped"]

-----------------------------------------------------------------------------
(* servicecfg.NewEnvironment.  The configuration may name several          *)
(* backends; a fixed list wins, then zookeeper, then consul.               *)

Chosen(kinds) ==
    IF "fixed" \in kinds THEN "fixed" ELSE IF "zk" \in kinds THEN "zk"
    ELSE IF "consul" \in kinds THEN "consul" ELSE "none"

Unmarshal ==
    /\ setup = "new"
    /\ \E kinds \in SUBSET {"fixed", "zk", "consul"}, scheme \in Schemes,
          generate \in BOOLEAN, ws \in Watches, rs \in Registrations :
          /\ options' = [kind |-> Chosen(kinds), scheme |-> scheme, generate |-> generate,
                         watches |-> ws, registrations |-> rs]
          /\ setup' = CASE Chosen(kinds) = "fixed" -> "ready"
                        [] Chosen(kinds) = "none" \/ (ws = <<>> /\ rs = <<>>) -> "failed"
                        [] OTHER -> "client"
          /\ watching' = IF Chosen(kinds) = "fixed" THEN With(watching, <<"fixed", "">>, "running")
                         ELSE watching
    /\ UNCHANGED <<position, sdClient, datacenters, tries, registrar, loopVariable, backend>>

UnmarshalFails ==
    /\ setup = "new"
    /\ setup' = "failed"
    /\ UNCHANGED <<options, position, sdClient, datacenters, tries, watching, registrar,
                   loopVariable, backend>>

\* zookeeper makes its instancers first, consul its registrars.
NewClient ==
    /\ setup = "client"
    /\ \/ setup' = "failed" /\ UNCHANGED sdClient
       \/ /\ sdClient' = "open"
          /\ setup' = IF options.kind = "zk" THEN "instancers" ELSE "registrars"
    /\ position' = 1
    /\ UNCHANGED <<options, datacenters, tries, watching, registrar, loopVariable, backend>>

-----------------------------------------------------------------------------
(* Instancers                                                              *)

InstancersDone ==
    /\ setup = "instancers" /\ position > Len(options.watches)
    /\ setup' = IF options.kind = "zk" THEN "registrars" ELSE "ready"
    /\ position' = 1
    /\ UNCHANGED <<options, sdClient, datacenters, tries, watching, registrar, loopVariable, backend>>

Watch == options.watches[position]

\* Mutant: an instancer that fails leaves the ones before it.
ZkInstancerForgets ==
    /\ setup = "instancers" /\ options.kind = "zk" /\ position <= Len(options.watches)
    /\ \/ setup' = "failed" /\ UNCHANGED <<watching, sdClient, position>>
       \/ /\ watching' = With(watching, <<Watch.name, "">>, "running")
          /\ position' = position + 1
          /\ UNCHANGED <<setup, sdClient>>
    /\ UNCHANGED <<options, datacenters, tries, registrar, loopVariable, backend>>

\* A path that is watched already is skipped.  When an instancer cannot be
\* made those before it are stopped, and the client with them.
ZkInstancer ==
    /\ setup = "instancers" /\ options.kind = "zk" /\ position <= Len(options.watches)
    /\ \/ /\ <<Watch.name, "">> \in DOMAIN watching
          /\ position' = position + 1
          /\ UNCHANGED <<setup, watching, sdClient>>
       \/ /\ <<Watch.name, "">> \notin DOMAIN watching
          /\ \/ /\ setup' = "failed" /\ sdClient' = "stopped" /\ watching' = Stopped
                /\ UNCHANGED position
             \/ /\ watching' = With(watching, <<Watch.name, "">>, "running")
                /\ position' = position + 1
                /\ UNCHANGED <<setup, sdClient>>
    /\ UNCHANGED <<options, datacenters, tries, registrar, loopVariable, backend>>

KeysOf(w) == IF w.cross THEN {<<w.name, dc>> : dc \in datacenters} ELSE {<<w.name, "">>}

\* One instancer for each key that is not there yet; a cross watch needs the
\* datacenters, which are asked for once.
ConsulInstancer ==
    /\ setup = "instancers" /\ options.kind = "consul" /\ position <= Len(options.watches)
    /\ IF Watch.cross /\ datacenters = {}
       THEN /\ setup' = "datacenters" /\ tries' = 0
            /\ UNCHANGED <<watching, position>>
       ELSE /\ watching' = [k \in DOMAIN watching \cup KeysOf(Watch) |-> "running"]
            /\ position' = position + 1
            /\ UNCHANGED <<setup, tries>>
    /\ UNCHANGED <<options, sdClient, datacenters, registrar, loopVariable, backend>>

\* getDatacenters: one attempt, and then MaxRetries more.  Its error ends
\* NewEnvironment, which does not stop the instancers made so far.
GetDatacenters ==
    /\ setup = "datacenters"
    /\ \/ setup' = "instancers" /\ datacenters' = Catalog /\ UNCHANGED tries
       \/ /\ tries < MaxRetries /\ tries' = tries + 1
          /\ UNCHANGED <<setup, datacenters>>
       \/ /\ tries = MaxRetries /\ setup' = "failed"
          /\ UNCHANGED <<tries, datacenters>>
    /\ UNCHANGED <<options, position, sdClient, watching, registrar, loopVariable, backend>>

-----------------------------------------------------------------------------
(* Registrars.  zookeeper's hold their own data; consul's hold a pointer   *)
(* to the loop's variable, so that what they register is what the variable *)
(* held last.                                                              *)

RegistrarsDone ==
    /\ setup = "registrars" /\ position > Len(options.registrations)
    /\ setup' = IF options.kind = "zk" THEN "ready" ELSE "instancers"
    /\ position' = 1
    /\ UNCHANGED <<options, sdClient, datacenters, tries, watching, registrar, loopVariable, backend>>

Registration == options.registrations[position]

\* Unless the options say not to.
EnsureIDs(r) == IF options.generate /\ r.id = "" THEN [r EXCEPT !.id = "generated"] ELSE r

\* A registration whose instance is there already is skipped.
ZkRegistrar ==
    /\ setup = "registrars" /\ options.kind = "zk" /\ position <= Len(options.registrations)
    /\ registrar' = IF InstanceOf(Registration) \in DOMAIN registrar THEN registrar
                    ELSE With(registrar, InstanceOf(Registration), Registration)
    /\ position' = position + 1
    /\ UNCHANGED <<options, setup, sdClient, datacenters, tries, watching, loopVariable, backend>>

\* The same, but for the pointer; and a TTL that cannot be parsed or is too
\* small ends NewEnvironment.
ConsulRegistrar ==
    /\ setup = "registrars" /\ options.kind = "consul" /\ position <= Len(options.registrations)
    /\ \/ /\ InstanceOf(Registration) \in DOMAIN registrar
          /\ loopVariable' = Registration
          /\ position' = position + 1 /\ UNCHANGED <<setup, registrar>>
       \/ /\ InstanceOf(Registration) \notin DOMAIN registrar
          /\ loopVariable' = EnsureIDs(Registration)
          /\ \/ /\ registrar' = With(registrar, InstanceOf(Registration), EnsureIDs(Registration))
                /\ position' = position + 1 /\ UNCHANGED setup
             \/ setup' = "failed" /\ UNCHANGED <<position, registrar>>
    /\ UNCHANGED <<options, sdClient, datacenters, tries, watching, backend>>

-----------------------------------------------------------------------------
Registered ==
    IF options.kind = "consul" /\ DOMAIN registrar # {} THEN {loopVariable}
    ELSE {registrar[i] : i \in DOMAIN registrar}

Register ==
    /\ setup = "ready"
    /\ setup' = "registered"
    /\ backend' = backend \cup Registered
    /\ UNCHANGED <<options, position, sdClient, datacenters, tries, watching, registrar, loopVariable>>

Deregister ==
    /\ setup = "registered"
    /\ setup' = "ready"
    /\ backend' = backend \ Registered
    /\ UNCHANGED <<options, position, sdClient, datacenters, tries, watching, registrar, loopVariable>>

\* The closer stops zookeeper's client; consul has none.
Close ==
    /\ setup \in {"ready", "registered"}
    /\ setup' = "closed"
    /\ backend' = backend \ Registered
    /\ watching' = Stopped
    /\ sdClient' = IF options.kind = "zk" THEN "stopped" ELSE sdClient
    /\ UNCHANGED <<options, position, datacenters, tries, registrar, loopVariable>>

Next ==
    \/ Unmarshal \/ UnmarshalFails \/ NewClient
    \/ InstancersDone \/ ZkInstancer \/ ConsulInstancer \/ GetDatacenters
    \/ RegistrarsDone \/ ZkRegistrar \/ ConsulRegistrar
    \/ Register \/ Deregister \/ Close

-----------------------------------------------------------------------------
\* After a failed construction with zookeeper, and after Close with either
\* backend, no instancer runs, nothing is registered and zookeeper's client
\* is not left open.
NothingLeft ==
    setup = "closed" \/ (setup = "failed" /\ options.kind = "zk") =>
        /\ \A k \in DOMAIN watching : watching[k] = "stopped"
        /\ backend = {}
        /\ options.kind = "zk" => sdClient # "open"

\* A process recognises itself: what the backend reports of a registration
\* that has an address, normalised as the monitors do, is the instance that
\* IsRegistered knows.
SelfRecognised ==
    \A i \in DOMAIN registrar :
        options.kind = "zk" \/ registrar[i].address # "" =>
            NormalizeInstance(EnvironmentScheme, Discovered(options.kind, i, registrar[i])) = i

\* environment.go: IsRegistered tests if the given instance is registered in
\* this environment.  Once Register was called, each of these instances is.
RegistersItsInstances ==
    setup = "registered" =>
        \A i \in DOMAIN registrar : \E held \in backend :
            held.address = registrar[i].address /\ held.port = registrar[i].port
=============================================================================
