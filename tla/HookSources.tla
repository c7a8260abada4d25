---------------------------- MODULE HookSources -----------------------------
(***************************************************************************)
(* Where webhooks come from besides notifications: the list a server asks  *)
(* its peers for when it starts (webhook/start.go, with the conversion of  *)
(* hooks in the old format), and the store behind xwebhook, which keeps    *)
(* the subscriptions in argus and polls it for its watches.                *)
(***************************************************************************)
EXTENDS Integers, Sequences, FiniteSets

CONSTANTS
    MaxFetches,      \* bound: requests for the list
    Owners, HookURLs, Secrets,
    Lifetime,        \* defaultWebhookExpiration
    MaxArgusTime,    \* bound: the clock
    Obfuscated

VARIABLES
    start,           \* GetCurrentSystemsHooks: stage, token, timer, fetches
    pending,         \* getHooksChan: the results in it
    startHooks,      \* the variable hooks
    delivered,       \* what was sent on rc
    argus,           \* argus: owner and URL -> item, or NoItem
    argusClock,
    poll,            \* the listener: the webhooks it decoded, and its next watch
    watched,         \* what the first watch was told
    sizeGauge,       \* the second one
    listing          \* the last answer of the handler that lists

startVars == <<start, pending, startHooks, delivered>>
argusVars == <<argus, argusClock, poll, watched, sizeGauge, listing>>
vars == <<startVars, argusVars>>

-----------------------------------------------------------------------------
(* Hooks at start.  A hook is its expiration; one without URL or events    *)
(* does not pass sanitize.                                                 *)

Answers == {"transport", "status", "garbage", "empty", "partial", "old", "oldInvalid", "hooks"}

\* oldToNewHookConversion ends in sanitize, which sets the duration again.
ConvertOldHooksToNewHooks(answer) ==
    IF answer = "old" THEN [hooks |-> {"converted"}, err |-> FALSE]
    ELSE [hooks |-> {}, err |-> TRUE]

\* The outcome of one request: an error of makeRequest or getPayload leaves
\* an empty body, which does not parse; a list that fails half way leaves the
\* hooks before the failure in the variable.
Parsed(answer, before) ==
    CASE answer \in {"transport", "status", "garbage"} -> [hooks |-> before, err |-> TRUE]
      [] answer = "empty" -> [hooks |-> {}, err |-> FALSE]
      [] answer = "partial" -> [hooks |-> {"stray"}, err |-> TRUE]
      [] answer = "hooks" -> [hooks |-> {"current"}, err |-> FALSE]
      [] OTHER -> ConvertOldHooksToNewHooks(answer)

StartTypeOK ==
    /\ start.stage \in {"idle", "authorize", "fetch", "select", "done"}
    /\ start.fetches \in 0..MaxFetches
    /\ Len(pending) <= 1 /\ Len(delivered) <= 1

StartInit ==
    /\ start = [stage |-> "idle", token |-> FALSE, timer |-> FALSE, fetches |-> 0]
    /\ pending = <<>> /\ startHooks = {} /\ delivered = <<>>

Deliver(r) == delivered' = Append(delivered, r) /\ start' = [start EXCEPT !.stage = "done"]

GetCurrentSystemsHooks ==
    /\ start.stage = "idle"
    /\ \E token \in BOOLEAN :
          start' = [start EXCEPT !.token = token, !.stage = IF token THEN "fetch" ELSE "authorize"]
    /\ UNCHANGED <<pending, startHooks, delivered>>

\* Without a token one is asked for first, once.
GetAuthorization ==
    /\ start.stage = "authorize"
    /\ \/ /\ start' = [start EXCEPT !.token = TRUE, !.stage = "fetch"]
          /\ UNCHANGED delivered
       \/ Deliver([hooks |-> startHooks, err |-> TRUE])
    /\ UNCHANGED <<pending, startHooks>>

\* fn runs in the same goroutine; its result is in the channel when the
\* select begins.  Requests beyond the bound find no peer.
Fetch(answer) ==
    /\ start.stage = "fetch"
    /\ start.fetches = MaxFetches => answer = "transport"
    /\ start' = [start EXCEPT !.stage = "select",
                              !.fetches = IF @ < MaxFetches THEN @ + 1 ELSE @]
    /\ pending' = Append(pending, Parsed(answer, startHooks))
    /\ startHooks' = Parsed(answer, startHooks).hooks
    /\ UNCHANGED delivered

TimerFires ==
    /\ start.stage \in {"fetch", "select"} /\ ~start.timer
    /\ start' = [start EXCEPT !.timer = TRUE]
    /\ UNCHANGED <<pending, startHooks, delivered>>

\* Mutant: a list that is empty will do.
ReceivedAny ==
    /\ start.stage = "select"
    /\ pending' = <<>>
    /\ IF Head(pending).err
       THEN start' = [start EXCEPT !.stage = "fetch"] /\ UNCHANGED delivered
       ELSE Deliver(Head(pending))
    /\ UNCHANGED startHooks

Received ==
    /\ start.stage = "select"
    /\ pending' = <<>>
    /\ IF Head(pending).err \/ Head(pending).hooks = {}
       THEN start' = [start EXCEPT !.stage = "fetch"] /\ UNCHANGED delivered
       ELSE Deliver(Head(pending))
    /\ UNCHANGED startHooks

TimedOut ==
    /\ start.stage = "select" /\ start.timer
    /\ Deliver([hooks |-> startHooks, err |-> TRUE])
    /\ UNCHANGED <<pending, startHooks>>

StartStep == GetAuthorization \/ Received \/ TimedOut \/ \E answer \in Answers : Fetch(answer)

StartNext == (GetCurrentSystemsHooks \/ TimerFires \/ StartStep) /\ UNCHANGED argusVars

-----------------------------------------------------------------------------
(* xwebhook                                                                *)

NoItem == [data |-> "none"]
\* The owner tells equal hooks of two owners apart.
Webhook(o, url, secret, until) == [owner |-> o, url |-> url, secret |-> secret, until |-> until]

ArgusTypeOK ==
    /\ argusClock \in 0..MaxArgusTime
    /\ \A o \in Owners, u \in HookURLs : argus[o, u].data \in {"none", "hook", "other"}
    /\ poll.stage \in {"idle", "first", "second"}
    /\ sizeGauge \in Nat

ArgusInit ==
    /\ argus = [key \in Owners \X HookURLs |-> NoItem]
    /\ argusClock = 0
    /\ poll = [stage |-> "idle", hooks |-> {}]
    /\ watched = {} /\ sizeGauge = 0 /\ listing = {}

\* Items live as long as their TTL says.
ArgusTick ==
    /\ argusClock < MaxArgusTime
    /\ argusClock' = argusClock + 1
    /\ argus' = [key \in DOMAIN argus |->
                    IF argus[key].data # "none" /\ argus[key].expires <= argusClock'
                    THEN NoItem ELSE argus[key]]
    /\ UNCHANGED <<poll, watched, sizeGauge, listing>>

\* The bucket may hold an item that is no webhook.
OtherItem(o, u) ==
    /\ argus[o, u] = NoItem
    /\ argus' = [argus EXCEPT ![o, u] = [data |-> "other", expires |-> argusClock + Lifetime]]
    /\ UNCHANGED <<argusClock, poll, watched, sizeGauge, listing>>

\* validateWebhook: a hook without an end gets one; the duration, and with it
\* the TTL, is always the default.
ValidateWebhook(o, u, secret, until) ==
    Webhook(o, u, secret, IF until = 0 THEN argusClock + Lifetime ELSE until)

WebhookToItem(w) == [data |-> "hook", hook |-> w, expires |-> argusClock + Lifetime]

\* The item's identifier is a digest of the URL: a second hook of an owner for
\* it replaces the first.  A request that does not decode, has no URL or no
\* events, or that argus refuses, changes nothing.
Add(o, u, secret, until) ==
    /\ argus' = [argus EXCEPT ![o, u] = WebhookToItem(ValidateWebhook(o, u, secret, until))]
    /\ UNCHANGED <<argusClock, poll, watched, sizeGauge, listing>>

\* Without an owner, argus returns the items of all.
GetItems(owner) == {argus[key] : key \in {k \in DOMAIN argus : owner \in {"", k[1]} /\ argus[k].data # "none"}}

\* Items that do not decode are skipped.
ItemsToWebhooks(items) == {i.hook : i \in {j \in items : j.data = "hook"}}

\* Mutant: the secrets stay.
ObfuscateNone(hooks) == hooks

ObfuscateSecrets(hooks) == {[h EXCEPT !.secret = Obfuscated] : h \in hooks}

AllWebhooks(owner) ==
    /\ listing' = ObfuscateSecrets(ItemsToWebhooks(GetItems(owner)))
    /\ UNCHANGED <<argus, argusClock, poll, watched, sizeGauge>>

\* The listener, each time argus was polled: it tells the watches in turn.
Poll ==
    /\ poll.stage = "idle"
    /\ poll' = [stage |-> "first", hooks |-> ItemsToWebhooks(GetItems(""))]
    /\ UNCHANGED <<argus, argusClock, watched, sizeGauge, listing>>

UpdateFirst ==
    /\ poll.stage = "first"
    /\ watched' = poll.hooks
    /\ poll' = [poll EXCEPT !.stage = "second"]
    /\ UNCHANGED <<argus, argusClock, sizeGauge, listing>>

WebhookListSizeWatch ==
    /\ poll.stage = "second"
    /\ sizeGauge' = Cardinality(poll.hooks)
    /\ poll' = [poll EXCEPT !.stage = "idle"]
    /\ UNCHANGED <<argus, argusClock, watched, listing>>

ArgusNext ==
    (\/ ArgusTick \/ Poll \/ UpdateFirst \/ WebhookListSizeWatch
     \/ \E o \in Owners, u \in HookURLs :
           \/ OtherItem(o, u)
           \/ \E secret \in Secrets, until \in 0..1 : Add(o, u, secret, until)
     \/ \E o \in Owners \cup {""} : AllWebhooks(o))
    /\ UNCHANGED startVars

Init == StartInit /\ ArgusInit
Next == StartNext \/ ArgusNext

-----------------------------------------------------------------------------
\* GetCurrentSystemsHooks answers once, and an answer without an error is the
\* list of a request that succeeded: not empty, and nothing left over from a
\* request that failed.
StartHonest ==
    /\ Len(delivered) <= 1
    /\ \A i \in DOMAIN delivered :
          ~delivered[i].err => delivered[i].hooks \in {{"current"}, {"converted"}}

\* It has not answered.
Starting == start.stage \notin {"idle", "done"}

\* The watches are told the secrets hooks were registered with, while no
\* listing shows one; and between polls the watches agree.
WatchesAgree ==
    /\ \A h \in listing : h.secret = Obfuscated
    /\ \A h \in watched : h.secret \in Secrets
    /\ poll.stage = "idle" => sizeGauge = Cardinality(watched)
=============================================================================
