------------------------------ MODULE Webhooks ------------------------------
(***************************************************************************)
(* The list of webhooks (webhook/webhook.go), the monitor that alone       *)
(* changes it (factory.go), the handler that turns notifications into      *)
(* updates, and the registry's GetRegistry (handler.go) that reads it.     *)
(* A hook is its URL, the number of the message that brought it, standing  *)
(* for its matcher, events and config, and the time it ends.               *)
(***************************************************************************)
EXTENDS Integers, Sequences, SequencesExt

CONSTANTS
    URLs,
    Readers,       \* requests for the registry
    ChangesSize,   \* capacity of the changes channel, 10 in the code
    Duration,      \* of a hook that names no end
    MaxHookTime,   \* bound: the clock
    MaxMessages,   \* bound: notifications
    MaxPrunes      \* bound: ticks of the undertaker

VARIABLES
    list,          \* the stored slice
    changes,       \* the changes channel
    hookClock,
    messages,      \* notifications so far
    prunes,        \* ticks so far
    update,        \* the update the monitor handles: a sequence of at most one
    applied,       \* of each URL: the last update the monitor handled
    reader,        \* of each reader: its index, and its stage
    listSize, unmarshallFailed   \* the metrics

monitorVars == <<list, changes, update, applied, prunes>>
meters == <<listSize, unmarshallFailed>>
vars == <<monitorVars, hookClock, messages, reader, meters>>

Hooks == [url : URLs, message : 1..MaxMessages, until : 0..(MaxHookTime + Duration)]
None == [message |-> 0]

TypeOK ==
    /\ list \in Seq(Hooks)
    /\ changes \in Seq(Hooks) /\ Len(changes) <= ChangesSize
    /\ hookClock \in 0..MaxHookTime
    /\ messages \in 0..MaxMessages
    /\ prunes \in 0..MaxPrunes
    /\ update \in Seq(Hooks) /\ Len(update) <= 1
    /\ applied \in [URLs -> Hooks \cup {None}]
    /\ reader \in [Readers -> [stage : {"idle", "get", "panic"}, i : Nat]]
    /\ listSize \in Nat /\ unmarshallFailed \in Nat

Init ==
    /\ list = <<>> /\ changes = <<>>
    /\ hookClock = 0 /\ messages = 0 /\ prunes = 0
    /\ update = <<>>
    /\ applied = [u \in URLs |-> None]
    /\ reader = [r \in Readers |-> [stage |-> "idle", i |-> 1]]
    /\ listSize = 0 /\ unmarshallFailed = 0

HookTick ==
    /\ hookClock < MaxHookTime
    /\ hookClock' = hookClock + 1
    /\ UNCHANGED <<monitorVars, messages, reader, meters>>

-----------------------------------------------------------------------------
(* monitor.ServeHTTP                                                       *)

\* NewW and doOldHookConvert end in sanitize: a hook without an end gets one.
\* The lifetime an old hook asks for is overwritten there.
Sanitized(url, until) ==
    [url |-> url, message |-> messages + 1,
     until |-> IF until = 0 THEN hookClock + Duration ELSE until]

\* sendNewHooks: an update that finds the channel full is dropped.
Notified(url, until) ==
    /\ messages < MaxMessages
    /\ messages' = messages + 1
    /\ changes' = IF Len(changes) < ChangesSize
                  THEN Append(changes, Sanitized(url, until)) ELSE changes
    /\ listSize' = Len(list)
    /\ UNCHANGED <<list, update, applied, prunes, hookClock, reader, unmarshallFailed>>

\* Neither format parses: 400.
NotUnderstood ==
    /\ messages < MaxMessages
    /\ messages' = messages + 1
    /\ unmarshallFailed' = unmarshallFailed + 1
    /\ UNCHANGED <<monitorVars, hookClock, reader, listSize>>

-----------------------------------------------------------------------------
(* monitor.listen                                                          *)

Receive ==
    /\ update = <<>> /\ changes # <<>>
    /\ update' = <<Head(changes)>>
    /\ changes' = Tail(changes)
    /\ UNCHANGED <<list, applied, prunes, hookClock, messages, reader, meters>>

\* updatableList.Update: a hook that still has time replaces the one with its
\* URL, or is added at the end.
Updated(old, hook) ==
    IF hook.until <= hookClock THEN old
    ELSE IF \E i \in DOMAIN old : old[i].url = hook.url
    THEN [i \in DOMAIN old |-> IF old[i].url = hook.url THEN hook ELSE old[i]]
    ELSE Append(old, hook)

\* The external update follows, with the same hooks.
Update ==
    /\ update # <<>>
    /\ list' = Updated(list, update[1])
    /\ applied' = IF update[1].until > hookClock
                  THEN [applied EXCEPT ![update[1].url] = update[1]] ELSE applied
    /\ update' = <<>>
    /\ UNCHANGED <<changes, prunes, hookClock, messages, reader, meters>>

\* The undertaker's filter: the hooks that still have time.
Prune(items) == SelectSeq(items, LAMBDA h : h.until > hookClock)

\* Mutant: the undertaker keeps the hooks whose time is over and drops the rest.
FilterInverted ==
    /\ update = <<>>
    /\ prunes < MaxPrunes
    /\ prunes' = prunes + 1
    /\ list' = SelectSeq(list, LAMBDA h : h.until <= hookClock)
    /\ UNCHANGED <<changes, update, applied, hookClock, messages, reader, meters>>

\* A tick of the undertaker.
Filter ==
    /\ update = <<>>
    /\ prunes < MaxPrunes
    /\ prunes' = prunes + 1
    /\ list' = Prune(list)
    /\ UNCHANGED <<changes, update, applied, hookClock, messages, reader, meters>>

-----------------------------------------------------------------------------
(* Registry.GetRegistry: Len and Get each load the current list.           *)

LenStep(r) ==
    /\ reader[r].stage = "idle"
    /\ reader[r].i <= Len(list)
    /\ reader' = [reader EXCEPT ![r].stage = "get"]
    /\ UNCHANGED <<monitorVars, hookClock, messages, meters>>

\* Get indexes the list that is stored now.
GetStep(r) ==
    /\ reader[r].stage = "get"
    /\ reader' = [reader EXCEPT
           ![r] = IF @.i <= Len(list) THEN [stage |-> "idle", i |-> @.i + 1]
                                      ELSE [stage |-> "panic", i |-> @.i]]
    /\ UNCHANGED <<monitorVars, hookClock, messages, meters>>

\* The loop ends and the answer is written; another request may follow.
Answer(r) ==
    /\ reader[r].stage = "idle"
    /\ reader[r].i > Len(list) /\ reader[r].i > 1
    /\ reader' = [reader EXCEPT ![r].i = 1]
    /\ UNCHANGED <<monitorVars, hookClock, messages, meters>>

-----------------------------------------------------------------------------
Monitor == Receive \/ Update \/ Filter

Next ==
    \/ HookTick \/ NotUnderstood \/ Monitor
    \/ \E u \in URLs, t \in 0..MaxHookTime : Notified(u, t)
    \/ \E r \in Readers : LenStep(r) \/ GetStep(r) \/ Answer(r)

-----------------------------------------------------------------------------
\* The list never holds two hooks for one URL, and the last update the monitor
\* handled for a URL is in it as long as its time is not over, whatever the
\* undertaker and other updates did in between.
HooksFollow ==
    /\ \A i, j \in DOMAIN list : list[i].url = list[j].url => i = j
    /\ \A u \in URLs :
          applied[u] # None /\ applied[u].until > hookClock => Contains(list, applied[u])

\* Updates wait for the monitor.
ChangesWait == changes # <<>>
=============================================================================
