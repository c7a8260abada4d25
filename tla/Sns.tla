-------------------------------- MODULE Sns --------------------------------
(***************************************************************************)
(* The SNS server of webhook/aws: every start of the process subscribes    *)
(* with an endpoint that ends in its start time, waits for the             *)
(* confirmation, and then publishes what it was given and unsubscribes     *)
(* the endpoints of earlier starts.  A start is its timestamp; starts may  *)
(* overlap and crash.  Subscription 0 is another host's.  The topic is     *)
(* external: it confirms, may send a confirmation twice, and sends a       *)
(* notification again that was answered with 500.                          *)
(***************************************************************************)
EXTENDS Integers, Sequences, FiniteSets, SequencesExt

CONSTANTS
    MaxStarts,     \* bound: starts of the process
    Messages,      \* messages to publish
    ChannelSize    \* capacity of notificationData

VARIABLES
    sub,           \* the topic: of each subscription, its status
    confirmations, \* confirmation messages under way
    notices,       \* notifications under way: <<subscription, message>>
    proc,          \* of each start: new, up, subscribed, dead
    confirmed,     \* confirmed calls whose answer is not handled yet
    subscriptionArn, \* the stored arn, -1 if there is none
    publishers,    \* of each start: its listenAndPublishMessage goroutines
    notificationData, \* of each start: its channel
    publishing,    \* of each start: messages its publishers have taken
    listings,      \* UnsubscribeOldSubscriptions goroutines that have to list
    unsubscribes,  \* of each start: arns it is about to unsubscribe
    listed,        \* starts that listed the subscriptions
    excused,       \* subscriptions confirmed after a later start listed, or whose
                   \* Unsubscribe failed
    told           \* of each message: what the caller of PublishMessage was told

topic == <<sub, confirmations, notices>>
server == <<proc, confirmed, subscriptionArn, publishers, notificationData,
            publishing, listings, unsubscribes>>
ghosts == <<listed, excused>>
vars == <<topic, server, ghosts, told>>

Starts == 1..MaxStarts
Subs == 0..MaxStarts

TypeOK ==
    /\ sub \in [Subs -> {"none", "pending", "confirmed"}]
    /\ confirmations \in [Starts -> 0..2]
    /\ notices \subseteq Subs \X Messages
    /\ proc \in [Starts -> {"new", "up", "subscribed", "dead"}]
    /\ confirmed \in [Starts -> 0..2]
    /\ subscriptionArn \in [Starts -> {-1} \cup Starts]
    /\ publishers \in [Starts -> 0..2]
    /\ notificationData \in [Starts -> Seq(Messages)]
    /\ publishing \in [Starts -> SUBSET Messages]
    /\ listings \in [Starts -> 0..2]
    /\ unsubscribes \in [Starts -> SUBSET Subs]
    /\ listed \subseteq Starts /\ excused \subseteq Subs
    /\ told \in [Messages -> {"nothing", "success", "error"}]

Init ==
    /\ sub = [s \in Subs |-> IF s = 0 THEN "confirmed" ELSE "none"]
    /\ confirmations = [t \in Starts |-> 0]
    /\ notices = {}
    /\ proc = [t \in Starts |-> "new"]
    /\ confirmed = [t \in Starts |-> 0]
    /\ subscriptionArn = [t \in Starts |-> -1]
    /\ publishers = [t \in Starts |-> 0]
    /\ notificationData = [t \in Starts |-> <<>>]
    /\ publishing = [t \in Starts |-> {}]
    /\ listings = [t \in Starts |-> 0]
    /\ unsubscribes = [t \in Starts |-> {}]
    /\ listed = {} /\ excused = {}
    /\ told = [m \in Messages |-> "nothing"]

Alive(t) == proc[t] \in {"up", "subscribed"}

-----------------------------------------------------------------------------
\* Initialize: the path ends in the time of this start.
Initialize(t) ==
    /\ proc[t] = "new"
    /\ \A u \in 1..(t - 1) : proc[u] # "new"
    /\ proc' = [proc EXCEPT ![t] = "up"]
    /\ UNCHANGED <<topic, confirmed, subscriptionArn, publishers, notificationData,
                   publishing, listings, unsubscribes, ghosts, told>>

Crash(t) ==
    /\ Alive(t)
    /\ proc' = [proc EXCEPT ![t] = "dead"]
    /\ confirmed' = [confirmed EXCEPT ![t] = 0]
    /\ subscriptionArn' = [subscriptionArn EXCEPT ![t] = -1]
    /\ publishers' = [publishers EXCEPT ![t] = 0]
    /\ notificationData' = [notificationData EXCEPT ![t] = <<>>]
    /\ publishing' = [publishing EXCEPT ![t] = {}]
    /\ listings' = [listings EXCEPT ![t] = 0]
    /\ unsubscribes' = [unsubscribes EXCEPT ![t] = {}]
    /\ UNCHANGED <<topic, ghosts, told>>

\* Subscribe tries until it succeeds.
Subscribe(t) ==
    /\ proc[t] = "up"
    /\ proc' = [proc EXCEPT ![t] = "subscribed"]
    /\ sub' = [sub EXCEPT ![t] = "pending"]
    /\ confirmations' = [confirmations EXCEPT ![t] = 1]
    /\ UNCHANGED <<notices, confirmed, subscriptionArn, publishers, notificationData,
                   publishing, listings, unsubscribes, ghosts, told>>

\* The topic sends the confirmation once more.
Resend(t) ==
    /\ confirmations[t] = 1 /\ sub[t] = "pending"
    /\ confirmations' = [confirmations EXCEPT ![t] = 2]
    /\ UNCHANGED <<sub, notices, server, ghosts, told>>

-----------------------------------------------------------------------------
(* SubscribeConfirmHandle                                                  *)

\* The message passes its checks and ConfirmSubscription succeeds; a message
\* that does not, or a call that fails, leaves everything as it is.
ConfirmHandle(t) ==
    /\ Alive(t) /\ confirmations[t] > 0
    /\ confirmations' = [confirmations EXCEPT ![t] = @ - 1]
    /\ \/ /\ sub[t] # "none"
          /\ sub' = [sub EXCEPT ![t] = "confirmed"]
          /\ confirmed' = [confirmed EXCEPT ![t] = @ + 1]
          /\ excused' = IF \E u \in listed : u > t THEN excused \cup {t} ELSE excused
       \/ UNCHANGED <<sub, confirmed, excused>>
    /\ UNCHANGED <<notices, proc, subscriptionArn, publishers, notificationData,
                   publishing, listings, unsubscribes, listed, told>>

\* The answer is stored; the publisher and the cleanup start.
Confirmed(t) ==
    /\ confirmed[t] > 0
    /\ confirmed' = [confirmed EXCEPT ![t] = @ - 1]
    /\ subscriptionArn' = [subscriptionArn EXCEPT ![t] = t]
    /\ publishers' = [publishers EXCEPT ![t] = @ + 1]
    /\ listings' = [listings EXCEPT ![t] = @ + 1]
    /\ UNCHANGED <<topic, proc, notificationData, publishing, unsubscribes, ghosts, told>>

-----------------------------------------------------------------------------
(* UnsubscribeOldSubscriptions                                             *)

\* Mutant: the endpoints of other starts are listed, not those of earlier ones.
MatchingEndpointsOthers(t) == {s \in Subs : s # t /\ s # 0 /\ sub[s] = "confirmed"}

\* ListSubscriptionsByMatchingEndpoint: this host's endpoints with an earlier time.
MatchingEndpoints(t) == {s \in Subs : s < t /\ s # 0 /\ sub[s] = "confirmed"}

\* An error of the call ends the cleanup.
ListSubscriptions(t) ==
    /\ listings[t] > 0
    /\ listings' = [listings EXCEPT ![t] = @ - 1]
    /\ \/ /\ unsubscribes' = [unsubscribes EXCEPT ![t] = @ \cup MatchingEndpoints(t)]
          /\ listed' = listed \cup {t}
       \/ UNCHANGED <<unsubscribes, listed>>
    /\ UNCHANGED <<topic, proc, confirmed, subscriptionArn, publishers, notificationData,
                   publishing, excused, told>>

Unsubscribe(t, s) ==
    /\ s \in unsubscribes[t]
    /\ unsubscribes' = [unsubscribes EXCEPT ![t] = @ \ {s}]
    /\ \/ sub' = [sub EXCEPT ![s] = "none"] /\ UNCHANGED excused
       \/ excused' = excused \cup {s} /\ UNCHANGED sub
    /\ UNCHANGED <<confirmations, notices, proc, confirmed, subscriptionArn, publishers,
                   notificationData, publishing, listings, listed, told>>

-----------------------------------------------------------------------------
(* Publishing                                                              *)

\* PublishMessage waits for room in the channel, or for its timer.
PublishMessage(t, m) ==
    /\ Alive(t)
    /\ told[m] = "nothing"
    /\ \/ /\ Len(notificationData[t]) < ChannelSize
          /\ notificationData' = [notificationData EXCEPT ![t] = Append(@, m)]
          /\ told' = [told EXCEPT ![m] = "success"]
       \/ /\ Len(notificationData[t]) = ChannelSize
          /\ UNCHANGED notificationData
          /\ told' = [told EXCEPT ![m] = "error"]
    /\ UNCHANGED <<topic, proc, confirmed, subscriptionArn, publishers, publishing,
                   listings, unsubscribes, ghosts>>

\* listenAndPublishMessage: each of the goroutines holds one message.
TakeMessage(t) ==
    /\ notificationData[t] # <<>>
    /\ Cardinality(publishing[t]) < publishers[t]
    /\ publishing' = [publishing EXCEPT ![t] = @ \cup {Head(notificationData[t])}]
    /\ notificationData' = [notificationData EXCEPT ![t] = Tail(@)]
    /\ UNCHANGED <<topic, proc, confirmed, subscriptionArn, publishers, listings,
                   unsubscribes, ghosts, told>>

\* An error of Publish is logged; the message is gone.
Publish(t, m) ==
    /\ m \in publishing[t]
    /\ publishing' = [publishing EXCEPT ![t] = @ \ {m}]
    /\ \/ notices' = notices \cup {<<s, m>> : s \in {u \in Starts : sub[u] = "confirmed"}}
       \/ UNCHANGED notices
    /\ UNCHANGED <<sub, confirmations, proc, confirmed, subscriptionArn, publishers,
                   notificationData, listings, unsubscribes, ghosts, told>>

\* The arn of the request is the stored one; there may be none stored.
ValidateSubscriptionArn(t, arn) == subscriptionArn[t] = arn

\* NotificationHandle: without the arn it answers 500 and the topic tries
\* again; otherwise the message is taken, or refused with 400.  A start that is
\* gone does not answer and the topic gives up.
NotificationHandle(t, m) ==
    /\ <<t, m>> \in notices
    /\ Alive(t) => ValidateSubscriptionArn(t, t)
    /\ notices' = notices \ {<<t, m>>}
    /\ UNCHANGED <<sub, confirmations, server, ghosts, told>>

-----------------------------------------------------------------------------
ServerStep(t) ==
    \/ Subscribe(t) \/ ConfirmHandle(t) \/ Confirmed(t) \/ ListSubscriptions(t)
    \/ (\E s \in Subs : Unsubscribe(t, s))
    \/ TakeMessage(t)
    \/ \E m \in Messages : Publish(t, m) \/ NotificationHandle(t, m)

Next ==
    \E t \in Starts :
       \/ Initialize(t) \/ Crash(t) \/ Resend(t) \/ ServerStep(t)
       \/ \E m \in Messages : PublishMessage(t, m)

-----------------------------------------------------------------------------
\* The cleanup of a start takes away neither another host's subscription nor
\* that of a start with no later one, and when it is through no earlier
\* subscription is left but those confirmed after it looked, or whose
\* Unsubscribe failed.
CleanupIsExact ==
    /\ sub[0] = "confirmed"
    /\ \A t \in Starts :
          /\ subscriptionArn[t] = t /\ sub[t] = "none" => \E u \in Starts : u > t /\ u \in listed
          /\ t \in listed /\ unsubscribes[t] = {} /\ Alive(t) =>
                \A u \in 1..(t - 1) : sub[u] = "confirmed" => u \in excused

\* A notification is under way, possibly answered with 500 because the
\* confirmation is still being handled.
Noticed(t, m) == <<t, m>> \in notices
=============================================================================
