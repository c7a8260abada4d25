---------------------------- MODULE DeviceViews -----------------------------
(***************************************************************************)
(* What other goroutines see of a device while it is in use: the cached    *)
(* JSON list of devices (ListHandler of device/handlers.go), the counters  *)
(* of device/statistics.go and the copy-on-write metadata of               *)
(* device/metadata.go.  The three parts share nothing.                     *)
(***************************************************************************)
EXTENDS Integers, Sequences, FiniteSets

CONSTANTS
    Handlers,      \* requests for the list
    Refresh,       \* ListHandler.Refresh
    MaxNow,        \* bound: the clock
    MaxFrames,     \* bound: frames a pump reads or writes
    Writers,       \* goroutines that write metadata
    Sessions       \* session identifiers

VARIABLES
    now,
    cacheBytes,    \* when the bytes in the buffer were taken; -1 before the first list
    cacheExpiry,
    handler,       \* of each request: stage, and the version of the slice it holds
    served,        \* of each request: the version of the bytes that went out
    updates,       \* when the list was built
    statistics,    \* bytesReceived, messagesReceived, bytesSent, messagesSent
    pump,          \* the frame whose bytes were counted and whose message was not yet
    snapshot,      \* what MarshalJSON printed last
    data,          \* the map in the atomic value: session-id, jwt-claims, other
    copy,          \* of each writer: its stage, and the copy it works on
    onceDone       \* the sync.Once of the session

listVars == <<now, cacheBytes, cacheExpiry, handler, served, updates>>
statVars == <<statistics, pump, snapshot>>
metaVars == <<data, copy, onceDone>>
vars == <<listVars, statVars, metaVars>>

None == "none"
Zero == [bytesReceived |-> 0, messagesReceived |-> 0, bytesSent |-> 0, messagesSent |-> 0]
Blank == [session |-> None, claims |-> None, other |-> None]

TypeOK ==
    /\ now \in 0..MaxNow
    /\ cacheBytes \in -1..MaxNow /\ cacheExpiry \in -1..(MaxNow + Refresh)
    /\ handler \in [Handlers -> [stage : {"idle", "expired", "write"}, holds : -1..MaxNow]]
    /\ served \in [Handlers -> -2..MaxNow]
    /\ updates \in Seq(0..MaxNow)
    /\ statistics \in [DOMAIN Zero -> 0..(MaxFrames * (MaxFrames + 1))]
    /\ snapshot \in [DOMAIN Zero -> 0..(MaxFrames * (MaxFrames + 1))]
    /\ pump \in [{"read", "write"} -> [frames : 0..MaxFrames, counted : BOOLEAN]]
    /\ data \in [session : Sessions \cup {None}, claims : Writers \cup {None},
                 other : Writers \cup {None}]
    /\ \A w \in Writers : copy[w].stage \in {"new", "session", "claims", "other", "done"}
    /\ onceDone \in {None, "running", "done"}

Init ==
    /\ now = 0 /\ cacheBytes = -1 /\ cacheExpiry = -1
    /\ handler = [h \in Handlers |-> [stage |-> "idle", holds |-> -1]]
    /\ served = [h \in Handlers |-> -2]
    /\ updates = <<>>
    /\ statistics = Zero /\ snapshot = Zero
    /\ pump = [p \in {"read", "write"} |-> [frames |-> 0, counted |-> FALSE]]
    /\ data = Blank
    /\ copy = [w \in Writers |-> [stage |-> "new", map |-> Blank]]
    /\ onceDone = None

-----------------------------------------------------------------------------
(* ListHandler                                                             *)

ListTick ==
    /\ now < MaxNow /\ now' = now + 1
    /\ UNCHANGED <<cacheBytes, cacheExpiry, handler, served, updates, statVars, metaVars>>

Expired == cacheExpiry < now

\* tryCache, under the read lock: the slice as it is, and whether it expired.
TryCache(h) ==
    /\ handler[h].stage = "idle"
    /\ handler' = [handler EXCEPT ![h] = [stage |-> IF Expired THEN "expired" ELSE "write",
                                          holds |-> cacheBytes]]
    /\ UNCHANGED <<now, cacheBytes, cacheExpiry, served, updates, statVars, metaVars>>

\* Mutant: no second look under the lock
UpdateCacheAlways(h) ==
    /\ handler[h].stage = "expired"
    /\ cacheBytes' = now /\ cacheExpiry' = now + Refresh
    /\ updates' = Append(updates, now)
    /\ handler' = [handler EXCEPT ![h] = [stage |-> "write", holds |-> now]]
    /\ UNCHANGED <<now, served, statVars, metaVars>>

\* updateCache, under the lock: if it is still expired, the buffer is filled
\* again from the registry.
UpdateCache(h) ==
    /\ handler[h].stage = "expired"
    /\ IF Expired
       THEN /\ cacheBytes' = now
            /\ cacheExpiry' = now + Refresh
            /\ updates' = Append(updates, now)
       ELSE UNCHANGED <<cacheBytes, cacheExpiry, updates>>
    /\ handler' = [handler EXCEPT ![h] = [stage |-> "write", holds |-> cacheBytes']]
    /\ UNCHANGED <<now, served, statVars, metaVars>>

\* The slice is written without a lock.  It shares the buffer's array: when
\* the buffer was filled again the bytes are the newer ones, cut at the older
\* length, which is whole for neither.
WriteList(h) ==
    /\ handler[h].stage = "write"
    /\ served' = [served EXCEPT ![h] = IF cacheBytes = handler[h].holds THEN cacheBytes ELSE -1]
    /\ handler' = [handler EXCEPT ![h].stage = "idle"]
    /\ UNCHANGED <<now, cacheBytes, cacheExpiry, updates, statVars, metaVars>>

ListNext == ListTick \/ \E h \in Handlers : TryCache(h) \/ UpdateCache(h) \/ WriteList(h)

-----------------------------------------------------------------------------
(* statistics: the instrumented reader and writer, and MarshalJSON         *)

Bytes(p) == IF p = "read" THEN "bytesReceived" ELSE "bytesSent"
Messages(p) == IF p = "read" THEN "messagesReceived" ELSE "messagesSent"

\* ReadMessage or WriteMessage: of the n-th frame of a pump, n bytes
AddBytes(p) ==
    /\ ~pump[p].counted /\ pump[p].frames < MaxFrames
    /\ statistics' = [statistics EXCEPT ![Bytes(p)] = @ + pump[p].frames + 1]
    /\ pump' = [pump EXCEPT ![p] = [frames |-> @.frames + 1, counted |-> TRUE]]
    /\ UNCHANGED <<snapshot, listVars, metaVars>>

AddMessages(p) ==
    /\ pump[p].counted
    /\ statistics' = [statistics EXCEPT ![Messages(p)] = @ + 1]
    /\ pump' = [pump EXCEPT ![p].counted = FALSE]
    /\ UNCHANGED <<snapshot, listVars, metaVars>>

\* A ping: a message whose bytes are not counted
WritePreparedMessage ==
    /\ statistics.messagesSent <= MaxFrames
    /\ statistics' = [statistics EXCEPT !.messagesSent = @ + 1]
    /\ UNCHANGED <<pump, snapshot, listVars, metaVars>>

\* Mutant: the counters are read one after the other
MarshalTorn ==
    /\ \E f \in DOMAIN Zero : snapshot' = [snapshot EXCEPT ![f] = statistics[f]]
    /\ UNCHANGED <<statistics, pump, listVars, metaVars>>

\* All counters under one read lock
MarshalJSON ==
    /\ snapshot' = statistics
    /\ UNCHANGED <<statistics, pump, listVars, metaVars>>

StatNext == MarshalJSON \/ WritePreparedMessage \/ \E p \in {"read", "write"} : AddBytes(p) \/ AddMessages(p)

-----------------------------------------------------------------------------
(* Metadata: copyAndStore is a load, a change of the copy and a store      *)

LoadCopy(w, stage) == copy' = [copy EXCEPT ![w] = [stage |-> stage, map |-> data]]

\* Mutant: the session is not set through a sync.Once.
SetSessionIDAgain(w) ==
    /\ copy[w].stage = "new"
    /\ onceDone' = "running"
    /\ LoadCopy(w, "session")
    /\ UNCHANGED <<data, listVars, statVars>>

\* Only the first call of the once gets here; the others wait for it.
SetSessionID(w) ==
    /\ copy[w].stage = "new" /\ onceDone = None
    /\ onceDone' = "running"
    /\ LoadCopy(w, "session")
    /\ UNCHANGED <<data, listVars, statVars>>

SetClaims(w) ==
    /\ copy[w].stage = "new"
    /\ LoadCopy(w, "claims")
    /\ UNCHANGED <<data, onceDone, listVars, statVars>>

\* Store of a key that is not reserved
StoreKey(w) ==
    /\ copy[w].stage = "new"
    /\ LoadCopy(w, "other")
    /\ UNCHANGED <<data, onceDone, listVars, statVars>>

\* SetSessionID of a set session, or Store of a reserved key
Ignored(w) ==
    /\ copy[w].stage = "new"
    /\ copy' = [copy EXCEPT ![w].stage = "done"]
    /\ UNCHANGED <<data, onceDone, listVars, statVars>>

StoreData(w) ==
    /\ copy[w].stage \in {"session", "claims", "other"}
    /\ \/ /\ copy[w].stage = "session" /\ onceDone' = "done"
          /\ \E id \in Sessions : data' = [copy[w].map EXCEPT !.session = id]
       \/ /\ copy[w].stage \in {"claims", "other"} /\ UNCHANGED onceDone
          /\ data' = [copy[w].map EXCEPT ![copy[w].stage] = w]
    /\ copy' = [copy EXCEPT ![w].stage = "done"]
    /\ UNCHANGED <<listVars, statVars>>

MetaNext == \E w \in Writers :
    SetSessionID(w) \/ SetClaims(w) \/ StoreKey(w) \/ Ignored(w) \/ StoreData(w)

Next == ListNext \/ StatNext \/ MetaNext

-----------------------------------------------------------------------------
\* The registry is walked at most once per refresh period, however many
\* requests found the cache expired at once.
ListRefreshes == \A i \in 1..(Len(updates) - 1) : updates[i] + Refresh < updates[i + 1]

BytesOf(frames) == (frames * (frames + 1)) \div 2

\* MarshalJSON prints counters of one moment: the bytes received are those of
\* the messages received, or of one more that is being counted; and no more
\* bytes were sent than the messages sent can account for.
SnapshotsAgree ==
    /\ snapshot.bytesReceived \in {BytesOf(snapshot.messagesReceived),
                                   BytesOf(snapshot.messagesReceived + 1)}
    /\ snapshot.bytesSent <= BytesOf(snapshot.messagesSent + 1)

\* A device never shows one session identifier and then another, whatever
\* copies the writers of its metadata store.
OneSession == data.session # None /\ data'.session # None => data'.session = data.session
=============================================================================
