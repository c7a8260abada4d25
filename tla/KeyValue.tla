------------------------------ MODULE KeyValue ------------------------------
(***************************************************************************)
(* The asynchronous map of concurrent/keyValue.go, whose calls each start  *)
(* a goroutine that takes a read/write lock.                               *)
(***************************************************************************)
EXTENDS Integers, Sequences, FiniteSets

CONSTANTS
    KvCalls,          \* goroutines
    KvKeys, KvValues  \* KvValues has 0, for a key that is not there

VARIABLES
    storage,
    kv,               \* of each goroutine: its stage, operation and arguments
    kvLock,           \* readers and writer
    kvResults,        \* of each Apply and Get: what its channel received
    kvHistory         \* the contents of the storage so far, between writes

vars == <<storage, kv, kvLock, kvResults, kvHistory>>

Idle == [stage |-> "idle", op |-> "none", todo |-> {}, value |-> 0]

TypeOK ==
    /\ storage \in [KvKeys -> KvValues]
    /\ \A c \in KvCalls : kv[c].stage \in {"idle", "lock", "run", "done"}
    /\ kvLock.readers \subseteq KvCalls /\ kvLock.writers \subseteq KvCalls

Init ==
    /\ storage = [k \in KvKeys |-> 0]
    /\ kv = [c \in KvCalls |-> Idle]
    /\ kvLock = [readers |-> {}, writers |-> {}]
    /\ kvResults = [c \in KvCalls |-> <<>>]
    /\ kvHistory = {storage}

Start(c, op, keys, v) ==
    /\ kv[c].stage = "idle"
    /\ kv' = [kv EXCEPT ![c] = [stage |-> "lock", op |-> op, todo |-> keys, value |-> v]]
    /\ UNCHANGED <<storage, kvLock, kvResults, kvHistory>>

Apply(c) == Start(c, "apply", KvKeys, 0)
Get(c, k) == Start(c, "get", {k}, 0)
\* The operation is the caller's: one that sets some keys, one after the other.
Do(c, keys, v) == Start(c, "write", keys, v)
Add(c, k, v) == Start(c, "write", {k}, v)
\* Without keys Delete starts nothing.
Delete(c, keys) == keys # {} /\ Start(c, "write", keys, 0)

Reads(c) == kv[c].op \in {"apply", "get"}

\* Mutant: readers do not lock.
LockNone(c) ==
    /\ kv[c].stage = "lock"
    /\ Reads(c) \/ (kvLock.writers = {} /\ kvLock.readers = {})
    /\ kvLock' = IF Reads(c) THEN kvLock ELSE [kvLock EXCEPT !.writers = @ \cup {c}]
    /\ kv' = [kv EXCEPT ![c].stage = "run"]
    /\ UNCHANGED <<storage, kvResults, kvHistory>>

Lock(c) ==
    /\ kv[c].stage = "lock"
    /\ kvLock.writers = {} /\ (Reads(c) \/ kvLock.readers = {})
    /\ kvLock' = IF Reads(c) THEN [kvLock EXCEPT !.readers = @ \cup {c}]
                 ELSE [kvLock EXCEPT !.writers = @ \cup {c}]
    /\ kv' = [kv EXCEPT ![c].stage = "run"]
    /\ UNCHANGED <<storage, kvResults, kvHistory>>

\* One key of Apply's range, in any order, or Get's only one.  Keys that are
\* not in the storage are not ranged over; Get returns nil for one.
ReadKey(c, k) ==
    /\ kv[c].stage = "run" /\ Reads(c) /\ k \in kv[c].todo
    /\ kv' = [kv EXCEPT ![c].todo = @ \ {k}]
    /\ kvResults' = IF kv[c].op = "apply" /\ storage[k] = 0 THEN kvResults
                    ELSE [kvResults EXCEPT ![c] = Append(@, <<k, storage[k]>>)]
    /\ UNCHANGED <<storage, kvLock, kvHistory>>

WriteKey(c, k) ==
    /\ kv[c].stage = "run" /\ ~Reads(c) /\ k \in kv[c].todo
    /\ kv' = [kv EXCEPT ![c].todo = @ \ {k}]
    /\ storage' = [storage EXCEPT ![k] = kv[c].value]
    /\ UNCHANGED <<kvLock, kvResults, kvHistory>>

Unlock(c) ==
    /\ kv[c].stage = "run" /\ kv[c].todo = {}
    /\ kv' = [kv EXCEPT ![c].stage = "done"]
    /\ kvLock' = [readers |-> kvLock.readers \ {c}, writers |-> kvLock.writers \ {c}]
    /\ kvHistory' = IF Reads(c) THEN kvHistory ELSE kvHistory \cup {storage}
    /\ UNCHANGED <<storage, kvResults>>

KvStep(c) == Lock(c) \/ Unlock(c) \/ \E k \in KvKeys : ReadKey(c, k) \/ WriteKey(c, k)

Next ==
    \E c \in KvCalls :
        \/ KvStep(c) \/ Apply(c)
        \/ \E k \in KvKeys : Get(c, k) \/ \E v \in KvValues \ {0} : Add(c, k, v)
        \/ \E keys \in SUBSET KvKeys : Delete(c, keys) \/ \E v \in KvValues : Do(c, keys, v)

-----------------------------------------------------------------------------
\* What an Apply or a Get collected is what the storage held between two
\* writes, never part of a write: Apply a whole state, Get the value of its
\* key in one.
ReadsAtomic ==
    \A c \in KvCalls :
        LET results == {kvResults[c][i] : i \in DOMAIN kvResults[c]}
        IN  kv[c].stage = "done" /\ Reads(c) =>
                \E s \in kvHistory :
                    IF kv[c].op = "get" THEN \A p \in results : s[p[1]] = p[2]
                    ELSE results = {<<k, s[k]>> : k \in {k \in KvKeys : s[k] # 0}}
=============================================================================
