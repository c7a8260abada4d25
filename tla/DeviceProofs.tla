---------------------------- MODULE DeviceProofs ----------------------------
(***************************************************************************)
(* Theorems about Transactions and Device, for any number of callers, keys *)
(* and queue slots: the types, that a device handles its transactions as   *)
(* Transactions says, and that an envelope is reported once.               *)
(***************************************************************************)
EXTENDS Device, TLAPS

-----------------------------------------------------------------------------
(* The properties of Transactions.  They are proved together: the channel  *)
(* under a key is open because every open channel is under its key, and the *)
(* other way round, so neither half is inductive without the other, nor    *)
(* without the type of the variables.                                      *)

\* A channel holds a response only once it is closed.
ResponseIsLast == \A s \in Senders : result[s].response # None => result[s].st = "closed"

\* The inductive invariant.
TxInv == TxTypeOK /\ PendingIsOpen /\ OpenIsPending /\ ClosedIsEmpty /\ ResponseIsLast

LEMMA TxInitInv == TxInit => TxInv
<1> SUFFICES ASSUME TxInit PROVE TxInv
  OBVIOUS
<1>1. TxTypeOK
  BY Zenon DEF TxInit, TxTypeOK, Channel
<1>2. PendingIsOpen
  BY DEF TxInit, PendingIsOpen
<1>3. OpenIsPending
  BY DEF TxInit, OpenIsPending
<1>4. ClosedIsEmpty /\ ResponseIsLast
  BY DEF TxInit, ClosedIsEmpty, ResponseIsLast
<1> QED
  BY <1>1, <1>2, <1>3, <1>4 DEF TxInv

LEMMA TxRegisterInv ==
    ASSUME TxInv, NEW s \in Senders, Register(s)
    PROVE  TxInv'
<1> USE KeyAssumption DEF TxInv, TxTypeOK, Channel
<1>0. /\ KeyOf[s] \in Keys /\ result[s] = [st |-> "nil", response |-> None]
      /\ ~txClosed /\ pending[KeyOf[s]] = None
  BY DEF Register, RegisterError, ResponseIsLast
<1>a. /\ pending' = [pending EXCEPT ![KeyOf[s]] = s]
      /\ result' = [result EXCEPT ![s].st = "open"]
      /\ txClosed' = txClosed
  BY DEF Register
<1>b. /\ result' \in [Senders -> Channel]
      /\ result'[s] = [st |-> "open", response |-> None]
      /\ \A t \in Senders : t # s => result'[t] = result[t]
  BY <1>0, <1>a
<1>1. TxTypeOK'
  BY <1>0, <1>a, <1>b
<1>2. PendingIsOpen'
  BY <1>0, <1>a, <1>b DEF PendingIsOpen, OpenIsPending
<1>3. OpenIsPending'
  BY <1>0, <1>a, <1>b DEF PendingIsOpen, OpenIsPending
<1>4. ClosedIsEmpty' /\ ResponseIsLast'
  BY <1>0, <1>a, <1>b DEF ClosedIsEmpty, ResponseIsLast
<1> QED
  BY <1>1, <1>2, <1>3, <1>4

\* Complete and an effective Cancel end the channel of the sender t that is
\* pending under k, with a response r or with None.
LEMMA TxEndInv ==
    ASSUME TxInv, NEW k \in Keys, NEW r \in Senders \cup {None}, pending[k] # None,
           pending' = [pending EXCEPT ![k] = None],
           result' = [result EXCEPT ![pending[k]] = [st |-> "closed", response |-> r]],
           txClosed' = txClosed
    PROVE  TxInv'
<1> USE KeyAssumption DEF TxInv, TxTypeOK, Channel
<1> DEFINE t == pending[k]
<1>0. t \in Senders /\ KeyOf[t] = k
  BY DEF PendingIsOpen
<1>1. TxTypeOK'
  BY <1>0
<1>2. PendingIsOpen'
  <2> SUFFICES ASSUME NEW j \in Keys, pending'[j] # None
               PROVE  /\ result'[pending'[j]] = [st |-> "open", response |-> None]
                      /\ KeyOf[pending'[j]] = j
    BY DEF PendingIsOpen
  <2>1. j # k /\ pending'[j] = pending[j] /\ pending[j] \in Senders
    BY <1>0
  <2>2. KeyOf[pending[j]] = j /\ pending[j] # t
    BY <1>0, <2>1 DEF PendingIsOpen
  <2> QED
    BY <1>0, <2>1, <2>2 DEF PendingIsOpen
<1>3. OpenIsPending'
  BY <1>0 DEF PendingIsOpen, OpenIsPending
<1>4. ClosedIsEmpty' /\ ResponseIsLast'
  BY <1>0 DEF ClosedIsEmpty, ResponseIsLast
<1> QED
  BY <1>1, <1>2, <1>3, <1>4

LEMMA TxCompleteInv ==
    ASSUME TxInv, NEW k \in Keys, NEW r \in Senders, Complete(k, r)
    PROVE  TxInv'
<1>1. pending[k] # None
  BY KeyAssumption DEF Complete, CompleteError
<1> QED
  BY <1>1, TxEndInv, Zenon DEF Complete

LEMMA TxCancelInv ==
    ASSUME TxInv, NEW k, Cancel(k)
    PROVE  TxInv'
<1>1. CASE UNCHANGED txVars
  BY <1>1 DEF TxInv, txVars, TxTypeOK, PendingIsOpen, OpenIsPending, ClosedIsEmpty, ResponseIsLast
<1>2. CASE ~(txClosed \/ k \notin Keys) /\ pending[k] = None
  <2>1. pending' = pending
    BY <1>2 DEF Cancel, TxInv, TxTypeOK
  <2> QED
    BY <1>1, <1>2, <2>1 DEF Cancel, txVars
<1>3. CASE ~(txClosed \/ k \notin Keys) /\ pending[k] # None
  <2>1. pending[k] \in Senders /\ result[pending[k]] = [st |-> "open", response |-> None]
    BY <1>3 DEF TxInv, TxTypeOK, PendingIsOpen
  <2>2. result' = [result EXCEPT ![pending[k]] = [st |-> "closed", response |-> None]]
    <3>1. result' = [result EXCEPT ![pending[k]].st = "closed"]
      BY <1>3 DEF Cancel
    <3>2. [result[pending[k]] EXCEPT !.st = "closed"] = [st |-> "closed", response |-> None]
      BY <2>1
    <3> QED
      BY <3>1, <3>2, Zenon
  <2> QED
    BY <1>3, <2>2, TxEndInv, Zenon DEF Cancel
<1> QED
  BY <1>1, <1>2, <1>3 DEF Cancel

LEMMA TxCloseInv ==
    ASSUME TxInv, TxClose
    PROVE  TxInv'
<1> USE KeyAssumption DEF TxInv, TxTypeOK, Channel
<1>1. CASE txClosed
  BY <1>1 DEF TxClose, txVars, PendingIsOpen, OpenIsPending, ClosedIsEmpty, ResponseIsLast
<1>2. CASE ~txClosed
  <2>1. /\ txClosed' = TRUE
        /\ pending' = [k \in Keys |-> None]
        /\ result' = [s \in Senders |->
                        IF \E k \in Keys : pending[k] = s
                        THEN [result[s] EXCEPT !.st = "closed"]
                        ELSE result[s]]
    BY <1>2 DEF TxClose
  <2>2. ASSUME NEW s \in Senders
        PROVE  /\ result'[s] \in Channel
               /\ result'[s].st # "open"
               /\ result'[s].response # None => result'[s].st = "closed"
    <3>1. CASE \E k \in Keys : pending[k] = s
      BY <2>1, <3>1
    <3>2. CASE ~\E k \in Keys : pending[k] = s
      BY <2>1, <3>2 DEF OpenIsPending, ResponseIsLast
    <3> QED
      BY <3>1, <3>2
  <2>3. TxTypeOK'
    BY <2>1, <2>2
  <2>4. PendingIsOpen' /\ ClosedIsEmpty'
    BY <2>1 DEF PendingIsOpen, ClosedIsEmpty
  <2>5. OpenIsPending' /\ ResponseIsLast'
    BY <2>2 DEF OpenIsPending, ResponseIsLast
  <2> QED
    BY <2>3, <2>4, <2>5
<1> QED
  BY <1>1, <1>2

LEMMA TxNextInv == TxInv /\ [TxNext]_txVars => TxInv'
<1> SUFFICES ASSUME TxInv, [TxNext]_txVars PROVE TxInv'
  OBVIOUS
<1>1. ASSUME NEW s \in Senders, Register(s) PROVE TxInv'
  BY <1>1, TxRegisterInv
<1>2. ASSUME NEW k \in Keys, NEW r \in Senders, Complete(k, r) PROVE TxInv'
  BY <1>2, TxCompleteInv
<1>3. ASSUME NEW k \in Keys, Cancel(k) PROVE TxInv'
  BY <1>3, TxCancelInv
<1>4. CASE TxClose
  BY <1>4, TxCloseInv
<1>5. CASE UNCHANGED txVars
  BY <1>5 DEF TxInv, txVars, TxTypeOK, PendingIsOpen, OpenIsPending, ClosedIsEmpty, ResponseIsLast
<1> QED
  BY <1>1, <1>2, <1>3, <1>4, <1>5 DEF TxNext

\* Transactions.pending and its channels keep their types and the invariant
\* that ties them together.
THEOREM TxInvariance == TxSpec => []TxInv
BY TxInitInv, TxNextInv, PTL DEF TxSpec

\* A pending key always has an open channel of its own, so that no operation
\* panics on a closed channel or blocks on a full one; an open channel is
\* always within reach of Complete, Cancel and Close; and nothing is pending
\* after Close.
THEOREM TxPendingIffOpen == TxSpec => []PendingIffOpen
<1>1. TxInv => PendingIffOpen
  BY DEF TxInv, PendingIffOpen
<1> QED
  BY <1>1, TxInvariance, PTL

\* A closed channel keeps what it was closed with.
LEMMA TxEndedStays ==
    ASSUME TxInv, [TxNext]_txVars, NEW s \in Senders, result[s].st = "closed"
    PROVE  result'[s] = result[s]
<1> USE DEF TxInv, TxTypeOK, Channel
<1>0. \A k \in Keys : pending[k] # s
  BY KeyAssumption DEF PendingIsOpen
<1>1. ASSUME NEW t \in Senders, Register(t) PROVE result'[s] = result[s]
  BY <1>1 DEF Register
<1>2. ASSUME NEW k \in Keys, NEW r \in Senders, Complete(k, r) PROVE result'[s] = result[s]
  BY <1>0, <1>2 DEF Complete
<1>3. ASSUME NEW k \in Keys, Cancel(k) PROVE result'[s] = result[s]
  BY <1>0, <1>3 DEF Cancel, txVars
<1>4. CASE TxClose
  BY <1>0, <1>4 DEF TxClose, txVars
<1>5. CASE UNCHANGED txVars
  BY <1>5 DEF txVars
<1> QED
  BY <1>1, <1>2, <1>3, <1>4, <1>5 DEF TxNext

\* No step of any goroutine changes what a closed channel ended with.
THEOREM TxOutcomeIsFinal == TxSpec => OutcomeIsFinal
<1>1. TxInv /\ [TxNext]_txVars
      => [\A s \in Senders : result[s].st = "closed" => result'[s] = result[s]]_txVars
  BY TxEndedStays
<1> QED
  BY <1>1, TxInvariance, PTL DEF TxSpec, OutcomeIsFinal

-----------------------------------------------------------------------------
(* The type invariant, by groups of variables, with what the write pump    *)
(* knows of its envelope.                                                  *)

SendType ==
    /\ pc \in [Senders -> {"start", "register", "enqueue", "sent", "await", "cancel", "done"}]
    /\ ret \in [Senders -> [err : DeviceErrors \cup {NoError}, response : Senders \cup {None}]]
    /\ ctxDone \in [Senders -> BOOLEAN]
    /\ complete \in [Senders -> {"empty", "error", "closed"}]

QueueType == messages \in Seq(Senders) /\ Len(messages) <= QueueSize

WriteType ==
    /\ wpc \in {"select", "write", "dispatch", "cleanup", "close", "disconnect",
                "refail", "drain", "exit"}
    /\ envelope \in Senders \cup {None}
    /\ writeError \in {NoError, "io"}
    /\ written \subseteq Senders
    /\ wpc \in {"write", "dispatch"} => envelope \in Senders

CloseType ==
    /\ state \in {"open", "closed"}
    /\ shutdown \in BOOLEAN
    /\ closeReason \in Reasons
    /\ registered \in BOOLEAN
    /\ closer \in [by : Closers, reason : Reasons]
    /\ closing \in {"idle", "requested", "shutdown", "transactions", "reason", "done"}

PumpType ==
    /\ conn \in {"up", "closed"}
    /\ rpc \in {"read", "cleanup", "close", "disconnect", "exit"}
    /\ once \in {"free", "done"} \cup Pumps

EventType ==
    /\ sentEvents \in [Senders -> Nat]
    /\ failedEvents \in [Senders -> Nat]
    /\ disconnects \in Nat

TypeInv == TxInv /\ SendType /\ QueueType /\ WriteType /\ CloseType /\ PumpType /\ EventType

LEMMA TypeInvTypeOK == TypeInv => TypeOK
BY DEF TypeInv, TxInv, TypeOK, SendType, QueueType, WriteType, CloseType, PumpType, EventType

LEMMA TypeInit == Init => TypeInv
<1> SUFFICES ASSUME Init PROVE TypeInv
  OBVIOUS
<1> USE DEF Init, NoReason, NoError
<1>1. TxInv
  BY TxInitInv, Zenon
<1>2. SendType
  BY Zenon DEF SendType
<1>3. QueueType
  <2> HIDE DEF Init
  <2>1. messages = <<>>
    BY Zenon DEF Init
  <2> QED
    BY <2>1, QueueAssumption DEF QueueType
<1>4. WriteType /\ PumpType
  BY Zenon DEF WriteType, PumpType
<1>5. CloseType
  BY Zenon DEF CloseType, Reasons, Closers, Pumps
<1>6. EventType
  BY Zenon DEF EventType
<1> QED
  BY <1>1, <1>2, <1>3, <1>4, <1>5, <1>6, Zenon DEF TypeInv

LEMMA SendTypeStep ==
    ASSUME TypeInv, NEW s \in Senders, SendStep(s) \/ Caller(s)
    PROVE  SendType' /\ QueueType'
<1> USE DEF TypeInv
<1>r. ASSUME NEW e \in DeviceErrors \cup {NoError}, NEW r \in Senders \cup {None},
             Return(s, [err |-> e, response |-> r])
      PROVE  /\ pc' \in [Senders ->
                  {"start", "register", "enqueue", "sent", "await", "cancel", "done"}]
             /\ ret' \in [Senders ->
                  [err : DeviceErrors \cup {NoError}, response : Senders \cup {None}]]
  BY <1>r DEF Return, SendType
<1>f. ASSUME NEW e \in DeviceErrors \cup {NoError}, Fail(s, e)
      PROVE  /\ pc' \in [Senders ->
                  {"start", "register", "enqueue", "sent", "await", "cancel", "done"}]
             /\ ret' \in [Senders ->
                  [err : DeviceErrors \cup {NoError}, response : Senders \cup {None}]]
  BY <1>r, <1>f DEF Fail
<1>1. CASE SendCheckClosed(s)
  <2>1. \/ Fail(s, "ErrorDeviceClosed")
        \/ /\ pc' = [pc EXCEPT ![s] = IF KeyOf[s] = NoKey THEN "enqueue" ELSE "register"]
           /\ UNCHANGED ret
    BY <1>1 DEF SendCheckClosed
  <2> QED
    BY <1>1, <1>f, <2>1 DEF SendCheckClosed, SendType, QueueType, DeviceErrors
<1>2. CASE SendRegister(s)
  <2>1. RegisterError(KeyOf[s]) # "ok" => RegisterError(KeyOf[s]) \in DeviceErrors
    BY DEF RegisterError, DeviceErrors
  <2> QED
    BY <1>2, <1>f, <2>1 DEF SendRegister, SendType, QueueType
<1>3. CASE SendEnqueue(s)
  BY <1>3, QueueAssumption DEF SendEnqueue, SendType, QueueType
<1>4. CASE SendGiveUp(s)
  BY <1>4, <1>f DEF SendGiveUp, SendType, QueueType, DeviceErrors
<1>5. CASE SendComplete(s)
  <2>1. \/ Fail(s, "io") \/ Fail(s, NoError)
        \/ pc' = [pc EXCEPT ![s] = "await"] /\ UNCHANGED ret
    BY <1>5 DEF SendComplete
  <2> QED
    BY <1>5, <1>f, <2>1 DEF SendComplete, SendType, QueueType, DeviceErrors
<1>6. CASE SendAwait(s)
  <2>1. result[s].response \in Senders \cup {None}
    BY DEF TxInv, TxTypeOK, Channel
  <2> QED
    BY <1>6, <1>f, <1>r, <2>1 DEF SendAwait, SendType, QueueType, DeviceErrors
<1>7. CASE SendCancel(s)
  BY <1>7 DEF SendCancel, SendType, QueueType
<1>8. CASE ContextDone(s)
  BY <1>8 DEF ContextDone, SendType, QueueType
<1> QED
  BY <1>1, <1>2, <1>3, <1>4, <1>5, <1>6, <1>7, <1>8 DEF SendStep, Caller

LEMMA RemoveType ==
    ASSUME CloseType, NEW by \in Closers, NEW reason \in Reasons, RemoveDevice(by, reason)
    PROVE  CloseType'
BY Zenon DEF CloseType, RemoveDevice

LEMMA RequestCloseType ==
    ASSUME TypeInv, RequestClose
    PROVE  CloseType'
<1> USE DEF TypeInv, CloseType, RequestClose
<1>1. CASE RequestCloseCAS
  BY <1>1 DEF RequestCloseCAS
<1>2. CASE RequestCloseShutdown
  BY <1>2 DEF RequestCloseShutdown
<1>3. CASE RequestCloseTransactions
  BY <1>3 DEF RequestCloseTransactions
<1>4. CASE RequestCloseReason
  <2>1. closer.reason \in Reasons
    OBVIOUS
  <2>2. [closer.reason EXCEPT !.text = "unknown"] \in Reasons
    BY <2>1, Zenon DEF Reasons
  <2> QED
    BY <1>4, <2>1, <2>2, Zenon DEF RequestCloseReason
<1> QED
  BY <1>1, <1>2, <1>3, <1>4

LEMMA PumpRemoveType ==
    ASSUME TypeInv, NEW p \in Pumps, NEW reason \in Reasons, PumpRemove(p, reason)
    PROVE  CloseType' /\ once' \in Pumps
<1>1. p \in Closers
  BY DEF Closers
<1> QED
  BY <1>1, RemoveType DEF PumpRemove, TypeInv, CloseType, closeVars

LEMMA ReadType ==
    ASSUME TypeInv, ReadPump
    PROVE  CloseType' /\ PumpType' /\ EventType'
<1> USE DEF TypeInv, ReadPump, PumpType, EventType, CloseType, closeVars, eventVars, Pumps
<1>1. CASE ReadMessage
  BY <1>1 DEF ReadMessage
<1>2. CASE ReadError
  BY <1>2 DEF ReadError
<1>3. CASE ReadCleanup
  <2>1. CASE rpc = "cleanup" /\ PumpRemove("read", [err |-> NoError, text |-> "readerror"])
               /\ rpc' = "close"
    <3>1. [err |-> NoError, text |-> "readerror"] \in Reasons
      BY Zenon DEF Reasons
    <3> HIDE DEF CloseType, TypeInv
    <3>2. CloseType' /\ once' \in Pumps
      BY <2>1, <3>1, PumpRemoveType
    <3> QED
      BY <2>1, <3>2 DEF PumpRemove, TypeInv
  <2>2. CASE rpc = "close" /\ PumpCloseConn("read") /\ rpc' = "disconnect"
    BY <2>2 DEF PumpCloseConn
  <2>3. CASE rpc = "disconnect" /\ PumpDisconnect("read") /\ rpc' = "exit"
    BY <2>3 DEF PumpDisconnect
  <2>4. CASE rpc = "cleanup" /\ PumpSkip /\ rpc' = "exit"
    BY <2>4 DEF PumpSkip
  <2> QED
    BY <1>3, <2>1, <2>2, <2>3, <2>4 DEF ReadCleanup
<1> QED
  BY <1>1, <1>2, <1>3

LEMMA TailType ==
    ASSUME QueueType, messages # <<>>
    PROVE  /\ Head(messages) \in Senders
           /\ Tail(messages) \in Seq(Senders)
           /\ Len(Tail(messages)) <= QueueSize
BY QueueAssumption DEF QueueType

LEMMA CountType ==
    ASSUME NEW f \in [Senders -> Nat], NEW s \in Senders
    PROVE  [f EXCEPT ![s] = @ + 1] \in [Senders -> Nat]
OBVIOUS

LEMMA WriteTypeStep ==
    ASSUME TypeInv, WriteWork \/ WriteTick
    PROVE  SendType' /\ QueueType' /\ WriteType' /\ CloseType' /\ PumpType' /\ EventType'
<1> USE DEF TypeInv, WriteWork, WriteTick, SendType, QueueType, WriteType, CloseType, PumpType,
        EventType, closeVars, eventVars, Errors
<1>1. CASE WriteShutdown
  BY <1>1 DEF WriteShutdown
<1>2. CASE WriteDequeue
  BY <1>2, TailType DEF WriteDequeue
<1>3. CASE WriteMessage
  BY <1>3 DEF WriteMessage
<1>4. CASE WriteDispatch
  <2>0. envelope \in Senders
    BY <1>4 DEF WriteDispatch
  <2>1. /\ sentEvents' \in {sentEvents, [sentEvents EXCEPT ![envelope] = @ + 1]}
        /\ failedEvents' \in {failedEvents, [failedEvents EXCEPT ![envelope] = @ + 1]}
        /\ disconnects' = disconnects
    BY <1>4 DEF WriteDispatch
  <2>2. /\ [sentEvents EXCEPT ![envelope] = @ + 1] \in [Senders -> Nat]
        /\ [failedEvents EXCEPT ![envelope] = @ + 1] \in [Senders -> Nat]
    BY <2>0, CountType
  <2>3. EventType'
    BY <2>1, <2>2, Zenon
  <2> HIDE DEF EventType
  <2> QED
    BY <1>4, <2>3 DEF WriteDispatch
<1>5. CASE WriteCleanup
  <2> USE DEF WriteCleanup
  <2>1. CASE /\ wpc = "cleanup" /\ wpc' = "close"
             /\ PumpRemove("write", [err |-> writeError, text |-> "write-error"])
    <3>1. [err |-> writeError, text |-> "write-error"] \in Reasons
      BY Zenon DEF Reasons
    <3>2. "write" \in Pumps
      BY DEF Pumps
    <3> HIDE DEF CloseType, TypeInv
    <3>3. CloseType' /\ once' \in Pumps
      BY <2>1, <3>1, <3>2, PumpRemoveType
    <3> QED
      BY <1>5, <2>1, <3>3 DEF PumpRemove, TypeInv
  <2>2. CASE wpc = "close" /\ PumpCloseConn("write") /\ wpc' = "disconnect"
    BY <1>5, <2>2 DEF PumpCloseConn
  <2>3. CASE wpc = "disconnect" /\ PumpDisconnect("write") /\ wpc' = "refail"
    BY <1>5, <2>3 DEF PumpDisconnect
  <2>4. CASE wpc = "cleanup" /\ PumpSkip /\ wpc' = "refail"
    BY <1>5, <2>4 DEF PumpSkip
  <2> QED
    BY <1>5, <2>1, <2>2, <2>3, <2>4
<1>6. CASE WriteRefail
  BY <1>6 DEF WriteRefail
<1>7. CASE WriteDrain
  <2>1. CASE messages = <<>>
    BY <1>7, <2>1 DEF WriteDrain
  <2>2. CASE messages # <<>>
    <3>1. EventType'
      BY <1>7, <2>2, TailType, CountType DEF WriteDrain
    <3>2. QueueType'
      BY <1>7, <2>2, TailType, Zenon DEF WriteDrain
    <3> HIDE DEF EventType, QueueType
    <3> QED
      BY <1>7, <2>2, <3>1, <3>2 DEF WriteDrain
  <2> QED
    BY <2>1, <2>2, Zenon
<1>8. CASE WritePing
  BY <1>8 DEF WritePing
<1> QED
  BY <1>1, <1>2, <1>3, <1>4, <1>5, <1>6, <1>7, <1>8, Zenon

-----------------------------------------------------------------------------
(* Every step of the device is a step of its transactions, or none.        *)

LEMMA SendIsTx ==
    ASSUME NEW s \in Senders, SendStep(s) \/ Caller(s)
    PROVE  [TxNext]_txVars
<1>1. CASE SendRegister(s)
  BY <1>1 DEF SendRegister, TxNext
<1>2. CASE SendCancel(s)
  <2>1. CASE KeyOf[s] \in Keys
    BY <1>2, <2>1 DEF SendCancel, TxNext
  <2>2. CASE KeyOf[s] \notin Keys
    BY <1>2, <2>2 DEF SendCancel, Cancel
  <2> QED
    BY <2>1, <2>2
<1> QED
  BY <1>1, <1>2 DEF SendStep, Caller, SendCheckClosed, SendEnqueue, SendGiveUp, SendComplete,
     SendAwait, ContextDone

LEMMA ReadIsTx ==
    ASSUME TypeInv, ReadPump
    PROVE  [TxNext]_txVars
<1>1. CASE ReadMessage
  <2>1. PICK f \in Frames : Deliver(f)
    BY <1>1 DEF ReadMessage
  <2>2. f.answers \in Senders \cup {None}
    BY DEF Frames, TypeInv, WriteType
  <2> QED
    BY <2>1, <2>2 DEF Deliver, TxNext
<1> QED
  BY <1>1 DEF ReadPump, ReadError, ReadCleanup

LEMMA StepIsTx == TypeInv /\ [Next]_vars => [TxNext]_txVars
<1> SUFFICES ASSUME TypeInv, [Next]_vars PROVE [TxNext]_txVars
  OBVIOUS
<1>1. CASE RequestClose
  BY <1>1, Zenon DEF RequestClose, RequestCloseCAS, RequestCloseShutdown, RequestCloseTransactions,
     RequestCloseReason, TxNext
<1>2. CASE ReadPump
  BY <1>2, ReadIsTx
<1> QED
  BY <1>1, <1>2, SendIsTx DEF Next, ManagerRemove, WriteWork, WriteTick, Finished, vars

LEMMA TypeStep == TypeInv /\ [Next]_vars => TypeInv'
<1> SUFFICES ASSUME TypeInv, [Next]_vars PROVE TypeInv'
  OBVIOUS
<1>0. TxInv'
  BY StepIsTx, TxNextInv DEF TypeInv
<1>1. CASE \E s \in Senders : SendStep(s) \/ Caller(s)
  <2>1. PICK s \in Senders : SendStep(s) \/ Caller(s)
    BY <1>1
  <2>2. SendType' /\ QueueType'
    BY <2>1, SendTypeStep
  <2>3. UNCHANGED <<closeVars, conn, writeVars, rpc, once, eventVars>>
    BY <2>1 DEF SendStep, Caller
  <2> QED
    BY <1>0, <2>2, <2>3 DEF TypeInv, WriteType, CloseType, PumpType, EventType,
       closeVars, writeVars, eventVars
<1>2. CASE RequestClose
  <2>1. CloseType'
    BY <1>2, RequestCloseType
  <2> QED
    BY <1>0, <1>2, <2>1 DEF RequestClose, TypeInv, SendType, QueueType, WriteType, PumpType,
       EventType, sendVars, writeVars, eventVars
<1>3. CASE ManagerRemove
  <2>1. PICK reason \in ManagerReasons : RemoveDevice("manager", reason)
    BY <1>3 DEF ManagerRemove
  <2>2. reason \in Reasons /\ "manager" \in Closers
    BY OptionAssumption, Zenon DEF Reasons, Closers, NoError
  <2>3. CloseType'
    BY <2>1, <2>2, RemoveType DEF TypeInv
  <2> QED
    BY <1>0, <1>3, <2>3 DEF ManagerRemove, TypeInv, SendType, QueueType, WriteType, PumpType,
       EventType, sendVars, writeVars, eventVars
<1>4. CASE WriteWork \/ WriteTick
  BY <1>0, <1>4, WriteTypeStep DEF TypeInv
<1>5. CASE ReadPump
  <2>1. CloseType' /\ PumpType' /\ EventType'
    BY <1>5, ReadType
  <2> QED
    BY <1>0, <1>5, <2>1 DEF ReadPump, TypeInv, SendType, QueueType, WriteType, sendVars, writeVars
<1>6. CASE UNCHANGED vars
  BY <1>0, <1>6 DEF TypeInv, vars, SendType, QueueType, WriteType, CloseType, PumpType, EventType,
     sendVars, writeVars, closeVars, eventVars
<1> QED
  BY <1>1, <1>2, <1>3, <1>4, <1>5, <1>6 DEF Next, Finished

LEMMA TypeInvariance == Spec => []TypeInv
BY TypeInit, TypeStep, PTL DEF Spec

\* Every variable of the device keeps its type; in particular the queue never
\* holds more than QueueSize envelopes.
THEOREM DeviceTypeOK == Spec => []TypeOK
BY TypeInvariance, TypeInvTypeOK, PTL

\* Whatever the callers, the pumps and the manager do, what happens to the
\* transactions of a device is a behaviour of Transactions: the pumps and Send
\* use it only through its four operations.
THEOREM DeviceImplementsTransactions == Spec => TxSpec
<1>1. Init => TxInit
  BY DEF Init
<1> QED
  BY <1>1, StepIsTx, TypeInvariance, PTL DEF Spec, TxSpec

-----------------------------------------------------------------------------
(* Every envelope is reported on once.                                     *)

Early == {"start", "register", "enqueue"}

\* An envelope in the queue, or being written, belongs to a Send that is past
\* enqueueing and has heard nothing yet; no message is queued twice.
EnvelopeInv ==
    /\ \A i \in DOMAIN messages : pc[messages[i]] \notin Early /\ complete[messages[i]] = "empty"
    /\ \A i, j \in DOMAIN messages : messages[i] = messages[j] => i = j
    /\ wpc = "write" => /\ pc[envelope] \notin Early
                        /\ complete[envelope] = "empty"
                        /\ \A i \in DOMAIN messages : messages[i] # envelope
    /\ \A s \in Senders : pc[s] \in Early => complete[s] = "empty"

LEMMA EnvelopeInvReported == EnvelopeInv => EnvelopeReportedOnce
BY DEF EnvelopeInv, EnvelopeReportedOnce

LEMMA EnvelopeInit == Init => EnvelopeInv
<1> SUFFICES ASSUME Init PROVE EnvelopeInv
  OBVIOUS
<1>1. messages = <<>> /\ wpc = "select" /\ complete = [s \in Senders |-> "empty"]
  BY DEF Init
<1>2. DOMAIN messages = {}
  BY <1>1
<1> QED
  BY <1>1, <1>2 DEF EnvelopeInv

\* A step of Send moves only its own program counter, and never back.
LEMMA SendMoves ==
    ASSUME TypeInv, NEW s \in Senders, SendStep(s) \/ Caller(s)
    PROVE  /\ complete' = complete
           /\ \A t \in Senders : pc'[t] \in Early => pc[t] \in Early
           /\ \/ messages' = messages
              \/ messages' = Append(messages, s) /\ pc[s] = "enqueue" /\ pc'[s] = "sent"
<1> USE DEF TypeInv, SendType, Early
<1>f. ASSUME NEW r, Return(s, r)
      PROVE  \A t \in Senders : pc'[t] \in Early => pc[t] \in Early
  BY <1>f DEF Return
<1>1. CASE SendCheckClosed(s)
  BY <1>1, <1>f DEF SendCheckClosed, Fail
<1>2. CASE SendRegister(s)
  BY <1>2, <1>f DEF SendRegister, Fail
<1>3. CASE SendEnqueue(s)
  BY <1>3 DEF SendEnqueue
<1>4. CASE SendGiveUp(s)
  BY <1>4, <1>f DEF SendGiveUp, Fail
<1>5. CASE SendComplete(s)
  <2>1. \/ Fail(s, "io") \/ Fail(s, NoError)
        \/ pc' = [pc EXCEPT ![s] = "await"]
    BY <1>5 DEF SendComplete, TypeInv, SendType
  <2> QED
    BY <1>5, <1>f, <2>1 DEF SendComplete, Fail
<1>6. CASE SendAwait(s)
  BY <1>6, <1>f DEF SendAwait, Fail
<1>7. CASE SendCancel(s)
  BY <1>7 DEF SendCancel
<1>8. CASE ContextDone(s)
  BY <1>8 DEF ContextDone
<1> QED
  BY <1>1, <1>2, <1>3, <1>4, <1>5, <1>6, <1>7, <1>8 DEF SendStep, Caller

LEMMA MessagesType ==
    ASSUME QueueType
    PROVE  /\ Len(messages) \in Nat
           /\ DOMAIN messages = 1..Len(messages)
           /\ \A i \in DOMAIN messages : messages[i] \in Senders
BY DEF QueueType

LEMMA SendEnvelope ==
    ASSUME TypeInv, EnvelopeInv, NEW s \in Senders, SendStep(s) \/ Caller(s)
    PROVE  EnvelopeInv'
<1>0. /\ complete' = complete /\ wpc' = wpc /\ envelope' = envelope
      /\ \A t \in Senders : pc'[t] \in Early => pc[t] \in Early
  BY SendMoves, Zenon DEF SendStep, Caller, writeVars
<1>t. /\ Len(messages) \in Nat /\ DOMAIN messages = 1..Len(messages)
      /\ \A i \in DOMAIN messages : messages[i] \in Senders
      /\ wpc = "write" => envelope \in Senders
  BY MessagesType, SMTT(20) DEF TypeInv, WriteType
<1>1. CASE messages' = messages
  BY <1>0, <1>1, <1>t DEF EnvelopeInv
<1>2. CASE messages' = Append(messages, s) /\ pc[s] = "enqueue" /\ pc'[s] = "sent"
  <2>1. /\ Len(messages') = Len(messages) + 1
        /\ \A i \in 1..Len(messages) : messages'[i] = messages[i]
        /\ messages'[Len(messages) + 1] = s
        /\ messages' \in Seq(Senders)
    BY <1>2 DEF TypeInv, QueueType
  <2>2. DOMAIN messages' = 1..(Len(messages) + 1)
    BY <2>1, SMTT(20)
  <2>3. /\ pc[s] \in Early /\ pc'[s] \notin Early /\ complete[s] = "empty"
        /\ \A i \in DOMAIN messages : messages[i] # s
        /\ wpc = "write" => envelope # s
    BY <1>2 DEF EnvelopeInv, Early
  <2>4. \A i \in DOMAIN messages' : i \in DOMAIN messages \/ i = Len(messages) + 1
    BY <1>t, <2>2
  <2>5. \A i \in DOMAIN messages' : pc'[messages'[i]] \notin Early
          /\ complete'[messages'[i]] = "empty"
    BY <1>0, <1>t, <2>1, <2>3, <2>4, SMTT(20) DEF EnvelopeInv
  <2>6. \A i, j \in DOMAIN messages' : messages'[i] = messages'[j] => i = j
    BY <1>t, <2>1, <2>3, <2>4 DEF EnvelopeInv
  <2>7. wpc' = "write" => /\ pc'[envelope'] \notin Early
                          /\ complete'[envelope'] = "empty"
                          /\ \A i \in DOMAIN messages' : messages'[i] # envelope'
    BY <1>0, <1>t, <2>1, <2>3, <2>4, SMTT(20) DEF EnvelopeInv
  <2> QED
    BY <1>0, <2>5, <2>6, <2>7 DEF EnvelopeInv
<1> QED
  BY <1>1, <1>2, SendMoves

\* What is left of the queue when its head is taken.
LEMMA TailQueue ==
    ASSUME TypeInv, EnvelopeInv, messages # <<>>, messages' = Tail(messages)
    PROVE  /\ Head(messages) \in Senders
           /\ pc[Head(messages)] \notin Early /\ complete[Head(messages)] = "empty"
           /\ \A i \in DOMAIN messages' : /\ messages'[i] \in Senders
                                          /\ messages'[i] # Head(messages)
                                          /\ i + 1 \in DOMAIN messages
                                          /\ messages'[i] = messages[i + 1]
           /\ \A i, j \in DOMAIN messages' : messages'[i] = messages'[j] => i = j
<1>1. /\ Len(messages) \in Nat \ {0} /\ DOMAIN messages = 1..Len(messages)
      /\ \A i \in DOMAIN messages : messages[i] \in Senders
  BY MessagesType DEF TypeInv, QueueType
<1>2. /\ messages' \in Seq(Senders) /\ Len(messages') = Len(messages) - 1
      /\ \A i \in 1..Len(messages') : messages'[i] = messages[i + 1]
      /\ Head(messages) = messages[1]
  BY DEF TypeInv, QueueType
<1>3. DOMAIN messages' = 1..(Len(messages) - 1)
  BY <1>2
<1>4. \A i \in DOMAIN messages' : /\ i + 1 \in DOMAIN messages /\ i + 1 # 1
                                  /\ messages'[i] = messages[i + 1]
  BY <1>1, <1>2, <1>3
<1>5. 1 \in DOMAIN messages
  BY <1>1
<1>6. \A i, j \in DOMAIN messages' : messages'[i] = messages'[j] => i = j
  BY <1>1, <1>3, <1>4 DEF EnvelopeInv
<1> QED
  BY <1>1, <1>2, <1>4, <1>5, <1>6 DEF EnvelopeInv

LEMMA WriteEnvelope ==
    ASSUME TypeInv, EnvelopeInv, WriteWork \/ WriteTick
    PROVE  EnvelopeInv'
<1>0. pc' = pc
  BY DEF WriteWork, WriteTick
<1>t. /\ \A i \in DOMAIN messages : messages[i] \in Senders
      /\ wpc = "write" => envelope \in Senders
      /\ complete \in [Senders -> {"empty", "error", "closed"}]
  BY MessagesType, SMTT(20) DEF TypeInv, WriteType, SendType
<1>1. CASE WriteDequeue
  <2>1. /\ messages # <<>> /\ messages' = Tail(messages)
        /\ envelope' = Head(messages) /\ complete' = complete
    BY <1>1 DEF WriteDequeue
  <2> QED
    BY <1>0, <2>1, TailQueue DEF EnvelopeInv
<1>2. CASE WriteMessage
  <2>1. /\ wpc = "write" /\ wpc' # "write" /\ messages' = messages
        /\ \A t \in Senders : t # envelope => complete'[t] = complete[t]
    BY <1>2, <1>t DEF WriteMessage
  <2> QED
    BY <1>0, <1>t, <2>1 DEF EnvelopeInv
<1>3. CASE WriteDrain
  <2>1. complete' = complete /\ wpc' # "write"
    BY <1>3 DEF WriteDrain
  <2>2. CASE messages = <<>>
    BY <1>0, <1>3, <2>1, <2>2, SMTT(20) DEF WriteDrain, EnvelopeInv
  <2>3. CASE messages # <<>>
    <3>1. messages' = Tail(messages)
      BY <1>3, <2>3 DEF WriteDrain
    <3> QED
      BY <1>0, <2>1, <2>3, <3>1, TailQueue DEF EnvelopeInv
  <2> QED
    BY <2>2, <2>3
<1>4. CASE messages' = messages /\ complete' = complete /\ wpc' # "write"
  BY <1>0, <1>4 DEF EnvelopeInv
<1> QED
  BY <1>1, <1>2, <1>3, <1>4 DEF WriteWork, WriteTick, WriteShutdown, WriteDispatch, WriteCleanup,
     WriteRefail, WritePing

LEMMA EnvelopeStep == TypeInv /\ EnvelopeInv /\ [Next]_vars => EnvelopeInv'
<1> SUFFICES ASSUME TypeInv, EnvelopeInv, [Next]_vars PROVE EnvelopeInv'
  OBVIOUS
<1>1. CASE \E s \in Senders : SendStep(s) \/ Caller(s)
  BY <1>1, SendEnvelope
<1>2. CASE WriteWork \/ WriteTick
  BY <1>2, WriteEnvelope
<1>3. CASE UNCHANGED <<pc, complete, messages, wpc, envelope>>
  BY <1>3 DEF EnvelopeInv
<1> QED
  BY <1>1, <1>2, <1>3 DEF Next, RequestClose, ManagerRemove, ReadPump, Finished, vars, sendVars,
         writeVars

\* The write pump never reports twice on one envelope, so it never sends on or
\* closes a closed complete channel, and no message is in the queue twice.
THEOREM DeviceEnvelopeReportedOnce == Spec => []EnvelopeReportedOnce
<1>1. Spec => []EnvelopeInv
  BY EnvelopeInit, EnvelopeStep, TypeInvariance, PTL DEF Spec
<1> QED
  BY <1>1, EnvelopeInvReported, PTL

=============================================================================
