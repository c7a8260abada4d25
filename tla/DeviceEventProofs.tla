------------------------- MODULE DeviceEventProofs --------------------------
(***************************************************************************)
(* How a transaction ends and what the listeners hear, for any number of   *)
(* callers, keys and queue slots.                                          *)
(***************************************************************************)
EXTENDS DeviceDeliveryProofs

-----------------------------------------------------------------------------
(* How a transaction ends.                                                 *)

\* Only its own Register opens a channel.
LEMMA OnlyRegisterOpens ==
    ASSUME TxInv, NEW s \in Senders, result[s].st # "open",
           \/ \E t \in Senders \ {s} : Register(t)
           \/ \E k \in Keys, r \in Senders : Complete(k, r)
           \/ \E k \in Keys \cup {EmptyKey, NoKey} : Cancel(k)
           \/ TxClose
           \/ UNCHANGED txVars
    PROVE  result'[s].st # "open"
<1> USE DEF TxInv, TxTypeOK, Channel
<1>1. CASE \E t \in Senders \ {s} : Register(t)
  BY <1>1 DEF Register
<1>2. CASE \E k \in Keys, r \in Senders : Complete(k, r)
  BY <1>2 DEF Complete
<1>3. CASE \E k \in Keys \cup {EmptyKey, NoKey} : Cancel(k)
  <2>1. PICK k \in Keys \cup {EmptyKey, NoKey} : Cancel(k)
    BY <1>3
  <2>2. \/ result' = result
        \/ k \in Keys /\ result' = [result EXCEPT ![pending[k]].st = "closed"]
    BY <2>1 DEF Cancel, txVars
  <2> QED
    BY <2>2
<1>4. CASE TxClose
  BY <1>4 DEF TxClose, txVars
<1>5. CASE UNCHANGED txVars
  BY <1>5 DEF txVars
<1> QED
  BY <1>1, <1>2, <1>3, <1>4, <1>5

\* A step of the device leaves the other goroutines' Sends where they are, and
\* does one of the operations on the transactions.
LEMMA OtherSends ==
    ASSUME TypeInv, [Next]_vars, NEW s \in Senders, ~(SendStep(s) \/ Caller(s))
    PROVE  /\ pc'[s] = pc[s] /\ ret'[s] = ret[s]
           /\ \/ \E t \in Senders \ {s} : Register(t)
              \/ \E k \in Keys, r \in Senders : Complete(k, r)
              \/ \E t \in Senders \ {s} : Cancel(KeyOf[t])
              \/ TxClose
              \/ UNCHANGED txVars
<1>1. CASE \E t \in Senders : SendStep(t) \/ Caller(t)
  <2>1. PICK t \in Senders \ {s} : SendStep(t) \/ Caller(t)
    BY <1>1
  <2>2. pc'[s] = pc[s] /\ ret'[s] = ret[s]
    <3>1. /\ pc' = pc \/ \E x : pc' = [pc EXCEPT ![t] = x]
          /\ ret' = ret \/ \E x : ret' = [ret EXCEPT ![t] = x]
      BY <2>1, Zenon DEF SendStep, Caller, SendCheckClosed, SendRegister, SendEnqueue, SendGiveUp,
         SendComplete, SendAwait, SendCancel, ContextDone, Fail, Return
    <3> QED
      BY <3>1 DEF TypeInv, SendType
  <2>3. Register(t) \/ Cancel(KeyOf[t]) \/ UNCHANGED txVars
    BY <2>1 DEF SendStep, Caller, SendCheckClosed, SendRegister, SendEnqueue, SendGiveUp,
       SendComplete, SendAwait, SendCancel, ContextDone
  <2> QED
    BY <2>2, <2>3
<1>2. CASE ~\E t \in Senders : SendStep(t) \/ Caller(t)
  <2>1. pc' = pc /\ ret' = ret
    BY <1>2 DEF Next, RequestClose, ManagerRemove, WriteWork, WriteTick, ReadPump, Finished,
       vars, sendVars
  <2>2. CASE ReadMessage
    <3>1. PICK f \in Frames : Deliver(f)
      BY <2>2 DEF ReadMessage
    <3>2. f.answers \in Senders \cup {None}
      BY DEF Frames, TypeInv, WriteType
    <3> QED
      BY <2>1, <3>1, <3>2 DEF Deliver
  <2>3. CASE ~ReadMessage
    BY <1>2, <2>1, <2>3, Zenon DEF Next, RequestClose, RequestCloseCAS, RequestCloseShutdown,
       RequestCloseTransactions, RequestCloseReason, ManagerRemove, WriteWork, WriteTick,
       ReadPump, ReadError, ReadCleanup, Finished, vars
  <2> QED
    BY <2>2, <2>3
<1> QED
  BY <1>1, <1>2

LEMMA ClearedStep == TypeInv /\ TransactionCleared /\ [Next]_vars => TransactionCleared'
<1> SUFFICES ASSUME TypeInv, TransactionCleared, [Next]_vars, NEW s \in Senders, pc'[s] = "done"
             PROVE  result'[s].st # "open"
  BY DEF TransactionCleared
<1> USE DEF TypeInv, SendType
<1>1. CASE ~(SendStep(s) \/ Caller(s))
  <2>1. pc[s] = "done" /\ result[s].st # "open"
    BY <1>1, OtherSends DEF TransactionCleared
  <2> QED
    BY <1>1, <2>1, OtherSends, OnlyRegisterOpens, KeyAssumption
<1>2. CASE SendCancel(s)
  <2>1. Cancel(KeyOf[s])
    BY <1>2 DEF SendCancel
  <2>2. CASE result[s].st # "open"
    BY <2>1, <2>2, OnlyRegisterOpens, KeyAssumption
  <2>3. CASE result[s].st = "open"
    <3>1. KeyOf[s] \in Keys /\ pending[KeyOf[s]] = s /\ ~txClosed /\ s # None
      BY <2>3, KeyAssumption DEF TxInv, OpenIsPending, ClosedIsEmpty, TxTypeOK
    <3>2. result' = [result EXCEPT ![s].st = "closed"]
      BY <2>1, <3>1 DEF Cancel
    <3> QED
      BY <3>2 DEF TxInv, TxTypeOK, Channel
  <2> QED
    BY <2>2, <2>3
<1>3. CASE (SendStep(s) \/ Caller(s)) /\ ~SendCancel(s)
  <2>1. CASE pc[s] = "done"
    BY <1>3, <2>1 DEF SendStep, Caller, SendCheckClosed, SendRegister, SendEnqueue, SendGiveUp,
       SendComplete, SendAwait, ContextDone
  <2>2. CASE pc[s] # "done"
    <3>1. \E r : Return(s, r)
      <4>1. ~(\E x \in {"register", "enqueue", "sent", "await"} : pc' = [pc EXCEPT ![s] = x])
        OBVIOUS
      <4>2. ~ContextDone(s)
        BY <2>2 DEF ContextDone
      <4> QED
        BY <1>3, <2>2, <4>1, <4>2 DEF SendStep, Caller, SendCheckClosed, SendRegister,
           SendEnqueue, SendGiveUp, SendComplete, SendAwait, Fail
    <3>2. result[s].st = "nil"
      BY <3>1 DEF Return
    <3>3. UNCHANGED txVars
      BY <1>3 DEF SendStep, Caller, SendCheckClosed, SendRegister, SendEnqueue, SendGiveUp,
         SendComplete, SendAwait, ContextDone
    <3> QED
      BY <3>2, <3>3 DEF txVars
  <2> QED
    BY <2>1, <2>2
<1> QED
  BY <1>1, <1>2, <1>3

\* Once Send has returned, nothing waits for a response to it any more,
\* whichever of its many ways out it took and whatever happened meanwhile.
THEOREM DeviceTransactionCleared == Spec => []TransactionCleared
<1>1. Init => TransactionCleared
  BY DEF Init, TransactionCleared
<1> QED
  BY <1>1, ClearedStep, TypeInvariance, PTL DEF Spec

\* As long as Send has not returned, a transaction under a key of its own is
\* closed without a response only by the device's Close.
CancelInv ==
    \A s \in Senders : UniqueKey(s) =>
        /\ ~Returned(s) /\ result[s].st = "closed" /\ result[s].response = None => txClosed
        /\ ret[s].err = "ErrorTransactionCancelled" => txClosed

LEMMA ClosedForGood ==
    ASSUME TypeInv, [Next]_vars
    PROVE  txClosed => txClosed'
<1>1. [TxNext]_txVars
  BY StepIsTx
<1> QED
  BY <1>1, Zenon DEF TxNext, Register, Complete, Cancel, TxClose, txVars

\* Nobody else's operation ends the transaction of s without a response.
LEMMA OthersDoNotCancel ==
    ASSUME TxInv, NEW s \in Senders, UniqueKey(s), result[s].st # "closed",
           \/ \E t \in Senders \ {s} : Register(t)
           \/ \E k \in Keys, r \in Senders : Complete(k, r)
           \/ \E t \in Senders \ {s} : Cancel(KeyOf[t])
           \/ UNCHANGED txVars
    PROVE  result'[s].st = "closed" => result'[s].response # None
<1> USE DEF TxInv, TxTypeOK, Channel
<1>1. CASE \E t \in Senders \ {s} : Register(t)
  BY <1>1 DEF Register
<1>2. CASE \E k \in Keys, r \in Senders : Complete(k, r)
  BY <1>2, KeyAssumption DEF Complete
<1>3. CASE \E t \in Senders \ {s} : Cancel(KeyOf[t])
  <2>1. PICK t \in Senders \ {s} : Cancel(KeyOf[t])
    BY <1>3
  <2>2. KeyOf[t] # KeyOf[s]
    BY DEF UniqueKey
  <2>3. KeyOf[t] \in Keys => pending[KeyOf[t]] # s
    BY <2>2, KeyAssumption DEF PendingIsOpen
  <2>4. \/ result' = result
        \/ /\ KeyOf[t] \in Keys
           /\ result' = [result EXCEPT ![pending[KeyOf[t]]].st = "closed"]
    BY <2>1 DEF Cancel, txVars
  <2> QED
    BY <2>3, <2>4
<1>4. CASE UNCHANGED txVars
  BY <1>4 DEF txVars
<1> QED
  BY <1>1, <1>2, <1>3, <1>4

LEMMA CancelStep == TypeInv /\ CancelInv /\ [Next]_vars => CancelInv'
<1> SUFFICES ASSUME TypeInv, CancelInv, [Next]_vars, NEW s \in Senders, UniqueKey(s)
             PROVE  /\ ~Returned(s)' /\ result'[s].st = "closed" /\ result'[s].response = None
                       => txClosed'
                    /\ ret'[s].err = "ErrorTransactionCancelled" => txClosed'
  BY DEF CancelInv, UniqueKey
<1> USE DEF TypeInv, SendType
<1>0. txClosed => txClosed'
  BY ClosedForGood
<1>1. CASE ~(SendStep(s) \/ Caller(s))
  <2>1. pc'[s] = pc[s] /\ ret'[s] = ret[s]
    BY <1>1, OtherSends
  <2>2. CASE TxClose
    BY <2>2 DEF TxClose, txVars
  <2>3. CASE ~TxClose /\ result[s].st = "closed"
    <3>1. result'[s] = result[s]
      BY <2>3, StepIsTx, TxEndedStays
    <3> QED
      BY <1>0, <2>1, <3>1 DEF CancelInv, Returned
  <2>4. CASE ~TxClose /\ result[s].st # "closed"
    BY <1>0, <1>1, <2>1, <2>4, OtherSends, OthersDoNotCancel, Zenon DEF CancelInv
  <2> QED
    BY <2>2, <2>3, <2>4
<1>2. CASE SendStep(s) \/ Caller(s)
  <2> USE DEF Returned
  <2>f. ASSUME NEW e \in DeviceErrors \cup {NoError}, e # "ErrorTransactionCancelled", Fail(s, e)
        PROVE  pc'[s] \in {"cancel", "done"} /\ ret'[s].err # "ErrorTransactionCancelled"
    BY <2>f DEF Fail, Return
  <2>1. CASE SendAwait(s)
    <3>1. pc[s] = "await" /\ result[s].st = "closed" /\ UNCHANGED txVars
      BY <2>1 DEF SendAwait
    <3>2. CASE result[s].response = None
      BY <1>0, <3>1, <3>2 DEF CancelInv, txVars
    <3>3. CASE result[s].response # None
      <4>1. Return(s, [err |-> NoError, response |-> result[s].response])
        BY <2>1, <3>3 DEF SendAwait
      <4>2. ret'[s].err = NoError /\ pc'[s] \in {"cancel", "done"}
        BY <4>1 DEF Return
      <4> QED
        BY <4>2 DEF NoError
    <3> QED
      BY <3>2, <3>3
  <2>2. CASE SendRegister(s)
    <3>1. CASE RegisterError(KeyOf[s]) = "ok"
      <4>1. ret' = ret /\ result' = [result EXCEPT ![s].st = "open"]
        BY <2>2, <3>1 DEF SendRegister, Register
      <4>2. result'[s].st = "open"
        BY <4>1 DEF TxInv, TxTypeOK, Channel
      <4> QED
        BY <1>0, <4>1, <4>2 DEF CancelInv
    <3>2. CASE RegisterError(KeyOf[s]) # "ok"
      <4>1. /\ RegisterError(KeyOf[s]) \in DeviceErrors
            /\ RegisterError(KeyOf[s]) # "ErrorTransactionCancelled"
        BY <3>2 DEF RegisterError, DeviceErrors
      <4> QED
        BY <2>2, <2>f, <3>2, <4>1 DEF SendRegister
    <3> QED
      BY <3>1, <3>2
  <2>3. CASE SendCancel(s)
    <3>1. ret' = ret /\ pc'[s] = "done"
      BY <2>3 DEF SendCancel
    <3> QED
      BY <1>0, <3>1 DEF CancelInv
  <2>4. CASE SendCheckClosed(s) \/ SendGiveUp(s) \/ SendComplete(s)
    <3>1. \/ \E e \in {"ErrorDeviceClosed", "ctx.Err", "io", NoError} : Fail(s, e)
          \/ /\ ret' = ret
             /\ pc[s] \in {"start", "sent"}
      BY <2>4 DEF SendCheckClosed, SendGiveUp, SendComplete
    <3>2. UNCHANGED txVars
      BY <2>4 DEF SendCheckClosed, SendGiveUp, SendComplete
    <3>3. CASE \E e \in {"ErrorDeviceClosed", "ctx.Err", "io", NoError} : Fail(s, e)
      BY <2>f, <3>3 DEF DeviceErrors, NoError
    <3>4. CASE ret' = ret /\ pc[s] \in {"start", "sent"}
      BY <1>0, <3>2, <3>4 DEF CancelInv, txVars
    <3> QED
      BY <3>1, <3>3, <3>4
  <2>5. CASE SendEnqueue(s) \/ ContextDone(s)
    BY <1>0, <2>5 DEF SendEnqueue, ContextDone, CancelInv, txVars
  <2> QED
    BY <1>2, <2>1, <2>2, <2>3, <2>4, <2>5, Zenon DEF SendStep, Caller
<1> QED
  BY <1>1, <1>2

\* Under a key no other caller uses, "cancelled" is reported only because the
\* device is closing.
THEOREM DeviceCancelledMeansClosed == Spec => []CancelledMeansClosed
<1>1. Init => CancelInv
  BY DEF Init, TxInit, CancelInv, NoError
<1>2. CancelInv => CancelledMeansClosed
  BY Zenon DEF CancelInv, CancelledMeansClosed
<1> QED
  BY <1>1, <1>2, CancelStep, TypeInvariance, PTL DEF Spec

-----------------------------------------------------------------------------
(* What the listeners hear of a message.                                   *)

\* A message that failed was reported to its Send with an error, or was still
\* unreported when the write pump drained it out of the queue.
FailedInv(s) ==
    \/ complete[s] = "error"
    \/ /\ complete[s] = "empty" /\ pc[s] \notin Early /\ wpc \in {"drain", "exit"}
       /\ \A i \in DOMAIN messages : messages[i] # s

EventInv ==
    /\ wpc = "select" => envelope = None
    /\ wpc = "dispatch" => complete[envelope] = IF writeError = NoError THEN "closed" ELSE "error"
    /\ wpc \notin {"select", "write", "dispatch"} => envelope = None \/ complete[envelope] = "error"
    /\ \A s \in Senders : /\ sentEvents[s] > 0 => complete[s] = "closed"
                          /\ failedEvents[s] > 0 => FailedInv(s)

LEMMA EventInvSentOrFailed == TypeInv /\ DeliveryInv /\ EventInv => SentOrFailed
BY DEF TypeInv, EventType, DeliveryInv, Delivered, EventInv, FailedInv, SentOrFailed

LEMMA EventInit == Init => EventInv
BY DEF Init, EventInv

LEMMA SendEvents ==
    ASSUME TypeInv, EnvelopeInv, EventInv, NEW s \in Senders, SendStep(s) \/ Caller(s)
    PROVE  EventInv'
<1>0. UNCHANGED <<complete, wpc, envelope, writeError, sentEvents, failedEvents>>
  BY SendMoves DEF SendStep, Caller, writeVars, eventVars
<1>1. ASSUME NEW t \in Senders, FailedInv(t) PROVE FailedInv(t)'
  <2>1. pc'[t] \in Early => pc[t] \in Early
    BY SendMoves
  <2>2. CASE messages' = messages
    BY <1>0, <1>1, <2>1, <2>2 DEF FailedInv
  <2>3. CASE messages' = Append(messages, s) /\ pc[s] = "enqueue"
    <3>1. complete[s] = "empty"
      BY <2>3 DEF EnvelopeInv, Early
    <3>2. CASE complete[t] = "error"
      BY <1>0, <3>2 DEF FailedInv
    <3>3. CASE complete[t] # "error"
      <4>1. t # s
        BY <1>1, <2>3, <3>3 DEF FailedInv, Early
      <4>2. \A i \in DOMAIN messages' : messages'[i] # t
        <5>1. /\ Len(messages) \in Nat /\ DOMAIN messages = 1..Len(messages)
          BY MessagesType DEF TypeInv
        <5>2. /\ Len(messages') = Len(messages) + 1
              /\ \A i \in 1..Len(messages) : messages'[i] = messages[i]
              /\ messages'[Len(messages) + 1] = s
              /\ messages' \in Seq(Senders)
          BY <2>3 DEF TypeInv, QueueType
        <5>3. DOMAIN messages' = 1..(Len(messages) + 1)
          BY <5>2
        <5>4. \A i \in DOMAIN messages' : i \in DOMAIN messages \/ i = Len(messages) + 1
          BY <5>1, <5>3
        <5> QED
          BY <1>1, <3>3, <4>1, <5>1, <5>2, <5>4 DEF FailedInv
      <4> QED
        BY <1>0, <1>1, <2>1, <3>3, <4>2 DEF FailedInv
    <3> QED
      BY <3>2, <3>3
  <2> QED
    BY <2>2, <2>3, SendMoves
<1> QED
  BY <1>0, <1>1 DEF EventInv

LEMMA WriteEvents ==
    ASSUME TypeInv, EnvelopeInv, EventInv, WriteWork \/ WriteTick
    PROVE  EventInv'
<1>0. pc' = pc
  BY DEF WriteWork, WriteTick
<1>t. /\ complete \in [Senders -> {"empty", "error", "closed"}]
      /\ sentEvents \in [Senders -> Nat] /\ failedEvents \in [Senders -> Nat]
      /\ wpc \in {"write", "dispatch"} => envelope \in Senders
      /\ envelope \in Senders \cup {None}
  BY DEF TypeInv, SendType, EventType, WriteType

\* The steps that touch neither the queue nor the events.
<1>q. ASSUME UNCHANGED <<complete, messages, sentEvents, failedEvents>>,
             wpc \in {"drain", "exit"} => wpc' \in {"drain", "exit"}
      PROVE  \A s \in Senders : /\ sentEvents'[s] > 0 => complete'[s] = "closed"
                                /\ failedEvents'[s] > 0 => FailedInv(s)'
  BY <1>0, <1>q DEF EventInv, FailedInv
<1>1. CASE WriteShutdown
  BY <1>1, <1>q DEF WriteShutdown, eventVars, EventInv
<1>2. CASE WriteDequeue
  <2>1. wpc = "select" /\ wpc' = "write" /\ UNCHANGED <<complete, sentEvents, failedEvents>>
    BY <1>2 DEF WriteDequeue, eventVars
  <2>2. \A s \in Senders : failedEvents[s] > 0 => complete[s] = "error"
    BY <2>1 DEF EventInv, FailedInv
  <2> QED
    BY <2>1, <2>2 DEF EventInv, FailedInv
<1>3. CASE WriteMessage
  <2>1. /\ wpc = "write" /\ wpc' = "dispatch"
        /\ UNCHANGED <<envelope, sentEvents, failedEvents>>
        /\ complete' = [complete EXCEPT ![envelope] =
                           IF writeError' = NoError THEN "closed" ELSE "error"]
    BY <1>3 DEF WriteMessage, eventVars
  <2>2. complete[envelope] = "empty" /\ envelope \in Senders
    BY <1>t, <2>1 DEF EnvelopeInv
  <2>3. \A s \in Senders : failedEvents[s] > 0 => complete[s] = "error"
    BY <2>1 DEF EventInv, FailedInv
  <2> QED
    BY <1>t, <2>1, <2>2, <2>3 DEF EventInv, FailedInv
<1>4. CASE WriteDispatch
  <2>0. /\ wpc = "dispatch" /\ envelope \in Senders /\ complete' = complete
        /\ complete[envelope] = IF writeError = NoError THEN "closed" ELSE "error"
        /\ \A s \in Senders : failedEvents[s] > 0 => complete[s] = "error"
    BY <1>4, <1>t DEF WriteDispatch, EventInv, FailedInv
  <2>1. CASE writeError = NoError
    <3>1. /\ wpc' = "select" /\ envelope' = None /\ failedEvents' = failedEvents
          /\ sentEvents' = [sentEvents EXCEPT ![envelope] = @ + 1]
      BY <1>4, <2>1 DEF WriteDispatch
    <3>2. \A s \in Senders : s # envelope => sentEvents'[s] = sentEvents[s]
      BY <1>t, <3>1
    <3> QED
      BY <2>0, <2>1, <3>1, <3>2 DEF EventInv, FailedInv
  <2>2. CASE writeError # NoError
    <3>1. /\ wpc' = "cleanup" /\ envelope' = envelope /\ sentEvents' = sentEvents
          /\ failedEvents' = [failedEvents EXCEPT ![envelope] = @ + 1]
      BY <1>4, <2>2 DEF WriteDispatch
    <3>2. \A s \in Senders : s # envelope => failedEvents'[s] = failedEvents[s]
      BY <1>t, <3>1
    <3> QED
      BY <2>0, <2>2, <3>1, <3>2 DEF EventInv, FailedInv
  <2> QED
    BY <2>1, <2>2
<1>5. CASE WriteCleanup
  <2>1. UNCHANGED <<messages, complete, envelope, sentEvents, failedEvents>>
    BY <1>5 DEF WriteCleanup, PumpRemove, PumpCloseConn, PumpDisconnect, PumpSkip, eventVars
  <2>2. wpc \in {"cleanup", "close", "disconnect"} /\ wpc' \in {"close", "disconnect", "refail"}
    BY <1>5 DEF WriteCleanup
  <2> QED
    BY <1>q, <2>1, <2>2 DEF EventInv
<1>6. CASE WriteRefail
  <2>1. /\ wpc = "refail" /\ wpc' = "drain"
        /\ UNCHANGED <<complete, envelope, sentEvents>>
        /\ envelope = None \/ complete[envelope] = "error"
        /\ \/ failedEvents' = failedEvents
           \/ envelope # None /\ failedEvents' = [failedEvents EXCEPT ![envelope] = @ + 1]
    <3>1. wpc = "refail"
      BY <1>6 DEF WriteRefail
    <3>2. envelope = None \/ complete[envelope] = "error"
      BY <3>1 DEF EventInv
    <3> QED
      BY <1>6, <3>1, <3>2 DEF WriteRefail
  <2>2. \A s \in Senders : failedEvents[s] > 0 => complete[s] = "error"
    BY <2>1 DEF EventInv, FailedInv
  <2>3. \A s \in Senders : failedEvents'[s] > 0 => complete[s] = "error"
    BY <1>t, <2>1, <2>2
  <2> QED
    BY <2>1, <2>3 DEF EventInv, FailedInv
<1>7. CASE WriteDrain
  <2>0. wpc = "drain" /\ wpc' \in {"drain", "exit"} /\ UNCHANGED <<complete, envelope, sentEvents>>
    BY <1>7 DEF WriteDrain
  <2>1. CASE messages = <<>>
    BY <1>7, <1>q, <2>0, <2>1 DEF WriteDrain, EventInv
  <2>2. CASE messages # <<>>
    <3>1. /\ failedEvents' = [failedEvents EXCEPT ![Head(messages)] = @ + 1]
          /\ messages' = Tail(messages)
      BY <1>7, <2>2 DEF WriteDrain
    <3>2. /\ Head(messages) \in Senders
          /\ pc[Head(messages)] \notin Early /\ complete[Head(messages)] = "empty"
          /\ \A i \in DOMAIN messages' : /\ messages'[i] # Head(messages)
                                         /\ i + 1 \in DOMAIN messages
                                         /\ messages'[i] = messages[i + 1]
      BY <2>2, <3>1, TailQueue
    <3>3. \A s \in Senders : failedEvents'[s] > 0 => FailedInv(s)'
      <4> SUFFICES ASSUME NEW s \in Senders, failedEvents'[s] > 0 PROVE FailedInv(s)'
        OBVIOUS
      <4>1. CASE s = Head(messages)
        BY <1>0, <2>0, <3>2, <4>1 DEF FailedInv
      <4>2. CASE s # Head(messages)
        <5>1. FailedInv(s)
          BY <1>t, <3>1, <4>2 DEF EventInv
        <5> QED
          BY <1>0, <2>0, <3>2, <5>1 DEF FailedInv
      <4> QED
        BY <4>1, <4>2
    <3> QED
      BY <2>0, <3>3, Zenon DEF EventInv
  <2> QED
    BY <2>1, <2>2
<1>8. CASE WritePing
  BY <1>8, <1>q DEF WritePing, eventVars, EventInv
<1> QED
  BY <1>1, <1>2, <1>3, <1>4, <1>5, <1>6, <1>7, <1>8 DEF WriteWork, WriteTick

LEMMA EventStep == TypeInv /\ EnvelopeInv /\ EventInv /\ [Next]_vars => EventInv'
<1> SUFFICES ASSUME TypeInv, EnvelopeInv, EventInv, [Next]_vars PROVE EventInv'
  OBVIOUS
<1>1. CASE \E s \in Senders : SendStep(s) \/ Caller(s)
  BY <1>1, SendEvents
<1>2. CASE WriteWork \/ WriteTick
  BY <1>2, WriteEvents
<1>3. CASE UNCHANGED <<pc, complete, messages, wpc, envelope, writeError, sentEvents, failedEvents>>
  BY <1>3, Zenon DEF EventInv, FailedInv
<1>4. CASE ReadPump
  <2>1. UNCHANGED <<sentEvents, failedEvents>>
    BY <1>4 DEF ReadPump, ReadMessage, ReadError, ReadCleanup, PumpRemove, PumpCloseConn,
       PumpDisconnect, PumpSkip, eventVars
  <2> QED
    BY <1>3, <1>4, <2>1 DEF ReadPump, sendVars, writeVars
<1> QED
  BY <1>1, <1>2, <1>3, <1>4 DEF Next, RequestClose, ManagerRemove, Finished, vars, sendVars,
     writeVars, eventVars

LEMMA EnvelopeInvariance == Spec => [](TypeInv /\ EnvelopeInv)
BY EnvelopeInit, EnvelopeStep, TypeInvariance, PTL DEF Spec

\* The listeners never hear of one message both that it was sent and that it
\* failed, although the pump reports a failed message a second time when it
\* ends, and reports as failed everything it finds in the queue.
THEOREM DeviceSentOrFailed == Spec => []SentOrFailed
<1>1. Spec => []EventInv
  BY EventInit, EventStep, EnvelopeInvariance, PTL DEF Spec
<1>2. Spec => []DeliveryInv
  BY DeliveryInit, DeliveryStep, TypeInvariance, PTL DEF Spec
<1> QED
  BY <1>1, <1>2, TypeInvariance, EventInvSentOrFailed, PTL

\* Queued(s): the first way to owe an event.
Queued(s) == \E i \in DOMAIN messages : messages[i] = s

\* Taking the head out of the queue leaves every other message in it.
LEMMA TailKeeps ==
    ASSUME TypeInv, messages # <<>>, messages' = Tail(messages), NEW s, Queued(s),
           s # Head(messages)
    PROVE  Queued(s)'
<1>1. /\ Len(messages) \in Nat \ {0} /\ DOMAIN messages = 1..Len(messages)
  BY MessagesType DEF TypeInv, QueueType
<1>2. /\ messages' \in Seq(Senders) /\ Len(messages') = Len(messages) - 1
      /\ \A i \in 1..Len(messages') : messages'[i] = messages[i + 1]
      /\ Head(messages) = messages[1]
  BY DEF TypeInv, QueueType
<1>3. DOMAIN messages' = 1..(Len(messages) - 1)
  BY <1>2
<1>4. PICK i \in DOMAIN messages : messages[i] = s
  BY DEF Queued
<1>5. i - 1 \in DOMAIN messages' /\ (i - 1) + 1 = i
  BY <1>1, <1>2, <1>3, <1>4
<1>6. messages'[i - 1] = s
  BY <1>1, <1>2, <1>3, <1>4, <1>5
<1> QED
  BY <1>5, <1>6 DEF Queued

LEMMA DroppedStep ==
    ASSUME TypeInv, [Next]_vars, NEW s \in Senders, Owed(s), ~Owed(s)'
    PROVE  (sentEvents[s] + failedEvents[s])' > sentEvents[s] + failedEvents[s]
<1>t. sentEvents \in [Senders -> Nat] /\ failedEvents \in [Senders -> Nat]
  BY DEF TypeInv, EventType
<1>o. /\ Owed(s) <=> Queued(s) \/ (wpc \in {"write", "dispatch"} /\ envelope = s)
      /\ Owed(s)' <=> Queued(s)' \/ (wpc' \in {"write", "dispatch"} /\ envelope' = s)
  BY DEF Owed, Queued
<1>1. ASSUME UNCHANGED <<messages, wpc, envelope>> PROVE FALSE
  BY <1>1, <1>o DEF Queued
<1>2. ASSUME NEW t \in Senders, SendStep(t) \/ Caller(t) PROVE FALSE
  <2>1. wpc' = wpc /\ envelope' = envelope
    BY <1>2 DEF SendStep, Caller, writeVars
  <2>2. CASE messages' = Append(messages, t)
    <3>1. Len(messages) \in Nat /\ DOMAIN messages = 1..Len(messages)
      BY MessagesType DEF TypeInv
    <3>2. /\ messages' \in Seq(Senders) /\ Len(messages') = Len(messages) + 1
          /\ \A i \in 1..Len(messages) : messages'[i] = messages[i]
      BY <1>2, <2>2 DEF TypeInv, QueueType
    <3>3. DOMAIN messages' = 1..(Len(messages) + 1)
      BY <3>2
    <3>4. \A i \in DOMAIN messages : i \in DOMAIN messages' /\ messages'[i] = messages[i]
      BY <3>1, <3>2, <3>3
    <3> QED
      BY <1>o, <2>1, <3>4 DEF Queued
  <2> QED
    BY <1>1, <1>2, <2>1, <2>2, SendMoves, Zenon
<1>3. CASE WriteDequeue
  <2>1. /\ wpc = "select" /\ messages # <<>> /\ messages' = Tail(messages)
        /\ envelope' = Head(messages) /\ wpc' = "write"
    BY <1>3 DEF WriteDequeue
  <2>2. Queued(s) /\ s # Head(messages)
    BY <1>o, <2>1
  <2> QED
    BY <1>o, <2>1, <2>2, TailKeeps, Zenon
<1>4. CASE WriteMessage
  BY <1>4, <1>o DEF WriteMessage, Queued
<1>5. CASE WriteDispatch
  <2>1. wpc = "dispatch" /\ messages' = messages
    BY <1>5 DEF WriteDispatch
  <2>2. envelope = s
    BY <1>o, <2>1 DEF Queued
  <2> QED
    BY <1>5, <1>t, <2>2 DEF WriteDispatch
<1>6. CASE WriteDrain
  <2>0. wpc = "drain"
    BY <1>6 DEF WriteDrain
  <2>1. Queued(s) /\ messages # <<>>
    <3>1. Queued(s)
      BY <1>o, <2>0
    <3> QED
      BY <3>1 DEF Queued
  <2>2. /\ failedEvents' = [failedEvents EXCEPT ![Head(messages)] = @ + 1]
        /\ messages' = Tail(messages) /\ sentEvents' = sentEvents
    BY <1>6, <2>1 DEF WriteDrain
  <2>3. s = Head(messages)
    BY <1>o, <2>1, <2>2, TailKeeps
  <2> QED
    BY <1>t, <2>2, <2>3
<1>7. ASSUME messages' = messages, wpc \notin {"write", "dispatch"} PROVE FALSE
  BY <1>7, <1>o DEF Queued
<1>8. CASE WriteShutdown \/ WriteCleanup \/ WriteRefail \/ WritePing
  BY <1>7, <1>8 DEF WriteShutdown, WriteCleanup, WriteRefail, WritePing
<1> QED
  BY <1>1, <1>2, <1>3, <1>4, <1>5, <1>6, <1>8, Zenon DEF Next, WriteWork, WriteTick, RequestClose,
     ManagerRemove, ReadPump, Finished, vars, writeVars

\* No message is lost silently: in the very step in which a message leaves the
\* queue and the write pump's hands, its listeners are told what became of it.
THEOREM DeviceNothingDropped == Spec => NothingDropped
<1>1. TypeInv /\ [Next]_vars
      => [\A s \in Senders : Owed(s) /\ ~Owed(s)' =>
             (sentEvents[s] + failedEvents[s])' > sentEvents[s] + failedEvents[s]]_vars
  BY DroppedStep
<1> QED
  BY <1>1, TypeInvariance, PTL DEF Spec, NothingDropped
=============================================================================
