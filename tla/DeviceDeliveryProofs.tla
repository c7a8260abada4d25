------------------------ MODULE DeviceDeliveryProofs ------------------------
(***************************************************************************)
(* What a caller of Send may rely on, for any number of callers, keys and  *)
(* queue slots, that success means delivery; and that the pumps announce the *)
(* end of a device once.                                                   *)
(***************************************************************************)
EXTENDS DeviceProofs

-----------------------------------------------------------------------------
(* Success means delivery.                                                 *)

\* r is what a successful Send of s may return: nothing outside a transaction,
\* and the answer to a request with the same key inside one.
GoodResponse(s, r) ==
    /\ KeyOf[s] = NoKey <=> r = None
    /\ r # None => r \in written /\ KeyOf[r] = KeyOf[s]

Delivered(s) ==
    /\ complete[s] = "closed" => s \in written
    /\ pc[s] = "await" => s \in written
    /\ result[s].response # None => /\ result[s].response \in written
                                    /\ KeyOf[result[s].response] = KeyOf[s]
    /\ result[s].st # "nil" => KeyOf[s] \in Keys
    /\ pc[s] \in {"enqueue", "sent", "await"} /\ result[s].st = "nil" => KeyOf[s] = NoKey
    /\ Returned(s) /\ ret[s].err = NoError => s \in written /\ GoodResponse(s, ret[s].response)

DeliveryInv == \A s \in Senders : Delivered(s)

LEMMA DeliveryInvSuccess == TypeInv /\ DeliveryInv => SuccessIsDelivery
<1> SUFFICES ASSUME TypeInv, DeliveryInv, NEW s \in Senders, Returned(s), ret[s].err = NoError
             PROVE  /\ s \in written
                    /\ KeyOf[s] = NoKey <=> ret[s].response = None
                    /\ ret[s].response # None => /\ ret[s].response \in written
                                                 /\ KeyOf[ret[s].response] = KeyOf[s]
                    /\ UniqueKey(s) => ret[s].response = s
  BY DEF SuccessIsDelivery
<1>1. s \in written /\ GoodResponse(s, ret[s].response) /\ written \subseteq Senders
  BY DEF DeliveryInv, Delivered, TypeInv, WriteType
<1>2. UniqueKey(s) => ret[s].response = s
  BY <1>1, KeyAssumption DEF GoodResponse, UniqueKey
<1> QED
  BY <1>1, <1>2 DEF GoodResponse

LEMMA DeliveryInit == Init => DeliveryInv
<1> SUFFICES ASSUME Init, NEW s \in Senders
             PROVE  /\ complete[s] = "empty" /\ pc[s] = "start"
                    /\ result[s].response = None /\ result[s].st = "nil"
  BY Zenon DEF DeliveryInv, Delivered, Returned
<1> QED
  BY DEF Init, TxInit

\* Cancel and Close end channels and leave the responses in them alone.
LEMMA CancelKeepsResponses ==
    ASSUME TxInv, NEW k, Cancel(k) \/ TxClose \/ UNCHANGED txVars, NEW s \in Senders
    PROVE  /\ result'[s].response = result[s].response
           /\ result'[s].st = "nil" <=> result[s].st = "nil"
<1> USE DEF TxInv, TxTypeOK, Channel
<1>1. CASE Cancel(k)
  <2>1. CASE txClosed \/ k \notin Keys \/ pending[k] = None
    BY <1>1, <2>1 DEF Cancel, txVars
  <2>2. CASE ~(txClosed \/ k \notin Keys) /\ pending[k] # None
    BY <1>1, <2>2 DEF Cancel, PendingIsOpen
  <2> QED
    BY <2>1, <2>2
<1>2. CASE TxClose
  <2>1. CASE \E j \in Keys : pending[j] = s
    BY <1>2, <2>1, KeyAssumption DEF TxClose, txVars, PendingIsOpen
  <2>2. CASE ~\E j \in Keys : pending[j] = s
    BY <1>2, <2>2 DEF TxClose, txVars
  <2> QED
    BY <2>1, <2>2
<1>3. CASE UNCHANGED txVars
  BY <1>3 DEF txVars
<1> QED
  BY <1>1, <1>2, <1>3

\* What a step leaves alone stays delivered, and more may have been written.
LEMMA StillDelivered ==
    ASSUME NEW s \in Senders, Delivered(s), written \subseteq written',
           complete'[s] = "closed" => complete[s] = "closed" \/ s \in written',
           pc'[s] = pc[s], ret'[s] = ret[s],
           result'[s].response = result[s].response,
           result'[s].st = "nil" <=> result[s].st = "nil"
    PROVE  Delivered(s)'
<1>1. Returned(s)' <=> Returned(s)
  BY DEF Returned
<1>2. Returned(s)' /\ ret'[s].err = NoError => s \in written' /\ GoodResponse(s, ret[s].response)'
  BY <1>1 DEF Delivered, GoodResponse
<1> QED
  BY <1>2 DEF Delivered

\* What a step of s that leaves the other callers and all the responses alone
\* has to establish.
SendFollows(s) ==
    /\ \A t \in Senders \ {s} : pc'[t] = pc[t] /\ ret'[t] = ret[t]
    /\ \A t \in Senders : result'[t].response = result[t].response
    /\ \A t \in Senders \ {s} : result'[t].st = "nil" <=> result[t].st = "nil"
    /\ result'[s].st # "nil" => KeyOf[s] \in Keys
    /\ pc'[s] = "await" => s \in written
    /\ pc'[s] \in {"enqueue", "sent", "await"} /\ result'[s].st = "nil" => KeyOf[s] = NoKey
    /\ pc'[s] \in {"cancel", "done"} /\ ret'[s].err = NoError
       => s \in written /\ GoodResponse(s, ret'[s].response)

LEMMA SendFollowed ==
    ASSUME DeliveryInv, NEW s \in Senders, SendFollows(s), complete' = complete, written' = written
    PROVE  DeliveryInv'
<1>1. ASSUME NEW t \in Senders, t # s PROVE Delivered(t)'
  <2>1. /\ Delivered(t) /\ written \subseteq written' /\ complete'[t] = complete[t]
        /\ pc'[t] = pc[t] /\ ret'[t] = ret[t] /\ result'[t].response = result[t].response
        /\ result'[t].st = "nil" <=> result[t].st = "nil"
    BY <1>1 DEF DeliveryInv, SendFollows
  <2> QED
    BY <2>1, StillDelivered
<1>2. Delivered(s)'
  <2>1. Delivered(s)
    BY DEF DeliveryInv
  <2>2. result'[s].response = result[s].response
    BY DEF SendFollows
  <2>3. /\ complete'[s] = "closed" => s \in written'
        /\ result'[s].response # None => /\ result'[s].response \in written'
                                         /\ KeyOf[result'[s].response] = KeyOf[s]
    BY <2>1, <2>2 DEF Delivered
  <2>4. Returned(s)' /\ ret'[s].err = NoError => s \in written' /\ GoodResponse(s, ret[s].response)'
    BY DEF SendFollows, Returned, GoodResponse
  <2> QED
    BY <2>3, <2>4 DEF SendFollows, Delivered
<1> QED
  BY <1>1, <1>2 DEF DeliveryInv

LEMMA SendDelivery ==
    ASSUME TypeInv, DeliveryInv, NEW s \in Senders, SendStep(s) \/ Caller(s)
    PROVE  DeliveryInv'
<1>0. complete' = complete /\ written' = written
  BY SendMoves DEF TypeInv, SendStep, Caller, writeVars
<1>d. Delivered(s)
  BY DEF DeliveryInv
<1>y. DOMAIN pc = Senders /\ DOMAIN ret = Senders /\ TxInv
  BY DEF TypeInv, SendType
<1> SUFFICES SendFollows(s)
  BY <1>0, SendFollowed
<1>f. ASSUME NEW e \in DeviceErrors, Fail(s, e), UNCHANGED txVars
      PROVE  SendFollows(s)
  <2>1. /\ pc' = [pc EXCEPT ![s] = IF result[s].st = "nil" THEN "done" ELSE "cancel"]
        /\ ret' = [ret EXCEPT ![s] = [err |-> e, response |-> None]]
    BY <1>f DEF Fail, Return
  <2>2. /\ pc'[s] \in {"cancel", "done"} /\ ret'[s].err # NoError
        /\ \A t \in Senders \ {s} : pc'[t] = pc[t] /\ ret'[t] = ret[t]
        /\ result' = result
    BY <1>f, <1>y, <2>1 DEF DeviceErrors, NoError, txVars
  <2> QED
    BY <1>d, <2>2 DEF SendFollows, Delivered
<1>1. CASE SendCheckClosed(s)
  <2>1. CASE state = "closed"
    BY <1>1, <1>f, <2>1 DEF SendCheckClosed, DeviceErrors
  <2>2. CASE state # "closed"
    <3>1. /\ pc' = [pc EXCEPT ![s] = IF KeyOf[s] = NoKey THEN "enqueue" ELSE "register"]
          /\ ret' = ret /\ result' = result
      BY <1>1, <2>2 DEF SendCheckClosed, txVars
    <3>2. /\ (pc'[s] = "enqueue" /\ KeyOf[s] = NoKey) \/ pc'[s] = "register"
          /\ \A t \in Senders \ {s} : pc'[t] = pc[t]
      BY <1>y, <3>1
    <3> QED
      BY <1>d, <3>1, <3>2 DEF SendFollows, Delivered
  <2> QED
    BY <2>1, <2>2
<1>2. CASE SendRegister(s)
  <2>1. CASE RegisterError(KeyOf[s]) = "ok"
    <3>1. /\ KeyOf[s] \in Keys /\ pc' = [pc EXCEPT ![s] = "enqueue"] /\ ret' = ret
          /\ result' = [result EXCEPT ![s].st = "open"]
      BY <1>2, <2>1 DEF SendRegister, Register
    <3>2. /\ \A t \in Senders : result'[t].response = result[t].response
          /\ \A t \in Senders \ {s} : result'[t] = result[t]
          /\ result'[s].st = "open"
      BY <1>y, <3>1 DEF TxInv, TxTypeOK, Channel
    <3>3. pc'[s] = "enqueue" /\ \A t \in Senders \ {s} : pc'[t] = pc[t]
      BY <1>y, <3>1
    <3> QED
      BY <3>1, <3>2, <3>3 DEF SendFollows
  <2>2. CASE RegisterError(KeyOf[s]) # "ok"
    <3>1. RegisterError(KeyOf[s]) \in DeviceErrors
      BY <2>2 DEF RegisterError, DeviceErrors
    <3> QED
      BY <1>2, <1>f, <2>2, <3>1 DEF SendRegister
  <2> QED
    BY <2>1, <2>2
<1>3. CASE SendEnqueue(s)
  <2>1. pc[s] = "enqueue" /\ pc' = [pc EXCEPT ![s] = "sent"] /\ ret' = ret /\ result' = result
    BY <1>3 DEF SendEnqueue, txVars
  <2>2. pc'[s] = "sent" /\ \A t \in Senders \ {s} : pc'[t] = pc[t]
    BY <1>y, <2>1
  <2> QED
    BY <1>d, <2>1, <2>2 DEF SendFollows, Delivered
<1>4. CASE SendGiveUp(s)
  BY <1>4, <1>f DEF SendGiveUp, DeviceErrors
<1>5. CASE SendComplete(s)
  <2>0. pc[s] = "sent" /\ result' = result /\ UNCHANGED txVars
    BY <1>5 DEF SendComplete, txVars
  <2>1. CASE Fail(s, "io")
    BY <1>f, <2>0, <2>1 DEF DeviceErrors
  <2>2. CASE complete[s] = "closed" /\ result[s].st = "nil" /\ Fail(s, NoError)
    <3>1. /\ pc' = [pc EXCEPT ![s] = "done"]
          /\ ret' = [ret EXCEPT ![s] = [err |-> NoError, response |-> None]]
      BY <2>2 DEF Fail, Return
    <3>2. s \in written /\ KeyOf[s] = NoKey
      BY <1>d, <2>0, <2>2 DEF Delivered
    <3>3. ret'[s].response = None /\ GoodResponse(s, ret'[s].response)
      BY <1>y, <3>1, <3>2 DEF GoodResponse
    <3>4. \A t \in Senders \ {s} : pc'[t] = pc[t] /\ ret'[t] = ret[t]
      BY <1>y, <3>1
    <3>5. pc'[s] = "done" /\ result[s].st = "nil"
      BY <1>y, <2>2, <3>1
    <3> QED
      BY <2>0, <3>2, <3>3, <3>4, <3>5 DEF SendFollows
  <2>3. CASE complete[s] = "closed" /\ pc' = [pc EXCEPT ![s] = "await"] /\ ret' = ret
    <3>1. pc'[s] = "await" /\ \A t \in Senders \ {s} : pc'[t] = pc[t]
      BY <1>y, <2>3
    <3> QED
      BY <1>d, <2>0, <2>3, <3>1 DEF SendFollows, Delivered
  <2>4. complete[s] # "error" => complete[s] = "closed"
    BY <1>5 DEF SendComplete, TypeInv, SendType
  <2> QED
    BY <1>5, <2>1, <2>2, <2>3, <2>4 DEF SendComplete
<1>6. CASE SendAwait(s)
  <2>1. CASE result[s].response = None
    BY <1>6, <1>f, <2>1 DEF SendAwait, DeviceErrors
  <2>2. CASE result[s].response # None
    <3>1. /\ pc' = [pc EXCEPT ![s] = IF result[s].st = "nil" THEN "done" ELSE "cancel"]
          /\ ret' = [ret EXCEPT ![s] = [err |-> NoError, response |-> result[s].response]]
          /\ pc[s] = "await" /\ result[s].st = "closed" /\ result' = result
      BY <1>6, <2>2 DEF SendAwait, Return, txVars
    <3>2. s \in written /\ GoodResponse(s, result[s].response) /\ KeyOf[s] \in Keys
      BY <1>d, <2>2, <3>1, KeyAssumption DEF Delivered, GoodResponse
    <3>3. /\ ret'[s].response = result[s].response /\ pc'[s] = "cancel"
          /\ \A t \in Senders \ {s} : pc'[t] = pc[t] /\ ret'[t] = ret[t]
      BY <1>y, <3>1
    <3> QED
      BY <3>1, <3>2, <3>3 DEF SendFollows
  <2> QED
    BY <2>1, <2>2
<1>7. CASE SendCancel(s)
  <2>1. pc[s] = "cancel" /\ pc' = [pc EXCEPT ![s] = "done"] /\ ret' = ret /\ Cancel(KeyOf[s])
    BY <1>7 DEF SendCancel
  <2>2. \A t \in Senders : /\ result'[t].response = result[t].response
                           /\ result'[t].st = "nil" <=> result[t].st = "nil"
    BY <1>y, <2>1, CancelKeepsResponses
  <2>3. pc'[s] = "done" /\ \A t \in Senders \ {s} : pc'[t] = pc[t]
    BY <1>y, <2>1
  <2> QED
    BY <1>d, <2>1, <2>2, <2>3 DEF SendFollows, Delivered, Returned
<1>8. CASE ContextDone(s)
  <2>1. pc' = pc /\ ret' = ret /\ result' = result
    BY <1>8 DEF ContextDone, txVars
  <2> QED
    BY <1>d, <2>1 DEF SendFollows, Delivered, Returned
<1> QED
  BY <1>1, <1>2, <1>3, <1>4, <1>5, <1>6, <1>7, <1>8 DEF SendStep, Caller

LEMMA ReadDelivery ==
    ASSUME TypeInv, DeliveryInv, ReadPump
    PROVE  DeliveryInv'
<1>0. UNCHANGED <<complete, written, pc, ret>>
  BY DEF ReadPump, sendVars, writeVars
<1>d. ASSUME NEW s \in Senders, result'[s] = result[s] PROVE Delivered(s)'
  BY <1>0, <1>d, StillDelivered DEF DeliveryInv
<1>1. CASE UNCHANGED txVars
  BY <1>d, <1>1 DEF txVars, DeliveryInv
<1>2. CASE ReadMessage /\ ~UNCHANGED txVars
  <2>1. PICK f \in Frames : Deliver(f)
    BY <1>2 DEF ReadMessage
  <2> DEFINE k == KeyOf[f.answers]
  <2>2. f.answers \in written /\ k \in Keys /\ Complete(k, f.answers)
    BY <1>2, <2>1 DEF Frames, Deliver
  <2>3. pending[k] # None
    BY <2>2, KeyAssumption DEF Complete, CompleteError
  <2>4. PICK t \in Senders : t = pending[k] /\ KeyOf[t] = k /\ result[t].st = "open"
    BY <2>2, <2>3 DEF TypeInv, TxInv, TxTypeOK, PendingIsOpen
  <2>5. /\ result'[t] = [st |-> "closed", response |-> f.answers]
        /\ \A s \in Senders : s # t => result'[s] = result[s]
    BY <2>2, <2>4 DEF Complete, TypeInv, TxInv, TxTypeOK
  <2> HIDE DEF k
  <2>6. /\ result'[t].response = f.answers /\ result'[t].st = "closed"
        /\ KeyOf[f.answers] = KeyOf[t] /\ KeyOf[t] \in Keys
    BY <2>2, <2>4, <2>5 DEF k
  <2>7. Delivered(t)'
    <3>1. Delivered(t) /\ Returned(t)' = Returned(t)
      BY <1>0, <2>4 DEF DeliveryInv, Returned
    <3> QED
      BY <1>0, <2>2, <2>6, <3>1 DEF Delivered, GoodResponse
  <2> QED
    BY <1>d, <2>5, <2>7 DEF DeliveryInv
<1> QED
  BY <1>1, <1>2 DEF ReadPump, ReadError, ReadCleanup

LEMMA WriteDelivery ==
    ASSUME TypeInv, DeliveryInv, WriteWork \/ WriteTick
    PROVE  DeliveryInv'
<1>0. UNCHANGED <<result, pc, ret>>
  BY DEF WriteWork, WriteTick, txVars
<1>d. ASSUME written \subseteq written',
             \A s \in Senders : complete'[s] = "closed" => complete[s] = "closed" \/ s \in written'
      PROVE  DeliveryInv'
  BY <1>0, <1>d, StillDelivered DEF DeliveryInv
<1>1. CASE WriteMessage
  BY <1>d, <1>1 DEF WriteMessage, TypeInv, SendType, Errors
<1>2. CASE UNCHANGED <<complete, written>>
  BY <1>d, <1>2
<1> QED
  BY <1>1, <1>2 DEF WriteWork, WriteTick, WriteShutdown, WriteDequeue, WriteDispatch, WriteCleanup,
     WriteRefail, WriteDrain, WritePing

LEMMA DeliveryStep == TypeInv /\ DeliveryInv /\ [Next]_vars => DeliveryInv'
<1> SUFFICES ASSUME TypeInv, DeliveryInv, [Next]_vars PROVE DeliveryInv'
  OBVIOUS
<1>1. CASE \E s \in Senders : SendStep(s) \/ Caller(s)
  BY <1>1, SendDelivery
<1>2. CASE WriteWork \/ WriteTick
  BY <1>2, WriteDelivery
<1>3. CASE ReadPump
  BY <1>3, ReadDelivery
<1>4. CASE RequestClose
  <2>1. UNCHANGED <<complete, written, pc, ret>>
    BY <1>4 DEF RequestClose, sendVars, writeVars
  <2>2. TxClose \/ UNCHANGED txVars
    BY <1>4, Zenon DEF RequestClose, RequestCloseCAS, RequestCloseShutdown,
           RequestCloseTransactions,
       RequestCloseReason
  <2>3. \A s \in Senders : /\ result'[s].response = result[s].response
                           /\ result'[s].st = "nil" <=> result[s].st = "nil"
    BY <2>2, CancelKeepsResponses DEF TypeInv
  <2> QED
    BY <2>1, <2>3, StillDelivered DEF DeliveryInv
<1>5. CASE UNCHANGED <<txVars, complete, written, pc, ret>>
  BY <1>5, StillDelivered DEF DeliveryInv, txVars
<1> QED
  BY <1>1, <1>2, <1>3, <1>4, <1>5 DEF Next, ManagerRemove, Finished, vars, sendVars, writeVars

\* Send reports success only for a message that went out, and inside a
\* transaction only with the answer to a request of its own key: its own
\* request, if no other caller uses the key.
THEOREM DeviceSuccessIsDelivery == Spec => []SuccessIsDelivery
<1>1. Spec => []DeliveryInv
  BY DeliveryInit, DeliveryStep, TypeInvariance, PTL DEF Spec
<1> QED
  BY <1>1, TypeInvariance, DeliveryInvSuccess, PTL

-----------------------------------------------------------------------------
(* closeOnce: which pump runs pumpClose, and what it has done.             *)

Serving == {"select", "write", "dispatch", "cleanup"}

PumpInv ==
    /\ once = "free" => disconnects = 0 /\ rpc \in {"read", "cleanup"} /\ wpc \in Serving
    /\ once = "read" => disconnects = 0 /\ rpc \in {"close", "disconnect"} /\ wpc \in Serving
    /\ once = "write" => /\ disconnects = 0
                         /\ rpc \in {"read", "cleanup"} /\ wpc \in {"close", "disconnect"}
    /\ once = "done" => /\ disconnects = 1 /\ conn = "closed"
                        /\ rpc \in {"read", "cleanup", "exit"}
                        /\ wpc \in Serving \cup {"refail", "drain", "exit"}
    /\ once # "free" => ~registered
    /\ rpc = "disconnect" \/ wpc = "disconnect" => conn = "closed"

LEMMA PumpInvGone == TypeInv /\ PumpInv => PumpsGone
BY DEF TypeInv, PumpType, Pumps, PumpInv, PumpsGone, Serving

LEMMA PumpInit == Init => PumpInv
BY DEF Init, PumpInv, Serving

\* The device leaves the registry and never returns to it.
LEMMA RegisteredOnce ==
    ASSUME TypeInv, [Next]_vars
    PROVE  registered' => registered
<1>1. CASE RequestClose \/ ManagerRemove
  BY <1>1, Zenon DEF RequestClose, ManagerRemove, RemoveDevice
<1>2. CASE WriteWork \/ WriteTick
  BY <1>2, Zenon DEF WriteWork, WriteTick, WriteShutdown, WriteDequeue, WriteMessage, WriteDispatch,
     WriteCleanup, WriteRefail, WriteDrain, WritePing, PumpRemove, PumpCloseConn, PumpDisconnect,
     PumpSkip, RemoveDevice, closeVars
<1>3. CASE ReadPump
  BY <1>3, Zenon DEF ReadPump, ReadMessage, ReadError, ReadCleanup, PumpRemove, PumpCloseConn,
     PumpDisconnect, PumpSkip, RemoveDevice, closeVars
<1> QED
  BY <1>1, <1>2, <1>3, Zenon DEF Next, SendStep, Caller, Finished, vars, closeVars

LEMMA PumpStep == TypeInv /\ PumpInv /\ [Next]_vars => PumpInv'
<1> SUFFICES ASSUME TypeInv, PumpInv, [Next]_vars PROVE PumpInv'
  OBVIOUS
<1> USE DEF PumpInv, Serving
<1>0. registered' => registered
  BY RegisteredOnce
<1>t. conn \in {"up", "closed"} /\ disconnects \in Nat
  BY DEF TypeInv, PumpType, EventType
<1>1. CASE UNCHANGED <<once, disconnects, rpc, wpc, conn>>
  BY <1>0, <1>1
<1>2. CASE RequestClose \/ ManagerRemove \/ \E s \in Senders : SendStep(s) \/ Caller(s)
  BY <1>1, <1>2 DEF RequestClose, ManagerRemove, SendStep, Caller, writeVars, eventVars
<1>3. CASE WriteCleanup /\ UNCHANGED rpc
  <2>1. CASE PumpRemove("write", [err |-> writeError, text |-> "write-error"])
               /\ wpc = "cleanup" /\ wpc' = "close"
    BY <1>3, <2>1 DEF PumpRemove, RemoveDevice, closeVars, eventVars, TypeInv, CloseType
  <2>2. CASE wpc = "close" /\ PumpCloseConn("write") /\ wpc' = "disconnect"
    BY <1>0, <1>3, <2>2 DEF PumpCloseConn, eventVars
  <2>3. CASE wpc = "disconnect" /\ PumpDisconnect("write") /\ wpc' = "refail"
    BY <1>0, <1>3, <1>t, <2>3 DEF PumpDisconnect
  <2>4. CASE wpc = "cleanup" /\ PumpSkip /\ wpc' = "refail"
    BY <1>0, <1>3, <2>4 DEF PumpSkip, eventVars
  <2> QED
    BY <1>3, <2>1, <2>2, <2>3, <2>4 DEF WriteCleanup
<1>4. CASE (WriteWork \/ WriteTick) /\ ~WriteCleanup
  <2>1. UNCHANGED <<once, disconnects, rpc>>
    BY <1>4 DEF WriteWork, WriteTick, WriteShutdown, WriteDequeue, WriteMessage, WriteDispatch,
       WriteRefail, WriteDrain, WritePing, eventVars
  <2>2. /\ conn' \in {conn, "closed"}
        /\ \/ wpc \in {"select", "write", "dispatch"} /\ wpc' \in Serving
           \/ wpc = "refail" /\ wpc' = "drain"
           \/ wpc = "drain" /\ wpc' \in {"drain", "exit"}
    BY <1>4 DEF WriteWork, WriteTick, WriteShutdown, WriteDequeue, WriteMessage, WriteDispatch,
       WriteRefail, WriteDrain, WritePing
  <2>3. once \in {"free", "read", "write", "done"}
    BY DEF TypeInv, PumpType, Pumps
  <2> QED
    BY <1>0, <2>1, <2>2, <2>3
<1>5. CASE ReadPump
  <2>0. UNCHANGED wpc
    BY <1>5 DEF ReadPump, writeVars
  <2>1. CASE ReadMessage
    BY <1>1, <2>0, <2>1 DEF ReadMessage, eventVars
  <2>2. CASE ReadError
    BY <1>0, <2>0, <2>2 DEF ReadError, eventVars
  <2>3. CASE ReadCleanup
    <3>1. CASE rpc = "cleanup" /\ PumpRemove("read", [err |-> NoError, text |-> "readerror"])
                 /\ rpc' = "close"
      BY <2>0, <3>1 DEF PumpRemove, RemoveDevice, closeVars, eventVars, TypeInv, CloseType
    <3>2. CASE rpc = "close" /\ PumpCloseConn("read") /\ rpc' = "disconnect"
      BY <1>0, <2>0, <3>2 DEF PumpCloseConn, eventVars
    <3>3. CASE rpc = "disconnect" /\ PumpDisconnect("read") /\ rpc' = "exit"
      BY <1>0, <1>t, <2>0, <3>3 DEF PumpDisconnect
    <3>4. CASE rpc = "cleanup" /\ PumpSkip /\ rpc' = "exit"
      BY <1>0, <2>0, <3>4 DEF PumpSkip, eventVars
    <3> QED
      BY <2>3, <3>1, <3>2, <3>3, <3>4 DEF ReadCleanup
  <2> QED
    BY <1>5, <2>1, <2>2, <2>3 DEF ReadPump
<1> QED
  BY <1>1, <1>2, <1>3, <1>4, <1>5 DEF Next, WriteWork, WriteTick, Finished, vars, writeVars,
         eventVars

\* Whichever pump ends first, and whoever else closes the device meanwhile,
\* the device is out of the registry and its websocket closed when both pumps
\* are gone, and its listeners heard of one Disconnect.
THEOREM DevicePumpsGone == Spec => []PumpsGone
<1>1. Spec => []PumpInv
  BY PumpInit, PumpStep, TypeInvariance, PTL DEF Spec
<1> QED
  BY <1>1, TypeInvariance, PumpInvGone, PTL
=============================================================================
