------------------------------- MODULE Device -------------------------------
(***************************************************************************)
(* One connected device: the calls of Send that address it, the write pump *)
(* and the read pump that serve its websocket, and the way it is closed    *)
(* (device/device.go, the pumps of device/manager.go, and the transactions *)
(* of module Transactions).                                                *)
(*                                                                         *)
(* Every goroutine is a program counter.  A select statement is a choice   *)
(* among the actions of its ready cases.  A step of the model ends where   *)
(* another goroutine may observe what was done.                            *)
(***************************************************************************)
EXTENDS Transactions, Naturals, Sequences

CONSTANTS
    QueueSize,      \* capacity of device.messages
    EnforceSource,  \* manager.enforceWRPSourceCheck
    ManagerReasons  \* the reasons the manager closes the device with

ASSUME QueueAssumption == QueueSize \in Nat \ {0}

ASSUME OptionAssumption ==
    /\ EnforceSource \in BOOLEAN
    /\ ManagerReasons \subseteq [err : {"nil"}, text : {"", "requested"}]

VARIABLES
    state,          \* device.state: "open" or "closed"
    shutdown,       \* device.shutdown has been closed
    closeReason,    \* device.closeReason, NoReason until it is stored
    registered,     \* the manager's registry maps the device's ID to it
    closer,         \* the goroutine that removed it and calls requestClose
    closing,        \* how far that call of requestClose is
    conn,           \* this side of the websocket: "up" or "closed"
    pc,             \* of each call of Send
    ret,            \* what each call of Send returns
    ctxDone,        \* the request's context is cancelled or timed out
    messages,       \* device.messages, the queue of envelopes
    complete,       \* the complete channel of each envelope
    wpc,            \* program counter of writePump
    envelope,       \* the envelope writePump works on, or None
    writeError,     \* writePump's writeError
    rpc,            \* program counter of readPump
    once,           \* closeOnce, shared by the two pumps
    written,        \* requests that went out on the websocket
    sentEvents,     \* MessageSent events, by message
    failedEvents,   \* MessageFailed events, by message
    disconnects     \* Disconnect events

sendVars == <<pc, ret, ctxDone, complete>>
writeVars == <<wpc, envelope, writeError, written>>
closeVars == <<state, shutdown, closeReason, registered, closer, closing>>
eventVars == <<sentEvents, failedEvents, disconnects>>
vars == <<txVars, closeVars, conn, sendVars, messages, writeVars, rpc, once, eventVars>>

Pumps == {"read", "write"}
Closers == Pumps \cup {"manager", "nobody"}
NoError == "nil"
NoReason == [err |-> NoError, text |-> ""]

DeviceErrors == {"ErrorDeviceClosed", "ErrorInvalidTransactionKey",
                 "ErrorTransactionsClosed", "ErrorTransactionAlreadyRegistered",
                 "ErrorTransactionCancelled", "ctx.Err", "io"}
Reasons == [err : {NoError, "io"},
            text : {"", "requested", "readerror", "write-error", "unknown"}]

TypeOK ==
    /\ TxTypeOK
    /\ state \in {"open", "closed"}
    /\ shutdown \in BOOLEAN
    /\ closeReason \in Reasons
    /\ registered \in BOOLEAN
    /\ closer \in [by : Closers, reason : Reasons]
    /\ closing \in {"idle", "requested", "shutdown", "transactions", "reason", "done"}
    /\ conn \in {"up", "closed"}
    /\ pc \in [Senders -> {"start", "register", "enqueue", "sent", "await", "cancel", "done"}]
    /\ ret \in [Senders -> [err : DeviceErrors \cup {NoError}, response : Senders \cup {None}]]
    /\ ctxDone \in [Senders -> BOOLEAN]
    /\ messages \in Seq(Senders)
    /\ Len(messages) <= QueueSize
    /\ complete \in [Senders -> {"empty", "error", "closed"}]
    /\ wpc \in {"select", "write", "dispatch", "cleanup", "close", "disconnect",
                "refail", "drain", "exit"}
    /\ envelope \in Senders \cup {None}
    /\ writeError \in {NoError, "io"}
    /\ rpc \in {"read", "cleanup", "close", "disconnect", "exit"}
    /\ once \in {"free", "done"} \cup Pumps
    /\ written \subseteq Senders
    /\ sentEvents \in [Senders -> Nat]
    /\ failedEvents \in [Senders -> Nat]
    /\ disconnects \in Nat

Init ==
    /\ TxInit
    /\ state = "open"
    /\ shutdown = FALSE
    /\ closeReason = NoReason
    /\ registered = TRUE
    /\ closer = [by |-> "nobody", reason |-> NoReason]
    /\ closing = "idle"
    /\ conn = "up"
    /\ pc = [s \in Senders |-> "start"]
    /\ ret = [s \in Senders |-> [err |-> NoError, response |-> None]]
    /\ ctxDone = [s \in Senders |-> FALSE]
    /\ messages = <<>>
    /\ complete = [s \in Senders |-> "empty"]
    /\ wpc = "select"
    /\ envelope = None
    /\ writeError = NoError
    /\ rpc = "read"
    /\ once = "free"
    /\ written = {}
    /\ sentEvents = [s \in Senders |-> 0]
    /\ failedEvents = [s \in Senders |-> 0]
    /\ disconnects = 0

-----------------------------------------------------------------------------
(* Send.                                                                   *)

\* Send returns r; a registered transaction is first cancelled by the defer.
Return(s, r) ==
    /\ ret' = [ret EXCEPT ![s] = r]
    /\ pc' = [pc EXCEPT ![s] = IF result[s].st = "nil" THEN "done" ELSE "cancel"]

Fail(s, e) == Return(s, [err |-> e, response |-> None])

SendCheckClosed(s) ==
    /\ pc[s] = "start"
    /\ IF state = "closed"
       THEN Fail(s, "ErrorDeviceClosed")
       ELSE /\ pc' = [pc EXCEPT ![s] = IF KeyOf[s] = NoKey THEN "enqueue" ELSE "register"]
            /\ UNCHANGED ret
    /\ UNCHANGED <<txVars, ctxDone, complete, messages>>

SendRegister(s) ==
    /\ pc[s] = "register"
    /\ IF RegisterError(KeyOf[s]) = "ok"
       THEN /\ Register(s)
            /\ pc' = [pc EXCEPT ![s] = "enqueue"]
            /\ UNCHANGED ret
       ELSE /\ Fail(s, RegisterError(KeyOf[s]))
            /\ UNCHANGED txVars
    /\ UNCHANGED <<ctxDone, complete, messages>>

\* Mutant: the queue has no capacity.
SendEnqueueUnbounded(s) ==
    /\ pc[s] = "enqueue"
    /\ messages' = Append(messages, s)
    /\ pc' = [pc EXCEPT ![s] = "sent"]
    /\ UNCHANGED <<txVars, ret, ctxDone, complete>>

\* The first select of sendRequest takes the case that enqueues the envelope.
SendEnqueue(s) ==
    /\ pc[s] = "enqueue"
    /\ Len(messages) < QueueSize
    /\ messages' = Append(messages, s)
    /\ pc' = [pc EXCEPT ![s] = "sent"]
    /\ UNCHANGED <<txVars, ret, ctxDone, complete>>

\* Mutant: the wait for the write pump has no shutdown case.
SendGiveUpNotSent(s) ==
    /\ pc[s] \in {"enqueue", "sent", "await"}
    /\ \/ ctxDone[s] /\ Fail(s, "ctx.Err")
       \/ pc[s] # "sent" /\ shutdown /\ Fail(s, "ErrorDeviceClosed")
    /\ UNCHANGED <<txVars, ctxDone, complete, messages>>

\* Each of the three selects ends when the context is done or the device
\* shuts down.
SendGiveUp(s) ==
    /\ pc[s] \in {"enqueue", "sent", "await"}
    /\ \/ ctxDone[s] /\ Fail(s, "ctx.Err")
       \/ shutdown /\ Fail(s, "ErrorDeviceClosed")
    /\ UNCHANGED <<txVars, ctxDone, complete, messages>>

\* Mutant: the error on the complete channel is not looked at.
SendCompleteIgnoresError(s) ==
    /\ pc[s] = "sent"
    /\ complete[s] # "empty"
    /\ IF result[s].st = "nil"
       THEN Fail(s, NoError)
       ELSE pc' = [pc EXCEPT ![s] = "await"] /\ UNCHANGED ret
    /\ UNCHANGED <<txVars, ctxDone, complete, messages>>

\* The second select of sendRequest receives what the write pump reports.
SendComplete(s) ==
    /\ pc[s] = "sent"
    /\ complete[s] # "empty"
    /\ CASE complete[s] = "error" -> Fail(s, "io")
         [] complete[s] = "closed" /\ result[s].st = "nil" -> Fail(s, NoError)
         [] OTHER -> pc' = [pc EXCEPT ![s] = "await"] /\ UNCHANGED ret
    /\ UNCHANGED <<txVars, ctxDone, complete, messages>>

\* awaitResponse receives from the transaction's channel.
SendAwait(s) ==
    /\ pc[s] = "await"
    /\ result[s].st = "closed"
    /\ IF result[s].response = None
       THEN Fail(s, "ErrorTransactionCancelled")
       ELSE Return(s, [err |-> NoError, response |-> result[s].response])
    /\ UNCHANGED <<txVars, ctxDone, complete, messages>>

\* Mutant: Send returns without the deferred Cancel.
SendCancelForgotten(s) ==
    /\ pc[s] = "cancel"
    /\ pc' = [pc EXCEPT ![s] = "done"]
    /\ UNCHANGED <<txVars, ret, ctxDone, complete, messages>>

\* The deferred Cancel of Send.
SendCancel(s) ==
    /\ pc[s] = "cancel"
    /\ Cancel(KeyOf[s])
    /\ pc' = [pc EXCEPT ![s] = "done"]
    /\ UNCHANGED <<ret, ctxDone, complete, messages>>

\* The caller cancels the request's context, or it times out.
ContextDone(s) ==
    /\ pc[s] \in {"enqueue", "sent", "await"}
    /\ ~ctxDone[s]
    /\ ctxDone' = [ctxDone EXCEPT ![s] = TRUE]
    /\ UNCHANGED <<txVars, pc, ret, complete, messages>>

SendStep(s) ==
    /\ \/ SendCheckClosed(s)
       \/ SendRegister(s)
       \/ SendEnqueue(s)
       \/ SendGiveUp(s)
       \/ SendComplete(s)
       \/ SendAwait(s)
       \/ SendCancel(s)
    /\ UNCHANGED <<closeVars, conn, writeVars, rpc, once, eventVars>>

Caller(s) ==
    ContextDone(s) /\ UNCHANGED <<closeVars, conn, writeVars, rpc, once, eventVars>>

-----------------------------------------------------------------------------
(* requestClose, called by whoever took the device out of the registry.    *)

RequestCloseCAS ==
    /\ closing = "requested"
    /\ state = "open"
    /\ state' = "closed"
    /\ closing' = "shutdown"
    /\ UNCHANGED <<txVars, shutdown, closeReason>>

RequestCloseShutdown ==
    /\ closing = "shutdown"
    /\ shutdown' = TRUE
    /\ closing' = "transactions"
    /\ UNCHANGED <<txVars, state, closeReason>>

RequestCloseTransactions ==
    /\ closing = "transactions"
    /\ TxClose
    /\ closing' = "reason"
    /\ UNCHANGED <<state, shutdown, closeReason>>

RequestCloseReason ==
    /\ closing = "reason"
    /\ closeReason' = IF closer.reason.text = ""
                      THEN [closer.reason EXCEPT !.text = "unknown"]
                      ELSE closer.reason
    /\ closing' = "done"
    /\ UNCHANGED <<txVars, state, shutdown>>

RequestClose ==
    /\ \/ RequestCloseCAS
       \/ RequestCloseShutdown
       \/ RequestCloseTransactions
       \/ RequestCloseReason
    /\ UNCHANGED <<registered, closer, conn, sendVars, messages, writeVars, rpc, once, eventVars>>

\* The registry forgets the device (Disconnect, DisconnectAll, a duplicate);
\* the goroutine that removed it goes on to call requestClose.
RemoveDevice(by, reason) ==
    /\ registered
    /\ registered' = FALSE
    /\ closer' = [by |-> by, reason |-> reason]
    /\ closing' = "requested"
    /\ UNCHANGED <<state, shutdown, closeReason>>

ManagerRemove ==
    /\ \E reason \in ManagerReasons : RemoveDevice("manager", reason)
    /\ UNCHANGED <<txVars, conn, sendVars, messages, writeVars, rpc, once, eventVars>>

-----------------------------------------------------------------------------
(* pumpClose, run by one of the pumps inside closeOnce.                    *)

\* remove: only a device that is still registered is asked to close.
PumpRemove(p, reason) ==
    /\ once = "free"
    /\ once' = p
    /\ IF registered THEN RemoveDevice(p, reason) ELSE UNCHANGED closeVars
    /\ UNCHANGED <<conn, eventVars>>

\* c.Close(), once remove and the requestClose it made have returned.
PumpCloseConn(p) ==
    /\ once = p
    /\ closer.by = p => closing = "done"
    /\ conn' = "closed"
    /\ UNCHANGED <<closeVars, once, eventVars>>

\* Mutant: each pump has a closeOnce of its own.
PumpDisconnectOwnOnce(p) ==
    /\ once = p
    /\ once' = "free"
    /\ disconnects' = disconnects + 1
    /\ UNCHANGED <<closeVars, conn, sentEvents, failedEvents>>

\* The Disconnect event.
PumpDisconnect(p) ==
    /\ once = p
    /\ once' = "done"
    /\ disconnects' = disconnects + 1
    /\ UNCHANGED <<closeVars, conn, sentEvents, failedEvents>>

\* The other pump ran pumpClose; Once.Do returns when it is finished.
PumpSkip ==
    /\ once = "done"
    /\ UNCHANGED <<closeVars, conn, once, eventVars>>

-----------------------------------------------------------------------------
(* writePump.                                                              *)

Errors(mayWork) == IF mayWork THEN {NoError, "io"} ELSE {"io"}

\* case <-d.shutdown: w.Close() may itself report an error.
WriteShutdown ==
    /\ wpc = "select"
    /\ shutdown
    /\ writeError' \in {NoError, "io"}
    /\ conn' = "closed"
    /\ wpc' = "cleanup"
    /\ UNCHANGED <<closeVars, messages, complete, envelope, written, once, eventVars>>

\* Mutant: the envelope is looked at and stays in the queue.
WriteDequeuePeeks ==
    /\ wpc = "select"
    /\ messages # <<>>
    /\ envelope' = Head(messages)
    /\ wpc' = "write"
    /\ UNCHANGED <<closeVars, conn, messages, complete, writeError, written, once, eventVars>>

\* case envelope = <-d.messages
WriteDequeue ==
    /\ wpc = "select"
    /\ messages # <<>>
    /\ envelope' = Head(messages)
    /\ messages' = Tail(messages)
    /\ wpc' = "write"
    /\ UNCHANGED <<closeVars, conn, complete, writeError, written, once, eventVars>>

\* Encode and WriteMessage, then the result goes to the sender.
WriteMessage ==
    /\ wpc = "write"
    /\ writeError' \in Errors(conn = "up")
    /\ written' = IF writeError' = NoError THEN written \cup {envelope} ELSE written
    /\ complete' = [complete EXCEPT ![envelope] =
                       IF writeError' = NoError THEN "closed" ELSE "error"]
    /\ wpc' = "dispatch"
    /\ UNCHANGED <<closeVars, conn, messages, envelope, once, eventVars>>

\* Mutant: the loop does not reset the envelope.
WriteDispatchKeepsEnvelope ==
    /\ wpc = "dispatch"
    /\ IF writeError = NoError
       THEN /\ sentEvents' = [sentEvents EXCEPT ![envelope] = @ + 1]
            /\ wpc' = "select"
            /\ UNCHANGED failedEvents
       ELSE /\ failedEvents' = [failedEvents EXCEPT ![envelope] = @ + 1]
            /\ wpc' = "cleanup"
            /\ UNCHANGED sentEvents
    /\ UNCHANGED <<closeVars, conn, messages, complete, envelope, writeError, written, once,
                   disconnects>>

\* dispatch(&event): MessageSent or MessageFailed; then the loop condition.
WriteDispatch ==
    /\ wpc = "dispatch"
    /\ IF writeError = NoError
       THEN /\ sentEvents' = [sentEvents EXCEPT ![envelope] = @ + 1]
            /\ envelope' = None
            /\ wpc' = "select"
            /\ UNCHANGED failedEvents
       ELSE /\ failedEvents' = [failedEvents EXCEPT ![envelope] = @ + 1]
            /\ wpc' = "cleanup"
            /\ UNCHANGED <<sentEvents, envelope>>
    /\ UNCHANGED <<closeVars, conn, messages, complete, writeError, written, once,
                   disconnects>>

\* case <-pingTicker.C
WritePing ==
    /\ wpc = "select"
    /\ writeError' \in Errors(conn = "up")
    /\ wpc' = IF writeError' = NoError THEN "select" ELSE "cleanup"
    /\ UNCHANGED <<closeVars, conn, messages, complete, envelope, written, once, eventVars>>

WriteCleanup ==
    /\ \/ /\ wpc = "cleanup"
          /\ PumpRemove("write", [err |-> writeError, text |-> "write-error"])
          /\ wpc' = "close"
       \/ wpc = "close" /\ PumpCloseConn("write") /\ wpc' = "disconnect"
       \/ wpc = "disconnect" /\ PumpDisconnect("write") /\ wpc' = "refail"
       \/ wpc = "cleanup" /\ PumpSkip /\ wpc' = "refail"
    /\ UNCHANGED <<messages, complete, envelope, writeError, written>>

\* "notify listener of any message that just now failed"
WriteRefail ==
    /\ wpc = "refail"
    /\ failedEvents' = IF envelope = None
                       THEN failedEvents
                       ELSE [failedEvents EXCEPT ![envelope] = @ + 1]
    /\ wpc' = "drain"
    /\ UNCHANGED <<closeVars, conn, messages, complete, envelope, writeError, written, once,
                   sentEvents, disconnects>>

\* Mutant: the drain throws the messages away.
WriteDrainSilently ==
    /\ wpc = "drain"
    /\ messages' = <<>>
    /\ wpc' = "exit"
    /\ UNCHANGED <<closeVars, conn, complete, envelope, writeError, written, once, eventVars>>

\* Drains the queue, one MessageFailed event per message, until it is empty.
WriteDrain ==
    /\ wpc = "drain"
    /\ IF messages = <<>>
       THEN wpc' = "exit" /\ UNCHANGED <<messages, failedEvents>>
       ELSE /\ failedEvents' = [failedEvents EXCEPT ![Head(messages)] = @ + 1]
            /\ messages' = Tail(messages)
            /\ UNCHANGED wpc
    /\ UNCHANGED <<closeVars, conn, complete, envelope, writeError, written, once,
                   sentEvents, disconnects>>

\* The steps of the write pump that do not wait for the ping ticker.
WriteWork ==
    /\ \/ WriteShutdown
       \/ WriteDequeue
       \/ WriteMessage
       \/ WriteDispatch
       \/ WriteCleanup
       \/ WriteRefail
       \/ WriteDrain
    /\ UNCHANGED <<txVars, pc, ret, ctxDone, rpc>>

WriteTick == WritePing /\ UNCHANGED <<txVars, pc, ret, ctxDone, rpc>>

-----------------------------------------------------------------------------
(* readPump.                                                               *)

Sources == {"empty", "unparsable", "mismatch", "match"}

\* Whether a message whose Source field is of this kind is accepted.
WrpSourceIsValid(source) == EnforceSource => source = "match"

\* A frame of the device: a message that answers a request which went out on
\* the websocket, or one of no transaction (None).  A frame that is no binary
\* message, or cannot be decoded or encoded again, is not readable.
Frames == [readable : BOOLEAN, source : Sources, answers : written \cup {None}]

\* Mutant: a frame of an invalid source cancels the transaction it names.
DeliverOrCancel(f) ==
    IF f.answers = None \/ ~f.readable
    THEN UNCHANGED txVars
    ELSE IF WrpSourceIsValid(f.source) /\ CompleteError(KeyOf[f.answers]) = "ok"
         THEN Complete(KeyOf[f.answers], f.answers)
         ELSE Cancel(KeyOf[f.answers])

\* Mutant: the response goes to the request it answers, not to who waits for it.
DeliverToAnswered(f) ==
    IF /\ f.readable
       /\ WrpSourceIsValid(f.source)
       /\ f.answers # None
       /\ KeyOf[f.answers] \in Keys
       /\ CompleteError(KeyOf[f.answers]) = "ok"
    THEN /\ pending' = [pending EXCEPT ![KeyOf[f.answers]] = None]
         /\ result' = [result EXCEPT ![f.answers] = [st |-> "closed", response |-> f.answers]]
         /\ UNCHANGED txClosed
    ELSE UNCHANGED txVars

\* A readable frame of a valid source that answers a request completes the
\* transaction under that request's key, if there is one (TransactionComplete)
\* or there is not (TransactionBroken).
Deliver(f) ==
    IF /\ f.readable
       /\ WrpSourceIsValid(f.source)
       /\ f.answers # None
       /\ KeyOf[f.answers] \in Keys
       /\ CompleteError(KeyOf[f.answers]) = "ok"
    THEN Complete(KeyOf[f.answers], f.answers)
    ELSE UNCHANGED txVars

ReadMessage ==
    /\ rpc = "read"
    /\ conn = "up"
    /\ \E f \in Frames : Deliver(f)
    /\ UNCHANGED <<rpc, closeVars, conn, once, eventVars>>

\* ReadMessage fails: the peer or the network is gone, the read deadline
\* passed, or the connection was closed on this side.
ReadError ==
    /\ rpc = "read"
    /\ rpc' = "cleanup"
    /\ UNCHANGED <<txVars, closeVars, conn, once, eventVars>>

\* The deferred pumpClose.  Its readError is the variable of the function, which
\* the loop's := never assigns.
ReadCleanup ==
    /\ \/ /\ rpc = "cleanup"
          /\ PumpRemove("read", [err |-> NoError, text |-> "readerror"])
          /\ rpc' = "close"
       \/ rpc = "close" /\ PumpCloseConn("read") /\ rpc' = "disconnect"
       \/ rpc = "disconnect" /\ PumpDisconnect("read") /\ rpc' = "exit"
       \/ rpc = "cleanup" /\ PumpSkip /\ rpc' = "exit"
    /\ UNCHANGED txVars

ReadPump ==
    /\ ReadMessage \/ ReadError \/ ReadCleanup
    /\ UNCHANGED <<sendVars, messages, writeVars>>

\* What the read pump does without waiting for the device: it fails on a dead
\* connection and cleans up.
ReadWork ==
    /\ (conn # "up" /\ ReadError) \/ ReadCleanup
    /\ UNCHANGED <<sendVars, messages, writeVars>>

-----------------------------------------------------------------------------
Finished ==
    /\ wpc = "exit" /\ rpc = "exit"
    /\ \A s \in Senders : pc[s] = "done"
    /\ UNCHANGED vars

Next ==
    \/ \E s \in Senders : SendStep(s) \/ Caller(s)
    \/ RequestClose
    \/ ManagerRemove
    \/ WriteWork
    \/ WriteTick
    \/ ReadPump
    \/ Finished

Spec == Init /\ [][Next]_vars

\* Goroutines that can run do run.  The ticker, the device, the network, the
\* caller's context and the manager owe nothing.
Fairness ==
    /\ \A s \in Senders : WF_vars(SendStep(s))
    /\ WF_vars(RequestClose)
    /\ WF_vars(WriteWork)
    /\ WF_vars(ReadWork)

FairSpec == Spec /\ Fairness

-----------------------------------------------------------------------------
(* Properties that hold.                                                   *)

Returned(s) == pc[s] \in {"cancel", "done"}

\* No other call of Send uses the transaction key of s.
UniqueKey(s) == KeyOf[s] \in Keys /\ \A t \in Senders \ {s} : KeyOf[t] # KeyOf[s]

\* Send reports success only for a message that went out on the websocket, and
\* a transactional Send only with a response to a request with its own key;
\* if nobody shares the key it is the answer to this very request.
SuccessIsDelivery ==
    \A s \in Senders : Returned(s) /\ ret[s].err = NoError =>
        /\ s \in written
        /\ KeyOf[s] = NoKey <=> ret[s].response = None
        /\ ret[s].response # None => /\ ret[s].response \in written
                                     /\ KeyOf[ret[s].response] = KeyOf[s]
        /\ UniqueKey(s) => ret[s].response = s

\* A transaction whose key nobody else uses is reported as cancelled only
\* because the device is closing: no other Send can cancel it.
CancelledMeansClosed ==
    \A s \in Senders :
        UniqueKey(s) /\ ret[s].err = "ErrorTransactionCancelled" => txClosed

\* When Send has returned, its transaction is no longer pending, whichever way
\* it ended ("ensure that the transaction is cleared").
TransactionCleared == \A s \in Senders : pc[s] = "done" => result[s].st # "open"

\* The write pump never sends on or closes a complete channel twice: an
\* envelope in the queue or in its hands is still unreported, and a message is
\* queued once.
EnvelopeReportedOnce ==
    /\ \A i \in DOMAIN messages : complete[messages[i]] = "empty"
    /\ \A i, j \in DOMAIN messages : messages[i] = messages[j] => i = j
    /\ wpc = "write" => /\ complete[envelope] = "empty"
                        /\ \A i \in DOMAIN messages : messages[i] # envelope

\* The listeners never hear that a message was sent and that it failed, and
\* hear that it was sent only if it was.
SentOrFailed ==
    \A s \in Senders : sentEvents[s] > 0 => failedEvents[s] = 0 /\ s \in written

\* Once the pumps are gone the device is out of the registry, and it was
\* announced as disconnected exactly once.
PumpsGone ==
    wpc = "exit" /\ rpc = "exit" => ~registered /\ disconnects = 1 /\ conn = "closed"

\* The write pump owes the listeners an event about s: it is in the queue, or
\* in the pump's hands.
Owed(s) ==
    \/ \E i \in DOMAIN messages : messages[i] = s
    \/ wpc \in {"write", "dispatch"} /\ envelope = s

\* No message is lost silently: what was enqueued leaves the queue and the
\* pump's hands with an event, sent or failed, also when the device disconnects.
NothingDropped ==
    [][\A s \in Senders : Owed(s) /\ ~Owed(s)' =>
          (sentEvents[s] + failedEvents[s])' > sentEvents[s] + failedEvents[s]]_vars

\* A device that left the registry, whoever removed it, is closed: both of its
\* pumps exit, and every Send returns, wherever it waits.
RemovedIsClosed ==
    ~registered ~> /\ state = "closed"
                   /\ wpc = "exit" /\ rpc = "exit"
                   /\ \A s \in Senders : pc[s] = "done"

-----------------------------------------------------------------------------
(* What the documentation says and the code does not do.                   *)

\* device/listener.go:15: after Disconnect the device can no longer receive
\* requests.
DisconnectMeansClosed == disconnects > 0 => state = "closed"

=============================================================================
