---------------------------- MODULE Transactions ----------------------------
(***************************************************************************)
(* The set of pending transactions of one device (device/transactions.go). *)
(*                                                                         *)
(* A sender registers the transaction key of its request and gets a        *)
(* channel with room for one response.  The read pump completes the key    *)
(* when the device answers, the sender cancels it when it leaves, and      *)
(* closing the device closes every pending channel.  Each of the four      *)
(* operations is one critical section of Transactions.lock, hence one      *)
(* step.  The channel a sender obtains is named by that sender.            *)
(***************************************************************************)

CONSTANTS
    Senders,     \* calls of Send, each of which registers at most once
    Keys,        \* the nonempty transaction keys
    EmptyKey,    \* the empty string
    NoKey,       \* the key of a request that is not part of a transaction
    None,        \* no sender
    KeyOf        \* the transaction key of each sender's request

ASSUME KeyAssumption ==
    /\ None \notin Senders
    /\ EmptyKey \notin Keys
    /\ NoKey \notin Keys
    /\ EmptyKey # NoKey
    /\ KeyOf \in [Senders -> Keys \cup {EmptyKey, NoKey}]

VARIABLES
    txClosed,    \* Transactions.closed
    pending,     \* Transactions.pending: the sender whose channel is under a key
    result       \* the channel of each sender, and the response buffered in it

txVars == <<txClosed, pending, result>>

\* A channel is not made yet, open and empty, or closed; a closed channel
\* still holds the response sent on it before the close, if any.
Channel == [st : {"nil", "open", "closed"}, response : Senders \cup {None}]

TxTypeOK ==
    /\ txClosed \in BOOLEAN
    /\ pending \in [Keys -> Senders \cup {None}]
    /\ result \in [Senders -> Channel]

TxInit ==
    /\ txClosed = FALSE
    /\ pending = [k \in Keys |-> None]
    /\ result = [s \in Senders |-> [st |-> "nil", response |-> None]]

-----------------------------------------------------------------------------
(* Operations.                                                             *)

\* Mutant: a closed Transactions still accepts keys.
RegisterErrorWhenClosed(k) ==
    CASE k = EmptyKey                        -> "ErrorInvalidTransactionKey"
      [] k \in Keys /\ pending[k] # None     -> "ErrorTransactionAlreadyRegistered"
      [] OTHER                               -> "ok"

\* Mutant: a pending key may be registered again.
RegisterErrorDuplicate(k) ==
    CASE k = EmptyKey                        -> "ErrorInvalidTransactionKey"
      [] k # EmptyKey /\ txClosed            -> "ErrorTransactionsClosed"
      [] OTHER                               -> "ok"

\* The error Register returns, or "ok" when it makes a channel.
RegisterError(k) ==
    CASE k = EmptyKey                          -> "ErrorInvalidTransactionKey"
      [] k # EmptyKey /\ txClosed              -> "ErrorTransactionsClosed"
      [] k \in Keys /\ ~txClosed /\ pending[k] # None
                                               -> "ErrorTransactionAlreadyRegistered"
      [] OTHER                                 -> "ok"

Register(s) ==
    /\ KeyOf[s] \in Keys
    /\ result[s].st = "nil"
    /\ RegisterError(KeyOf[s]) = "ok"
    /\ pending' = [pending EXCEPT ![KeyOf[s]] = s]
    /\ result' = [result EXCEPT ![s].st = "open"]
    /\ UNCHANGED txClosed

\* The error Complete returns, or "ok" when somebody waits for the key.
CompleteError(k) ==
    CASE k = EmptyKey                     -> "ErrorInvalidTransactionKey"
      [] k \in Keys /\ pending[k] = None  -> "ErrorNoSuchTransactionKey"
      [] OTHER                            -> "ok"

\* Sends the response r on the channel under k, closes the channel and
\* forgets the key.
Complete(k, r) ==
    /\ k \in Keys
    /\ CompleteError(k) = "ok"
    /\ pending' = [pending EXCEPT ![k] = None]
    /\ result' = [result EXCEPT ![pending[k]] = [st |-> "closed", response |-> r]]
    /\ UNCHANGED txClosed

\* Mutant: Cancel closes the channel and leaves the key in the map.
CancelKeepsKey(k) ==
    IF txClosed \/ k \notin Keys \/ pending[k] = None
    THEN UNCHANGED txVars
    ELSE /\ result' = [result EXCEPT ![pending[k]].st = "closed"]
         /\ UNCHANGED <<txClosed, pending>>

\* Cancel looks the key up, whoever registered it.  Once Transactions is
\* closed it does nothing.
Cancel(k) ==
    IF txClosed \/ k \notin Keys
    THEN UNCHANGED txVars
    ELSE /\ pending' = [pending EXCEPT ![k] = None]
         /\ result' = IF pending[k] = None
                      THEN result
                      ELSE [result EXCEPT ![pending[k]].st = "closed"]
         /\ UNCHANGED txClosed

\* Mutant: Close closes every channel there ever was.
TxCloseAll ==
    IF txClosed
    THEN UNCHANGED txVars
    ELSE /\ txClosed' = TRUE
         /\ pending' = [k \in Keys |-> None]
         /\ result' = [s \in Senders |-> [st |-> "closed", response |-> None]]

\* Closes every pending channel; a second Close is an error without effect.
TxClose ==
    IF txClosed
    THEN UNCHANGED txVars
    ELSE /\ txClosed' = TRUE
         /\ pending' = [k \in Keys |-> None]
         /\ result' = [s \in Senders |->
                         IF \E k \in Keys : pending[k] = s
                         THEN [result[s] EXCEPT !.st = "closed"]
                         ELSE result[s]]

TxNext ==
    \/ \E s \in Senders : Register(s)
    \/ \E k \in Keys, r \in Senders : Complete(k, r)
    \/ \E k \in Keys : Cancel(k)
    \/ TxClose

TxSpec == TxInit /\ [][TxNext]_txVars

-----------------------------------------------------------------------------
(* Properties.                                                             *)

\* A key is pending only with an open, empty channel that was registered for
\* that key.  Complete, Cancel and Close therefore never send on or close a
\* closed channel (each would panic), and the send in Complete never blocks.
PendingIsOpen ==
    \A k \in Keys : pending[k] # None =>
        /\ result[pending[k]] = [st |-> "open", response |-> None]
        /\ KeyOf[pending[k]] = k

\* A channel that is still open is still in the pending map: some Complete,
\* Cancel or Close can reach it, so its reader is never left without an end.
OpenIsPending ==
    \A s \in Senders : result[s].st = "open" =>
        KeyOf[s] \in Keys /\ pending[KeyOf[s]] = s

\* After Close no transaction is pending and none can become pending.
ClosedIsEmpty == txClosed => \A k \in Keys : pending[k] = None

\* The pending map and the channels agree: what is pending has an open channel
\* of its own, what is open is pending, and after Close nothing is.
PendingIffOpen == PendingIsOpen /\ OpenIsPending /\ ClosedIsEmpty

\* What a channel ended with (a response, or a bare closure) is final: no
\* later operation of any goroutine changes it.
OutcomeIsFinal ==
    [][\A s \in Senders : result[s].st = "closed" => result'[s] = result[s]]_txVars
=============================================================================
