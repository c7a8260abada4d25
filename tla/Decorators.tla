----------------------------- MODULE Decorators -----------------------------
(***************************************************************************)
(* The handler chain that the fanout's configuration builds (NewChain):    *)
(* the timeout of xhttp/xtimeout, which runs the rest in a goroutine that  *)
(* writes into a BufferedWriter, and Busy, a semaphore around the handler. *)
(* The handler itself is the application's: it writes, returns or panics,  *)
(* and may ignore its context.                                             *)
(***************************************************************************)
EXTENDS Integers, FiniteSets

CONSTANTS
    HttpRequests,
    MaxTransactions,   \* Configuration.Concurrency
    MaxBody            \* bound: writes of one handler

VARIABLES
    running,      \* of each request: where its goroutine is
    ctx,          \* of each request: "new", "live", "done"
    writer,       \* of each request: its BufferedWriter
    busy,         \* the semaphore: slots taken
    response      \* of each request: what the client got

vars == <<running, ctx, writer, busy, response>>

ServiceUnavailable == 503
GatewayTimeout == 504
Unwritten == [closed |-> FALSE, code |-> 0, body |-> 0]
Nothing == [code |-> 0, body |-> 0, by |-> "none"]

TypeOK ==
    /\ running \in [HttpRequests -> {"none", "waiting", "handler", "returned", "panicked"}]
    /\ ctx \in [HttpRequests -> {"new", "live", "done"}]
    /\ writer \in [HttpRequests -> [closed : BOOLEAN, code : {0, 200, 404, 503},
                                    body : 0..MaxBody]]
    /\ busy \in 0..MaxTransactions
    /\ response \in [HttpRequests -> [code : {0, 200, 404, 503, 504}, body : 0..MaxBody,
                                      by : {"none", "handler", "timeout", "panic"}]]

Init ==
    /\ running = [r \in HttpRequests |-> "none"]
    /\ ctx = [r \in HttpRequests |-> "new"]
    /\ writer = [r \in HttpRequests |-> Unwritten]
    /\ busy = 0
    /\ response = [r \in HttpRequests |-> Nothing]

Unanswered(r) == ctx[r] # "new" /\ response[r] = Nothing

-----------------------------------------------------------------------------
(* The goroutine: Busy around the handler                                  *)

ServeRequest(r) ==
    /\ ctx[r] = "new"
    /\ ctx' = [ctx EXCEPT ![r] = "live"]
    /\ running' = [running EXCEPT ![r] = "waiting"]
    /\ UNCHANGED <<writer, busy, response>>

AcquireCtx(r) ==
    /\ running[r] = "waiting" /\ busy < MaxTransactions
    /\ busy' = busy + 1
    /\ running' = [running EXCEPT ![r] = "handler"]
    /\ UNCHANGED <<ctx, writer, response>>

\* BufferedWriter.WriteHeader: the first status, unless closed
Header(w, code) == IF w.closed \/ w.code # 0 THEN w ELSE [w EXCEPT !.code = code]
\* BufferedWriter.Write
Body(w) == IF w.closed THEN w ELSE [Header(w, 200) EXCEPT !.body = @ + 1]

\* Mutant: the release is deferred before the error is looked at.
ServerBusyReleases(r) ==
    /\ running[r] = "waiting" /\ ctx[r] = "done" /\ busy > 0
    /\ writer' = [writer EXCEPT ![r] = Header(@, ServiceUnavailable)]
    /\ running' = [running EXCEPT ![r] = "returned"]
    /\ busy' = busy - 1
    /\ UNCHANGED <<ctx, response>>

\* The context ends before a slot is free.
ServerBusy(r) ==
    /\ running[r] = "waiting" /\ ctx[r] = "done"
    /\ writer' = [writer EXCEPT ![r] = Header(@, ServiceUnavailable)]
    /\ running' = [running EXCEPT ![r] = "returned"]
    /\ UNCHANGED <<ctx, busy, response>>

WriteHeader(r) ==
    /\ running[r] = "handler"
    /\ \E code \in {200, 404} : writer' = [writer EXCEPT ![r] = Header(@, code)]
    /\ UNCHANGED <<running, ctx, busy, response>>

WriteBody(r) ==
    /\ running[r] = "handler" /\ writer[r].body < MaxBody
    /\ writer' = [writer EXCEPT ![r] = Body(@)]
    /\ UNCHANGED <<running, ctx, busy, response>>

\* The handler returns or panics; the deferred release runs either way.
HandlerEnds(r) ==
    /\ running[r] = "handler"
    /\ \E end \in {"returned", "panicked"} : running' = [running EXCEPT ![r] = end]
    /\ busy' = busy - 1
    /\ UNCHANGED <<ctx, writer, response>>

-----------------------------------------------------------------------------
(* timeoutHandler.ServeHTTP's select                                       *)

ContextDone(r) ==
    /\ ctx[r] = "live"
    /\ ctx' = [ctx EXCEPT ![r] = "done"]
    /\ UNCHANGED <<running, writer, busy, response>>

Answer(r, code, body, by) ==
    response' = [response EXCEPT ![r] = [code |-> code, body |-> body, by |-> by]]

\* WriteTo: the whole buffer, with 200 when no status was set
SelectDone(r) ==
    /\ Unanswered(r) /\ running[r] = "returned"
    /\ writer' = [writer EXCEPT ![r].closed = TRUE]
    /\ Answer(r, IF writer[r].code < 100 THEN 200 ELSE writer[r].code, writer[r].body, "handler")
    /\ UNCHANGED <<running, ctx, busy>>

SelectPanic(r) ==
    /\ Unanswered(r) /\ running[r] = "panicked"
    /\ Answer(r, 0, 0, "panic")
    /\ UNCHANGED <<running, ctx, writer, busy>>

\* Close the buffer; the configured handler, a constant 504, answers.
SelectTimeout(r) ==
    /\ Unanswered(r) /\ ctx[r] = "done"
    /\ writer' = [writer EXCEPT ![r].closed = TRUE]
    /\ Answer(r, GatewayTimeout, 0, "timeout")
    /\ UNCHANGED <<running, ctx, busy>>

-----------------------------------------------------------------------------
ServerStep(r) == SelectDone(r) \/ SelectPanic(r) \/ SelectTimeout(r)

Next == \E r \in HttpRequests :
    \/ ServeRequest(r) \/ AcquireCtx(r) \/ ServerBusy(r)
    \/ WriteHeader(r) \/ WriteBody(r) \/ HandlerEnds(r)
    \/ ContextDone(r) \/ ServerStep(r)

-----------------------------------------------------------------------------
\* The semaphore counts the handlers that run, those whose client already got
\* the timeout included; and a client's answer is the whole of what its
\* handler wrote, or nothing of it.
BusyIsRunning ==
    /\ busy = Cardinality({r \in HttpRequests : running[r] = "handler"})
    /\ \A r \in HttpRequests : response[r].by = "handler" =>
          /\ running[r] = "returned"
          /\ response[r].body = writer[r].body
          /\ response[r].code = IF writer[r].code = 0 THEN 200 ELSE writer[r].code
=============================================================================
