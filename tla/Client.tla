------------------------------- MODULE Client -------------------------------
(***************************************************************************)
(* The HTTP client's decorators: RetryTransactor (xhttp/retry.go) over a   *)
(* body that rewind.go makes replayable, and the redirect policy of        *)
(* xhttp/redirectPolicy.go.  The transport is the environment.             *)
(***************************************************************************)
EXTENDS Integers, Sequences, FiniteSets

CONSTANTS
    Retries,         \* RetryOptions.Retries
    MaxRedirects,
    Size             \* bytes of a body

VARIABLES
    body,        \* kind of body, where its reader is, whether GetBody is set
    attempts,    \* of each attempt: the bytes sent, and its end
    statusCode,  \* as remembered by the loop
    open,        \* responses whose body nobody closed yet
    call,        \* "new", "try", "decide", "returned", "failed"
    hop          \* redirects followed by the current attempt

vars == <<body, attempts, statusCode, open, call, hop>>

Kinds == {"none", "getBody", "seeker", "reader"}
Statuses == {"200", "503"}
Ends == Statuses \cup {"temporary", "permanent", "redirects"}

TypeOK ==
    /\ body \in [kind : Kinds, at : 0..Size, start : 0..Size, rewindable : BOOLEAN]
    /\ attempts \in Seq([sent : 0..Size, end : Ends])
    /\ statusCode \in {"none"} \cup Statuses
    /\ open \in Nat
    /\ call \in {"new", "try", "decide", "returned", "failed"}
    /\ hop \in 0..MaxRedirects

Init ==
    /\ body = [kind |-> "none", at |-> Size, start |-> Size, rewindable |-> FALSE]
    /\ attempts = <<>> /\ statusCode = "none" /\ open = 0 /\ call = "new"
    /\ hop = 0

-----------------------------------------------------------------------------
\* EnsureRewindable: a GetBody stays; a seeker is kept where it is; any other
\* body is read to its end into bytes.  The read may fail.
EnsureRewindable ==
    /\ call = "new"
    /\ \E kind \in Kinds, at \in 0..Size :
          /\ kind = "none" => at = Size
          /\ body' = [kind |-> kind, at |-> at, rewindable |-> kind # "none",
                      start |-> IF kind = "seeker" THEN 0 ELSE at]
    /\ call' = "try"
    /\ UNCHANGED <<attempts, statusCode, open, hop>>

CannotRead ==
    /\ call = "new"
    /\ call' = "failed"
    /\ UNCHANGED <<body, attempts, statusCode, open, hop>>

\* next(request): the body is sent; a response without a status of its own is
\* an error.
NextEnds(end) ==
    /\ attempts' = Append(attempts, [sent |-> Size - body.at, end |-> end])
    /\ body' = [body EXCEPT !.at = Size]
    /\ statusCode' = IF end \in Statuses THEN end ELSE statusCode
    /\ open' = IF end \in Statuses THEN open + 1 ELSE open
    /\ call' = "decide"

Transact ==
    /\ call = "try"
    /\ \E end \in Statuses \cup {"temporary", "permanent"} : NextEnds(end)
    /\ UNCHANGED hop

\* The server answers with a redirect: CheckRedirect follows it or stops.  The
\* request that follows it has the body of GetBody again.
CheckRedirect ==
    /\ call = "try"
    /\ IF hop >= MaxRedirects
       THEN NextEnds("redirects") /\ UNCHANGED hop
       ELSE /\ hop' = hop + 1
            /\ UNCHANGED <<body, attempts, statusCode, open, call>>

LastEnd == attempts[Len(attempts)].end
\* DefaultShouldRetry; the status predicate of the instance retries a 503
ShouldRetry == LastEnd = "temporary"
ShouldRetryStatus == statusCode = "503"

\* Rewind: through GetBody, or nothing to do.
Rewound == IF body.rewindable THEN [body EXCEPT !.at = body.start] ELSE body

\* Mutant: the body is not rewound
RetryUnwound ==
    /\ call = "decide" /\ Len(attempts) <= Retries
    /\ ShouldRetry \/ ShouldRetryStatus
    /\ hop' = 0
    /\ call' = "try"
    /\ UNCHANGED <<body, attempts, statusCode, open>>

Retry ==
    /\ call = "decide" /\ Len(attempts) <= Retries
    /\ ShouldRetry \/ ShouldRetryStatus
    /\ body' = Rewound
    /\ hop' = 0
    /\ call' = "try"
    /\ UNCHANGED <<attempts, statusCode, open>>

\* GetBody fails: the call ends with its error.
RewindFails ==
    /\ call = "decide" /\ Len(attempts) <= Retries
    /\ ShouldRetry \/ ShouldRetryStatus
    /\ body.rewindable
    /\ call' = "failed"
    /\ UNCHANGED <<body, attempts, statusCode, open, hop>>

Return ==
    /\ call = "decide"
    /\ ~ (Len(attempts) <= Retries /\ (ShouldRetry \/ ShouldRetryStatus))
    /\ call' = "returned"
    /\ UNCHANGED <<body, attempts, statusCode, open, hop>>

-----------------------------------------------------------------------------
Next == EnsureRewindable \/ CannotRead \/ Transact \/ CheckRedirect \/ Retry
        \/ RewindFails \/ Return

-----------------------------------------------------------------------------
\* Every retry sends the same bytes, all the first attempt sent included; the
\* transport is called at most once more than the retries;
\* and a call that ended well ends the loop.
RetriesResend ==
    /\ Len(attempts) <= Retries + 1
    /\ \A i \in DOMAIN attempts : i > 1 => /\ attempts[i].sent = Size - body.start
                                           /\ attempts[i].sent >= attempts[1].sent
    /\ \A i \in DOMAIN attempts : attempts[i].end = "200" => i = Len(attempts)
=============================================================================
