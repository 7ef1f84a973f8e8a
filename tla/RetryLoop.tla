----------------------------- MODULE RetryLoop -----------------------------
(***************************************************************************)
(* What callWithRetry (internal/pkg/aggregator/aggregator.go) promises of  *)
(* each call: requests are sent one at a time, none once its context is    *)
(* done and MaxRetries + 1 at most; it ends with the first that succeeds,  *)
(* with a failure when all have failed, or with the error of its context   *)
(* when that is done, and in no other way.  Why it pauses between two      *)
(* requests, in a backoff or in the limiter, is no part of it.             *)
(***************************************************************************)
EXTENDS Integers

CONSTANTS
    Callers,    \* the goroutines that call a provider
    MaxRetries,
    Success,    \* what a call returns for a fetch that succeeded,
    Failure,    \* for the last one that failed,
    CtxErrors,  \* and for a context that is done
    NoAnswer    \* nothing was returned yet

VARIABLES
    state,      \* of each goroutine: not in a call, pausing, or in a fetch
    sent,       \* the requests that its call has sent
    over,       \* is the context of its call done
    answer      \* what its latest call returned

vars == <<state, sent, over, answer>>

Init ==
    /\ state = [c \in Callers |-> "idle"]
    /\ sent = [c \in Callers |-> 0]
    /\ over = [c \in Callers |-> FALSE]
    /\ answer = [c \in Callers |-> NoAnswer]

Goto(c, s) == state' = [state EXCEPT ![c] = s]

\* A call begins; its context may already be done.
Begin(c) ==
    /\ state[c] = "idle"
    /\ Goto(c, "pausing")
    /\ over' \in {[over EXCEPT ![c] = b] : b \in BOOLEAN}
    /\ answer' = [answer EXCEPT ![c] = NoAnswer]
    /\ UNCHANGED sent

Send(c) ==
    /\ state[c] = "pausing"
    /\ ~over[c]
    /\ sent[c] <= MaxRetries
    /\ sent' = [sent EXCEPT ![c] = @ + 1]
    /\ Goto(c, "fetching")
    /\ UNCHANGED <<over, answer>>

\* The fetch has failed and another one is left.
TryAgain(c) ==
    /\ state[c] = "fetching"
    /\ sent[c] <= MaxRetries
    /\ Goto(c, "pausing")
    /\ UNCHANGED <<sent, over, answer>>

\* The call ends, and its context with it, if not before: it releases the
\* context or leaves it as it is.
Return(c, a) ==
    /\ Goto(c, "idle")
    /\ sent' = [sent EXCEPT ![c] = 0]
    /\ answer' = [answer EXCEPT ![c] = a]
    /\ over' \in {over, [over EXCEPT ![c] = TRUE]}

Succeed(c) == state[c] = "fetching" /\ Return(c, Success)

Fail(c) == state[c] = "fetching" /\ sent[c] = MaxRetries + 1 /\ Return(c, Failure)

\* The context is done, before or just now.
Abandon(c) ==
    /\ state[c] # "idle"
    /\ \E e \in CtxErrors : Return(c, e)
    /\ over'[c]

\* The contexts of some calls are done at once: those of one search all are
\* when its client leaves.
CtxDone(done) ==
    /\ over' = [c \in Callers |-> over[c] \/ c \in done]
    /\ UNCHANGED <<state, sent, answer>>

Next ==
    \/ \E c \in Callers :
           Begin(c) \/ Send(c) \/ TryAgain(c) \/ Succeed(c) \/ Fail(c) \/ Abandon(c)
    \/ \E done \in SUBSET Callers : CtxDone(done)

Spec == Init /\ [][Next]_vars

=============================================================================
