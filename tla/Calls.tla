------------------------------- MODULE Calls -------------------------------
(***************************************************************************)
(* The goroutines of concurrent searches that call one provider: each runs *)
(* callWithRetry of internal/pkg/aggregator/aggregator.go, and all of them *)
(* share its Limiter.  Aggregator is one search with any number of         *)
(* providers and no clock; here a step in Wait is a step of Limiter, and   *)
(* timeouts, backoff and the answers of the airline are measured on its    *)
(* clock.  The code takes no time of its own.                              *)
(***************************************************************************)
EXTENDS Limiter, FiniteSets

CONSTANTS
    MaxRetries,     \* cfg.MaxRetries
    Timeout,        \* cfg.PerProviderTimeout
    BackoffBase,    \* cfg.BackoffBase
    BackoffMax,     \* cfg.BackoffMax
    Delays,         \* how long the airline may take to answer
    Statuses        \* what it may answer with, of "ok" and "unavailable"

ASSUME CallsAssumption ==
    /\ MaxRetries \in Nat
    /\ Timeout \in Nat
    /\ BackoffBase \in Nat
    /\ BackoffMax \in Nat
    /\ Delays \subseteq Nat
    /\ Statuses \subseteq {"ok", "unavailable"}

VARIABLES
    stage,      \* where each goroutine is in callWithRetry, "wait" in Wait
    attempt,    \* its loop counter
    deadline,   \* when its pCtx expires
    due,        \* when its backoff ends, or the airline answers it
    gone,       \* has the client of its search gone away
    result,     \* how and where its latest call ended
    queued,     \* history: was its latest call deferred by the limiter
    sends       \* history: the clock at each request sent

\* Init, Next, Spec, TypeOK and vars are those of Limiter.
limiter == vars
call == <<attempt, deadline, gone, queued, sends>>
callsVars == <<limiter, stage, due, result, call>>

Stages == {"idle", "wait", "call", "inflight", "backoff"}

NoResult == [err |-> "none", at |-> "idle"]

CallsInit ==
    /\ Init
    /\ stage = [c \in Callers |-> "idle"]
    /\ attempt = [c \in Callers |-> 0]
    /\ deadline = [c \in Callers |-> 0]
    /\ due = [c \in Callers |-> 0]
    /\ gone = [c \in Callers |-> FALSE]
    /\ result = [c \in Callers |-> NoResult]
    /\ queued = [c \in Callers |-> FALSE]
    /\ sends = << >>

-----------------------------------------------------------------------------
(* callWithRetry                                                           *)

Goto(c, s) == stage' = [stage EXCEPT ![c] = s]

\* callWithRetry returns.
Finish(c, err) ==
    /\ result' = [result EXCEPT ![c] = [err |-> err, at |-> stage[c]]]
    /\ Goto(c, "idle")
    /\ due' = [due EXCEPT ![c] = 0]

\* ctx.Err() of a context that is done.
CtxErr(c) == IF gone[c] THEN "Canceled" ELSE "DeadlineExceeded"

\* A search calls the provider: a context with a timeout, and the limiter.
\* (A request whose client has gone already is one that goes right now.)
Begin(c) ==
    /\ stage[c] = "idle"
    /\ now + Timeout <= MaxTime
    /\ Call(c)
    /\ ~done'[c]
    /\ Goto(c, "wait")
    /\ attempt' = [attempt EXCEPT ![c] = 0]
    /\ deadline' = [deadline EXCEPT ![c] = now + Timeout]
    /\ gone' = [gone EXCEPT ![c] = FALSE]
    /\ result' = [result EXCEPT ![c] = NoResult]
    /\ queued' = [queued EXCEPT ![c] = FALSE]
    /\ UNCHANGED <<due, sends>>

\* Wait returns nil.
Granted(c) ==
    /\ Take(c)
    /\ Goto(c, "call")
    /\ UNCHANGED <<due, result, call>>

\* Wait goes on waiting.
Waits(c) ==
    /\ Defer(c) \/ Park(c) \/ TimerFires(c)
    /\ queued' = [queued EXCEPT ![c] = TRUE]
    /\ UNCHANGED <<stage, due, result, attempt, deadline, gone, sends>>

\* Wait returns ctx.Err().
Refused(c) ==
    /\ GiveUp(c)
    /\ Finish(c, CtxErr(c))
    /\ UNCHANGED call

\* The HTTP client sends the request.
Send(c) ==
    /\ stage[c] = "call"
    /\ ~done[c]
    /\ sends' = Append(sends, now)
    /\ \E d \in Delays : due' = [due EXCEPT ![c] = now + d]
    /\ Goto(c, "inflight")
    /\ UNCHANGED <<limiter, result, attempt, deadline, gone, queued>>

\* A handler of the airline has slept.
Answers(c) == stage[c] = "inflight" /\ now >= due[c]

\* It writes its data.
Succeed(c) ==
    /\ Answers(c)
    /\ "ok" \in Statuses
    /\ Finish(c, "nil")
    /\ UNCHANGED <<limiter, call>>

\* Mutant: the delay is doubled on every attempt and the cap is forgotten.
UncappedDelay(n) == 0 .. BackoffBase * 2 ^ n

\* The delays backoff may return before attempt n, for n >= 1.
BackoffDelay(n) ==
    LET d == BackoffBase * 2 ^ (n - 1)
    IN  0 .. (IF d <= 0 \/ d > BackoffMax THEN BackoffMax ELSE d)

\* Mutant: one attempt too many.
FailOnceMore(c) ==
    /\ Answers(c)
    /\ "unavailable" \in Statuses
    /\ attempt' = [attempt EXCEPT ![c] = @ + 1]
    /\ IF attempt[c] <= MaxRetries
       THEN /\ \E d \in BackoffDelay(attempt[c] + 1) :
                   due' = [due EXCEPT ![c] = now + d]
            /\ Goto(c, "backoff")
            /\ UNCHANGED result
       ELSE Finish(c, "ErrProviderUnavailable")
    /\ UNCHANGED <<limiter, deadline, gone, queued, sends>>

\* It answers 503: a retry, after a backoff, or the end of the loop.
Fail(c) ==
    /\ Answers(c)
    /\ "unavailable" \in Statuses
    /\ IF attempt[c] < MaxRetries
       THEN /\ attempt' = [attempt EXCEPT ![c] = @ + 1]
            /\ \E d \in BackoffDelay(attempt[c] + 1) :
                   due' = [due EXCEPT ![c] = now + d]
            /\ Goto(c, "backoff")
            /\ UNCHANGED result
       ELSE /\ Finish(c, "ErrProviderUnavailable")
            /\ UNCHANGED attempt
    /\ UNCHANGED <<limiter, deadline, gone, queued, sends>>

\* Mutant: the token of a request that fails is given back.
AbortRefunds(c) ==
    /\ stage[c] \in {"call", "inflight"}
    /\ done[c]
    /\ tokens' = Refilled + Unit
    /\ last' = now
    /\ Finish(c, CtxErr(c))
    /\ UNCHANGED <<now, pc, wake, done, grants, call>>

\* Fetch returns the error of a context that is done.
Abort(c) ==
    /\ stage[c] \in {"call", "inflight"}
    /\ done[c]
    /\ Finish(c, CtxErr(c))
    /\ UNCHANGED <<limiter, call>>

\* Mutant: a retry goes straight to Fetch.
RetryWithoutToken(c) ==
    /\ stage[c] = "backoff"
    /\ now >= due[c]
    /\ Goto(c, "call")
    /\ UNCHANGED <<limiter, due, result, call>>

\* The timer of the backoff fires: the limiter again.
Retry(c) ==
    /\ stage[c] = "backoff"
    /\ now >= due[c]
    /\ UNCHANGED done
    /\ Call(c)
    /\ Goto(c, "wait")
    /\ UNCHANGED <<due, result, call>>

\* Mutant: the backoff is a plain sleep.
SleptEnough(c) == now >= due[c]

\* The select of the backoff has a branch to take.
BackoffOver(c) == now >= due[c] \/ done[c]

\* The ctx.Done branch of the backoff.
CutShort(c) ==
    /\ stage[c] = "backoff"
    /\ BackoffOver(c)
    /\ done[c]
    /\ Finish(c, CtxErr(c))
    /\ UNCHANGED <<limiter, call>>

-----------------------------------------------------------------------------
(* Contexts and the clock                                                  *)

\* pCtx is done: if its goroutine is parked in Wait, Wait returns its error.
CtxEnds(c, err) ==
    /\ stage[c] # "idle"
    /\ CtxDone(c)
    /\ IF pc[c] = "parked" THEN Finish(c, err) ELSE UNCHANGED <<stage, due, result>>

Expire(c) ==
    /\ now >= deadline[c]
    /\ CtxEnds(c, "DeadlineExceeded")
    /\ UNCHANGED call

\* The client goes away.
Leave(c) ==
    /\ CtxEnds(c, "Canceled")
    /\ gone' = [gone EXCEPT ![c] = TRUE]
    /\ UNCHANGED <<attempt, deadline, queued, sends>>

\* Nothing is left to do for c at this instant: it is asleep, or goes round the
\* loop of Wait until the fraction of a tick that Delay drops has passed.
Blocked(c) ==
    \/ stage[c] = "idle"
    \/ /\ now < deadline[c] \/ done[c]
       /\ \/ pc[c] = "parked" /\ ~done[c] /\ now < wake[c]
          \/ pc[c] = "select" /\ ~done[c] /\ Refilled < Unit
          \/ stage[c] = "inflight" /\ ~done[c] /\ now < due[c]
          \/ stage[c] = "backoff" /\ ~BackoffOver(c)

TimePasses ==
    /\ \A c \in Callers : Blocked(c)
    /\ Tick
    /\ UNCHANGED <<stage, due, result, call>>

\* The clock has reached its bound and every search is over.
Finished ==
    /\ now = MaxTime
    /\ \A c \in Callers : stage[c] = "idle"
    /\ UNCHANGED callsVars

Goroutine(c) ==
    \/ Begin(c) \/ Granted(c) \/ Waits(c) \/ Refused(c)
    \/ Send(c) \/ Succeed(c) \/ Fail(c) \/ Abort(c)
    \/ Retry(c) \/ CutShort(c) \/ Expire(c) \/ Leave(c)

CallsNext == TimePasses \/ Finished \/ \E c \in Callers : Goroutine(c)

CallsSpec == CallsInit /\ [][CallsNext]_callsVars

-----------------------------------------------------------------------------
(* Properties                                                              *)

CallsTypeOK ==
    /\ TypeOK
    /\ stage \in [Callers -> Stages]
    /\ \A c \in Callers : stage[c] = "wait" <=> pc[c] # "idle"
    /\ attempt \in [Callers -> 0 .. MaxRetries]
    /\ deadline \in [Callers -> Nat]
    /\ due \in [Callers -> Nat]
    /\ gone \in [Callers -> BOOLEAN]
    /\ result \in [Callers -> [err : {"none", "nil", "ErrProviderUnavailable",
                                      "Canceled", "DeadlineExceeded"}, at : Stages]]
    /\ queued \in [Callers -> BOOLEAN]
    /\ sends \in Seq(0 .. now)

\* callWithRetry gives up as soon as its deadline hits, wherever it is: asleep in
\* a backoff, asleep in the limiter, or waiting for an answer (README.md:220).
ReturnsInTime == \A c \in Callers : stage[c] # "idle" => now <= deadline[c]

\* The airline is not hammered: however many searches call it and however often
\* they retry, the requests it gets in any window of time are at most the burst
\* and what the rate earns in it.
AirlineLoad ==
    \A i, j \in 1 .. Len(sends) :
        i <= j => (j - i + 1) * Unit <= Full + Rate * (sends[j] - sends[i])

\* The timeout is long enough for every retry: a call to an airline that answers
\* runs out of time only if the limiter made it wait.
TimeoutMeansQueue ==
    \A c \in Callers : result[c].err = "DeadlineExceeded" => queued[c]

\* The tokens handed out between the beginning of c's latest call and its deadline.
During(c) ==
    {i \in 1 .. Len(grants) : deadline[c] - Timeout <= grants[i] /\ grants[i] <= deadline[c]}

\* A search that got no request out before its deadline was held up by others:
\* while it waited they were granted all that the rate earned, but for one token
\* and the part of a tick by which a token comes late (the bucket is looked at
\* once a tick, so a token takes Unit units and at most Rate - 1 more).
StarvedByOthers ==
    \A c \in Callers :
        result[c] = [err |-> "DeadlineExceeded", at |-> "wait"] /\ attempt[c] = 0 =>
            (Unit + Rate - 1) * (Cardinality(During(c)) + 1) >= Rate * Timeout

\* What the limiter sees of all this is what Limiter allows.
ImplementsLimiter == Spec

\* A call is in a fetch while its request is out, and pauses elsewhere: in the
\* limiter, in a backoff, and with a token that it has yet to spend.
Phase(c) ==
    CASE stage[c] = "idle" -> "idle"
      [] stage[c] = "inflight" -> "fetching"
      [] OTHER -> "pausing"

Sent(c) ==
    CASE stage[c] = "idle" -> 0
      [] stage[c] = "inflight" -> attempt[c] + 1
      [] OTHER -> attempt[c]

Loop ==
    INSTANCE RetryLoop WITH
        Success <- "nil",
        Failure <- "ErrProviderUnavailable",
        CtxErrors <- {"Canceled", "DeadlineExceeded"},
        NoAnswer <- "none",
        state <- [c \in Callers |-> Phase(c)],
        sent <- [c \in Callers |-> Sent(c)],
        over <- done,
        answer <- [c \in Callers |-> result[c].err]

\* Whatever the limiter, the backoff and the clock do to it, callWithRetry makes the
\* calls of RetryLoop.
ImplementsRetryLoop == Loop!Spec

\* What the calls keep: they use the limiter as Limiter allows, and are what
\* RetryLoop promises of callWithRetry.
ImplementsPromises == ImplementsLimiter /\ ImplementsRetryLoop

=============================================================================
