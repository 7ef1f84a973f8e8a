----------------------------- MODULE Aggregator -----------------------------
(***************************************************************************)
(* One call of Aggregate in internal/pkg/aggregator/aggregator.go: the     *)
(* goroutine per provider, the retry loop of callWithRetry with its        *)
(* backoff, limiter and contexts, and the WaitGroup the caller waits on.   *)
(* Limiter models the limiter in full; here a wait for a token may end     *)
(* with one at any time, the context done or not, as it may there.         *)
(***************************************************************************)
EXTENDS Integers, FiniteSets, Sequences

CONSTANTS
    Providers,  \* a.providers
    MaxRetries  \* a.cfg.MaxRetries

ASSUME AggregatorAssumption ==
    /\ IsFiniteSet(Providers)
    /\ MaxRetries \in Nat

VARIABLES
    main,       \* where the calling goroutine is
    wg,         \* the counter of the WaitGroup
    parent,     \* state of ctx, the context of the request
    pc,         \* where the goroutine of each provider is
    ctx,        \* state of its pCtx
    attempt,    \* its loop counter
    outcome,    \* what its callWithRetry returned
    results,    \* the result slice
    log,        \* history: how each of its fetches ended
    late        \* history: tokens it took with pCtx done

vars == <<main, wg, parent, pc, ctx, attempt, outcome, results, log, late>>

\* ctx.Err() of a context that is done.
CtxErrors == {"Canceled", "DeadlineExceeded"}

Outcomes == {"ok", "failed"} \union CtxErrors

\* "limit" is inside limiter.Wait, "call" is about to send the request of
\* p.Fetch, "inflight" is waiting for its answer; the deferred wg.Done follows
\* "written".
Running == {"start", "limit", "call", "inflight", "backoff", "return", "written"}

Places == {"unborn", "exited"} \union Running

\* The zero ProviderResult: no name and no error.
Zero == "zero"

TypeOK ==
    /\ main \in {"spawn", "wait", "returned"}
    /\ wg \in Nat
    /\ parent \in {"live"} \union CtxErrors
    /\ pc \in [Providers -> Places]
    /\ ctx \in [Providers -> {"none", "live"} \union CtxErrors]
    /\ attempt \in [Providers -> 0 .. MaxRetries]
    /\ outcome \in [Providers -> Outcomes \union {"none"}]
    /\ results \in [Providers -> Outcomes \union {Zero}]
    /\ log \in [Providers -> Seq({"ok", "failed", "aborted"})]
    /\ late \in [Providers -> Nat]

Init ==
    /\ main = "spawn"
    /\ wg = 0
    /\ parent \in {"live"} \union CtxErrors
    /\ pc = [p \in Providers |-> "unborn"]
    /\ ctx = [p \in Providers |-> "none"]
    /\ attempt = [p \in Providers |-> 0]
    /\ outcome = [p \in Providers |-> "none"]
    /\ results = [p \in Providers |-> Zero]
    /\ log = [p \in Providers |-> << >>]
    /\ late = [p \in Providers |-> 0]

-----------------------------------------------------------------------------
(* The calling goroutine                                                   *)

\* Mutant: wg.Add(1) moved into the goroutine, where nothing waits for it.
SpawnWithoutAdd(p) ==
    /\ main = "spawn"
    /\ pc[p] = "unborn"
    /\ pc' = [pc EXCEPT ![p] = "start"]
    /\ UNCHANGED <<wg, main, parent, ctx, attempt, outcome, results, log, late>>

\* wg.Add(1), then the go statement.
Spawn(p) ==
    /\ main = "spawn"
    /\ pc[p] = "unborn"
    /\ wg' = wg + 1
    /\ pc' = [pc EXCEPT ![p] = "start"]
    /\ UNCHANGED <<main, parent, ctx, attempt, outcome, results, log, late>>

AllSpawned ==
    /\ main = "spawn"
    /\ \A p \in Providers : pc[p] # "unborn"
    /\ main' = "wait"
    /\ UNCHANGED <<wg, parent, pc, ctx, attempt, outcome, results, log, late>>

\* Mutant: returns with the first provider that is done.
WaitReturnsEarly ==
    /\ main = "wait"
    /\ wg < Cardinality(Providers)
    /\ main' = "returned"
    /\ UNCHANGED <<wg, parent, pc, ctx, attempt, outcome, results, log, late>>

\* wg.Wait() returns, and Aggregate with it.
WaitReturns ==
    /\ main = "wait"
    /\ wg = 0
    /\ main' = "returned"
    /\ UNCHANGED <<wg, parent, pc, ctx, attempt, outcome, results, log, late>>

-----------------------------------------------------------------------------
(* The goroutine of provider p                                             *)

IsDone(p) == ctx[p] \in CtxErrors

\* callWithRetry returns o; its deferred cancel releases pCtx.
Finish(p, o) ==
    /\ outcome' = [outcome EXCEPT ![p] = o]
    /\ pc' = [pc EXCEPT ![p] = "return"]
    /\ ctx' = [ctx EXCEPT ![p] = IF @ = "live" THEN "Canceled" ELSE @]

\* context.WithTimeout: the child of a context that is done is done.
Begin(p) ==
    /\ pc[p] = "start"
    /\ ctx' = [ctx EXCEPT ![p] = parent]
    /\ pc' = [pc EXCEPT ![p] = "limit"]
    /\ UNCHANGED <<main, wg, parent, attempt, outcome, results, log, late>>

\* The timer branch of the backoff; select may take it with pCtx done too.
BackoffElapsed(p) ==
    /\ pc[p] = "backoff"
    /\ pc' = [pc EXCEPT ![p] = "limit"]
    /\ UNCHANGED <<main, wg, parent, ctx, attempt, outcome, results, log, late>>

\* The pCtx.Done branch of the backoff.
BackoffCancelled(p) ==
    /\ pc[p] = "backoff"
    /\ IsDone(p)
    /\ Finish(p, ctx[p])
    /\ UNCHANGED <<main, wg, parent, attempt, results, log, late>>

\* limiter.Wait returns nil.
LimiterGrants(p) ==
    /\ pc[p] = "limit"
    /\ pc' = [pc EXCEPT ![p] = "call"]
    /\ late' = [late EXCEPT ![p] = IF IsDone(p) THEN @ + 1 ELSE @]
    /\ UNCHANGED <<main, wg, parent, ctx, attempt, outcome, results, log>>

\* limiter.Wait returns ctx.Err().
LimiterGivesUp(p) ==
    /\ pc[p] = "limit"
    /\ IsDone(p)
    /\ Finish(p, ctx[p])
    /\ UNCHANGED <<main, wg, parent, attempt, results, log, late>>

\* The HTTP client sends the request.
SendRequest(p) ==
    /\ pc[p] = "call"
    /\ ~IsDone(p)
    /\ pc' = [pc EXCEPT ![p] = "inflight"]
    /\ UNCHANGED <<main, wg, parent, ctx, attempt, outcome, results, log, late>>

\* p.Fetch returns its flights.
FetchOk(p) ==
    /\ pc[p] = "inflight"
    /\ log' = [log EXCEPT ![p] = Append(@, "ok")]
    /\ Finish(p, "ok")
    /\ UNCHANGED <<main, wg, parent, attempt, results, late>>

\* Mutant: one attempt too many.
RetryOncePastTheLimit(p) ==
    /\ pc[p] = "inflight"
    /\ log' = [log EXCEPT ![p] = Append(@, "failed")]
    /\ IF attempt[p] < MaxRetries \/ Len(log[p]) = MaxRetries
       THEN /\ attempt' = [attempt EXCEPT ![p] = IF @ < MaxRetries THEN @ + 1 ELSE @]
            /\ pc' = [pc EXCEPT ![p] = "backoff"]
            /\ UNCHANGED <<ctx, outcome>>
       ELSE /\ Finish(p, "failed")
            /\ UNCHANGED attempt
    /\ UNCHANGED <<main, wg, parent, results, late>>

\* p.Fetch returns an error that is not a context's (a 503, another status, a
\* connection or decoding error): the loop goes on, or returns lastErr.
FetchFailed(p) ==
    /\ pc[p] = "inflight"
    /\ log' = [log EXCEPT ![p] = Append(@, "failed")]
    /\ IF attempt[p] < MaxRetries
       THEN /\ attempt' = [attempt EXCEPT ![p] = @ + 1]
            /\ pc' = [pc EXCEPT ![p] = "backoff"]
            /\ UNCHANGED <<ctx, outcome>>
       ELSE /\ Finish(p, "failed")
            /\ UNCHANGED attempt
    /\ UNCHANGED <<main, wg, parent, results, late>>

\* Mutant: a context error is retried like any other.
FetchAbortedIsRetried(p) ==
    /\ pc[p] \in {"call", "inflight"}
    /\ IsDone(p)
    /\ log' = [log EXCEPT ![p] = Append(@, "aborted")]
    /\ IF attempt[p] < MaxRetries
       THEN /\ attempt' = [attempt EXCEPT ![p] = @ + 1]
            /\ pc' = [pc EXCEPT ![p] = "backoff"]
            /\ UNCHANGED <<ctx, outcome>>
       ELSE /\ Finish(p, ctx[p])
            /\ UNCHANGED attempt
    /\ UNCHANGED <<main, wg, parent, results, late>>

\* p.Fetch returns the error of pCtx: not retried.
FetchAborted(p) ==
    /\ pc[p] \in {"call", "inflight"}
    /\ IsDone(p)
    /\ log' = [log EXCEPT ![p] = Append(@, "aborted")]
    /\ Finish(p, ctx[p])
    /\ UNCHANGED <<main, wg, parent, attempt, results, late>>

WriteResult(p) ==
    /\ pc[p] = "return"
    /\ results' = [results EXCEPT ![p] = outcome[p]]
    /\ pc' = [pc EXCEPT ![p] = "written"]
    /\ UNCHANGED <<main, wg, parent, ctx, attempt, outcome, log, late>>

\* Mutant: wg.Done is not deferred, and an early return skips it.
ExitSkipsDone(p) ==
    /\ pc[p] = "written"
    /\ wg' = IF outcome[p] = "failed" THEN wg ELSE wg - 1
    /\ pc' = [pc EXCEPT ![p] = "exited"]
    /\ UNCHANGED <<main, parent, ctx, attempt, outcome, results, log, late>>

\* Mutant: wg.Done may run before the slot is written.
ExitBeforeWrite(p) ==
    /\ pc[p] \in {"return", "written"}
    /\ wg' = wg - 1
    /\ pc' = [pc EXCEPT ![p] = "exited"]
    /\ UNCHANGED <<main, parent, ctx, attempt, outcome, results, log, late>>

\* The deferred wg.Done.
Exit(p) ==
    /\ pc[p] = "written"
    /\ wg' = wg - 1
    /\ pc' = [pc EXCEPT ![p] = "exited"]
    /\ UNCHANGED <<main, parent, ctx, attempt, outcome, results, log, late>>

-----------------------------------------------------------------------------
(* The contexts                                                            *)

\* The client goes away (Canceled) or the deadline of the request passes;
\* every pCtx still live is done with it.
ParentDone ==
    /\ main # "returned"
    /\ parent = "live"
    /\ \E e \in CtxErrors :
        /\ parent' = e
        /\ ctx' = [p \in Providers |-> IF ctx[p] = "live" THEN e ELSE ctx[p]]
    /\ UNCHANGED <<main, wg, pc, attempt, outcome, results, log, late>>

\* Mutant: the timeout is derived from context.Background() and never fires.
NoTimeout(p) ==
    /\ ctx[p] = "live"
    /\ parent = "DeadlineExceeded"
    /\ ctx' = [ctx EXCEPT ![p] = "DeadlineExceeded"]
    /\ UNCHANGED <<main, wg, parent, pc, attempt, outcome, results, log, late>>

\* PerProviderTimeout passes.
Expire(p) ==
    /\ ctx[p] = "live"
    /\ ctx' = [ctx EXCEPT ![p] = "DeadlineExceeded"]
    /\ UNCHANGED <<main, wg, parent, pc, attempt, outcome, results, log, late>>

-----------------------------------------------------------------------------
Goroutine(p) ==
    \/ Begin(p) \/ BackoffElapsed(p) \/ BackoffCancelled(p)
    \/ LimiterGrants(p) \/ LimiterGivesUp(p)
    \/ SendRequest(p) \/ FetchOk(p) \/ FetchFailed(p) \/ FetchAborted(p)
    \/ WriteResult(p) \/ Exit(p)

\* Aggregate has returned, and no goroutine of it is left.
Finished == main = "returned" /\ UNCHANGED vars

Next ==
    \/ AllSpawned \/ WaitReturns \/ ParentDone \/ Finished
    \/ \E p \in Providers : Spawn(p) \/ Goroutine(p) \/ Expire(p)

\* Go runs every goroutine that can run, and timers fire.  Nothing is assumed
\* of the providers, which may never answer, nor of the limiter before pCtx is
\* done, when it returns (WaitReturns of Limiter).
Fairness ==
    /\ WF_vars(AllSpawned)
    /\ WF_vars(WaitReturns)
    /\ \A p \in Providers :
        /\ WF_vars(Spawn(p))
        /\ WF_vars(Begin(p))
        /\ WF_vars(BackoffElapsed(p) \/ BackoffCancelled(p))
        /\ WF_vars(LimiterGivesUp(p))
        /\ WF_vars(SendRequest(p))
        /\ WF_vars(FetchAborted(p))
        /\ WF_vars(WriteResult(p) \/ Exit(p))
        /\ WF_vars(Expire(p))

Spec == Init /\ [][Next]_vars

FairSpec == Spec /\ Fairness

-----------------------------------------------------------------------------
(* Properties                                                              *)

\* The WaitGroup counts the goroutines that have not run wg.Done: it is never
\* negative, and zero while the caller waits only when none of them is left.
WaitGroupCounts == wg = Cardinality({p \in Providers : pc[p] \in Running})

\* The slice Aggregate returns has the outcome of every provider in its slot:
\* no slot is still the zero value, which would read as a success of no flights,
\* and no goroutine is left to write to it.
ReturnedComplete ==
    main = "returned" =>
        \A p \in Providers :
            /\ pc[p] = "exited"
            /\ results[p] = outcome[p]
            /\ outcome[p] # "none"

\* Every outcome is the one its fetches and its contexts call for: a success is
\* the answer of the last fetch, after fewer failures than the limit; a provider
\* is given up after exactly MaxRetries + 1 of them; and a context error is the
\* error of a context that is done, and Canceled only if the caller went away.
Failures(n) == [i \in 1 .. n |-> "failed"]

OutcomeJustified ==
    \A p \in Providers :
        LET failures == Failures(attempt[p])
        IN  /\ outcome[p] = "none" => log[p] = failures
            /\ outcome[p] = "ok" => log[p] = Append(failures, "ok")
            /\ outcome[p] = "failed" => log[p] = Failures(MaxRetries + 1)
            /\ outcome[p] \in CtxErrors =>
                /\ log[p] \in {failures, Append(failures, "aborted")}
                /\ ctx[p] = outcome[p]
                /\ outcome[p] = "Canceled" => parent = "Canceled"

\* A search that is cancelled or out of time costs each provider one token more
\* at most, although neither the backoff nor the limiter need notice.
OneLateToken == \A p \in Providers : late[p] <= 1

\* Aggregate returns although providers may hang and the limiter may starve a
\* goroutine: the timeout ends them.
AggregateReturns == <>(main = "returned")

\* Aggregate settles every slot once and returns when all of them are.
Promise ==
    INSTANCE FanOut WITH
        Pending <- Zero,
        slot <- results,
        returned <- main = "returned"

ImplementsFanOut == Promise!FairSpec

\* Each goroutine makes one call of callWithRetry, which is as RetryLoop promises:
\* in a fetch while a request is out, and idle before Begin and once it returned.
Phase(p) ==
    CASE pc[p] \in {"limit", "call", "backoff"} -> "pausing"
      [] pc[p] = "inflight" -> "fetching"
      [] OTHER -> "idle"

Sent(p) ==
    CASE pc[p] \in {"limit", "call", "backoff"} -> attempt[p]
      [] pc[p] = "inflight" -> attempt[p] + 1
      [] OTHER -> 0

Loop ==
    INSTANCE RetryLoop WITH
        Callers <- Providers,
        Success <- "ok",
        Failure <- "failed",
        NoAnswer <- "none",
        state <- [p \in Providers |-> Phase(p)],
        sent <- [p \in Providers |-> Sent(p)],
        over <- [p \in Providers |-> IsDone(p)],
        answer <- outcome

\* Whatever the other goroutines and the request do, each makes one call of RetryLoop.
ImplementsRetryLoop == Loop!Spec

\* What Aggregate keeps: it settles and returns its slots as FanOut says, and each
\* of them is settled by a call that is as RetryLoop promises.
ImplementsPromises == ImplementsFanOut /\ ImplementsRetryLoop

=============================================================================
