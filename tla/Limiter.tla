------------------------------ MODULE Limiter ------------------------------
(***************************************************************************)
(* The token-bucket rate limiter of internal/pkg/aggregator/ratelimit.go.  *)
(* One Limiter is shared by every goroutine that calls one provider.  Time *)
(* is discrete; the bucket is counted in 1/Unit of a token, so that the    *)
(* fractions the code keeps in a float64 are exact here, and a delay is    *)
(* truncated to a whole tick the way time.Duration truncates it to a       *)
(* nanosecond.                                                             *)
(***************************************************************************)
EXTENDS Integers, Sequences

CONSTANTS
    Callers,    \* goroutines that may be inside Wait
    Capacity,   \* burst size, in tokens
    Rate,       \* bucket units earned in a tick
    Unit,       \* bucket units in a token
    MaxTime     \* bound on the clock, for model checking

ASSUME LimiterAssumption ==
    /\ Capacity \in Nat
    /\ Rate \in Nat \ {0}
    /\ Unit \in Nat \ {0}
    /\ MaxTime \in Nat

VARIABLES
    now,        \* the monotonic clock
    tokens,     \* l.tokens
    last,       \* l.last, the clock at the latest refill
    pc,         \* where each caller is
    wake,       \* when the timer of a caller fires (0: no timer)
    done,       \* is the context of a caller done
    grants      \* history: the clock at each token handed out

vars == <<now, tokens, last, pc, wake, done, grants>>
bucket == <<tokens, last, grants>>

\* "lock" is the head of the loop, before l.mu.Lock(); "select" is after
\* NewTimer, when the select statement is about to look at its channels;
\* "parked" is blocked in it.  A goroutine parked in select resumes with the
\* first channel that becomes ready and with no other.
Places == {"idle", "lock", "select", "parked"}

Full == Capacity * Unit

TypeOK ==
    /\ now \in 0 .. MaxTime
    /\ tokens \in 0 .. Full
    /\ last \in 0 .. now
    /\ pc \in [Callers -> Places]
    /\ wake \in [Callers -> Nat]
    /\ done \in [Callers -> BOOLEAN]
    /\ grants \in Seq(0 .. now)

Init ==
    /\ now = 0
    /\ tokens = Full
    /\ last = 0
    /\ pc = [c \in Callers |-> "idle"]
    /\ wake = [c \in Callers |-> 0]
    /\ done = [c \in Callers |-> FALSE]
    /\ grants = << >>

-----------------------------------------------------------------------------
(* The bucket                                                              *)

\* Mutant: the refill forgets the burst cap.
RefilledUncapped == tokens + Rate * (now - last)

\* The bucket after the refill every pass of the loop starts with.
Refilled ==
    LET earned == tokens + Rate * (now - last)
    IN  IF earned < Full THEN earned ELSE Full

\* Mutant: one tick more, so as never to wake up early.
DelayToBeSafe(units) == units \div Rate + 1

\* How long to sleep until `units` more are earned.
Delay(units) == units \div Rate

-----------------------------------------------------------------------------
(* The callers                                                             *)

\* A goroutine calls Wait; its context may already be done.
Call(c) ==
    /\ pc[c] = "idle"
    /\ pc' = [pc EXCEPT ![c] = "lock"]
    /\ done' \in {[done EXCEPT ![c] = d] : d \in BOOLEAN}
    /\ UNCHANGED <<now, wake, bucket>>

\* Mutant: takes whatever is in the bucket.
TakeAnything(c) ==
    /\ pc[c] = "lock"
    /\ tokens' = Refilled - Unit
    /\ last' = now
    /\ grants' = Append(grants, now)
    /\ pc' = [pc EXCEPT ![c] = "idle"]
    /\ UNCHANGED <<now, wake, done>>

\* The critical section when a token is there: nothing looks at the context.
Take(c) ==
    /\ pc[c] = "lock"
    /\ Refilled >= Unit
    /\ tokens' = Refilled - Unit
    /\ last' = now
    /\ grants' = Append(grants, now)
    /\ pc' = [pc EXCEPT ![c] = "idle"]
    /\ UNCHANGED <<now, wake, done>>

\* Mutant: what was earned so far is lost.
DeferForgets(c) ==
    /\ pc[c] = "lock"
    /\ Refilled < Unit
    /\ last' = now
    /\ wake' = [wake EXCEPT ![c] = now + Delay(Unit - Refilled)]
    /\ pc' = [pc EXCEPT ![c] = "select"]
    /\ UNCHANGED <<now, tokens, done, grants>>

\* The critical section when none is: the refill is kept and a timer started.
Defer(c) ==
    /\ pc[c] = "lock"
    /\ Refilled < Unit
    /\ tokens' = Refilled
    /\ last' = now
    /\ wake' = [wake EXCEPT ![c] = now + Delay(Unit - Refilled)]
    /\ pc' = [pc EXCEPT ![c] = "select"]
    /\ UNCHANGED <<now, done, grants>>

\* select with neither channel ready.
Park(c) ==
    /\ pc[c] = "select"
    /\ ~done[c]
    /\ now < wake[c]
    /\ pc' = [pc EXCEPT ![c] = "parked"]
    /\ UNCHANGED <<now, wake, done, bucket>>

\* The timer branch: back to the head of the loop.
TimerFires(c) ==
    /\ pc[c] \in {"select", "parked"}
    /\ now >= wake[c]
    /\ pc' = [pc EXCEPT ![c] = "lock"]
    /\ wake' = [wake EXCEPT ![c] = 0]
    /\ UNCHANGED <<now, done, bucket>>

\* Mutant: the loop waits for its timer only.
NeverGivesUp(c) ==
    /\ pc[c] = "select"
    /\ done[c]
    /\ now >= wake[c]
    /\ pc' = [pc EXCEPT ![c] = "lock"]
    /\ wake' = [wake EXCEPT ![c] = 0]
    /\ UNCHANGED <<now, done, bucket>>

\* The ctx.Done branch of a select that finds the context done on entry.
GiveUp(c) ==
    /\ pc[c] = "select"
    /\ done[c]
    /\ pc' = [pc EXCEPT ![c] = "idle"]
    /\ wake' = [wake EXCEPT ![c] = 0]
    /\ UNCHANGED <<now, done, bucket>>

\* The context of a caller is cancelled or reaches its deadline, in Wait or
\* between two calls of it: a parked caller resumes with the ctx.Done branch.
CtxDone(c) ==
    /\ ~done[c]
    /\ done' = [done EXCEPT ![c] = TRUE]
    /\ IF pc[c] = "parked"
       THEN /\ pc' = [pc EXCEPT ![c] = "idle"]
            /\ wake' = [wake EXCEPT ![c] = 0]
       ELSE UNCHANGED <<pc, wake>>
    /\ UNCHANGED <<now, bucket>>

Tick ==
    /\ now < MaxTime
    /\ now' = now + 1
    /\ UNCHANGED <<pc, wake, done, bucket>>

CallerStep(c) ==
    \/ Call(c) \/ Take(c) \/ Defer(c) \/ Park(c)
    \/ TimerFires(c) \/ GiveUp(c) \/ CtxDone(c)

Next == Tick \/ \E c \in Callers : CallerStep(c)

\* sync.Mutex and the scheduler let every runnable goroutine proceed; every
\* context passed to Wait has a deadline (aggregator.go:108), so it is done in
\* the end; a select with several ready channels picks one at random, so it
\* picks ctx.Done in the end (strong fairness).
Fairness ==
    \A c \in Callers :
        /\ WF_vars(Take(c) \/ Defer(c))
        /\ WF_vars(Park(c))
        /\ WF_vars(TimerFires(c))
        /\ WF_vars(CtxDone(c))
        /\ SF_vars(GiveUp(c))

Spec == Init /\ [][Next]_vars

FairSpec == Spec /\ Fairness

-----------------------------------------------------------------------------
(* Properties                                                              *)

\* Any window of time sees at most the burst plus what the rate earns in it:
\* tokens i..j, the first at grants[i] and the last at grants[j], whichever
\* goroutines they went to and however their refills interleaved.
RateBound ==
    \A i, j \in 1 .. Len(grants) :
        i <= j => (j - i + 1) * Unit <= Full + Rate * (grants[j] - grants[i])

\* No goroutine sleeps while a token sits in the bucket: the delay computed
\* under the lock from the deficit stays right although other goroutines refill
\* and drain the bucket before the timer fires.
Asleep(c) == pc[c] \in {"select", "parked"} /\ now < wake[c]

NoIdleToken == \A c \in Callers : Asleep(c) => Refilled < Unit

\* Wait returns: with a token or, since the context of every caller ends, with
\* its error, even if other goroutines take every token it wakes up for.
WaitReturns == \A c \in Callers : pc[c] # "idle" ~> pc[c] = "idle"

=============================================================================
