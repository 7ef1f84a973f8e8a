---------------------------- MODULE CallsProofs ----------------------------
(***************************************************************************)
(* Proofs about Limiter, for every set of callers, capacity and rate, and  *)
(* about Calls, for every configuration of timeout, retries and backoff    *)
(* and every answer of the airline as well.                                *)
(***************************************************************************)
EXTENDS Calls, FiniteSetTheorems, TLAPS

-----------------------------------------------------------------------------
(* The limiter: arithmetic                                                 *)

LEMMA FullType == Full \in Nat
  BY LimiterAssumption DEF Full

LEMMA EarnedType ==
  ASSUME NEW a \in Nat, NEW b \in Nat, a <= b
  PROVE  Rate * (b - a) \in Nat
  BY LimiterAssumption

LEMMA EarnedAdds ==
  ASSUME NEW a \in Int, NEW b \in Int, NEW c \in Int
  PROVE  Rate * (c - a) = Rate * (b - a) + Rate * (c - b)
  BY LimiterAssumption

LEMMA DelayBound ==
  ASSUME NEW d \in Nat
  PROVE  /\ Delay(d) \in Nat
         /\ Rate * Delay(d) <= d
  BY LimiterAssumption DEF Delay

-----------------------------------------------------------------------------
(* The limiter: types                                                      *)

LEMMA RefilledType ==
  ASSUME TypeOK
  PROVE  /\ Refilled \in 0 .. Full
         /\ Refilled <= tokens + Rate * (now - last)
<1>1. now \in Nat /\ last \in Nat /\ last <= now /\ tokens \in Nat /\ tokens <= Full
  BY LimiterAssumption, FullType DEF TypeOK
<1>2. Rate * (now - last) \in Nat
  BY <1>1, EarnedType
<1> QED
  BY <1>1, <1>2, FullType DEF Refilled

LEMMA TypeInit == Init => TypeOK
  BY LimiterAssumption, FullType DEF Init, TypeOK, Places

LEMMA TypeStep == TypeOK /\ [Next]_vars => TypeOK'
<1> SUFFICES ASSUME TypeOK, [Next]_vars
             PROVE  TypeOK'
  OBVIOUS
<1> USE LimiterAssumption, FullType DEF Places
<1>0. Refilled \in 0 .. Full
  BY RefilledType
<1>1. CASE Tick
  <2>1. grants' \in Seq(0 .. now')
    <3>1. 0 .. now \subseteq 0 .. now'
      BY <1>1 DEF Tick, TypeOK
    <3> QED
      BY <1>1, <3>1 DEF Tick, TypeOK, bucket
  <2> QED
    BY <1>1, <2>1 DEF Tick, TypeOK, bucket
<1>2. ASSUME NEW c \in Callers, Call(c)
      PROVE  TypeOK'
  BY <1>2 DEF Call, TypeOK, bucket
<1>3. ASSUME NEW c \in Callers, Take(c)
      PROVE  TypeOK'
  <2>1. Refilled - Unit \in 0 .. Full
    BY <1>0, <1>3 DEF Take
  <2>2. Append(grants, now) \in Seq(0 .. now)
    BY DEF TypeOK
  <2> QED
    BY <1>3, <2>1, <2>2 DEF Take, TypeOK
<1>4. ASSUME NEW c \in Callers, Defer(c)
      PROVE  TypeOK'
  <2>1. Delay(Unit - Refilled) \in Nat
    BY <1>0, <1>4, DelayBound DEF Defer
  <2> QED
    BY <1>0, <1>4, <2>1 DEF Defer, TypeOK
<1>5. ASSUME NEW c \in Callers, Park(c)
      PROVE  TypeOK'
  BY <1>5 DEF Park, TypeOK, bucket
<1>6. ASSUME NEW c \in Callers, TimerFires(c)
      PROVE  TypeOK'
  BY <1>6 DEF TimerFires, TypeOK, bucket
<1>7. ASSUME NEW c \in Callers, GiveUp(c)
      PROVE  TypeOK'
  BY <1>7 DEF GiveUp, TypeOK, bucket
<1>8. ASSUME NEW c \in Callers, CtxDone(c)
      PROVE  TypeOK'
  <2>1. pc' \in [Callers -> Places] /\ wake' \in [Callers -> Nat]
    <3>1. CASE pc[c] = "parked"
      BY <1>8, <3>1 DEF CtxDone, TypeOK
    <3>2. CASE pc[c] # "parked"
      BY <1>8, <3>2 DEF CtxDone, TypeOK
    <3> QED
      BY <3>1, <3>2
  <2>2. done' \in [Callers -> BOOLEAN]
    BY <1>8 DEF CtxDone, TypeOK
  <2> QED
    BY <1>8, <2>1, <2>2 DEF CtxDone, TypeOK, bucket
<1>9. CASE UNCHANGED vars
  BY <1>9 DEF vars, TypeOK
<1> QED
  BY <1>1, <1>2, <1>3, <1>4, <1>5, <1>6, <1>7, <1>8, <1>9 DEF Next, CallerStep

\* Every state of the limiter is well typed: the bucket never goes below empty
\* nor above the burst.
THEOREM TypeCorrect == Spec => []TypeOK
  BY TypeInit, TypeStep, PTL DEF Spec

-----------------------------------------------------------------------------
(* The limiter: the rate bound                                             *)

\* What makes RateBound inductive: the tokens handed out since any grant, plus
\* those still in the bucket, are at most the burst plus what the rate has
\* earned from that grant to the latest refill.
Ledger ==
    \A i \in 1 .. Len(grants) :
        (Len(grants) - i + 1) * Unit + tokens <= Full + Rate * (last - grants[i])

RateInv == TypeOK /\ Ledger /\ RateBound

\* The ledger holds of the refilled bucket too: the refill earns what the clock
\* says, or less when it hits the cap.
LEMMA LedgerRefilled ==
  ASSUME TypeOK, Ledger, NEW i \in 1 .. Len(grants)
  PROVE  (Len(grants) - i + 1) * Unit + Refilled <= Full + Rate * (now - grants[i])
<1> USE LimiterAssumption, FullType
<1>1. now \in Int /\ last \in Int /\ tokens \in Int /\ Len(grants) \in Nat /\ grants[i] \in Int
  BY DEF TypeOK
<1>2. Refilled \in Int /\ Refilled <= tokens + Rate * (now - last)
  BY RefilledType
<1>3. (Len(grants) - i + 1) * Unit + tokens <= Full + Rate * (last - grants[i])
  BY DEF Ledger
<1>4. Rate * (now - grants[i]) = Rate * (last - grants[i]) + Rate * (now - last)
  BY <1>1, EarnedAdds
<1>5. /\ (Len(grants) - i + 1) * Unit \in Int
      /\ Rate * (last - grants[i]) \in Int
      /\ Rate * (now - last) \in Int
  BY <1>1
<1> DEFINE spent == (Len(grants) - i + 1) * Unit
           before == Rate * (last - grants[i])
           since == Rate * (now - last)
<1>6. spent \in Int /\ before \in Int /\ since \in Int
  BY <1>5
<1>7. spent + tokens <= Full + before /\ Refilled <= tokens + since
  BY <1>2, <1>3
<1>8. Rate * (now - grants[i]) = before + since
  BY <1>4
<1> HIDE DEF spent, before, since
<1>9. spent + Refilled <= Full + (before + since)
  BY <1>1, <1>2, <1>6, <1>7
<1> QED
  BY <1>8, <1>9 DEF spent

LEMMA RateStep == RateInv /\ [Next]_vars => Ledger' /\ RateBound'
<1> SUFFICES ASSUME RateInv, [Next]_vars
             PROVE  Ledger' /\ RateBound'
  OBVIOUS
<1> USE LimiterAssumption, FullType DEF RateInv
<1>0. /\ now \in Nat /\ last \in Nat /\ tokens \in Nat
      /\ Len(grants) \in Nat
      /\ \A i \in 1 .. Len(grants) : grants[i] \in Nat
      /\ Refilled \in Int
  BY RefilledType DEF TypeOK
<1>1. ASSUME NEW c \in Callers, Take(c)
      PROVE  Ledger' /\ RateBound'
  <2>1. /\ tokens' = Refilled - Unit /\ last' = now
        /\ Refilled >= Unit
        /\ Len(grants') = Len(grants) + 1
        /\ \A i \in 1 .. Len(grants) : grants'[i] = grants[i]
        /\ grants'[Len(grants) + 1] = now
    BY <1>1 DEF Take, TypeOK
  <2>2. ASSUME NEW i \in 1 .. Len(grants)
        PROVE  /\ (Len(grants) - i + 1) * Unit \in Int
               /\ Rate * (now - grants[i]) \in Int
               /\ (Len(grants) + 1 - i + 1) * Unit = (Len(grants) - i + 1) * Unit + Unit
    BY <1>0
  <2>3. Ledger'
    <3> SUFFICES ASSUME NEW i \in 1 .. Len(grants) + 1
                 PROVE  (Len(grants) + 1 - i + 1) * Unit + (Refilled - Unit)
                          <= Full + Rate * (now - grants'[i])
      BY <2>1 DEF Ledger
    <3>1. CASE i \in 1 .. Len(grants)
      BY <1>0, <2>1, <2>2, <3>1, LedgerRefilled
    <3>2. CASE i = Len(grants) + 1
      <4>1. Rate * (now - grants'[i]) = 0 /\ (Len(grants) + 1 - i + 1) * Unit = Unit
        BY <1>0, <2>1, <3>2
      <4> QED
        BY <1>0, <4>1, RefilledType
    <3> QED
      BY <1>0, <3>1, <3>2
  <2>4. RateBound'
    <3> SUFFICES ASSUME NEW i \in 1 .. Len(grants) + 1,
                        NEW j \in 1 .. Len(grants) + 1, i <= j
                 PROVE  (j - i + 1) * Unit <= Full + Rate * (grants'[j] - grants'[i])
      BY <2>1 DEF RateBound
    <3>1. CASE j \in 1 .. Len(grants)
      <4>1. i \in 1 .. Len(grants)
        BY <1>0, <3>1
      <4>2. (j - i + 1) * Unit <= Full + Rate * (grants[j] - grants[i])
        BY <3>1, <4>1 DEF RateBound
      <4>3. grants'[j] = grants[j] /\ grants'[i] = grants[i]
        BY <2>1, <3>1, <4>1
      <4> QED
        BY <4>2, <4>3, Zenon
    <3>2. CASE j = Len(grants) + 1 /\ i \in 1 .. Len(grants)
      <4>1. (j - i + 1) * Unit = (Len(grants) - i + 1) * Unit + Unit
        BY <1>0, <2>2, <3>2
      <4>2. grants'[j] = now /\ grants'[i] = grants[i]
        BY <2>1, <3>2
      <4> DEFINE spent == (Len(grants) - i + 1) * Unit
                 earned == Rate * (now - grants[i])
      <4>3. spent + Refilled <= Full + earned
        BY <3>2, LedgerRefilled
      <4>4. spent \in Int /\ earned \in Int
        BY <2>2, <3>2
      <4> HIDE DEF spent, earned
      <4>5. spent + Unit <= Full + earned
        BY <1>0, <2>1, <4>3, <4>4
      <4> QED
        BY <4>1, <4>2, <4>5 DEF spent, earned
    <3>3. CASE j = Len(grants) + 1 /\ i = j
      <4>1. (j - i + 1) * Unit = Unit /\ Rate * (grants'[j] - grants'[i]) = 0
        BY <1>0, <2>1, <3>3
      <4>2. Unit <= Full
        BY <1>0, <2>1, RefilledType
      <4> QED
        BY <4>1, <4>2
    <3> QED
      BY <1>0, <3>1, <3>2, <3>3
  <2> QED
    BY <2>3, <2>4
<1>2. ASSUME NEW c \in Callers, Defer(c)
      PROVE  Ledger' /\ RateBound'
  <2>1. tokens' = Refilled /\ last' = now /\ grants' = grants
    BY <1>2 DEF Defer
  <2> QED
    BY <2>1, LedgerRefilled DEF Ledger, RateBound
<1>3. CASE UNCHANGED bucket
  BY <1>3 DEF bucket, Ledger, RateBound
<1>4. [Next]_vars => \/ \E c \in Callers : Take(c) \/ Defer(c)
                     \/ UNCHANGED bucket
  BY DEF Next, CallerStep, Tick, Call, Park, TimerFires, GiveUp, CtxDone, vars, bucket
<1> QED
  BY <1>1, <1>2, <1>3, <1>4

\* Over any window of time, the goroutines that share a limiter are handed at
\* most the burst plus what the rate earns in the window, however they interleave.
THEOREM RateIsBounded == Spec => []RateBound
<1>1. Init => RateInv
  BY TypeInit DEF Init, RateInv, Ledger, RateBound
<1>2. RateInv /\ [Next]_vars => RateInv'
  BY TypeStep, RateStep DEF RateInv
<1>3. RateInv => RateBound
  BY DEF RateInv
<1> QED
  BY <1>1, <1>2, <1>3, PTL DEF Spec

-----------------------------------------------------------------------------
(* The limiter: no idle token                                              *)

\* What makes NoIdleToken inductive: were the bucket left alone until the timer
\* of a sleeping caller fires, it would then hold one token at most.
Deficit ==
    \A c \in Callers :
        pc[c] \in {"select", "parked"} => tokens + Rate * (wake[c] - last) <= Unit

SleepInv == TypeOK /\ Deficit

LEMMA DeficitRefilled ==
  ASSUME TypeOK, Deficit, NEW c \in Callers, pc[c] \in {"select", "parked"}
  PROVE  Refilled + Rate * (wake[c] - now) <= Unit
<1> USE LimiterAssumption
<1>1. now \in Int /\ last \in Int /\ tokens \in Int /\ wake[c] \in Int
  BY FullType DEF TypeOK
<1>2. Refilled \in Int /\ Refilled <= tokens + Rate * (now - last)
  BY RefilledType, FullType
<1>3. tokens + Rate * (wake[c] - last) <= Unit
  BY DEF Deficit
<1>4. Rate * (wake[c] - last) = Rate * (now - last) + Rate * (wake[c] - now)
  BY <1>1, EarnedAdds
<1>5. Rate * (now - last) \in Int /\ Rate * (wake[c] - now) \in Int
  BY <1>1
<1> QED
  BY <1>1, <1>2, <1>3, <1>4, <1>5

LEMMA DeficitStep == SleepInv /\ [Next]_vars => Deficit'
<1> SUFFICES ASSUME SleepInv, [Next]_vars
             PROVE  Deficit'
  OBVIOUS
<1> USE LimiterAssumption, FullType DEF SleepInv
<1>1. ASSUME NEW c \in Callers, Take(c)
      PROVE  Deficit'
  <2> SUFFICES ASSUME NEW d \in Callers, pc'[d] \in {"select", "parked"}
               PROVE  tokens' + Rate * (wake'[d] - last') <= Unit
    BY DEF Deficit
  <2>1. pc[d] \in {"select", "parked"} /\ wake'[d] = wake[d]
    BY <1>1 DEF Take, TypeOK
  <2>2. Refilled + Rate * (wake[d] - now) <= Unit
    BY <2>1, DeficitRefilled
  <2>3. Refilled \in Int /\ Rate * (wake[d] - now) \in Int
    BY RefilledType DEF TypeOK
  <2> QED
    BY <1>1, <2>1, <2>2, <2>3 DEF Take
<1>2. ASSUME NEW c \in Callers, Defer(c)
      PROVE  Deficit'
  <2> SUFFICES ASSUME NEW d \in Callers, pc'[d] \in {"select", "parked"}
               PROVE  Refilled + Rate * (wake'[d] - now) <= Unit
    BY <1>2 DEF Deficit, Defer
  <2>1. CASE d = c
    <3> DEFINE w == Delay(Unit - Refilled)
    <3>1. Unit - Refilled \in Nat
      BY <1>2, RefilledType DEF Defer
    <3>2. w \in Nat /\ Rate * w <= Unit - Refilled
      BY <3>1, DelayBound
    <3>3. wake'[d] - now = w
      BY <1>2, <2>1, <3>2 DEF Defer, TypeOK
    <3> HIDE DEF w
    <3> QED
      BY <3>1, <3>2, <3>3, RefilledType
  <2>2. CASE d # c
    BY <1>2, <2>2, DeficitRefilled DEF Defer, TypeOK
  <2> QED
    BY <2>1, <2>2
<1>3. CASE UNCHANGED bucket /\ \A c \in Callers :
              pc'[c] \in {"select", "parked"} =>
                  pc[c] \in {"select", "parked"} /\ wake'[c] = wake[c]
  BY <1>3 DEF bucket, Deficit
<1>4. ASSUME NEW c \in Callers, Call(c) \/ Park(c) \/ TimerFires(c) \/ GiveUp(c) \/ CtxDone(c)
      PROVE  UNCHANGED bucket /\ \A d \in Callers :
                pc'[d] \in {"select", "parked"} =>
                    pc[d] \in {"select", "parked"} /\ wake'[d] = wake[d]
  BY <1>4 DEF TypeOK, Call, Park, TimerFires, GiveUp, CtxDone
<1>5. CASE Tick \/ UNCHANGED vars
  BY <1>3, <1>5 DEF Tick, vars, bucket
<1> QED
  BY <1>1, <1>2, <1>3, <1>4, <1>5 DEF Next, CallerStep

LEMMA DeficitMeansAsleep == SleepInv => NoIdleToken
<1> SUFFICES ASSUME SleepInv, NEW c \in Callers, Asleep(c)
             PROVE  Refilled < Unit
  BY DEF NoIdleToken
<1> USE LimiterAssumption, FullType DEF SleepInv
<1>1. Refilled + Rate * (wake[c] - now) <= Unit
  BY DeficitRefilled DEF Asleep
<1>2. wake[c] - now \in Nat \ {0}
  BY DEF Asleep, TypeOK
<1>3. Rate * (wake[c] - now) \in Nat \ {0}
  BY <1>2
<1> QED
  BY <1>1, <1>3, RefilledType

\* No goroutine sleeps in Wait while the bucket holds a token.
THEOREM NoTokenIsIdle == Spec => []NoIdleToken
<1>1. Init => SleepInv
  BY TypeInit DEF Init, SleepInv, Deficit
<1>2. SleepInv /\ [Next]_vars => SleepInv'
  BY TypeStep, DeficitStep DEF SleepInv
<1> QED
  BY <1>1, <1>2, DeficitMeansAsleep, PTL DEF Spec

-----------------------------------------------------------------------------
(* The searches use the limiter                                            *)

\* What a step of a search does to the limiter is a step of Limiter.
LEMMA StepOfLimiter == [CallsNext]_callsVars => [Next]_vars
<1> SUFFICES ASSUME [CallsNext]_callsVars
             PROVE  [Next]_vars
  OBVIOUS
<1> USE DEF vars, Next, CallerStep
<1>1. CASE TimePasses
  BY <1>1 DEF TimePasses
<1>2. CASE UNCHANGED limiter
  BY <1>2 DEF limiter, vars
<1>3. ASSUME NEW c \in Callers, Goroutine(c)
      PROVE  [Next]_vars
  <2>1. CASE Begin(c)
    BY <2>1 DEF Begin
  <2>2. CASE Granted(c)
    BY <2>2 DEF Granted
  <2>3. CASE Waits(c)
    BY <2>3 DEF Waits
  <2>4. CASE Refused(c)
    BY <2>4 DEF Refused
  <2>5. CASE Send(c) \/ Succeed(c) \/ Fail(c) \/ Abort(c) \/ CutShort(c)
    BY <2>5 DEF Send, Succeed, Fail, Abort, CutShort, limiter, vars
  <2>6. CASE Retry(c)
    BY <2>6 DEF Retry
  <2>7. CASE Expire(c) \/ Leave(c)
    BY <2>7 DEF Expire, Leave, CtxEnds
  <2> QED
    BY <1>3, <2>1, <2>2, <2>3, <2>4, <2>5, <2>6, <2>7 DEF Goroutine
<1> QED
  BY <1>1, <1>2, <1>3 DEF CallsNext, Finished, callsVars

\* The searches use the limiter in no way that Limiter does not allow.
THEOREM UsesLimiter == CallsSpec => ImplementsLimiter
<1>1. CallsInit => Init
  BY DEF CallsInit
<1> QED
  BY <1>1, StepOfLimiter, PTL DEF CallsSpec, Spec, ImplementsLimiter

\* However many searches call one provider, the tokens they get in any window of
\* time are at most the burst and what the rate earns in it.
THEOREM GrantsAreBounded == CallsSpec => []RateBound
  BY UsesLimiter, RateIsBounded, PTL DEF ImplementsLimiter

LEMMA LimiterTyped == CallsSpec => []TypeOK
  BY UsesLimiter, TypeCorrect, PTL DEF ImplementsLimiter

-----------------------------------------------------------------------------
(* The searches: types                                                     *)

Errors == {"none", "nil", "ErrProviderUnavailable", "Canceled", "DeadlineExceeded"}

\* The part of CallsTypeOK that is about the searches.
CallsTyped ==
    /\ stage \in [Callers -> Stages]
    /\ \A c \in Callers : stage[c] = "wait" <=> pc[c] # "idle"
    /\ attempt \in [Callers -> 0 .. MaxRetries]
    /\ deadline \in [Callers -> Nat]
    /\ due \in [Callers -> Nat]
    /\ gone \in [Callers -> BOOLEAN]
    /\ result \in [Callers -> [err : Errors, at : Stages]]
    /\ queued \in [Callers -> BOOLEAN]
    /\ sends \in Seq(0 .. now)

LEMMA FinishType ==
  ASSUME CallsTyped, NEW c \in Callers, NEW e \in Errors, Finish(c, e)
  PROVE  /\ stage' = [stage EXCEPT ![c] = "idle"]
         /\ stage' \in [Callers -> Stages]
         /\ due' \in [Callers -> Nat]
         /\ result' \in [Callers -> [err : Errors, at : Stages]]
  BY DEF CallsTyped, Finish, Goto, Stages

LEMMA CtxErrType ==
  ASSUME NEW c \in Callers
  PROVE  CtxErr(c) \in Errors
  BY DEF CtxErr, Errors

LEMMA BackoffType ==
  ASSUME NEW n \in Nat \ {0}
  PROVE  BackoffDelay(n) \subseteq Nat
  BY CallsAssumption, LimiterAssumption DEF BackoffDelay

LEMMA SendsGrow ==
  ASSUME sends \in Seq(0 .. now), now \in Nat
  PROVE  /\ sends \in Seq(0 .. now + 1)
         /\ Append(sends, now) \in Seq(0 .. now)
<1>1. 0 .. now \subseteq 0 .. now + 1 /\ now \in 0 .. now
  OBVIOUS
<1> QED
  BY <1>1

LEMMA CallsTypeStep ==
  ASSUME TypeOK, CallsTyped, [CallsNext]_callsVars
  PROVE  CallsTyped'
<1> USE DEF TypeOK, Places
<1>0. now \in Nat
  BY CallsAssumption, LimiterAssumption
<1>1. CASE TimePasses
  <2>1. now' = now + 1 /\ sends' = sends /\ pc' = pc /\ UNCHANGED <<stage, due, result, call>>
    BY <1>1 DEF TimePasses, Tick, call
  <2> QED
    BY <1>0, <2>1, SendsGrow DEF CallsTyped, call
<1>2. CASE UNCHANGED callsVars
  BY <1>2 DEF CallsTyped, callsVars, limiter, vars, call
<1>3. ASSUME NEW c \in Callers, Begin(c)
      PROVE  CallsTyped'
  BY SMTT(30), <1>0, <1>3, CallsAssumption, LimiterAssumption
     DEF CallsTyped, Begin, Goto, Stages, NoResult, Errors, Call, bucket
<1>4. ASSUME NEW c \in Callers, Granted(c)
      PROVE  CallsTyped'
  BY <1>4 DEF CallsTyped, Granted, Goto, Stages, Take, call
<1>5. ASSUME NEW c \in Callers, Waits(c)
      PROVE  CallsTyped'
  BY <1>5 DEF CallsTyped, Waits, Defer, Park, TimerFires, bucket
<1>6. ASSUME NEW c \in Callers, Refused(c)
      PROVE  CallsTyped'
  BY SMTT(30), <1>6, FinishType, CtxErrType DEF CallsTyped, Refused, GiveUp, bucket, call
<1>7. ASSUME NEW c \in Callers, Send(c)
      PROVE  CallsTyped'
  <2>1. PICK d \in Delays : due' = [due EXCEPT ![c] = now + d]
    BY <1>7 DEF Send
  <2>2. due' \in [Callers -> Nat]
    BY <1>0, <2>1, CallsAssumption, LimiterAssumption DEF CallsTyped
  <2>3. sends' \in Seq(0 .. now')
    <3>1. sends' = Append(sends, now) /\ now' = now
      BY <1>7 DEF Send, limiter, vars
    <3> QED
      BY <1>0, <3>1, SendsGrow DEF CallsTyped
  <2>4. pc' = pc /\ stage[c] = "call" /\ stage' = [stage EXCEPT ![c] = "inflight"]
        /\ UNCHANGED <<result, attempt, deadline, gone, queued>>
    BY <1>7 DEF Send, Goto, limiter, vars
  <2> QED
    BY <2>2, <2>3, <2>4 DEF CallsTyped, Stages
<1>8. ASSUME NEW c \in Callers, Succeed(c)
      PROVE  CallsTyped'
  BY <1>8, FinishType DEF CallsTyped, Succeed, Answers, Errors, limiter, vars, call
<1>9. ASSUME NEW c \in Callers, Fail(c)
      PROVE  CallsTyped'
  <2>1. CASE attempt[c] < MaxRetries
    <3>1. attempt[c] \in Nat /\ attempt[c] + 1 \in 0 .. MaxRetries /\ attempt[c] + 1 \in Nat \ {0}
      BY <2>1, CallsAssumption, LimiterAssumption DEF CallsTyped
    <3>2. PICK d \in BackoffDelay(attempt[c] + 1) : due' = [due EXCEPT ![c] = now + d]
      BY <1>9, <2>1 DEF Fail
    <3>3. due' \in [Callers -> Nat]
      BY <1>0, <3>1, <3>2, BackoffType DEF CallsTyped
    <3>4. attempt' = [attempt EXCEPT ![c] = attempt[c] + 1] /\ stage[c] = "inflight"
          /\ stage' = [stage EXCEPT ![c] = "backoff"] /\ pc' = pc /\ now' = now
          /\ UNCHANGED <<result, deadline, gone, queued, sends>>
      BY <1>9, <2>1 DEF Fail, Answers, Goto, limiter, vars
    <3> QED
      BY <3>1, <3>3, <3>4 DEF CallsTyped, Stages
  <2>2. CASE ~(attempt[c] < MaxRetries)
    BY <1>9, <2>2, FinishType DEF CallsTyped, Fail, Answers, Errors, limiter, vars
  <2> QED
    BY <2>1, <2>2
<1>10. ASSUME NEW c \in Callers, Abort(c)
       PROVE  CallsTyped'
  BY SMTT(30), <1>10, FinishType, CtxErrType DEF CallsTyped, Abort, limiter, vars, call
<1>11. ASSUME NEW c \in Callers, Retry(c)
       PROVE  CallsTyped'
  BY <1>11 DEF CallsTyped, Retry, Goto, Stages, Call, bucket, call
<1>12. ASSUME NEW c \in Callers, CutShort(c)
       PROVE  CallsTyped'
  BY SMTT(30), <1>12, FinishType, CtxErrType DEF CallsTyped, CutShort, limiter, vars, call
<1>13. ASSUME NEW c \in Callers, NEW e \in Errors, CtxEnds(c, e),
              UNCHANGED <<attempt, deadline, queued, sends>>, gone' \in [Callers -> BOOLEAN]
       PROVE  CallsTyped'
  <2>1. CASE pc[c] = "parked"
    <3>1. Finish(c, e) /\ pc' = [pc EXCEPT ![c] = "idle"] /\ now' = now
      BY <1>13, <2>1 DEF CtxEnds, CtxDone
    <3>2. /\ stage' = [stage EXCEPT ![c] = "idle"]
          /\ stage' \in [Callers -> Stages]
          /\ due' \in [Callers -> Nat]
          /\ result' \in [Callers -> [err : Errors, at : Stages]]
      BY <3>1, FinishType
    <3>3. \A b \in Callers : stage'[b] = "wait" <=> pc'[b] # "idle"
      BY <3>1, <3>2 DEF CallsTyped
    <3> QED
      BY <1>13, <3>1, <3>2, <3>3 DEF CallsTyped
  <2>2. CASE pc[c] # "parked"
    BY <1>13, <2>2 DEF CallsTyped, CtxEnds, CtxDone, bucket
  <2> QED
    BY <2>1, <2>2
<1>14. ASSUME NEW c \in Callers, Expire(c)
       PROVE  CallsTyped'
  BY <1>13, <1>14 DEF Expire, CallsTyped, Errors, call
<1>15. ASSUME NEW c \in Callers, Leave(c)
       PROVE  CallsTyped'
  BY <1>13, <1>15 DEF Leave, CallsTyped, Errors
<1> QED
  BY <1>1, <1>2, <1>3, <1>4, <1>5, <1>6, <1>7, <1>8, <1>9, <1>10, <1>11, <1>12, <1>14, <1>15
     DEF CallsNext, Finished, Goroutine

LEMMA CallsTypeInit == CallsInit => CallsTyped
<1>1. << >> \in Seq(0 .. now)
  OBVIOUS
<1> QED
  BY <1>1, CallsAssumption, LimiterAssumption DEF CallsInit, CallsTyped, Init, Stages, NoResult, Errors

\* Every state of the searches is well typed; in particular no goroutine makes
\* more attempts than it may, and one is in Wait exactly when its limiter says so.
THEOREM CallsTypeCorrect == CallsSpec => []CallsTypeOK
<1>1. CallsInit => CallsTyped
  BY CallsTypeInit
<1>2. TypeOK /\ CallsTyped /\ [CallsNext]_callsVars => CallsTyped'
  BY CallsTypeStep
<1>3. TypeOK /\ CallsTyped => CallsTypeOK
  BY DEF CallsTyped, CallsTypeOK, Errors
<1> QED
  BY <1>1, <1>2, <1>3, LimiterTyped, PTL DEF CallsSpec

-----------------------------------------------------------------------------
(* Deadlines                                                               *)

\* A step of a goroutine takes no time, and only Begin sets a deadline.
LEMMA StepInTime ==
  ASSUME CallsTyped, NEW c \in Callers, Goroutine(c)
  PROVE  /\ now' = now
         /\ \/ deadline' = [deadline EXCEPT ![c] = now + Timeout]
            \/ deadline' = deadline /\ stage[c] # "idle"
         /\ \A d \in Callers \ {c} : stage'[d] = stage[d]
<1> USE DEF CallsTyped, Goto, Finish, call, limiter, vars
<1>1. CASE Begin(c)
  BY <1>1 DEF Begin, Call
<1>2. CASE Granted(c)
  BY <1>2 DEF Granted, Take
<1>3. CASE Waits(c)
  BY <1>3 DEF Waits, Defer, Park, TimerFires
<1>4. CASE Refused(c)
  BY <1>4 DEF Refused, GiveUp
<1>5. CASE Send(c)
  BY <1>5 DEF Send
<1>6. CASE Succeed(c)
  BY <1>6 DEF Succeed, Answers
<1>7. CASE Fail(c)
  BY <1>7 DEF Fail, Answers
<1>8. CASE Abort(c)
  BY <1>8 DEF Abort
<1>9. CASE Retry(c)
  BY <1>9 DEF Retry, Call
<1>10. CASE CutShort(c)
  BY <1>10 DEF CutShort
<1>11. CASE Expire(c)
  BY <1>11 DEF Expire, CtxEnds, CtxDone
<1>12. CASE Leave(c)
  BY <1>12 DEF Leave, CtxEnds, CtxDone
<1> QED
  BY <1>1, <1>2, <1>3, <1>4, <1>5, <1>6, <1>7, <1>8, <1>9, <1>10, <1>11, <1>12
     DEF Goroutine

LEMMA InTimeStep ==
  ASSUME TypeOK, CallsTyped, ReturnsInTime, [CallsNext]_callsVars
  PROVE  ReturnsInTime'
<1>0. now \in Nat /\ Timeout \in Nat /\ \A c \in Callers : deadline[c] \in Nat
  BY CallsAssumption, LimiterAssumption DEF TypeOK, CallsTyped
<1>1. CASE TimePasses
  <2> SUFFICES ASSUME NEW c \in Callers, stage'[c] # "idle"
               PROVE  now' <= deadline'[c]
    BY DEF ReturnsInTime
  <2>1. stage[c] # "idle" /\ Blocked(c) /\ now' = now + 1 /\ deadline' = deadline
    BY <1>1 DEF TimePasses, Tick, call
  <2>2. now < deadline[c]
    BY <2>1 DEF Blocked, BackoffOver
  <2> QED
    BY <1>0, <2>1, <2>2
<1>2. CASE UNCHANGED callsVars
  BY <1>2 DEF ReturnsInTime, callsVars, limiter, vars, call
<1>3. ASSUME NEW c \in Callers, Goroutine(c)
      PROVE  ReturnsInTime'
  <2> SUFFICES ASSUME NEW d \in Callers, stage'[d] # "idle"
               PROVE  now' <= deadline'[d]
    BY DEF ReturnsInTime
  <2>1. CASE d = c
    <3>1. CASE deadline' = deadline /\ stage[c] # "idle"
      BY <1>3, <2>1, <3>1, StepInTime DEF ReturnsInTime
    <3>2. CASE deadline' = [deadline EXCEPT ![c] = now + Timeout]
      <4>1. deadline'[c] = now + Timeout
        BY <3>2 DEF CallsTyped
      <4> QED
        BY <1>0, <1>3, <2>1, <4>1, StepInTime
    <3> QED
      BY <1>3, <3>1, <3>2, StepInTime
  <2>2. CASE d # c
    <3>1. now' = now /\ stage'[d] = stage[d] /\ deadline'[d] = deadline[d]
      BY <1>3, <2>2, StepInTime DEF CallsTyped
    <3> QED
      BY <3>1 DEF ReturnsInTime
  <2> QED
    BY <2>1, <2>2
<1> QED
  BY <1>1, <1>2, <1>3 DEF CallsNext, Finished

\* callWithRetry never outlives its deadline, whatever it is waiting for.
THEOREM DeadlinesAreKept == CallsSpec => []ReturnsInTime
<1>1. CallsInit => CallsTyped /\ ReturnsInTime
  BY CallsTypeInit DEF CallsInit, ReturnsInTime
<1>2. TypeOK /\ CallsTyped /\ ReturnsInTime /\ [CallsNext]_callsVars
         => CallsTyped' /\ ReturnsInTime'
  BY CallsTypeStep, InTimeStep
<1> QED
  BY <1>1, <1>2, LimiterTyped, PTL DEF CallsSpec

-----------------------------------------------------------------------------
(* The load of the airline                                                 *)

\* Those that hold a token and have not sent their request yet.
Pending == {c \in Callers : stage[c] = "call"}

\* No time passes for them, and their tokens are missing from the bucket.
PendingNow ==
    /\ IsFiniteSet(Pending)
    /\ Pending # {} => last = now
    /\ Cardinality(Pending) * Unit + tokens <= Full

\* What makes AirlineLoad inductive: the requests sent since any of them, those
\* about to be sent and the tokens left are at most the burst and what the rate
\* has earned from that request to the latest refill.
SendLedger ==
    \A i \in 1 .. Len(sends) :
        (Len(sends) - i + 1 + Cardinality(Pending)) * Unit + tokens
            <= Full + Rate * (last - sends[i])

LoadInv == TypeOK /\ CallsTyped /\ PendingNow /\ SendLedger

LEMMA LoadTypes ==
  ASSUME LoadInv
  PROVE  /\ now \in Nat /\ last \in Nat /\ last <= now /\ tokens \in Nat
         /\ Full \in Nat /\ tokens <= Full
         /\ Len(sends) \in Nat /\ \A i \in 1 .. Len(sends) : sends[i] \in Nat
         /\ Cardinality(Pending) \in Nat
<1>1. Full \in Nat
  BY CallsAssumption, LimiterAssumption DEF Full
<1>2. Cardinality(Pending) \in Nat
  BY FS_CardinalityType DEF LoadInv, PendingNow
<1>3. Len(sends) \in Nat /\ \A i \in 1 .. Len(sends) : sends[i] \in Nat
  BY CallsAssumption, LimiterAssumption DEF LoadInv, TypeOK, CallsTyped
<1>4. now \in Nat /\ last \in Nat /\ last <= now /\ tokens \in Nat /\ tokens <= Full
  BY <1>1, CallsAssumption, LimiterAssumption DEF LoadInv, TypeOK
<1> QED
  BY <1>1, <1>2, <1>3, <1>4

\* Multiples of a token.
LEMMA OneMore ==
  ASSUME NEW n \in Int
  PROVE  n * Unit \in Int /\ (n + 1) * Unit = n * Unit + Unit
  BY CallsAssumption, LimiterAssumption

LEMMA RateTimes ==
  ASSUME NEW a \in Int
  PROVE  Rate * a \in Int /\ Rate * (a + 1) = Rate * a + Rate
  BY CallsAssumption, LimiterAssumption

\* A refill changes nothing while somebody is about to send, and breaks neither
\* of the two otherwise.
LEMMA LoadRefilled ==
  ASSUME LoadInv
  PROVE  /\ Refilled \in Nat
         /\ Cardinality(Pending) * Unit + Refilled <= Full
         /\ \A i \in 1 .. Len(sends) :
               (Len(sends) - i + 1 + Cardinality(Pending)) * Unit + Refilled
                   <= Full + Rate * (now - sends[i])
<1> DEFINE P == Cardinality(Pending)
<1>0. Rate \in Nat /\ Unit \in Nat /\ P \in Nat
  BY LoadTypes, CallsAssumption, LimiterAssumption
<1> DEFINE since == Rate * (now - last)
<1>1. since \in Nat /\ (last = now => since = 0)
  BY <1>0, LoadTypes
<1>2. Refilled = IF tokens + since < Full THEN tokens + since ELSE Full
  BY DEF Refilled
<1> HIDE DEF since
<1>3. Refilled \in Nat /\ Refilled <= tokens + since /\ Refilled <= Full
  BY <1>1, <1>2, LoadTypes
<1>4. P * Unit + Refilled <= Full
  <2>1. CASE Pending = {}
    <3>1. P * Unit = 0
      BY <1>0, <2>1, FS_EmptySet
    <3> QED
      BY <1>3, <3>1, LoadTypes
  <2>2. CASE Pending # {}
    <3>1. Refilled <= tokens
      BY <1>1, <1>3, <2>2, LoadTypes DEF LoadInv, PendingNow
    <3>2. P * Unit \in Int /\ P * Unit + tokens <= Full
      BY <1>0, OneMore DEF LoadInv, PendingNow
    <3> QED
      BY <1>3, <3>1, <3>2, LoadTypes
  <2> QED
    BY <2>1, <2>2
<1>5. ASSUME NEW i \in 1 .. Len(sends)
      PROVE  (Len(sends) - i + 1 + P) * Unit + Refilled <= Full + Rate * (now - sends[i])
  <2> DEFINE spent == (Len(sends) - i + 1 + P) * Unit
             before == Rate * (last - sends[i])
  <2>0. last \in Int /\ sends[i] \in Int /\ Len(sends) - i + 1 + P \in Int
    BY <1>0, LoadTypes
  <2>1. spent \in Int /\ before \in Int /\ sends[i] \in Int
    <3>1. spent \in Int
      BY <2>0, OneMore
    <3>2. last - sends[i] \in Int
      BY <2>0
    <3>3. before \in Int
      BY <3>2, RateTimes
    <3> QED
      BY <2>0, <3>1, <3>3
  <2>2. spent + tokens <= Full + before
    BY DEF LoadInv, SendLedger
  <2>3. Rate * (now - sends[i]) = before + since
    <3>1. now \in Int /\ last \in Int /\ sends[i] \in Int
      BY <2>1, LoadTypes
    <3>2. Rate * (now - sends[i]) = Rate * (last - sends[i]) + Rate * (now - last)
      BY <3>1, EarnedAdds
    <3> QED
      BY <3>2 DEF since
  <2> HIDE DEF spent, before
  <2>4. spent + Refilled <= Full + (before + since)
    BY SMTT(30), <1>1, <1>3, <2>1, <2>2, LoadTypes
  <2> QED
    BY <2>3, <2>4 DEF spent
<1> QED
  BY <1>3, <1>4, <1>5

\* What a step does to the bucket, to those about to send, and to what is sent.
LEMMA LoadSteps ==
  ASSUME CallsTyped, [CallsNext]_callsVars
  PROVE  \/ /\ UNCHANGED <<tokens, last, sends, stage>>
            /\ now' = now \/ Pending = {}
         \/ /\ \E c \in Callers : Pending' = Pending \ {c}
            /\ UNCHANGED <<now, tokens, last, sends>>
         \/ /\ \E c \in Pending : Pending' = Pending \ {c}
            /\ sends' = Append(sends, now)
            /\ UNCHANGED <<now, tokens, last>>
         \/ /\ \E c \in Callers \ Pending : Pending' = Pending \cup {c}
            /\ Refilled >= Unit /\ tokens' = Refilled - Unit
            /\ last' = now /\ UNCHANGED <<now, sends>>
         \/ /\ tokens' = Refilled /\ last' = now
            /\ UNCHANGED <<now, sends, stage>>
<1> USE DEF CallsTyped, call, limiter, vars, bucket
<1>1. CASE TimePasses
  <2>1. \A c \in Callers : stage[c] # "call"
    BY <1>1 DEF TimePasses, Blocked
  <2> QED
    BY <1>1, <2>1 DEF TimePasses, Tick, Pending
<1>2. CASE UNCHANGED callsVars
  BY <1>2 DEF callsVars
<1>3. ASSUME NEW c \in Callers, stage' = [stage EXCEPT ![c] = stage'[c]], stage'[c] # "call"
      PROVE  Pending' = Pending \ {c}
  BY <1>3 DEF Pending
<1>4. ASSUME NEW c \in Callers, Begin(c) \/ Retry(c) \/ Refused(c) \/ Succeed(c) \/ Fail(c)
                                 \/ Abort(c) \/ CutShort(c)
      PROVE  Pending' = Pending \ {c} /\ UNCHANGED <<now, tokens, last, sends>>
  <2>1. UNCHANGED <<now, tokens, last, sends>>
    BY <1>4 DEF Begin, Retry, Refused, Succeed, Fail, Abort, CutShort, Call, GiveUp
  <2>2. stage' = [stage EXCEPT ![c] = stage'[c]] /\ stage'[c] # "call"
    BY <1>4 DEF Begin, Retry, Refused, Succeed, Fail, Abort, CutShort, Finish, Goto
  <2> QED
    BY <1>3, <2>1, <2>2
<1>5. ASSUME NEW c \in Callers, Expire(c) \/ Leave(c)
      PROVE  \/ Pending' = Pending \ {c} /\ UNCHANGED <<now, tokens, last, sends>>
             \/ UNCHANGED <<now, tokens, last, sends, stage>>
  <2>1. UNCHANGED <<now, tokens, last, sends>>
    BY <1>5 DEF Expire, Leave, CtxEnds, CtxDone
  <2>2. stage' = stage \/ stage' = [stage EXCEPT ![c] = "idle"]
    BY <1>5 DEF Expire, Leave, CtxEnds, Finish, Goto
  <2> QED
    BY <1>3, <2>1, <2>2
<1>6. ASSUME NEW c \in Callers, Send(c)
      PROVE  /\ c \in Pending /\ Pending' = Pending \ {c}
             /\ sends' = Append(sends, now) /\ UNCHANGED <<now, tokens, last>>
  BY <1>3, <1>6 DEF Send, Goto, Pending
<1>7. ASSUME NEW c \in Callers, Granted(c)
      PROVE  /\ c \notin Pending /\ Pending' = Pending \cup {c}
             /\ Refilled >= Unit /\ tokens' = Refilled - Unit
             /\ last' = now /\ UNCHANGED <<now, sends>>
  BY <1>7 DEF Granted, Take, Goto, Pending
<1>8. ASSUME NEW c \in Callers, Waits(c)
      PROVE  \/ UNCHANGED <<now, tokens, last, sends, stage>>
             \/ tokens' = Refilled /\ last' = now /\ UNCHANGED <<now, sends, stage>>
  BY <1>8 DEF Waits, Defer, Park, TimerFires
<1> QED
  BY <1>1, <1>2, <1>4, <1>5, <1>6, <1>7, <1>8 DEF CallsNext, Finished, Goroutine

\* Each of these keeps the ledger.
LEMMA LoadStep ==
  ASSUME LoadInv, [CallsNext]_callsVars
  PROVE  PendingNow' /\ SendLedger'
<1> DEFINE P == Cardinality(Pending)
           n == Len(sends)
<1>0. /\ now \in Nat /\ last \in Nat /\ last <= now /\ tokens \in Nat /\ Full \in Nat
      /\ n \in Nat /\ P \in Nat /\ Unit \in Nat /\ Full' = Full
      /\ \A i \in 1 .. n : sends[i] \in Nat
  BY LoadTypes, CallsAssumption, LimiterAssumption DEF Full
<1>1. CASE UNCHANGED <<tokens, last, sends, stage>> /\ (now' = now \/ Pending = {})
  <2>1. Pending' = Pending
    BY <1>1 DEF Pending
  <2> QED
    BY <1>0, <1>1, <2>1 DEF LoadInv, PendingNow, SendLedger
<1>2. ASSUME NEW c \in Callers, Pending' = Pending \ {c}, UNCHANGED <<now, tokens, last, sends>>
      PROVE  PendingNow' /\ SendLedger'
  <2> DEFINE Q == Cardinality(Pending')
  <2>1. IsFiniteSet(Pending') /\ Q \in Nat /\ (Q = P \/ Q + 1 = P)
    <3>1. IsFiniteSet(Pending)
      BY DEF LoadInv, PendingNow
    <3>2. IsFiniteSet(Pending \ {c})
          /\ Cardinality(Pending \ {c}) = IF c \in Pending THEN P - 1 ELSE P
      BY <3>1, FS_RemoveElement
    <3>3. Cardinality(Pending \ {c}) \in Nat
      BY <3>2, FS_CardinalityType
    <3> QED
      BY <1>0, <1>2, <3>2, <3>3
  <2>2. ASSUME NEW k \in Int
        PROVE  (k + Q) * Unit \in Int /\ (k + P) * Unit \in Int
               /\ (k + Q) * Unit <= (k + P) * Unit
    <3> HIDE DEF P, Q
    <3>1. CASE Q = P
      BY <1>0, <3>1
    <3>2. CASE Q + 1 = P
      BY <1>0, <2>1, <3>2, OneMore, k + P = (k + Q) + 1
    <3> QED
      BY <2>1, <3>1, <3>2
  <2>3. PendingNow'
    <3>1. Q * Unit + tokens <= Full
      <4>1. (0 + Q) * Unit <= (0 + P) * Unit /\ P * Unit + tokens <= Full
        BY <2>2 DEF LoadInv, PendingNow
      <4>2. P * Unit \in Int /\ Q * Unit \in Int /\ Q * Unit <= P * Unit
        BY <1>0, <2>1, <2>2, <4>1
      <4> QED
        BY <1>0, <4>1, <4>2
    <3> QED
      BY <1>0, <1>2, <2>1, <3>1 DEF LoadInv, PendingNow
  <2>4. SendLedger'
    <3> SUFFICES ASSUME NEW i \in 1 .. n
                 PROVE  (n - i + 1 + Q) * Unit + tokens <= Full + Rate * (last - sends[i])
      BY <1>0, <1>2 DEF SendLedger
    <3>1. n - i + 1 \in Int /\ Rate * (last - sends[i]) \in Int
      BY <1>0, CallsAssumption, LimiterAssumption
    <3>2. (n - i + 1 + P) * Unit + tokens <= Full + Rate * (last - sends[i])
      BY DEF LoadInv, SendLedger
    <3> DEFINE fewer == (n - i + 1 + Q) * Unit
               more == (n - i + 1 + P) * Unit
               earned == Rate * (last - sends[i])
    <3>3. fewer \in Int /\ more \in Int /\ fewer <= more
      BY <2>2, <3>1
    <3>4. earned \in Int /\ more + tokens <= Full + earned
      BY <3>1, <3>2
    <3> HIDE DEF fewer, more, earned
    <3>5. fewer + tokens <= Full + earned
      BY <1>0, <3>3, <3>4
    <3> QED
      BY <3>5 DEF fewer, earned
  <2> QED
    BY <2>3, <2>4
<1>3. ASSUME NEW c \in Pending, Pending' = Pending \ {c}, sends' = Append(sends, now),
             UNCHANGED <<now, tokens, last>>
      PROVE  PendingNow' /\ SendLedger'
  <2> DEFINE Q == Cardinality(Pending')
  <2>1. IsFiniteSet(Pending') /\ Q \in Nat /\ P = Q + 1 /\ last = now
    <3>1. IsFiniteSet(Pending) /\ last = now
      BY DEF LoadInv, PendingNow
    <3>2. IsFiniteSet(Pending \ {c}) /\ Cardinality(Pending \ {c}) = P - 1
      BY <3>1, FS_RemoveElement
    <3>3. Cardinality(Pending \ {c}) \in Nat
      BY <3>2, FS_CardinalityType
    <3> QED
      BY <1>0, <1>3, <3>1, <3>2, <3>3
  <2>2. P * Unit + tokens <= Full /\ P * Unit = Q * Unit + Unit /\ Q * Unit \in Int
    BY <2>1, OneMore DEF LoadInv, PendingNow
  <2>3. /\ Len(sends') = n + 1 /\ sends'[n + 1] = now
        /\ \A i \in 1 .. n : sends'[i] = sends[i]
    BY <1>0, <1>3 DEF LoadInv, CallsTyped
  <2>4. PendingNow'
    BY SMTT(30), <1>0, <1>3, <2>1, <2>2 DEF PendingNow
  <2>5. SendLedger'
    <3>0. /\ last' = last /\ tokens' = tokens /\ Len(sends') = n + 1 /\ Full' = Full
      BY <1>0, <1>3, <2>3
    <3> SUFFICES ASSUME NEW i \in 1 .. Len(sends')
                 PROVE  (Len(sends') - i + 1 + Q) * Unit + tokens'
                            <= Full' + Rate * (last' - sends'[i])
      BY DEF SendLedger
    <3>1. CASE i \in 1 .. n
      <4>1. n + 1 - i + 1 + Q = n - i + 1 + P
        BY <1>0, <2>1
      <4> QED
        BY <2>3, <3>0, <3>1, <4>1 DEF LoadInv, SendLedger
    <3>2. CASE i = n + 1
      <4>1. n + 1 - i + 1 + Q = P /\ Rate * (last - sends'[i]) = 0
        BY <1>0, <2>1, <2>3, <3>2, CallsAssumption, LimiterAssumption
      <4> QED
        BY <1>0, <2>2, <3>0, <4>1
    <3> QED
      BY <1>0, <3>0, <3>1, <3>2
  <2> QED
    BY <2>4, <2>5
<1>4. ASSUME NEW c \in Callers \ Pending, Pending' = Pending \cup {c},
             Refilled >= Unit, tokens' = Refilled - Unit,
             last' = now, UNCHANGED <<now, sends>>
      PROVE  PendingNow' /\ SendLedger'
  <2> DEFINE Q == Cardinality(Pending')
  <2>1. IsFiniteSet(Pending') /\ Q \in Nat /\ Q = P + 1
    BY <1>0, <1>4, FS_AddElement, FS_CardinalityType DEF LoadInv, PendingNow
  <2>2. Refilled \in Nat
    BY LoadRefilled
  <2>3. ASSUME NEW k \in Int
        PROVE  (k + P) * Unit \in Int /\ (k + Q) * Unit + tokens' = (k + P) * Unit + Refilled
    <3>1. k + P \in Int /\ k + Q = (k + P) + 1
      BY <1>0, <2>1
    <3> QED
      BY <1>0, <1>4, <2>2, <3>1, OneMore
  <2>4. PendingNow'
    <3>1. Q * Unit + tokens' <= Full
      <4>1. 0 + P = P /\ 0 + Q = Q
        BY <1>0, <2>1
      <4> QED
        BY <2>3, <4>1, LoadRefilled
    <3> QED
      BY <1>0, <1>4, <2>1, <3>1 DEF PendingNow
  <2>5. SendLedger'
    <3> SUFFICES ASSUME NEW i \in 1 .. n
                 PROVE  (n - i + 1 + Q) * Unit + tokens' <= Full + Rate * (now - sends[i])
      BY <1>0, <1>4 DEF SendLedger
    <3>1. n - i + 1 \in Int
      BY <1>0
    <3> QED
      BY <2>3, <3>1, LoadRefilled
  <2> QED
    BY <2>4, <2>5
<1>5. CASE tokens' = Refilled /\ last' = now /\ UNCHANGED <<now, sends, stage>>
  <2>1. Pending' = Pending
    BY <1>5 DEF Pending
  <2> QED
    BY <1>0, <1>5, <2>1, LoadRefilled DEF LoadInv, PendingNow, SendLedger
<1> QED
  BY <1>1, <1>2, <1>3, <1>4, <1>5, LoadSteps DEF LoadInv

\* The latest request ends every window that is new.
LEMMA LoadBoundStep ==
  ASSUME LoadInv, LoadInv', AirlineLoad, [CallsNext]_callsVars
  PROVE  AirlineLoad'
<1> DEFINE n == Len(sends)
<1>0. n \in Nat /\ Full' = Full
  BY LoadTypes DEF Full
<1>1. CASE sends' = sends
  BY <1>0, <1>1 DEF AirlineLoad
<1>2. CASE /\ \E c \in Pending : Pending' = Pending \ {c}
           /\ sends' = Append(sends, now)
           /\ UNCHANGED <<now, tokens, last>>
  <2>1. /\ Len(sends') = n + 1 /\ sends'[n + 1] = now
        /\ \A i \in 1 .. n : sends'[i] = sends[i]
    BY <1>0, <1>2 DEF LoadInv, CallsTyped
  <2>2. last' = now
    BY <1>2 DEF LoadInv, PendingNow
  <2> SUFFICES ASSUME NEW i \in 1 .. n + 1, NEW j \in 1 .. n + 1, i <= j
               PROVE  (j - i + 1) * Unit <= Full + Rate * (sends'[j] - sends'[i])
    BY <1>0, <2>1 DEF AirlineLoad
  <2>3. CASE j \in 1 .. n
    <3>1. i \in 1 .. n
      BY <1>0, <2>3
    <3> QED
      BY <2>1, <2>3, <3>1 DEF AirlineLoad
  <2>4. CASE j = n + 1
    <3> DEFINE Q == Cardinality(Pending')
               earned == Rate * (now - sends'[i])
    <3>1. (n + 1 - i + 1 + Q) * Unit + tokens' <= Full + earned
      BY <1>0, <2>1, <2>2 DEF LoadInv, SendLedger
    <3>2. Q \in Nat /\ tokens' \in Nat /\ Full \in Nat /\ earned \in Int
      <4>1. now \in Nat /\ sends'[i] \in Nat
        BY <1>0, <2>1, LoadTypes
      <4>2. Q \in Nat
        BY FS_CardinalityType DEF LoadInv, PendingNow
      <4> QED
        BY <1>2, <4>1, <4>2, LoadTypes, CallsAssumption, LimiterAssumption
    <3> HIDE DEF earned, Q
    <3>3. /\ (n + 1 - i + 1 + Q) * Unit = (n + 1 - i + 1) * Unit + Q * Unit
          /\ (n + 1 - i + 1) * Unit \in Int /\ Q * Unit \in Nat
      BY <1>0, <3>2, CallsAssumption, LimiterAssumption
    <3>4. (n + 1 - i + 1) * Unit <= Full + earned
      BY <3>1, <3>2, <3>3
    <3> QED
      BY <2>1, <2>4, <3>4 DEF earned
  <2> QED
    BY <1>0, <2>3, <2>4
<1> QED
  BY <1>1, <1>2, LoadSteps DEF LoadInv

\* However many searches call one airline and however often they retry, the
\* requests it gets in any window of time are at most the burst and what the
\* rate earns in it.
THEOREM LoadIsBounded == CallsSpec => []AirlineLoad
<1>1. CallsInit /\ TypeOK => LoadInv /\ AirlineLoad
  <2> SUFFICES ASSUME CallsInit, TypeOK
               PROVE  LoadInv /\ AirlineLoad
    OBVIOUS
  <2>1. Pending = {} /\ sends = << >>
    BY DEF CallsInit, Pending
  <2>2. PendingNow
    BY <2>1, FS_EmptySet, CallsAssumption, LimiterAssumption DEF PendingNow, CallsInit, Init, Full
  <2> QED
    BY <2>1, <2>2, CallsTypeInit DEF LoadInv, SendLedger, AirlineLoad
<1>2. LoadInv /\ AirlineLoad /\ TypeOK' /\ [CallsNext]_callsVars => LoadInv' /\ AirlineLoad'
  <2> SUFFICES ASSUME LoadInv, AirlineLoad, TypeOK', [CallsNext]_callsVars
               PROVE  LoadInv' /\ AirlineLoad'
    OBVIOUS
  <2>1. CallsTyped'
    BY CallsTypeStep DEF LoadInv
  <2>2. LoadInv'
    BY <2>1, LoadStep DEF LoadInv
  <2> QED
    BY <2>2, LoadBoundStep
<1> QED
  BY <1>1, <1>2, LimiterTyped, PTL DEF CallsSpec

-----------------------------------------------------------------------------
(* How a call ends that ran out of time                                    *)

\* What c is doing, and what its latest call came to.
Own(c) == <<stage[c], pc[c], done[c], attempt[c], deadline[c], due[c], gone[c],
            result[c], queued[c]>>

\* The step of one goroutine leaves the others alone, and takes no time.
LEMMA OthersKept ==
  ASSUME TypeOK, CallsTyped, NEW c \in Callers, Goroutine(c)
  PROVE  now' = now /\ \A d \in Callers \ {c} : UNCHANGED Own(d)
<1> USE DEF CallsTyped, TypeOK, Own, Goto, Finish, call, limiter, vars, bucket
<1>1. CASE Begin(c)
  BY <1>1 DEF Begin, Call
<1>2. CASE Granted(c)
  BY <1>2 DEF Granted, Take
<1>3. CASE Waits(c)
  BY <1>3 DEF Waits, Defer, Park, TimerFires
<1>4. CASE Refused(c)
  BY <1>4 DEF Refused, GiveUp
<1>5. CASE Send(c)
  BY <1>5 DEF Send
<1>6. CASE Succeed(c)
  BY <1>6 DEF Succeed, Answers
<1>7. CASE Fail(c)
  BY <1>7 DEF Fail, Answers
<1>8. CASE Abort(c)
  BY <1>8 DEF Abort
<1>9. CASE Retry(c)
  BY <1>9 DEF Retry, Call
<1>10. CASE CutShort(c)
  BY <1>10 DEF CutShort
<1>11. CASE Expire(c)
  BY <1>11 DEF Expire, CtxEnds, CtxDone
<1>12. CASE Leave(c)
  BY <1>12 DEF Leave, CtxEnds, CtxDone
<1> QED
  BY <1>1, <1>2, <1>3, <1>4, <1>5, <1>6, <1>7, <1>8, <1>9, <1>10, <1>11, <1>12
     DEF Goroutine

\* When the latest call of c began.
Begun(c) == deadline[c] - Timeout

\* A call that is under way has begun, its context is done only once it is too
\* late or the client has gone, it has no result yet, and only a retry is delayed.
Underway(c) ==
    stage[c] # "idle" =>
        /\ Begun(c) <= now
        /\ done[c] /\ ~gone[c] => deadline[c] <= now
        /\ result[c] = NoResult
        /\ stage[c] = "backoff" => attempt[c] # 0

LateInv == TypeOK /\ CallsTyped /\ \A c \in Callers : Underway(c)

LEMMA TimesType ==
  ASSUME TypeOK, CallsTyped
  PROVE  /\ now \in Nat /\ Timeout \in Nat
         /\ \A c \in Callers : deadline[c] \in Nat /\ due[c] \in Nat /\ Begun(c) \in Int
                               /\ attempt[c] \in Nat
  BY CallsAssumption, LimiterAssumption DEF TypeOK, CallsTyped, Begun

LEMMA UnderwayStep ==
  ASSUME LateInv, [CallsNext]_callsVars, NEW d \in Callers
  PROVE  Underway(d)'
<1>0. TypeOK /\ CallsTyped /\ Underway(d)
  BY DEF LateInv
<1>1. CASE TimePasses
  <2>1. now' = now + 1 /\ UNCHANGED Own(d)
    BY <1>1 DEF TimePasses, Tick, Own, call
  <2> QED
    BY <1>0, <2>1, TimesType DEF Underway, Own, Begun
<1>2. CASE UNCHANGED callsVars
  BY <1>0, <1>2 DEF Underway, Begun, callsVars, limiter, vars, call
<1>3. ASSUME NEW c \in Callers, Goroutine(c), d # c
      PROVE  Underway(d)'
  BY <1>0, <1>3, OthersKept DEF Underway, Own, Begun
<1>4. CASE Goroutine(d)
  <2> USE <1>0, TimesType DEF CallsTyped, TypeOK, Underway, Begun, Goto, Finish, call, limiter, vars
  <2>1. CASE Begin(d)
    <3>1. deadline'[d] = now + Timeout /\ now' = now /\ ~done'[d] /\ stage'[d] = "wait"
          /\ result'[d] = NoResult
      BY <2>1 DEF Begin, Call
    <3> QED
      BY SMTT(30), <3>1
  <2>2. CASE Granted(d)
    BY <2>2 DEF Granted, Take
  <2>3. CASE Waits(d)
    BY <2>3 DEF Waits, Defer, Park, TimerFires, bucket
  <2>4. CASE Send(d)
    BY <2>4 DEF Send
  <2>5. CASE Fail(d)
    BY <2>5 DEF Fail, Answers
  <2>6. CASE Retry(d)
    BY <2>6 DEF Retry, Call
  <2>7. CASE Expire(d)
    BY <2>7 DEF Expire, CtxEnds, CtxDone
  <2>8. CASE Leave(d)
    BY <2>8 DEF Leave, CtxEnds, CtxDone
  <2>9. CASE Refused(d) \/ Succeed(d) \/ Abort(d) \/ CutShort(d)
    BY <2>9 DEF Refused, Succeed, Abort, CutShort
  <2> QED
    BY <1>4, <2>1, <2>2, <2>3, <2>4, <2>5, <2>6, <2>7, <2>8, <2>9 DEF Goroutine
<1> QED
  BY <1>1, <1>2, <1>3, <1>4 DEF CallsNext, Finished

LEMMA LateStep ==
  ASSUME LateInv, [CallsNext]_callsVars, TypeOK'
  PROVE  LateInv'
  BY UnderwayStep, CallsTypeStep DEF LateInv

LEMMA LateInit ==
  ASSUME CallsInit, TypeOK
  PROVE  LateInv
  BY CallsTypeInit DEF CallsInit, LateInv, Underway

\* The timeout is long enough for every retry.  Of a call that nobody delays,
\* attempt n begins at most spent[n] after the call itself: an attempt ends when
\* the airline has answered, after d at most, and the next one when the backoff
\* is over; whichever attempt it is, the answer comes before the deadline.
Enough(d, spent) ==
    /\ d \in Nat
    /\ spent \in [0 .. MaxRetries -> Nat]
    /\ \A e \in Delays : e <= d
    /\ \A n \in 0 .. MaxRetries - 1 : \A b \in BackoffDelay(n + 1) :
           spent[n] + d + b <= spent[n + 1]
    /\ \A n \in 0 .. MaxRetries : spent[n] + d < Timeout

\* What makes TimeoutMeansQueue inductive: a call that the limiter has not
\* deferred keeps to that schedule.
OnTime(c, d, spent) ==
    stage[c] # "idle" /\ ~queued[c] =>
        /\ stage[c] = "wait" => pc[c] = "lock"
        /\ stage[c] \in {"wait", "call"} => now <= Begun(c) + spent[attempt[c]]
        /\ stage[c] = "inflight" =>
               now <= due[c] /\ due[c] <= Begun(c) + spent[attempt[c]] + d
        /\ stage[c] = "backoff" =>
               now <= due[c] /\ due[c] <= Begun(c) + spent[attempt[c]]

TimelyInv(d, spent) ==
    /\ LateInv
    /\ TimeoutMeansQueue
    /\ \A c \in Callers : OnTime(c, d, spent)

LEMMA SpentType ==
  ASSUME NEW d, NEW spent, Enough(d, spent), CallsTyped, NEW c \in Callers
  PROVE  d \in Nat /\ spent[attempt[c]] \in Nat /\ spent[attempt[c]] + d < Timeout
  BY DEF Enough, CallsTyped

\* So its deadline has not come yet.
LEMMA OnTimeIsEarly ==
  ASSUME NEW d, NEW spent, Enough(d, spent), LateInv, NEW c \in Callers, OnTime(c, d, spent),
         stage[c] # "idle", ~queued[c]
  PROVE  now < deadline[c]
<1>1. now \in Nat /\ Timeout \in Nat /\ deadline[c] \in Nat /\ due[c] \in Nat
  BY TimesType DEF LateInv
<1>2. d \in Nat /\ spent[attempt[c]] \in Nat /\ spent[attempt[c]] + d < Timeout
  BY SpentType DEF LateInv
<1>3. stage[c] \in Stages
  BY DEF LateInv, CallsTyped
<1> QED
  BY <1>1, <1>2, <1>3 DEF OnTime, Begun, Stages

LEMMA OnTimeStep ==
  ASSUME NEW d, NEW spent, Enough(d, spent), LateInv, [CallsNext]_callsVars,
         NEW c \in Callers, OnTime(c, d, spent)
  PROVE  OnTime(c, d, spent)'
<1>0. /\ TypeOK /\ CallsTyped
      /\ now \in Nat /\ Timeout \in Nat /\ deadline[c] \in Nat /\ due[c] \in Nat
      /\ attempt[c] \in 0 .. MaxRetries /\ attempt[c] \in Nat /\ MaxRetries \in Nat
      /\ d \in Nat /\ spent[attempt[c]] \in Nat
  BY TimesType, SpentType, CallsAssumption, LimiterAssumption DEF LateInv, CallsTyped
<1>1. CASE TimePasses
  <2>1. now' = now + 1 /\ UNCHANGED Own(c) /\ Blocked(c)
    BY <1>1 DEF TimePasses, Tick, Own, call
  <2>2. CASE stage[c] \in {"inflight", "backoff"}
    <3>0. pc[c] = "idle"
      BY <1>0, <2>2 DEF CallsTyped
    <3>1. now < due[c]
      BY <1>0, <2>1, <2>2, <3>0 DEF Blocked, BackoffOver
    <3> QED
      BY <1>0, <2>1, <2>2, <3>1 DEF OnTime, Own, Begun
  <2>3. CASE stage[c] \in {"wait", "call"}
    <3>1. pc[c] # "lock"
      BY <2>1, <2>3 DEF Blocked
    <3>2. stage[c] = "wait"
      BY <1>0, <2>1, <2>3 DEF Blocked, CallsTyped
    <3> QED
      BY <1>0, <2>1, <3>1, <3>2 DEF OnTime, Own, Begun
  <2> QED
    BY <1>0, <2>1, <2>2, <2>3 DEF OnTime, Own, CallsTyped, Stages
<1>2. CASE UNCHANGED callsVars
  BY <1>2 DEF OnTime, Begun, callsVars, limiter, vars, call
<1>3. ASSUME NEW b \in Callers, Goroutine(b), b # c
      PROVE  OnTime(c, d, spent)'
  BY <1>0, <1>3, OthersKept DEF OnTime, Own, Begun
<1>5. CASE Fail(c) /\ attempt[c] < MaxRetries
  <2>1. attempt[c] + 1 \in Nat \ {0} /\ attempt[c] \in 0 .. MaxRetries - 1
        /\ attempt[c] + 1 \in 0 .. MaxRetries
    BY <1>0, <1>5
  <2>2. PICK b \in BackoffDelay(attempt[c] + 1) : due' = [due EXCEPT ![c] = now + b]
    BY <1>5 DEF Fail
  <2>3. b \in Nat
    BY <2>1, <2>2, BackoffType
  <2>4. due'[c] = now + b
    BY <1>0, <2>2 DEF CallsTyped
  <2>5. spent[attempt[c]] + d + b <= spent[attempt[c] + 1] /\ spent[attempt[c] + 1] \in Nat
    BY <2>1, <2>2 DEF Enough
  <2>6. /\ stage[c] = "inflight" /\ stage'[c] = "backoff" /\ now' = now
        /\ attempt'[c] = attempt[c] + 1 /\ UNCHANGED <<queued, deadline>>
    BY <1>0, <1>5 DEF Fail, Answers, Goto, CallsTyped, limiter, vars
  <2>7. CASE queued[c]
    BY <2>6, <2>7 DEF OnTime
  <2>8. CASE ~queued[c]
    <3> DEFINE here == spent[attempt[c]]
               there == spent[attempt[c] + 1]
    <3>1. now <= due[c] /\ due[c] <= deadline[c] - Timeout + here + d
      BY <2>6, <2>8 DEF OnTime, Begun
    <3>2. here \in Nat /\ there \in Nat /\ here + d + b <= there
      BY <1>0, <2>5
    <3> HIDE DEF here, there
    <3>3. now <= now + b /\ now + b <= deadline[c] - Timeout + there
      BY <1>0, <2>3, <3>1, <3>2
    <3> QED
      BY <2>4, <2>6, <3>3 DEF OnTime, Begun, there
  <2> QED
    BY <2>7, <2>8
<1>4. CASE Goroutine(c)
  <2> USE <1>0 DEF CallsTyped, TypeOK, OnTime, Begun, Goto, Finish, call, limiter, vars
  <2>1. CASE Begin(c)
    <3>1. /\ deadline'[c] = now + Timeout /\ now' = now /\ stage'[c] = "wait"
          /\ pc'[c] = "lock" /\ attempt'[c] = 0
      BY <2>1 DEF Begin, Call
    <3>2. spent[0] \in Nat
      BY DEF Enough
    <3> QED
      BY <3>1, <3>2
  <2>2. CASE Granted(c)
    BY <2>2 DEF Granted, Take
  <2>3. CASE Waits(c)
    BY <2>3 DEF Waits
  <2>4. CASE Send(c)
    <3>1. PICK e \in Delays : due' = [due EXCEPT ![c] = now + e]
      BY <2>4 DEF Send
    <3>2. e \in Nat /\ e <= d /\ due'[c] = now + e
      BY <3>1, CallsAssumption, LimiterAssumption DEF Enough
    <3>3. /\ stage[c] = "call" /\ stage'[c] = "inflight" /\ now' = now
          /\ UNCHANGED <<queued, deadline, attempt>>
      BY <2>4 DEF Send
    <3> QED
      BY SMTT(30), <3>2, <3>3
  <2>5. CASE Fail(c)
    <3>1. CASE attempt[c] < MaxRetries
      BY <1>5, <2>5, <3>1
    <3>2. CASE ~(attempt[c] < MaxRetries)
      BY <2>5, <3>2 DEF Fail, Answers
    <3> QED
      BY <3>1, <3>2
  <2>6. CASE Retry(c)
    BY <2>6 DEF Retry, Call
  <2>7. CASE Expire(c) \/ Leave(c)
    BY <2>7 DEF Expire, Leave, CtxEnds, CtxDone
  <2>8. CASE Refused(c) \/ Succeed(c) \/ Abort(c) \/ CutShort(c)
    BY <2>8 DEF Refused, Succeed, Abort, CutShort
  <2> QED
    BY <1>4, <2>1, <2>2, <2>3, <2>4, <2>5, <2>6, <2>7, <2>8 DEF Goroutine
<1> QED
  BY <1>1, <1>2, <1>3, <1>4 DEF CallsNext, Finished

\* Whoever gives up in Wait has been deferred, and whoever gives up elsewhere
\* would have been on time.
LEMMA QueueStep ==
  ASSUME NEW d, NEW spent, Enough(d, spent), TimelyInv(d, spent), [CallsNext]_callsVars
  PROVE  TimeoutMeansQueue'
<1> SUFFICES ASSUME NEW c \in Callers, result'[c].err = "DeadlineExceeded"
             PROVE  queued'[c]
  BY DEF TimeoutMeansQueue
<1>0. /\ TypeOK /\ CallsTyped /\ LateInv /\ Underway(c) /\ OnTime(c, d, spent)
      /\ result[c].err = "DeadlineExceeded" => queued[c]
  BY DEF TimelyInv, LateInv, TimeoutMeansQueue
<1>1. CASE TimePasses \/ UNCHANGED callsVars
  <2>1. UNCHANGED <<result, queued>>
    BY <1>1 DEF TimePasses, callsVars, call
  <2> QED
    BY <1>0, <2>1
<1>2. ASSUME NEW b \in Callers, Goroutine(b), b # c
      PROVE  queued'[c]
  <2>1. result'[c] = result[c] /\ queued'[c] = queued[c]
    BY <1>0, <1>2, OthersKept DEF Own
  <2> QED
    BY <1>0, <2>1
<1>3. CASE Goroutine(c)
  <2> USE DEF CallsTyped, Finish, call, limiter, vars
  <2>1. CASE Begin(c)
    <3>1. result'[c] = NoResult
      BY <1>0, <2>1 DEF Begin
    <3> QED
      BY <3>1 DEF NoResult
  <2>2. CASE Waits(c)
    BY <1>0, <2>2 DEF Waits
  <2>3. CASE Granted(c) \/ Send(c) \/ Retry(c)
    BY <1>0, <2>3 DEF Granted, Send, Retry
  <2>4. CASE Succeed(c)
    BY <1>0, <2>4 DEF Succeed
  <2>5. CASE Fail(c)
    BY <1>0, <2>5 DEF Fail
  <2>6. ASSUME pc[c] \in {"select", "parked"}, queued' = queued
        PROVE  queued'[c]
    <3>1. stage[c] = "wait" /\ pc[c] # "lock"
      BY <1>0, <2>6
    <3>2. queued[c] \in BOOLEAN
      BY <1>0
    <3> QED
      BY <1>0, <2>6, <3>1, <3>2 DEF OnTime
  <2>7. CASE Refused(c)
    BY <2>6, <2>7 DEF Refused, GiveUp
  <2>8. CASE Abort(c) \/ CutShort(c)
    <3>1. /\ stage[c] # "idle" /\ done[c] /\ result'[c].err = CtxErr(c) /\ queued' = queued
      BY <1>0, <2>8 DEF Abort, CutShort
    <3>2. ~gone[c]
      BY <3>1 DEF CtxErr
    <3>3. deadline[c] <= now
      BY <1>0, <3>1, <3>2 DEF Underway
    <3>4. ~(now < deadline[c])
      BY <1>0, <3>3, TimesType
    <3>5. queued[c]
      BY <1>0, <3>1, <3>4, OnTimeIsEarly
    <3> QED
      BY <3>1, <3>5
  <2>9. CASE Expire(c)
    <3>1. CASE pc[c] = "parked"
      BY <2>6, <2>9, <3>1 DEF Expire
    <3>2. CASE pc[c] # "parked"
      BY <1>0, <2>9, <3>2 DEF Expire, CtxEnds
    <3> QED
      BY <3>1, <3>2
  <2>10. CASE Leave(c)
    BY <1>0, <2>10 DEF Leave, CtxEnds
  <2> QED
    BY <1>3, <2>1, <2>2, <2>3, <2>4, <2>5, <2>7, <2>8, <2>9, <2>10 DEF Goroutine
<1> QED
  BY <1>1, <1>2, <1>3 DEF CallsNext, Finished

\* When the timeout leaves room for every retry, a call to an airline that
\* answers runs out of time only if the limiter made it wait.
THEOREM TimeoutsMeanQueue ==
  ASSUME NEW d, NEW spent, Enough(d, spent)
  PROVE  CallsSpec => []TimeoutMeansQueue
<1>1. CallsInit /\ TypeOK => TimelyInv(d, spent)
  <2> SUFFICES ASSUME CallsInit, TypeOK
               PROVE  TimelyInv(d, spent)
    OBVIOUS
  <2>1. \A c \in Callers : stage[c] = "idle" /\ result[c].err = "none"
    BY DEF CallsInit, NoResult
  <2> QED
    BY <2>1, LateInit DEF TimelyInv, TimeoutMeansQueue, OnTime
<1>2. TimelyInv(d, spent) /\ TypeOK' /\ [CallsNext]_callsVars => TimelyInv(d, spent)'
  <2> SUFFICES ASSUME TimelyInv(d, spent), TypeOK', [CallsNext]_callsVars
               PROVE  TimelyInv(d, spent)'
    OBVIOUS
  <2>1. LateInv' /\ TimeoutMeansQueue'
    BY LateStep, QueueStep DEF TimelyInv
  <2>2. \A c \in Callers : OnTime(c, d, spent)'
    BY OnTimeStep DEF TimelyInv
  <2> QED
    BY <2>1, <2>2 DEF TimelyInv
<1>3. TimelyInv(d, spent) => TimeoutMeansQueue
  BY DEF TimelyInv
<1> QED
  BY <1>1, <1>2, <1>3, LimiterTyped, PTL DEF CallsSpec

\* DefaultConfig, in milliseconds, and the slowest of the airlines in airlinemock.
Defaults ==
    /\ Timeout = 2000
    /\ MaxRetries = 2
    /\ BackoffBase = 100
    /\ BackoffMax = 1000
    /\ \A e \in Delays : e <= 400

DefaultSpent == [n \in 0 .. MaxRetries |-> IF n = 0 THEN 0 ELSE IF n = 1 THEN 500 ELSE 1100]

LEMMA DefaultsAreEnough ==
  ASSUME Defaults
  PROVE  Enough(400, DefaultSpent)
<1> USE DEF Defaults
<1>1. \A b \in BackoffDelay(0 + 1) : b \in Int /\ b <= 100
  <2>1. 2 ^ (0 + 1 - 1) = 1
    BY 0 + 1 - 1 = 0, 2 ^ 0 = 1
  <2> QED
    BY <2>1 DEF BackoffDelay
<1>2. \A b \in BackoffDelay(1 + 1) : b \in Int /\ b <= 200
  <2>1. 2 ^ (1 + 1 - 1) = 2
    BY 1 + 1 - 1 = 1, 2 ^ 1 = 2
  <2> QED
    BY <2>1 DEF BackoffDelay
<1>3. /\ DefaultSpent \in [0 .. MaxRetries -> Nat]
      /\ DefaultSpent[0] = 0 /\ DefaultSpent[1] = 500 /\ DefaultSpent[2] = 1100
  BY DEF DefaultSpent
<1>4. \A n \in 0 .. MaxRetries - 1 : \A b \in BackoffDelay(n + 1) :
          DefaultSpent[n] + 400 + b <= DefaultSpent[n + 1]
  <2> SUFFICES ASSUME NEW n \in 0 .. MaxRetries - 1, NEW b \in BackoffDelay(n + 1)
               PROVE  DefaultSpent[n] + 400 + b <= DefaultSpent[n + 1]
    OBVIOUS
  <2>1. n = 0 \/ n = 1
    OBVIOUS
  <2>2. CASE n = 0
    BY <1>1, <1>3, <2>2, 0 + 1 = 1
  <2>3. CASE n = 1
    BY <1>2, <1>3, <2>3, 1 + 1 = 2
  <2> QED
    BY <2>1, <2>2, <2>3
<1>5. \A n \in 0 .. MaxRetries : DefaultSpent[n] + 400 < Timeout
  <2> SUFFICES ASSUME NEW n \in 0 .. MaxRetries
               PROVE  DefaultSpent[n] + 400 < Timeout
    OBVIOUS
  <2>1. n = 0 \/ n = 1 \/ n = 2
    OBVIOUS
  <2> QED
    BY <1>3, <2>1
<1> QED
  BY <1>3, <1>4, <1>5 DEF Enough

\* The default timeout leaves room for every retry of every airline.
THEOREM DefaultTimeoutIsEnough ==
  ASSUME Defaults
  PROVE  CallsSpec => []TimeoutMeansQueue
  BY DefaultsAreEnough, TimeoutsMeanQueue

-----------------------------------------------------------------------------
(* What a call that got no request out was waiting for                     *)

LEMMA NeverIdle == CallsSpec => []NoIdleToken
  BY UsesLimiter, NoTokenIsIdle, PTL DEF ImplementsLimiter

\* The most that the rate earns for a token before the token is seen.
PerToken == Unit + Rate - 1

\* What the rate has earned and nobody was granted, of use to those who wait.
Left == IF Refilled < Unit THEN Refilled ELSE PerToken

\* What makes StarvedByOthers inductive: all that the rate has earned since c
\* began to wait was granted to others, or is still in the bucket.
Starving(c) ==
    stage[c] = "wait" /\ attempt[c] = 0 =>
        Rate * (now - Begun(c)) <= Cardinality(During(c)) * PerToken + Left

StarvingInv ==
    /\ LateInv /\ ReturnsInTime /\ StarvedByOthers
    /\ \A c \in Callers : Starving(c)

LEMMA RateOrder ==
  ASSUME NEW a \in Int, NEW b \in Int, a <= b
  PROVE  Rate * a <= Rate * b
<1>1. b - a \in Nat /\ Rate * (b - a) \in Nat /\ Rate * b = Rate * a + Rate * (b - a)
  BY CallsAssumption, LimiterAssumption
<1>2. Rate * a \in Int
  BY CallsAssumption, LimiterAssumption
<1> QED
  BY <1>1, <1>2

LEMMA PerTokenType == PerToken \in Nat
  BY CallsAssumption, LimiterAssumption DEF PerToken

LEMMA PerTokenTimes ==
  ASSUME NEW n \in Nat
  PROVE  /\ PerToken \in Nat /\ n * PerToken \in Nat
         /\ (n + 1) * PerToken = n * PerToken + PerToken
         /\ (n + 1) * PerToken = PerToken * (n + 1)
<1> QED
  BY PerTokenType

LEMMA RefilledNat ==
  ASSUME TypeOK
  PROVE  /\ tokens \in Nat /\ last \in Nat /\ now \in Nat /\ Full \in Nat
         /\ Refilled \in Nat /\ Refilled <= Full
<1>1. tokens \in Nat /\ last \in Nat /\ now \in Nat /\ last <= now /\ Full \in Nat /\ tokens <= Full
  BY CallsAssumption, LimiterAssumption DEF TypeOK, Full
<1>2. Rate * (now - last) \in Nat
  BY <1>1, CallsAssumption, LimiterAssumption
<1> QED
  BY <1>1, <1>2 DEF Refilled

LEMMA LeftType ==
  ASSUME TypeOK
  PROVE  Left \in Nat /\ Left <= PerToken
  BY RefilledNat, CallsAssumption, LimiterAssumption DEF Left, PerToken

LEMMA DuringType ==
  ASSUME TypeOK, NEW c
  PROVE  IsFiniteSet(During(c)) /\ Cardinality(During(c)) \in Nat
<1>1. Len(grants) \in Nat
  BY DEF TypeOK
<1>2. IsFiniteSet(1 .. Len(grants))
  BY <1>1, FS_Interval
<1>3. During(c) \subseteq 1 .. Len(grants)
  BY DEF During
<1>4. IsFiniteSet(During(c))
  BY <1>2, <1>3, FS_Subset
<1> QED
  BY <1>4, FS_CardinalityType

\* What a step does to the clock, the bucket and the tokens handed out.
LEMMA BucketSteps ==
  ASSUME TypeOK, CallsTyped, [CallsNext]_callsVars
  PROVE  \/ /\ now' = now + 1 /\ UNCHANGED <<tokens, last, grants>>
            /\ \A c \in Callers : Blocked(c)
         \/ UNCHANGED <<now, grants, Refilled>>
         \/ now' = now /\ grants' = Append(grants, now) /\ Refilled >= Unit
<1> USE DEF call, limiter, vars, bucket
<1>1. CASE TimePasses
  BY <1>1 DEF TimePasses, Tick
<1>2. CASE UNCHANGED <<now, tokens, last, grants>>
  BY <1>2 DEF Refilled, Full
<1>3. ASSUME NEW c \in Callers, Granted(c)
      PROVE  now' = now /\ grants' = Append(grants, now) /\ Refilled >= Unit
  BY <1>3 DEF Granted, Take
<1>4. ASSUME NEW c \in Callers, Defer(c)
      PROVE  UNCHANGED <<now, grants, Refilled>>
  <2>1. tokens' = Refilled /\ last' = now /\ now' = now /\ grants' = grants
    BY <1>4 DEF Defer
  <2>2. Rate * (now' - last') = 0 /\ Full' = Full
    BY <2>1, RefilledNat, CallsAssumption, LimiterAssumption DEF Full
  <2>3. Refilled' = IF tokens' + 0 < Full THEN tokens' + 0 ELSE Full
    BY <2>2 DEF Refilled
  <2> QED
    BY <2>1, <2>3, RefilledNat
<1>5. ASSUME NEW c \in Callers, Goroutine(c), ~Granted(c), ~Defer(c)
      PROVE  UNCHANGED <<now, tokens, last, grants>>
  <2>1. CASE Begin(c) \/ Retry(c)
    BY <2>1 DEF Begin, Retry, Call
  <2>2. CASE Waits(c)
    BY <1>5, <2>2 DEF Waits, Park, TimerFires
  <2>3. CASE Refused(c)
    BY <2>3 DEF Refused, GiveUp
  <2>4. CASE Send(c) \/ Succeed(c) \/ Fail(c) \/ Abort(c) \/ CutShort(c)
    BY <2>4 DEF Send, Succeed, Fail, Abort, CutShort
  <2>5. CASE Expire(c) \/ Leave(c)
    BY <2>5 DEF Expire, Leave, CtxEnds, CtxDone
  <2> QED
    BY <1>5, <2>1, <2>2, <2>3, <2>4, <2>5 DEF Goroutine
<1>6. CASE UNCHANGED callsVars
  BY <1>2, <1>6 DEF callsVars
<1> QED
  BY <1>1, <1>2, <1>3, <1>4, <1>5, <1>6 DEF CallsNext, Finished

\* While the bucket holds no token, a tick adds all that is earned in it, or
\* makes it hold one.
LEMMA TickEarns ==
  ASSUME TypeOK, Capacity >= 1, Refilled < Unit,
         now' = now + 1, UNCHANGED <<tokens, last>>
  PROVE  Refilled + Rate <= Left'
<1> DEFINE since == Rate * (now - last)
<1>1. tokens \in Nat /\ Full \in Nat /\ Refilled \in Nat /\ since \in Int
      /\ Full' = Full /\ Rate \in Nat /\ Unit \in Nat
  BY RefilledNat, CallsAssumption, LimiterAssumption DEF Full
<1>2. Unit <= Full
  BY CallsAssumption, LimiterAssumption DEF Full
<1>3. Rate * (now' - last') = since + Rate
  <2>1. now' - last' = (now - last) + 1 /\ now - last \in Int
    BY RefilledNat
  <2> QED
    BY <2>1, RateTimes
<1>4. /\ Refilled = IF tokens + since < Full THEN tokens + since ELSE Full
      /\ Refilled' = IF tokens + (since + Rate) < Full THEN tokens + (since + Rate) ELSE Full
  BY <1>1, <1>3 DEF Refilled
<1> HIDE DEF since
<1>5. Refilled = tokens + since
  BY <1>1, <1>2, <1>4
<1>6. Refilled' < Unit => Refilled' = Refilled + Rate
  BY <1>1, <1>2, <1>4, <1>5
<1>7. Left' = IF Refilled' < Unit THEN Refilled' ELSE PerToken
  BY DEF Left, PerToken
<1> QED
  BY <1>1, <1>6, <1>7 DEF PerToken

\* A token handed out while c waits is one more of those it waits behind.
LEMMA DuringGrows ==
  ASSUME TypeOK, CallsTyped, NEW c \in Callers, deadline'[c] = deadline[c],
         grants' = Append(grants, now)
  PROVE  /\ IsFiniteSet(During(c)')
         /\ Cardinality(During(c)') \in Nat
         /\ Cardinality(During(c)) <= Cardinality(During(c)')
         /\ Begun(c) <= now /\ now <= deadline[c]
               => Cardinality(During(c)') = Cardinality(During(c)) + 1
<1> DEFINE n == Len(grants)
<1>1. /\ n \in Nat /\ Len(grants') = n + 1 /\ grants'[n + 1] = now
      /\ \A i \in 1 .. n : grants'[i] = grants[i]
  BY DEF TypeOK
<1>2. IsFiniteSet(During(c)) /\ Cardinality(During(c)) \in Nat
  BY DuringType
<1>3. n + 1 \notin During(c)
  BY <1>1 DEF During
<1>4. During(c)' = IF Begun(c) <= now /\ now <= deadline[c]
                   THEN During(c) \cup {n + 1} ELSE During(c)
  BY <1>1 DEF During, Begun
<1>5. IsFiniteSet(During(c) \cup {n + 1})
      /\ Cardinality(During(c) \cup {n + 1}) = Cardinality(During(c)) + 1
  BY <1>2, <1>3, FS_AddElement
<1> QED
  BY <1>2, <1>4, <1>5

LEMMA DuringTypeNext ==
  ASSUME NEW c
  PROVE  TypeOK' => (Cardinality(During(c)) \in Nat)'
<1>1. TypeOK => Cardinality(During(c)) \in Nat
  BY DuringType
<1> QED
  BY <1>1, PTL

LEMMA LeftTypeNext == TypeOK' => (Left \in Nat /\ Left <= PerToken)'
<1>1. TypeOK => Left \in Nat /\ Left <= PerToken
  BY LeftType
<1> QED
  BY <1>1, PTL

LEMMA StarvingStep ==
  ASSUME StarvingInv, [CallsNext]_callsVars, TypeOK', NoIdleToken, Capacity >= 1, NEW c \in Callers
  PROVE  Starving(c)'
<1> DEFINE n == Cardinality(During(c))
           waited == Rate * (now - Begun(c))
<1>0. /\ TypeOK /\ CallsTyped /\ Underway(c) /\ Starving(c)
      /\ now \in Nat /\ Timeout \in Nat /\ deadline[c] \in Nat /\ Begun(c) \in Int
      /\ stage[c] # "idle" => now <= deadline[c]
  BY TimesType DEF StarvingInv, LateInv, ReturnsInTime
<1>1. /\ n \in Nat /\ PerToken \in Nat /\ n * PerToken \in Nat /\ waited \in Int
      /\ (n + 1) * PerToken = n * PerToken + PerToken
      /\ Left \in Nat /\ Left <= PerToken /\ Left' \in Nat
  <2>1. n \in Nat
    BY <1>0, DuringType
  <2>2. Left' \in Nat
    BY LeftTypeNext
  <2>3. waited \in Int
    BY <1>0, RateTimes
  <2> HIDE DEF n, waited
  <2> QED
    BY <1>0, <2>1, <2>2, <2>3, LeftType, PerTokenTimes
<1> SUFFICES ASSUME stage'[c] = "wait", attempt'[c] = 0
             PROVE  Rate * (now' - Begun(c)') <= Cardinality(During(c)') * PerToken + Left'
  BY DEF Starving, PerToken
<1>2. ASSUME stage[c] = "wait", attempt[c] = 0
      PROVE  waited <= n * PerToken + Left
  BY <1>0, <1>2 DEF Starving
<1>3. CASE TimePasses
  <2>1. /\ now' = now + 1 /\ UNCHANGED <<tokens, last, grants>> /\ Blocked(c)
        /\ stage' = stage /\ attempt' = attempt /\ deadline' = deadline
    BY <1>3 DEF TimePasses, Tick, bucket, call
  <2>2. Refilled < Unit
    <3>1. \/ pc[c] = "parked" /\ now < wake[c]
          \/ pc[c] = "select" /\ Refilled < Unit
      BY <2>1 DEF Blocked
    <3> QED
      BY <3>1 DEF NoIdleToken, Asleep
  <2>3. Refilled + Rate <= Left'
    BY <1>0, <2>1, <2>2, TickEarns
  <2>4. Left = Refilled
    BY <2>2 DEF Left
  <2>5. Begun(c)' = Begun(c) /\ Cardinality(During(c)') = n
    BY <2>1 DEF Begun, During
  <2>6. Rate * (now' - Begun(c)') = waited + Rate
    <3>1. now' - Begun(c)' = (now - Begun(c)) + 1 /\ now - Begun(c) \in Int
      BY <1>0, <2>1, <2>5
    <3> QED
      BY <3>1, RateTimes
  <2>7. waited <= n * PerToken + Left
    BY <1>2, <2>1
  <2> HIDE DEF n, waited
  <2>8. Rate \in Nat
    BY CallsAssumption, LimiterAssumption
  <2> DEFINE granted == n * PerToken
  <2>9. /\ granted \in Nat /\ waited \in Int /\ waited <= granted + Left
        /\ Left \in Nat /\ Left' \in Nat
    BY <1>1, <2>7
  <2> HIDE DEF granted
  <2>10. waited + Rate <= granted + Left'
    <3>1. waited + Rate <= granted + (Left + Rate)
      BY <2>8, <2>9
    <3>2. Left + Rate <= Left'
      BY <2>3, <2>4
    <3> QED
      <4> DEFINE next == Left'
                 here == Left
      <4>1. /\ granted \in Int /\ waited \in Int /\ here \in Int /\ next \in Int /\ Rate \in Int
            /\ waited + Rate <= granted + (here + Rate)
            /\ here + Rate <= next
        BY <2>8, <2>9, <3>1, <3>2
      <4> HIDE DEF next, here
      <4>2. waited + Rate <= granted + next
        BY <4>1
      <4> QED
        BY <4>2 DEF next
  <2> QED
    BY <2>5, <2>6, <2>10 DEF granted
<1>4. ASSUME now' = now, stage[c] = "wait", attempt[c] = 0, deadline'[c] = deadline[c]
      PROVE  Rate * (now' - Begun(c)') <= Cardinality(During(c)') * PerToken + Left'
  <2>1. Begun(c)' = Begun(c)
    BY <1>4 DEF Begun
  <2>2. CASE UNCHANGED <<now, grants, Refilled>>
    <3>1. During(c)' = During(c)
      BY <1>4, <2>2 DEF During
    <3>2. Left' = Left
      BY <2>2 DEF Left, PerToken
    <3> QED
      BY <1>2, <1>4, <2>1, <3>1, <3>2
  <2>3. CASE grants' = Append(grants, now) /\ Refilled >= Unit
    <3>1. Cardinality(During(c)') = n + 1
      BY <1>0, <1>4, <2>3, DuringGrows DEF Underway
    <3>2. waited <= n * PerToken + Left
      BY <1>2, <1>4
    <3>3. Rate * (now' - Begun(c)') = waited
      BY <1>4, <2>1
    <3> DEFINE granted == n * PerToken
               more == (n + 1) * PerToken
    <3>4. granted \in Nat /\ more = granted + PerToken /\ waited <= granted + Left
      BY <1>1, <3>2
    <3> HIDE DEF n, waited, granted, more
    <3> DEFINE next == Left'
    <3>5. waited <= more /\ waited \in Int /\ more \in Int /\ next \in Nat
      BY <1>1, <3>4
    <3> HIDE DEF next
    <3>6. waited <= more + next
      BY <3>5
    <3> QED
      BY <3>1, <3>3, <3>6 DEF more, next
  <2> QED
    BY <1>0, <1>4, <2>2, <2>3, BucketSteps
<1>5. CASE UNCHANGED callsVars
  BY <1>4, <1>5 DEF callsVars, limiter, vars, call
<1>6. ASSUME NEW b \in Callers, Goroutine(b), b # c
      PROVE  Rate * (now' - Begun(c)') <= Cardinality(During(c)') * PerToken + Left'
  BY <1>0, <1>4, <1>6, OthersKept DEF Own
<1>7. CASE Goroutine(c)
  <2> USE <1>0 DEF CallsTyped, Goto, Finish, call, limiter, vars
  <2>1. CASE Begin(c)
    <3>1. deadline'[c] = now + Timeout /\ now' = now
      BY <2>1 DEF Begin, Call
    <3>2. now' - Begun(c)' = 0
      BY <3>1 DEF Begun
    <3>3. Rate * (now' - Begun(c)') = 0
      BY <3>2, CallsAssumption, LimiterAssumption
    <3>4. Cardinality(During(c)') * PerToken \in Nat
      BY DuringTypeNext, PerTokenTimes
    <3> HIDE DEF n, waited
    <3> QED
      BY <1>1, <3>3, <3>4
  <2>2. CASE Waits(c)
    <3>1. stage' = stage /\ attempt' = attempt /\ deadline' = deadline /\ now' = now
      BY <2>2 DEF Waits, Defer, Park, TimerFires
    <3> QED
      BY <1>4, <3>1
  <2>3. CASE Expire(c) \/ Leave(c)
    <3>1. stage' = stage /\ attempt' = attempt /\ deadline' = deadline /\ now' = now
      BY <2>3 DEF Expire, Leave, CtxEnds, CtxDone
    <3> QED
      BY <1>4, <3>1
  <2>4. CASE Retry(c)
    BY <2>4 DEF Retry, Underway
  <2>5. CASE Granted(c) \/ Send(c) \/ Fail(c)
    BY <2>5 DEF Granted, Send, Fail
  <2>6. CASE Refused(c) \/ Succeed(c) \/ Abort(c) \/ CutShort(c)
    BY <2>6 DEF Refused, Succeed, Abort, CutShort
  <2> QED
    BY <1>7, <2>1, <2>2, <2>3, <2>4, <2>5, <2>6 DEF Goroutine
<1> QED
  BY <1>3, <1>5, <1>6, <1>7 DEF CallsNext, Finished

\* Who gives up without a token has seen all that was earned go to others.
LEMMA StarvedBound ==
  ASSUME TypeOK, CallsTyped, NEW c \in Callers, Starving(c),
         stage[c] = "wait", attempt[c] = 0, deadline[c] <= now
  PROVE  PerToken * (Cardinality(During(c)) + 1) >= Rate * Timeout
<1> DEFINE n == Cardinality(During(c))
           granted == n * PerToken
           waited == Rate * (now - Begun(c))
           earned == Rate * Timeout
           limit == PerToken * (n + 1)
<1>1. n \in Nat
  BY DuringType
<1>2. granted \in Nat /\ limit = granted + PerToken /\ PerToken \in Nat
  <2> HIDE DEF n
  <2> QED
    BY <1>1, PerTokenTimes
<1>3. waited <= granted + Left /\ Left \in Nat /\ Left <= PerToken
  BY LeftType DEF Starving
<1>4. earned <= waited /\ waited \in Int /\ earned \in Int
  <2>1. now - Begun(c) \in Int /\ Timeout \in Int /\ Timeout <= now - Begun(c)
    BY TimesType DEF Begun
  <2> QED
    BY <2>1, RateOrder, RateTimes
<1> HIDE DEF granted, waited, earned, limit
<1>5. earned <= limit
  BY <1>2, <1>3, <1>4
<1> QED
  BY <1>2, <1>4, <1>5 DEF limit, earned

LEMMA StarvedStep ==
  ASSUME StarvingInv, [CallsNext]_callsVars, NEW c \in Callers,
         result'[c] = [err |-> "DeadlineExceeded", at |-> "wait"], attempt'[c] = 0
  PROVE  PerToken * (Cardinality(During(c)') + 1) >= Rate * Timeout
<1>0. /\ TypeOK /\ CallsTyped /\ Underway(c) /\ Starving(c) /\ LateInv
      /\ now \in Nat /\ deadline[c] \in Nat
  BY TimesType DEF StarvingInv, LateInv
<1>1. ASSUME deadline'[c] = deadline[c],
             PerToken * (Cardinality(During(c)) + 1) >= Rate * Timeout
      PROVE  PerToken * (Cardinality(During(c)') + 1) >= Rate * Timeout
  <2> DEFINE n == Cardinality(During(c))
             m == Cardinality(During(c)')
  <2>1. n \in Nat /\ m \in Nat /\ n <= m
    <3>1. CASE grants' = grants
      <4>1. During(c)' = During(c)
        BY <1>1, <3>1 DEF During
      <4> QED
        BY <1>0, <4>1, DuringType
    <3>2. CASE grants' = Append(grants, now)
      BY <1>0, <1>1, <3>2, DuringGrows, DuringType
    <3> QED
      BY <1>0, <3>1, <3>2, BucketSteps
  <2> HIDE DEF n, m
  <2>2. PerToken * (n + 1) \in Int /\ PerToken * (m + 1) \in Int
        /\ PerToken * (n + 1) <= PerToken * (m + 1)
    <3>1. PerToken \in Nat /\ m - n \in Nat
      BY <2>1, PerTokenType
    <3>2. PerToken * (m - n) \in Nat /\ PerToken * (n + 1) \in Nat
          /\ PerToken * (m + 1) = PerToken * (n + 1) + PerToken * (m - n)
      BY <2>1, <3>1
    <3> QED
      BY <3>2
  <2>3. Rate * Timeout \in Int
    BY CallsAssumption, LimiterAssumption
  <2>4. PerToken * (n + 1) >= Rate * Timeout
    BY <1>1 DEF n
  <2> DEFINE few == PerToken * (n + 1)
             many == PerToken * (m + 1)
             earned == Rate * Timeout
  <2>5. few \in Int /\ many \in Int /\ earned \in Int /\ few <= many /\ few >= earned
    BY <2>2, <2>3, <2>4
  <2> HIDE DEF few, many, earned
  <2>6. many >= earned
    BY <2>5
  <2> QED
    BY <2>6 DEF many, earned, m
<1>2. CASE TimePasses \/ UNCHANGED callsVars
  <2>1. UNCHANGED <<result, attempt, deadline>>
    BY <1>2 DEF TimePasses, callsVars, call
  <2> QED
    BY <1>1, <2>1 DEF StarvingInv, StarvedByOthers, PerToken
<1>3. ASSUME NEW b \in Callers, Goroutine(b), b # c
      PROVE  PerToken * (Cardinality(During(c)') + 1) >= Rate * Timeout
  <2>1. result'[c] = result[c] /\ attempt'[c] = attempt[c] /\ deadline'[c] = deadline[c]
    BY <1>0, <1>3, OthersKept DEF Own
  <2> QED
    BY <1>1, <2>1 DEF StarvingInv, StarvedByOthers, PerToken
<1>4. CASE Goroutine(c)
  <2>1. ASSUME stage[c] = "wait", UNCHANGED <<attempt, deadline>>, deadline[c] <= now
        PROVE  PerToken * (Cardinality(During(c)') + 1) >= Rate * Timeout
    BY <1>0, <1>1, <2>1, StarvedBound
  <2>2. result[c] = NoResult \/ stage[c] = "idle"
    BY <1>0 DEF Underway
  <2> USE <1>0 DEF CallsTyped, NoResult, Finish, call, limiter, vars
  <2>3. CASE Begin(c)
    BY <2>3 DEF Begin
  <2>4. CASE Waits(c) \/ Granted(c) \/ Send(c) \/ Retry(c)
    <3>1. result' = result /\ stage[c] # "idle"
      BY <2>4 DEF Waits, Granted, Send, Retry, Take, Defer, Park, TimerFires
    <3> QED
      BY <2>2, <3>1
  <2>5. CASE Succeed(c)
    BY <2>5 DEF Succeed
  <2>6. CASE Fail(c)
    BY <2>2, <2>6 DEF Fail, Answers
  <2>7. CASE Abort(c) \/ CutShort(c)
    BY <2>7 DEF Abort, CutShort
  <2>8. CASE Refused(c)
    <3>1. stage[c] = "wait" /\ done[c] /\ UNCHANGED <<attempt, deadline>> /\ result'[c].err = CtxErr(c)
      BY <2>8 DEF Refused, GiveUp
    <3>2. ~gone[c]
      BY <3>1 DEF CtxErr
    <3> QED
      BY <2>1, <3>1, <3>2 DEF Underway
  <2>9. CASE Expire(c)
    <3>1. CASE pc[c] = "parked"
      <4>1. stage[c] = "wait" /\ UNCHANGED <<attempt, deadline>> /\ deadline[c] <= now
        BY <2>9, <3>1 DEF Expire
      <4> QED
        BY <2>1, <4>1
    <3>2. CASE pc[c] # "parked"
      BY <2>2, <2>9, <3>2 DEF Expire, CtxEnds
    <3> QED
      BY <3>1, <3>2
  <2>10. CASE Leave(c)
    BY <2>2, <2>10 DEF Leave, CtxEnds
  <2> QED
    BY <1>4, <2>3, <2>4, <2>5, <2>6, <2>7, <2>8, <2>9, <2>10 DEF Goroutine
<1> QED
  BY <1>2, <1>3, <1>4 DEF CallsNext, Finished

\* Where a bucket holds a token at all, a search that gets no request out before
\* its deadline was held up by as many others as the rate can serve in that time.
THEOREM StarvationIsByOthers ==
  ASSUME Capacity >= 1
  PROVE  CallsSpec => []StarvedByOthers
<1>1. CallsInit /\ TypeOK => StarvingInv
  <2> SUFFICES ASSUME CallsInit, TypeOK
               PROVE  StarvingInv
    OBVIOUS
  <2>1. \A c \in Callers : stage[c] = "idle" /\ result[c].err = "none"
    BY DEF CallsInit, NoResult
  <2> QED
    BY <2>1, LateInit DEF StarvingInv, ReturnsInTime, StarvedByOthers, Starving
<1>2. StarvingInv /\ TypeOK' /\ NoIdleToken /\ [CallsNext]_callsVars => StarvingInv'
  <2> SUFFICES ASSUME StarvingInv, TypeOK', NoIdleToken, [CallsNext]_callsVars
               PROVE  StarvingInv'
    OBVIOUS
  <2>1. LateInv'
    BY LateStep DEF StarvingInv
  <2>2. ReturnsInTime'
    BY InTimeStep DEF StarvingInv, LateInv
  <2>3. StarvedByOthers'
    BY StarvedStep DEF StarvedByOthers, PerToken
  <2>4. \A c \in Callers : Starving(c)'
    BY StarvingStep
  <2> QED
    BY <2>1, <2>2, <2>3, <2>4 DEF StarvingInv
<1>3. StarvingInv => StarvedByOthers
  BY DEF StarvingInv
<1> QED
  BY <1>1, <1>2, <1>3, LimiterTyped, NeverIdle, PTL DEF CallsSpec

-----------------------------------------------------------------------------
(* The calls as RetryLoop has them                                         *)

\* What a step of c does to the variables of RetryLoop.
LEMMA MappedStep ==
  ASSUME NEW c \in Callers,
         \A b \in Callers \ {c} :
             UNCHANGED <<stage[b], attempt[b], result[b]>>
  PROVE  /\ [b \in Callers |-> Phase(b)]' = [[b \in Callers |-> Phase(b)] EXCEPT ![c] = Phase(c)']
         /\ [b \in Callers |-> Sent(b)]' = [[b \in Callers |-> Sent(b)] EXCEPT ![c] = Sent(c)']
         /\ [b \in Callers |-> result[b].err]'
                = [[b \in Callers |-> result[b].err] EXCEPT ![c] = result'[c].err]
  BY DEF Phase, Sent

\* A step that changes nothing of a call but where it pauses.
LEMMA PausesOn ==
  ASSUME NEW c \in Callers,
         \A b \in Callers \ {c} : UNCHANGED <<stage[b], attempt[b], result[b]>>,
         UNCHANGED <<Phase(c), Sent(c), result[c].err, done>>
  PROVE  UNCHANGED Loop!vars
  BY MappedStep DEF Loop!vars

\* A call ends.
LEMMA LoopReturns ==
  ASSUME CallsTyped, NEW c \in Callers, NEW e, Finish(c, e), UNCHANGED attempt,
         done' \in {done, [done EXCEPT ![c] = TRUE]}
  PROVE  Loop!Return(c, e)
<1>1. /\ stage' = [stage EXCEPT ![c] = "idle"]
      /\ result'[c].err = e /\ \A b \in Callers \ {c} : result'[b] = result[b]
  BY DEF Finish, Goto, CallsTyped
<1>2. stage'[c] = "idle" /\ \A b \in Callers \ {c} : stage'[b] = stage[b]
  BY <1>1 DEF CallsTyped
<1>3. Phase(c)' = "idle" /\ Sent(c)' = 0
  BY <1>2 DEF Phase, Sent
<1> QED
  BY <1>1, <1>2, <1>3, MappedStep DEF Loop!Return, Loop!Goto

\* A call ends with the error of its context.
LEMMA LoopAbandons ==
  ASSUME TypeOK, CallsTyped, NEW c \in Callers, stage[c] # "idle",
         NEW e \in {"Canceled", "DeadlineExceeded"}, Finish(c, e), UNCHANGED attempt,
         \/ done[c] /\ done' = done
         \/ done' = [done EXCEPT ![c] = TRUE]
  PROVE  Loop!Abandon(c)
<1>1. Loop!Return(c, e)
  BY LoopReturns
<1>2. done'[c]
  BY DEF TypeOK
<1>3. Phase(c) # "idle"
  BY DEF Phase
<1> QED
  BY <1>1, <1>2, <1>3 DEF Loop!Abandon

LEMMA StepOfLoop ==
  ASSUME TypeOK, CallsTyped, CallsTyped', [CallsNext]_callsVars
  PROVE  [Loop!Next]_(Loop!vars)
<1> USE DEF Loop!Next
<1>1. CASE TimePasses \/ UNCHANGED callsVars
  <2>1. UNCHANGED <<stage, attempt, result, done>>
    BY <1>1 DEF TimePasses, Tick, callsVars, limiter, vars, call
  <2> QED
    BY <2>1 DEF Loop!vars, Phase, Sent
<1>2. ASSUME NEW c \in Callers, Begin(c)
      PROVE  Loop!Begin(c)
  <2>1. /\ stage[c] = "idle" /\ stage'[c] = "wait" /\ attempt'[c] = 0
        /\ result'[c].err = "none"
        /\ \A b \in Callers \ {c} : UNCHANGED <<stage[b], attempt[b], result[b]>>
    BY <1>2 DEF Begin, Goto, CallsTyped, NoResult
  <2>2. done' \in {[done EXCEPT ![c] = d] : d \in BOOLEAN}
    BY <1>2 DEF Begin, Call
  <2>3. Phase(c) = "idle" /\ Phase(c)' = "pausing" /\ Sent(c) = 0 /\ Sent(c)' = 0
    BY <2>1 DEF Phase, Sent
  <2>4. \A b \in Callers \ {c} : Sent(b)' = Sent(b)
    BY <2>1 DEF Sent
  <2>5. UNCHANGED [b \in Callers |-> Sent(b)]
    BY <2>3, <2>4
  <2> QED
    BY <2>1, <2>2, <2>3, <2>5, MappedStep DEF Loop!Begin, Loop!Goto
<1>3. ASSUME NEW c \in Callers, Granted(c) \/ Waits(c) \/ Retry(c)
      PROVE  UNCHANGED Loop!vars
  <2>1. UNCHANGED <<attempt, result, done>>
    BY <1>3 DEF Granted, Waits, Retry, Take, Defer, Park, TimerFires, call
  <2>2. /\ stage[c] \in {"wait", "call", "backoff"} /\ stage'[c] \in {"wait", "call", "backoff"}
        /\ \A b \in Callers \ {c} : stage'[b] = stage[b]
    BY <1>3 DEF Granted, Waits, Retry, Take, Defer, Park, TimerFires, Goto, CallsTyped
  <2>3. UNCHANGED <<Phase(c), Sent(c)>>
    BY <2>1, <2>2 DEF Phase, Sent
  <2> QED
    BY <2>1, <2>2, <2>3, PausesOn
<1>4. ASSUME NEW c \in Callers, Send(c)
      PROVE  Loop!Send(c)
  <2>1. /\ stage[c] = "call" /\ stage'[c] = "inflight" /\ ~done[c]
        /\ \A b \in Callers \ {c} : stage'[b] = stage[b]
        /\ UNCHANGED <<attempt, result, done>>
    BY <1>4 DEF Send, Goto, CallsTyped, limiter, vars
  <2>2. /\ Phase(c) = "pausing" /\ Phase(c)' = "fetching"
        /\ Sent(c) = attempt[c] /\ Sent(c)' = attempt[c] + 1
    BY <2>1 DEF Phase, Sent
  <2>3. attempt[c] <= MaxRetries
    BY CallsAssumption DEF CallsTyped
  <2> QED
    BY <2>1, <2>2, <2>3, MappedStep DEF Loop!Send, Loop!Goto
<1>5. ASSUME NEW c \in Callers, Succeed(c)
      PROVE  Loop!Succeed(c)
  <2>1. /\ stage[c] = "inflight" /\ Finish(c, "nil") /\ UNCHANGED <<attempt, done>>
    BY <1>5 DEF Succeed, Answers, limiter, vars, call
  <2>2. Loop!Return(c, "nil") /\ Phase(c) = "fetching"
    BY <2>1, LoopReturns DEF Phase
  <2> QED
    BY <2>2 DEF Loop!Succeed
<1>6. ASSUME NEW c \in Callers, Fail(c)
      PROVE  Loop!TryAgain(c) \/ Loop!Fail(c)
  <2>1. stage[c] = "inflight" /\ UNCHANGED done /\ attempt[c] \in 0 .. MaxRetries
    BY <1>6 DEF Fail, Answers, limiter, vars, CallsTyped
  <2>2. Phase(c) = "fetching" /\ Sent(c) = attempt[c] + 1
    BY <2>1 DEF Phase, Sent
  <2>3. CASE attempt[c] < MaxRetries
    <3>1. /\ stage'[c] = "backoff" /\ attempt'[c] = attempt[c] + 1 /\ result' = result
          /\ \A b \in Callers \ {c} : stage'[b] = stage[b] /\ attempt'[b] = attempt[b]
      BY <1>6, <2>3 DEF Fail, Goto, CallsTyped
    <3>2. Phase(c)' = "pausing" /\ Sent(c)' = attempt[c] + 1
      BY <3>1 DEF Phase, Sent
    <3>3. Sent(c) <= MaxRetries
      BY <2>1, <2>2, <2>3, CallsAssumption
    <3>4. \A b \in Callers \ {c} : Sent(b)' = Sent(b)
      BY <3>1 DEF Sent
    <3>5. UNCHANGED [b \in Callers |-> Sent(b)]
      BY <2>2, <3>2, <3>4
    <3>6. UNCHANGED [b \in Callers |-> result[b].err]
      BY <3>1
    <3>7. Loop!TryAgain(c)
      BY <2>1, <2>2, <3>1, <3>2, <3>3, <3>5, <3>6, MappedStep DEF Loop!TryAgain, Loop!Goto
    <3> QED
      BY <3>7
  <2>4. CASE ~(attempt[c] < MaxRetries)
    <3>1. Finish(c, "ErrProviderUnavailable") /\ UNCHANGED attempt
      BY <1>6, <2>4 DEF Fail
    <3>2. Sent(c) = MaxRetries + 1
      BY <2>1, <2>2, <2>4, CallsAssumption
    <3>3. Loop!Return(c, "ErrProviderUnavailable")
      BY <2>1, <3>1, LoopReturns
    <3> QED
      BY <2>2, <3>2, <3>3 DEF Loop!Fail
  <2> QED
    BY <2>3, <2>4
<1>7. ASSUME NEW c \in Callers, Refused(c) \/ Abort(c) \/ CutShort(c)
      PROVE  Loop!Abandon(c)
  <2>1. /\ done[c] /\ UNCHANGED <<done, attempt>> /\ Finish(c, CtxErr(c))
        /\ stage[c] # "idle"
    BY <1>7 DEF Refused, Abort, CutShort, GiveUp, limiter, vars, call, CallsTyped
  <2>2. CtxErr(c) \in {"Canceled", "DeadlineExceeded"}
    BY DEF CtxErr
  <2> QED
    BY <2>1, <2>2, LoopAbandons
<1>8. ASSUME NEW c \in Callers, NEW e \in {"Canceled", "DeadlineExceeded"},
             CtxEnds(c, e), UNCHANGED attempt
      PROVE  Loop!Next
  <2>1. done' = [done EXCEPT ![c] = TRUE] /\ stage[c] # "idle"
    BY <1>8 DEF CtxEnds, CtxDone
  <2>2. CASE pc[c] = "parked"
    <3>1. Loop!Abandon(c)
      BY <1>8, <2>1, <2>2, LoopAbandons DEF CtxEnds
    <3> QED
      BY <3>1
  <2>3. CASE pc[c] # "parked"
    <3>1. UNCHANGED <<stage, attempt, result>>
      BY <1>8, <2>3 DEF CtxEnds
    <3>2. done' = [b \in Callers |-> done[b] \/ b \in {c}]
      BY <2>1 DEF TypeOK
    <3>3. Loop!CtxDone({c})
      BY <3>1, <3>2 DEF Loop!CtxDone, Phase, Sent
    <3> QED
      BY <3>3
  <2> QED
    BY <2>2, <2>3
<1>9. ASSUME NEW c \in Callers, Expire(c) \/ Leave(c)
      PROVE  Loop!Next
  BY <1>8, <1>9 DEF Expire, Leave, call
<1> QED
  BY <1>1, <1>2, <1>3, <1>4, <1>5, <1>6, <1>7, <1>9 DEF CallsNext, Finished, Goroutine

\* A call on the shared limiter, with its backoff and its deadline, is a call of
\* RetryLoop, as a goroutine of Aggregator is (RefinesRetryLoop of AggregatorProofs).
THEOREM RefinesRetryLoop == CallsSpec => ImplementsRetryLoop
<1>1. CallsInit => Loop!Init
  BY DEF CallsInit, Init, NoResult, Loop!Init, Phase, Sent
<1>2. CallsInit => CallsTyped
  BY CallsTypeInit
<1>3. TypeOK /\ CallsTyped /\ [CallsNext]_callsVars => CallsTyped'
  BY CallsTypeStep
<1>4. TypeOK /\ CallsTyped /\ CallsTyped' /\ [CallsNext]_callsVars => [Loop!Next]_(Loop!vars)
  BY StepOfLoop
<1> QED
  BY <1>1, <1>2, <1>3, <1>4, LimiterTyped, PTL DEF CallsSpec, ImplementsRetryLoop, Loop!Spec

\* Neither the limiter nor the calls that share it are asked for more than their
\* specifications promise.
THEOREM KeepsPromises == CallsSpec => ImplementsPromises
  BY UsesLimiter, RefinesRetryLoop DEF ImplementsPromises

=============================================================================
