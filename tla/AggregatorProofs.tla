-------------------------- MODULE AggregatorProofs --------------------------
(***************************************************************************)
(* Proofs about Aggregator, for every finite set of providers and every    *)
(* number of retries.                                                      *)
(***************************************************************************)
EXTENDS Aggregator, FiniteSetTheorems, TLAPS

-----------------------------------------------------------------------------
(* Sequences of failures                                                   *)

LEMMA FailuresType ==
  ASSUME NEW n \in Nat
  PROVE  Failures(n) \in Seq({"ok", "failed", "aborted"}) /\ Len(Failures(n)) = n
  BY DEF Failures

LEMMA NoFailures == Failures(0) = << >>
  BY DEF Failures

LEMMA OneMoreFailure ==
  ASSUME NEW n \in Nat
  PROVE  Append(Failures(n), "failed") = Failures(n + 1)
<1> DEFINE s == Append(Failures(n), "failed")
           t == Failures(n + 1)
<1>1. s \in Seq({"ok", "failed", "aborted"}) /\ Len(s) = n + 1
  BY FailuresType
<1>2. t \in Seq({"ok", "failed", "aborted"}) /\ Len(t) = n + 1
  BY FailuresType
<1>3. ASSUME NEW i \in 1 .. n + 1
      PROVE  s[i] = t[i]
  <2>1. CASE i \in 1 .. n
    <3>1. s[i] = Failures(n)[i]
      BY <2>1, FailuresType
    <3>2. Failures(n)[i] = "failed" /\ t[i] = "failed"
      BY <2>1 DEF Failures
    <3> QED
      BY <3>1, <3>2
  <2>2. CASE i = n + 1
    <3>1. /\ Failures(n) \in Seq({"ok", "failed", "aborted"})
          /\ i = Len(Failures(n)) + 1
      BY <2>2, FailuresType
    <3>2. s[i] = "failed"
      BY <3>1
    <3>3. t[i] = "failed"
      BY <2>2 DEF Failures
    <3> QED
      BY <3>2, <3>3
  <2> HIDE DEF s, t
  <2> QED
    BY <2>1, <2>2
<1> HIDE DEF s, t
<1>4. s = t
  BY <1>1, <1>2, <1>3
<1> QED
  BY <1>4 DEF s, t

-----------------------------------------------------------------------------
(* Types                                                                   *)

\* wg \in Nat follows from what wg counts; TypeOK without it is inductive.
TypeInv ==
    /\ main \in {"spawn", "wait", "returned"}
    /\ parent \in {"live"} \union CtxErrors
    /\ pc \in [Providers -> Places]
    /\ ctx \in [Providers -> {"none", "live"} \union CtxErrors]
    /\ attempt \in [Providers -> 0 .. MaxRetries]
    /\ outcome \in [Providers -> Outcomes \union {"none"}]
    /\ results \in [Providers -> Outcomes \union {Zero}]
    /\ log \in [Providers -> Seq({"ok", "failed", "aborted"})]
    /\ late \in [Providers -> Nat]

\* callWithRetry has returned exactly when the goroutine is past the loop.
Decided ==
    \A p \in Providers :
        outcome[p] # "none" <=> pc[p] \in {"return", "written", "exited"}

LEMMA TypeInit == Init => TypeInv /\ Decided
  BY AggregatorAssumption
     DEF Init, TypeInv, Decided, CtxErrors, Places, Outcomes, Zero

LEMMA FinishType ==
  ASSUME TypeInv, NEW p \in Providers, NEW o \in Outcomes, Finish(p, o)
  PROVE  /\ pc' \in [Providers -> Places]
         /\ ctx' \in [Providers -> {"none", "live"} \union CtxErrors]
         /\ outcome' \in [Providers -> Outcomes \union {"none"}]
<1>1. pc' \in [Providers -> Places] /\ outcome' \in [Providers -> Outcomes \union {"none"}]
  BY DEF Finish, TypeInv, Places, Running
<1>2. ctx' \in [Providers -> {"none", "live"} \union CtxErrors]
  <2>1. (IF ctx[p] = "live" THEN "Canceled" ELSE ctx[p]) \in {"none", "live"} \union CtxErrors
    BY DEF TypeInv, CtxErrors
  <2> QED
    BY <2>1 DEF Finish, TypeInv
<1> QED
  BY <1>1, <1>2

LEMMA DoneType ==
  ASSUME NEW p \in Providers, IsDone(p)
  PROVE  ctx[p] \in Outcomes
  BY DEF IsDone, Outcomes

LEMMA TypeStep == TypeInv /\ Decided /\ [Next]_vars => TypeInv'
<1> SUFFICES ASSUME TypeInv, Decided, [Next]_vars
             PROVE  TypeInv'
  OBVIOUS
<1> USE AggregatorAssumption
<1> USE DEF Places, Running
<1>1. CASE AllSpawned \/ WaitReturns \/ Finished \/ UNCHANGED vars
  BY <1>1 DEF AllSpawned, WaitReturns, Finished, vars, TypeInv
<1>2. CASE ParentDone
  BY <1>2 DEF ParentDone, TypeInv, CtxErrors
<1>3. ASSUME NEW p \in Providers, Spawn(p) \/ BackoffElapsed(p) \/ SendRequest(p)
      PROVE  TypeInv'
  BY <1>3 DEF Spawn, BackoffElapsed, SendRequest, TypeInv
<1>4. ASSUME NEW p \in Providers, Expire(p)
      PROVE  TypeInv'
  BY <1>4 DEF Expire, TypeInv, CtxErrors
<1>5. ASSUME NEW p \in Providers, Begin(p)
      PROVE  TypeInv'
  BY <1>5 DEF Begin, TypeInv
<1>6. ASSUME NEW p \in Providers, BackoffCancelled(p) \/ LimiterGivesUp(p)
      PROVE  TypeInv'
  BY <1>6, FinishType, DoneType DEF BackoffCancelled, LimiterGivesUp, TypeInv
<1>7. ASSUME NEW p \in Providers, LimiterGrants(p)
      PROVE  TypeInv'
  BY <1>7 DEF LimiterGrants, TypeInv
<1>8. ASSUME NEW p \in Providers, FetchOk(p)
      PROVE  TypeInv'
  <2>1. log' \in [Providers -> Seq({"ok", "failed", "aborted"})]
    BY <1>8 DEF FetchOk, TypeInv
  <2> QED
    BY <1>8, <2>1, FinishType DEF FetchOk, TypeInv, Outcomes
<1>9. ASSUME NEW p \in Providers, FetchFailed(p)
      PROVE  TypeInv'
  <2>1. log' \in [Providers -> Seq({"ok", "failed", "aborted"})]
    BY <1>9 DEF FetchFailed, TypeInv
  <2>2. CASE attempt[p] < MaxRetries
    <3>1. attempt[p] + 1 \in 0 .. MaxRetries
      BY <2>2 DEF TypeInv
    <3>2. attempt' \in [Providers -> 0 .. MaxRetries]
      BY <1>9, <2>2, <3>1 DEF FetchFailed, TypeInv
    <3>3. pc' \in [Providers -> Places]
      BY <1>9, <2>2 DEF FetchFailed, TypeInv
    <3> QED
      BY <1>9, <2>1, <2>2, <3>2, <3>3 DEF FetchFailed, TypeInv
  <2>3. CASE ~(attempt[p] < MaxRetries)
    BY <1>9, <2>1, <2>3, FinishType DEF FetchFailed, TypeInv, Outcomes
  <2> QED
    BY <2>2, <2>3
<1>10. ASSUME NEW p \in Providers, FetchAborted(p)
       PROVE  TypeInv'
  <2>1. log' \in [Providers -> Seq({"ok", "failed", "aborted"})]
    BY <1>10 DEF FetchAborted, TypeInv
  <2> QED
    BY <1>10, <2>1, FinishType, DoneType DEF FetchAborted, TypeInv
<1>11. ASSUME NEW p \in Providers, Exit(p)
       PROVE  TypeInv'
  BY <1>11 DEF Exit, TypeInv
<1>12. ASSUME NEW p \in Providers, WriteResult(p)
       PROVE  TypeInv'
  <2>1. outcome[p] \in Outcomes
    BY <1>12 DEF WriteResult, TypeInv, Decided
  <2> QED
    BY <1>12, <2>1 DEF WriteResult, TypeInv
<1> QED
  BY <1>1, <1>2, <1>3, <1>4, <1>5, <1>6, <1>7, <1>8, <1>9, <1>10, <1>11, <1>12
     DEF Next, Goroutine

LEMMA DecidedStep == TypeInv /\ Decided /\ [Next]_vars => Decided'
<1> SUFFICES ASSUME TypeInv, Decided, [Next]_vars, NEW q \in Providers
             PROVE  outcome'[q] # "none" <=> pc'[q] \in {"return", "written", "exited"}
  BY DEF Decided
<1> USE DEF TypeInv, Decided
<1>1. ASSUME NEW p \in Providers, NEW o \in Outcomes, Finish(p, o)
      PROVE  outcome'[q] # "none" <=> pc'[q] \in {"return", "written", "exited"}
  <2>1. o # "none"
    BY DEF Outcomes, CtxErrors
  <2> QED
    BY <1>1, <2>1 DEF Finish
<1>2. CASE UNCHANGED <<outcome, pc>>
  BY <1>2
<1>3. ASSUME NEW p \in Providers,
             \/ Spawn(p) \/ Begin(p) \/ BackoffElapsed(p) \/ LimiterGrants(p)
             \/ SendRequest(p) \/ WriteResult(p) \/ Exit(p)
      PROVE  outcome'[q] # "none" <=> pc'[q] \in {"return", "written", "exited"}
  BY <1>3 DEF Spawn, Begin, BackoffElapsed, LimiterGrants, SendRequest, WriteResult, Exit
<1>4. ASSUME NEW p \in Providers,
             BackoffCancelled(p) \/ LimiterGivesUp(p) \/ FetchAborted(p)
      PROVE  outcome'[q] # "none" <=> pc'[q] \in {"return", "written", "exited"}
  BY <1>1, <1>4, DoneType DEF BackoffCancelled, LimiterGivesUp, FetchAborted
<1>5. ASSUME NEW p \in Providers, FetchOk(p)
      PROVE  outcome'[q] # "none" <=> pc'[q] \in {"return", "written", "exited"}
  BY <1>1, <1>5 DEF FetchOk, Outcomes
<1>6. ASSUME NEW p \in Providers, FetchFailed(p)
      PROVE  outcome'[q] # "none" <=> pc'[q] \in {"return", "written", "exited"}
  <2>1. CASE attempt[p] < MaxRetries
    BY <1>6, <2>1 DEF FetchFailed
  <2>2. CASE ~(attempt[p] < MaxRetries)
    BY <1>1, <1>6, <2>2 DEF FetchFailed, Outcomes
  <2> QED
    BY <2>1, <2>2
<1>7. CASE AllSpawned \/ WaitReturns \/ ParentDone \/ Finished \/ UNCHANGED vars
  BY <1>2, <1>7 DEF AllSpawned, WaitReturns, ParentDone, Finished, vars
<1>8. ASSUME NEW p \in Providers, Expire(p)
      PROVE  outcome'[q] # "none" <=> pc'[q] \in {"return", "written", "exited"}
  BY <1>2, <1>8 DEF Expire
<1> QED
  BY <1>3, <1>4, <1>5, <1>6, <1>7, <1>8 DEF Next, Goroutine

-----------------------------------------------------------------------------
(* The WaitGroup                                                           *)

Alive == {p \in Providers : pc[p] \in Running}

LEMMA AliveFinite == IsFiniteSet(Alive) /\ Cardinality(Alive) \in Nat
<1>1. Alive \in SUBSET Providers
  BY DEF Alive
<1> QED
  BY <1>1, AggregatorAssumption, FS_Subset, FS_CardinalityType

LEMMA WaitGroupStep ==
  TypeInv /\ WaitGroupCounts /\ [Next]_vars => WaitGroupCounts'
<1> SUFFICES ASSUME TypeInv, WaitGroupCounts, [Next]_vars
             PROVE  wg' = Cardinality(Alive')
  BY DEF WaitGroupCounts, Alive
<1> USE DEF TypeInv
<1>0. wg = Cardinality(Alive)
  BY DEF WaitGroupCounts, Alive
<1>1. ASSUME NEW p \in Providers, Spawn(p)
      PROVE  wg' = Cardinality(Alive')
  <2>1. p \notin Alive /\ Alive' = Alive \union {p}
    BY <1>1 DEF Spawn, Alive, Running
  <2> QED
    BY <1>0, <1>1, <2>1, AliveFinite, FS_AddElement DEF Spawn
<1>2. ASSUME NEW p \in Providers, Exit(p)
      PROVE  wg' = Cardinality(Alive')
  <2>1. p \in Alive /\ Alive' = Alive \ {p}
    BY <1>2 DEF Exit, Alive, Running
  <2> QED
    BY <1>0, <1>2, <2>1, AliveFinite, FS_RemoveElement DEF Exit
<1>3. CASE wg' = wg /\ \A q \in Providers : pc'[q] \in Running <=> pc[q] \in Running
  <2>1. Alive' = Alive
    BY <1>3 DEF Alive
  <2> QED
    BY <1>0, <1>3, <2>1
<1>4. CASE AllSpawned \/ WaitReturns \/ ParentDone \/ Finished \/ UNCHANGED vars
  BY <1>3, <1>4 DEF AllSpawned, WaitReturns, ParentDone, Finished, vars
<1>5. ASSUME NEW p \in Providers,
             \/ Begin(p) \/ BackoffElapsed(p) \/ BackoffCancelled(p)
             \/ LimiterGrants(p) \/ LimiterGivesUp(p) \/ SendRequest(p)
             \/ FetchOk(p) \/ FetchAborted(p) \/ WriteResult(p) \/ Expire(p)
      PROVE  wg' = wg /\ \A q \in Providers : pc'[q] \in Running <=> pc[q] \in Running
  BY <1>5 DEF Begin, BackoffElapsed, BackoffCancelled, LimiterGrants, LimiterGivesUp,
              SendRequest, FetchOk, FetchAborted, WriteResult, Expire, Finish, Running
<1>6. ASSUME NEW p \in Providers, FetchFailed(p)
      PROVE  wg' = wg /\ \A q \in Providers : pc'[q] \in Running <=> pc[q] \in Running
  BY <1>6 DEF FetchFailed, Finish, Running
<1> QED
  BY <1>1, <1>2, <1>3, <1>4, <1>5, <1>6 DEF Next, Goroutine

LEMMA WaitGroupInit == Init => WaitGroupCounts
<1> SUFFICES ASSUME Init
             PROVE  wg = Cardinality(Alive)
  BY DEF WaitGroupCounts, Alive
<1>1. Alive = {}
  BY DEF Init, Alive, Running
<1> QED
  BY <1>1, FS_EmptySet DEF Init

LEMMA TypeParts == TypeInv /\ WaitGroupCounts => TypeOK
  BY AliveFinite DEF TypeInv, WaitGroupCounts, Alive, TypeOK

\* The counter of the WaitGroup is the number of goroutines that have not run
\* wg.Done; in particular it is never negative, which would be a panic.
THEOREM WaitGroupCorrect == Spec => []WaitGroupCounts
<1> DEFINE IInv == TypeInv /\ Decided /\ WaitGroupCounts
<1>1. Init => IInv
  BY TypeInit, WaitGroupInit
<1>2. IInv /\ [Next]_vars => IInv'
  BY TypeStep, DecidedStep, WaitGroupStep
<1> QED
  BY <1>1, <1>2, PTL DEF Spec

\* Every state of Aggregate is well typed.
THEOREM TypeCorrect == Spec => []TypeOK
<1> DEFINE IInv == TypeInv /\ Decided /\ WaitGroupCounts
<1>1. Init => IInv
  BY TypeInit, WaitGroupInit
<1>2. IInv /\ [Next]_vars => IInv'
  BY TypeStep, DecidedStep, WaitGroupStep
<1>3. IInv => TypeOK
  BY TypeParts
<1> QED
  BY <1>1, <1>2, <1>3, PTL DEF Spec

-----------------------------------------------------------------------------
(* The result slice, and what Aggregate promises                           *)

\* A slot is written once, by its goroutine, before that goroutine exits.
Slots ==
    \A p \in Providers :
        results[p] = IF pc[p] \in {"written", "exited"} THEN outcome[p] ELSE Zero

\* Every provider has its goroutine once the loop is over.
Launched == main # "spawn" => \A p \in Providers : pc[p] # "unborn"

Joined == main = "returned" => \A p \in Providers : pc[p] = "exited"

Inv ==
    /\ TypeInv /\ Decided /\ WaitGroupCounts
    /\ Slots /\ Launched /\ Joined

LEMMA InitInv == Init => Inv
<1>1. Init => Slots /\ Launched /\ Joined
  BY DEF Init, Slots, Launched, Joined
<1> QED
  BY <1>1, TypeInit, WaitGroupInit DEF Inv

\* What a step does to a goroutine and to its slot.
LEMMA GoroutineStep ==
  ASSUME TypeInv, [Next]_vars, NEW q \in Providers
  PROVE  \/ UNCHANGED <<pc[q], outcome[q], results[q]>>
         \/ /\ pc[q] = "unborn" /\ main = "spawn"
            /\ pc'[q] = "start" /\ UNCHANGED <<outcome[q], results[q]>>
         \/ /\ pc[q] \notin {"unborn", "return", "written", "exited"}
            /\ pc'[q] \notin {"unborn", "written", "exited"}
            /\ UNCHANGED results[q]
         \/ /\ pc[q] = "return" /\ pc'[q] = "written"
            /\ results'[q] = outcome[q] /\ UNCHANGED outcome[q]
         \/ /\ pc[q] = "written" /\ pc'[q] = "exited"
            /\ UNCHANGED <<outcome[q], results[q]>>
<1> USE DEF TypeInv
<1>1. CASE AllSpawned \/ WaitReturns \/ ParentDone \/ Finished \/ UNCHANGED vars
  BY <1>1 DEF AllSpawned, WaitReturns, ParentDone, Finished, vars
<1>2. CASE \E p \in Providers : Spawn(p) \/ WriteResult(p) \/ Exit(p) \/ Expire(p)
  BY <1>2 DEF Spawn, WriteResult, Exit, Expire
<1>3. CASE \E p \in Providers :
              \/ Begin(p) \/ BackoffElapsed(p) \/ BackoffCancelled(p)
              \/ LimiterGrants(p) \/ LimiterGivesUp(p) \/ SendRequest(p)
  BY <1>3 DEF Begin, BackoffElapsed, BackoffCancelled, LimiterGrants, LimiterGivesUp,
              SendRequest, Finish
<1>4. CASE \E p \in Providers : FetchOk(p) \/ FetchFailed(p) \/ FetchAborted(p)
  BY <1>4 DEF FetchOk, FetchFailed, FetchAborted, Finish
<1> QED
  BY <1>1, <1>2, <1>3, <1>4 DEF Next, Goroutine

\* When wg.Wait returns every goroutine has run its wg.Done.
LEMMA WaitMeansJoined ==
  ASSUME Inv, WaitReturns
  PROVE  \A p \in Providers : pc[p] = "exited"
<1>1. Alive = {}
  BY AliveFinite, AggregatorAssumption, FS_EmptySet, FS_Subset
     DEF Inv, WaitGroupCounts, WaitReturns, Alive
<1> QED
  BY <1>1 DEF Inv, Launched, TypeInv, WaitReturns, Alive, Places

\* Only the calling goroutine moves main.
LEMMA MainStep ==
  ASSUME [Next]_vars
  PROVE  \/ main' = main
         \/ AllSpawned
         \/ WaitReturns
  BY DEF Next, Goroutine, ParentDone, Finished, Spawn, Expire, vars,
         Begin, BackoffElapsed, BackoffCancelled, LimiterGrants, LimiterGivesUp,
         SendRequest, FetchOk, FetchFailed, FetchAborted, WriteResult, Exit

LEMMA InvStep == Inv /\ [Next]_vars => Inv'
<1> SUFFICES ASSUME Inv, [Next]_vars
             PROVE  Inv'
  OBVIOUS
<1>1. TypeInv' /\ Decided' /\ WaitGroupCounts'
  BY TypeStep, DecidedStep, WaitGroupStep DEF Inv
<1>2. Slots'
  <2> SUFFICES ASSUME NEW q \in Providers
               PROVE  results'[q] = IF pc'[q] \in {"written", "exited"}
                                    THEN outcome'[q] ELSE Zero
    BY DEF Slots
  <2>1. results[q] = IF pc[q] \in {"written", "exited"} THEN outcome[q] ELSE Zero
    BY DEF Inv, Slots
  <2> QED
    BY <2>1, GoroutineStep DEF Inv
<1>3. Launched'
  <2>1. CASE AllSpawned
    BY <2>1 DEF AllSpawned, Launched
  <2>2. CASE WaitReturns
    BY <2>2 DEF WaitReturns, Launched, Inv
  <2>3. CASE main' = main
    BY <2>3, GoroutineStep DEF Launched, Inv
  <2> QED
    BY <2>1, <2>2, <2>3, MainStep
<1>4. Joined'
  <2>1. CASE AllSpawned
    BY <2>1 DEF AllSpawned, Joined
  <2>2. CASE WaitReturns
    BY <2>2, WaitMeansJoined DEF WaitReturns, Joined
  <2>3. CASE main' = main
    BY <2>3, GoroutineStep DEF Joined, Inv
  <2> QED
    BY <2>1, <2>2, <2>3, MainStep
<1> QED
  BY <1>1, <1>2, <1>3, <1>4 DEF Inv

\* The slice Aggregate returns holds the outcome of every provider.
THEOREM ResultsComplete == Spec => []ReturnedComplete
<1>1. Inv => ReturnedComplete
  BY DEF Inv, Decided, Slots, Joined, ReturnedComplete
<1> QED
  BY <1>1, InitInv, InvStep, PTL DEF Spec

LEMMA StepRefines == Inv /\ [Next]_vars => [Promise!Next]_(Promise!vars)
<1> SUFFICES ASSUME Inv, [Next]_vars
             PROVE  [Promise!Next]_(Promise!vars)
  OBVIOUS
<1> USE DEF Promise!Next, Promise!Settle, Promise!Return, Promise!vars
<1>1. CASE WaitReturns
  <2>1. \A p \in Providers : results[p] # Zero
    BY <1>1, WaitMeansJoined DEF Inv, Slots, Decided, TypeInv, Outcomes, CtxErrors, Zero
  <2> QED
    BY <1>1, <2>1 DEF WaitReturns
<1>2. ASSUME NEW p \in Providers, WriteResult(p)
      PROVE  Promise!Settle(p)
  <2>1. main # "returned" /\ results[p] = Zero
    BY <1>2 DEF WriteResult, Inv, Joined, Slots
  <2>2. outcome[p] \in Outcomes
    BY <1>2 DEF WriteResult, Inv, Decided, TypeInv
  <2> QED
    BY <1>2, <2>1, <2>2 DEF WriteResult
<1>3. CASE results' = results /\ (main' = "returned" <=> main = "returned")
  BY <1>3
<1>4. CASE AllSpawned \/ ParentDone \/ Finished \/ UNCHANGED vars
  BY <1>3, <1>4 DEF AllSpawned, ParentDone, Finished, vars
<1>5. ASSUME NEW p \in Providers,
             \/ Spawn(p) \/ Expire(p)
             \/ Begin(p) \/ BackoffElapsed(p) \/ BackoffCancelled(p)
             \/ LimiterGrants(p) \/ LimiterGivesUp(p) \/ SendRequest(p)
             \/ FetchOk(p) \/ FetchFailed(p) \/ FetchAborted(p) \/ Exit(p)
      PROVE  results' = results /\ main' = main
  BY <1>5 DEF Spawn, Expire, Begin, BackoffElapsed, BackoffCancelled, LimiterGrants,
              LimiterGivesUp, SendRequest, FetchOk, FetchFailed, FetchAborted, Exit
<1> QED
  BY <1>1, <1>2, <1>3, <1>4, <1>5 DEF Next, Goroutine

\* Aggregate implements the safety part of FanOut: a slot is settled once, the
\* slice is returned when every slot is, and nothing writes to it afterwards.
THEOREM RefinesFanOut == Spec => Promise!Spec
<1>1. Init => Promise!Init
  BY DEF Init, Promise!Init
<1> QED
  BY <1>1, InitInv, InvStep, StepRefines, PTL DEF Spec, Promise!Spec

-----------------------------------------------------------------------------
(* Outcomes                                                                *)

\* Until callWithRetry returns, pCtx is Canceled only because ctx was.
CtxOrigin ==
    \A p \in Providers :
        outcome[p] = "none" /\ ctx[p] = "Canceled" => parent = "Canceled"

\* OutcomeJustified of one provider.
Justified(p) ==
    /\ outcome[p] = "none" => log[p] = Failures(attempt[p])
    /\ outcome[p] = "ok" => log[p] = Append(Failures(attempt[p]), "ok")
    /\ outcome[p] = "failed" => log[p] = Failures(MaxRetries + 1)
    /\ outcome[p] \in CtxErrors =>
        /\ log[p] \in {Failures(attempt[p]), Append(Failures(attempt[p]), "aborted")}
        /\ ctx[p] = outcome[p]
        /\ outcome[p] = "Canceled" => parent = "Canceled"

LEMMA JustifiedAll == OutcomeJustified <=> \A p \in Providers : Justified(p)
  BY DEF OutcomeJustified, Justified

OutcomeInv == TypeInv /\ Decided /\ CtxOrigin /\ OutcomeJustified

LEMMA CtxOriginStep == OutcomeInv /\ [Next]_vars => CtxOrigin'
<1> SUFFICES ASSUME OutcomeInv, [Next]_vars, NEW q \in Providers,
                    outcome'[q] = "none", ctx'[q] = "Canceled"
             PROVE  parent' = "Canceled"
  BY DEF CtxOrigin
<1> USE DEF OutcomeInv, TypeInv, CtxOrigin
<1>1. CASE AllSpawned \/ WaitReturns \/ ParentDone \/ Finished \/ UNCHANGED vars
  BY <1>1 DEF AllSpawned, WaitReturns, ParentDone, Finished, vars, CtxErrors
<1>2. ASSUME NEW p \in Providers,
             \/ Spawn(p) \/ Expire(p) \/ Begin(p) \/ BackoffElapsed(p)
             \/ LimiterGrants(p) \/ SendRequest(p) \/ WriteResult(p) \/ Exit(p)
      PROVE  parent' = "Canceled"
  BY <1>2 DEF Spawn, Expire, Begin, BackoffElapsed, LimiterGrants, SendRequest,
              WriteResult, Exit
<1>3. ASSUME NEW p \in Providers, NEW o \in Outcomes, Finish(p, o), parent' = parent
      PROVE  parent' = "Canceled"
  <2>1. o # "none"
    BY DEF Outcomes, CtxErrors
  <2> QED
    BY <1>3, <2>1 DEF Finish
<1>4. ASSUME NEW p \in Providers,
             BackoffCancelled(p) \/ LimiterGivesUp(p) \/ FetchAborted(p) \/ FetchOk(p)
      PROVE  parent' = "Canceled"
  BY <1>3, <1>4, DoneType
     DEF BackoffCancelled, LimiterGivesUp, FetchAborted, FetchOk, Outcomes
<1>5. ASSUME NEW p \in Providers, FetchFailed(p)
      PROVE  parent' = "Canceled"
  BY <1>3, <1>5 DEF FetchFailed, Outcomes
<1> QED
  BY <1>1, <1>2, <1>4, <1>5 DEF Next, Goroutine

\* A context that is done keeps its error, and the request stays cancelled.
LEMMA DoneIsFinal ==
  ASSUME TypeInv, Decided, [Next]_vars, NEW q \in Providers, outcome[q] # "none"
  PROVE  /\ ctx[q] \in CtxErrors => ctx'[q] = ctx[q]
         /\ parent = "Canceled" => parent' = "Canceled"
         /\ UNCHANGED <<outcome[q], log[q], attempt[q]>>
<1> USE DEF TypeInv, Decided
<1>1. CASE AllSpawned \/ WaitReturns \/ ParentDone \/ Finished \/ UNCHANGED vars
  BY <1>1 DEF AllSpawned, WaitReturns, ParentDone, Finished, vars, CtxErrors
<1>2. CASE \E p \in Providers :
              \/ Spawn(p) \/ Expire(p) \/ Begin(p) \/ BackoffElapsed(p)
              \/ LimiterGrants(p) \/ SendRequest(p) \/ WriteResult(p) \/ Exit(p)
  BY <1>2 DEF Spawn, Expire, Begin, BackoffElapsed, LimiterGrants, SendRequest,
              WriteResult, Exit, CtxErrors
<1>3. CASE \E p \in Providers :
              BackoffCancelled(p) \/ LimiterGivesUp(p)
  BY <1>3 DEF BackoffCancelled, LimiterGivesUp, Finish
<1>4. CASE \E p \in Providers : FetchAborted(p) \/ FetchOk(p)
  BY <1>4 DEF FetchAborted, FetchOk, Finish
<1>5. ASSUME NEW p \in Providers, FetchFailed(p)
      PROVE  /\ parent' = parent
             /\ ctx[q] \in CtxErrors => ctx'[q] = ctx[q]
             /\ UNCHANGED <<outcome[q], log[q], attempt[q]>>
  <2>1. parent' = parent /\ p # q
    BY <1>5 DEF FetchFailed
  <2>2. ctx'[q] = ctx[q]
    BY <1>5, <2>1 DEF FetchFailed, Finish
  <2>3. UNCHANGED <<outcome[q], log[q], attempt[q]>>
    BY <1>5, <2>1 DEF FetchFailed, Finish
  <2> QED
    BY <2>1, <2>2, <2>3
<1> QED
  BY <1>1, <1>2, <1>3, <1>4, <1>5 DEF Next, Goroutine

LEMMA JustifiedStep ==
  ASSUME OutcomeInv, [Next]_vars, NEW q \in Providers
  PROVE  Justified(q)'
<1> USE DEF OutcomeInv
<1>0. Justified(q)
  BY JustifiedAll
<1>1. CASE outcome[q] # "none"
  BY <1>0, <1>1, DoneIsFinal DEF Justified, CtxErrors
<1>2. CASE outcome[q] = "none" /\ UNCHANGED <<outcome[q], log[q], attempt[q]>>
  BY <1>0, <1>2 DEF Justified, CtxErrors
<1>3. ASSUME FetchOk(q), outcome[q] = "none"
      PROVE  Justified(q)'
  <2>1. /\ outcome'[q] = "ok" /\ attempt'[q] = attempt[q]
        /\ log'[q] = Append(log[q], "ok")
    BY <1>3 DEF FetchOk, Finish, TypeInv
  <2> QED
    BY <1>0, <1>3, <2>1 DEF Justified, CtxErrors
<1>4. ASSUME FetchFailed(q), outcome[q] = "none"
      PROVE  Justified(q)'
  <2>1. attempt[q] \in 0 .. MaxRetries /\ MaxRetries \in Nat
    BY AggregatorAssumption DEF TypeInv
  <2>2. log'[q] = Failures(attempt[q] + 1)
    <3>1. log'[q] = Append(log[q], "failed")
      BY <1>4 DEF FetchFailed, TypeInv
    <3>2. log[q] = Failures(attempt[q])
      BY <1>0, <1>4 DEF Justified
    <3>3. Append(Failures(attempt[q]), "failed") = Failures(attempt[q] + 1)
      <4>1. attempt[q] \in Nat
        BY <2>1
      <4> QED
        BY <4>1, OneMoreFailure, Zenon
    <3> QED
      BY <3>1, <3>2, <3>3
  <2>3. CASE attempt[q] < MaxRetries
    <3>1. outcome'[q] = "none" /\ attempt'[q] = attempt[q] + 1
      BY <1>4, <2>3 DEF FetchFailed, TypeInv
    <3> QED
      BY <2>2, <3>1 DEF Justified, CtxErrors
  <2>4. CASE attempt[q] = MaxRetries
    <3>1. outcome'[q] = "failed"
      BY <1>4, <2>1, <2>4 DEF FetchFailed, Finish, TypeInv
    <3> QED
      BY <2>2, <2>4, <3>1 DEF Justified, CtxErrors
  <2> QED
    BY <2>1, <2>3, <2>4
<1>5. ASSUME BackoffCancelled(q) \/ LimiterGivesUp(q) \/ FetchAborted(q),
             outcome[q] = "none"
      PROVE  Justified(q)'
  <2>1. /\ outcome'[q] = ctx[q] /\ ctx'[q] = ctx[q] /\ attempt'[q] = attempt[q]
        /\ log'[q] \in {log[q], Append(log[q], "aborted")}
        /\ parent' = parent
        /\ ctx[q] \in CtxErrors
    BY <1>5 DEF BackoffCancelled, LimiterGivesUp, FetchAborted, Finish, TypeInv,
                IsDone, CtxErrors
  <2>2. ctx[q] = "Canceled" => parent = "Canceled"
    BY <1>5 DEF CtxOrigin
  <2> QED
    BY <1>0, <1>5, <2>1, <2>2 DEF Justified, CtxErrors
<1>6. \/ UNCHANGED <<outcome[q], log[q], attempt[q]>>
      \/ FetchOk(q) \/ FetchFailed(q)
      \/ BackoffCancelled(q) \/ LimiterGivesUp(q) \/ FetchAborted(q)
  <2>1. CASE AllSpawned \/ WaitReturns \/ ParentDone \/ Finished \/ UNCHANGED vars
    BY <2>1 DEF AllSpawned, WaitReturns, ParentDone, Finished, vars
  <2>2. CASE \E p \in Providers :
                \/ Spawn(p) \/ Expire(p) \/ Begin(p) \/ BackoffElapsed(p)
                \/ LimiterGrants(p) \/ SendRequest(p) \/ WriteResult(p) \/ Exit(p)
    BY <2>2 DEF Spawn, Expire, Begin, BackoffElapsed, LimiterGrants, SendRequest,
                WriteResult, Exit
  <2>3. ASSUME NEW p \in Providers, p # q,
               \/ BackoffCancelled(p) \/ LimiterGivesUp(p) \/ FetchAborted(p)
               \/ FetchOk(p) \/ FetchFailed(p)
        PROVE  UNCHANGED <<outcome[q], log[q], attempt[q]>>
    BY <2>3 DEF BackoffCancelled, LimiterGivesUp, FetchAborted, FetchOk, FetchFailed,
                Finish, TypeInv
  <2> QED
    BY <2>1, <2>2, <2>3 DEF Next, Goroutine
<1> QED
  BY <1>1, <1>2, <1>3, <1>4, <1>5, <1>6

\* A provider's success is its last answer, it is given up after exactly
\* MaxRetries + 1 failures, and a context error is that of its context.
THEOREM OutcomesJustified == Spec => []OutcomeJustified
<1>1. Init => OutcomeInv
  BY TypeInit, NoFailures
     DEF OutcomeInv, Init, CtxOrigin, OutcomeJustified, CtxErrors
<1>2. OutcomeInv /\ [Next]_vars => OutcomeInv'
  <2> SUFFICES ASSUME OutcomeInv, [Next]_vars
               PROVE  OutcomeInv'
    OBVIOUS
  <2>1. \A q \in Providers : Justified(q)'
    BY JustifiedStep
  <2>2. OutcomeJustified'
    <3>1. (\A q \in Providers : Justified(q))'
      BY <2>1
    <3>2. OutcomeJustified' <=> (\A q \in Providers : Justified(q))'
      BY DEF OutcomeJustified, Justified
    <3> QED
      BY <3>1, <3>2
  <2> QED
    BY <2>2, TypeStep, DecidedStep, CtxOriginStep DEF OutcomeInv
<1> QED
  BY <1>1, <1>2, PTL DEF Spec, OutcomeInv

-----------------------------------------------------------------------------
(* Late tokens                                                             *)

\* A goroutine that took a token with pCtx done is about to find it out.
LateLeaves ==
    \A p \in Providers :
        \/ late[p] = 0
        \/ /\ late[p] = 1
           /\ \/ pc[p] = "call" /\ IsDone(p)
              \/ pc[p] \in {"return", "written", "exited"}

LEMMA LateStep == TypeInv /\ Decided /\ LateLeaves /\ [Next]_vars => LateLeaves'
<1> SUFFICES ASSUME TypeInv, Decided, LateLeaves, [Next]_vars, NEW q \in Providers
             PROVE  LateLeaves!(q)'
  BY DEF LateLeaves
<1> USE DEF TypeInv, IsDone
<1>0. LateLeaves!(q)
  BY DEF LateLeaves
<1>1. CASE AllSpawned \/ WaitReturns \/ ParentDone \/ Finished \/ UNCHANGED vars
  BY <1>0, <1>1 DEF AllSpawned, WaitReturns, ParentDone, Finished, vars, CtxErrors
<1>2. CASE \E p \in Providers : \/ Spawn(p) \/ Expire(p) \/ Begin(p) \/ BackoffElapsed(p)
                                \/ WriteResult(p) \/ Exit(p)
  BY <1>0, <1>2 DEF Spawn, Expire, Begin, BackoffElapsed, WriteResult, Exit, CtxErrors
<1>3. CASE \E p \in Providers : LimiterGrants(p) \/ SendRequest(p)
  BY <1>0, <1>3 DEF LimiterGrants, SendRequest
<1>4. CASE \E p \in Providers : BackoffCancelled(p) \/ LimiterGivesUp(p)
  BY <1>0, <1>4 DEF BackoffCancelled, LimiterGivesUp, Finish
<1>5. CASE \E p \in Providers : FetchAborted(p) \/ FetchOk(p) \/ FetchFailed(p)
  BY <1>0, <1>5 DEF FetchAborted, FetchOk, FetchFailed, Finish
<1> QED
  BY <1>1, <1>2, <1>3, <1>4, <1>5 DEF Next, Goroutine

\* A search that is cancelled or out of time takes one token more at most from
\* the limiter of each provider.
THEOREM LateTokens == Spec => []OneLateToken
<1> DEFINE IInv == TypeInv /\ Decided /\ LateLeaves
<1>1. Init => IInv
  BY TypeInit DEF Init, LateLeaves
<1>2. IInv /\ [Next]_vars => IInv'
  BY TypeStep, DecidedStep, LateStep
<1>3. IInv => OneLateToken
  BY DEF LateLeaves, OneLateToken
<1> QED
  BY <1>1, <1>2, <1>3, PTL DEF Spec

-----------------------------------------------------------------------------
(* The goroutines as RetryLoop has their calls                             *)

\* A goroutine that has yet to call has neither an attempt nor a context, and one
\* that is in the loop has one.
Fresh ==
    \A p \in Providers :
        /\ pc[p] \in {"unborn", "start"} => attempt[p] = 0 /\ ctx[p] = "none"
        /\ pc[p] \in {"limit", "call", "inflight", "backoff"} => ctx[p] # "none"

LoopInv == TypeInv /\ Decided /\ Fresh

LEMMA FreshStep == LoopInv /\ [Next]_vars => Fresh'
<1> SUFFICES ASSUME LoopInv, [Next]_vars
             PROVE  Fresh'
  OBVIOUS
<1> USE DEF LoopInv, TypeInv, Fresh
<1>1. CASE AllSpawned \/ WaitReturns \/ Finished \/ UNCHANGED vars
  BY <1>1 DEF AllSpawned, WaitReturns, Finished, vars
<1>2. CASE ParentDone
  BY <1>2 DEF ParentDone, CtxErrors
<1>3. ASSUME NEW p \in Providers,
             \/ Spawn(p) \/ BackoffElapsed(p) \/ LimiterGrants(p)
             \/ SendRequest(p) \/ WriteResult(p) \/ Exit(p)
      PROVE  Fresh'
  BY <1>3 DEF Spawn, BackoffElapsed, LimiterGrants, SendRequest, WriteResult, Exit
<1>4. ASSUME NEW p \in Providers, Begin(p)
      PROVE  Fresh'
  BY <1>4 DEF Begin, CtxErrors
<1>5. ASSUME NEW p \in Providers, Expire(p)
      PROVE  Fresh'
  BY <1>5 DEF Expire
<1>6. ASSUME NEW p \in Providers,
             \/ BackoffCancelled(p) \/ LimiterGivesUp(p) \/ FetchOk(p) \/ FetchAborted(p)
      PROVE  Fresh'
  BY <1>6 DEF BackoffCancelled, LimiterGivesUp, FetchOk, FetchAborted, Finish
<1>7. ASSUME NEW p \in Providers, FetchFailed(p)
      PROVE  Fresh'
  <2>1. CASE attempt[p] < MaxRetries
    BY <1>7, <2>1 DEF FetchFailed
  <2>2. CASE ~(attempt[p] < MaxRetries)
    BY <1>7, <2>2 DEF FetchFailed, Finish
  <2> QED
    BY <2>1, <2>2
<1> QED
  BY <1>1, <1>2, <1>3, <1>4, <1>5, <1>6, <1>7 DEF Next, Goroutine

\* What a step of p does to the variables of RetryLoop.
LEMMA MappedStep ==
  ASSUME NEW p \in Providers,
         \A q \in Providers \ {p} : UNCHANGED <<pc[q], attempt[q], ctx[q]>>
  PROVE  /\ [q \in Providers |-> Phase(q)]' = [[q \in Providers |-> Phase(q)] EXCEPT ![p] = Phase(p)']
         /\ [q \in Providers |-> Sent(q)]' = [[q \in Providers |-> Sent(q)] EXCEPT ![p] = Sent(p)']
         /\ [q \in Providers |-> IsDone(q)]'
                = [[q \in Providers |-> IsDone(q)] EXCEPT ![p] = IsDone(p)']
  BY DEF Phase, Sent, IsDone

\* callWithRetry returns, and its deferred cancel ends a context that is live.
LEMMA LoopReturns ==
  ASSUME LoopInv, NEW p \in Providers, NEW o, Finish(p, o), UNCHANGED attempt,
         pc[p] \in {"limit", "call", "inflight", "backoff"}
  PROVE  Loop!Return(p, o) /\ IsDone(p)'
<1>1. /\ pc'[p] = "return" /\ ctx'[p] \in CtxErrors
      /\ outcome' = [outcome EXCEPT ![p] = o]
      /\ \A q \in Providers \ {p} : pc'[q] = pc[q] /\ ctx'[q] = ctx[q]
  BY DEF Finish, LoopInv, TypeInv, Fresh, CtxErrors
<1>2. Phase(p)' = "idle" /\ Sent(p)' = 0 /\ IsDone(p)' = TRUE
  BY <1>1 DEF Phase, Sent, IsDone
<1> QED
  BY <1>1, <1>2, MappedStep DEF Loop!Return, Loop!Goto

\* It returns the error of its context.
LEMMA LoopAbandons ==
  ASSUME LoopInv, NEW p \in Providers, IsDone(p), Finish(p, ctx[p]), UNCHANGED attempt,
         pc[p] \in {"limit", "call", "inflight", "backoff"}
  PROVE  Loop!Abandon(p)
<1>1. Loop!Return(p, ctx[p]) /\ IsDone(p)'
  BY LoopReturns
<1>2. Phase(p) # "idle" /\ ctx[p] \in CtxErrors
  BY DEF Phase, IsDone
<1> QED
  BY <1>1, <1>2 DEF Loop!Abandon

LEMMA StepOfLoop == LoopInv /\ [Next]_vars => [Loop!Next]_(Loop!vars)
<1> SUFFICES ASSUME LoopInv, [Next]_vars
             PROVE  [Loop!Next]_(Loop!vars)
  OBVIOUS
<1> USE DEF LoopInv, Loop!Next
<1>1. CASE AllSpawned \/ WaitReturns \/ Finished \/ UNCHANGED vars
  <2>1. UNCHANGED <<pc, ctx, attempt, outcome>>
    BY <1>1 DEF AllSpawned, WaitReturns, Finished, vars
  <2> QED
    BY <2>1 DEF Loop!vars, Phase, Sent, IsDone
<1>2. CASE ParentDone
  <2> DEFINE live == {p \in Providers : ctx[p] = "live"}
  <2>1. UNCHANGED <<pc, attempt, outcome>>
    BY <1>2 DEF ParentDone
  <2>2. \A p \in Providers : IsDone(p)' <=> IsDone(p) \/ p \in live
    BY <1>2 DEF ParentDone, IsDone, TypeInv, CtxErrors
  <2>3. [p \in Providers |-> IsDone(p)]' = [p \in Providers |-> IsDone(p) \/ p \in live]
    <3> HIDE DEF live
    <3> QED
      BY <2>2 DEF IsDone
  <2>4. Loop!CtxDone(live)
    BY <2>1, <2>3 DEF Loop!CtxDone, Phase, Sent
  <2>5. live \in SUBSET Providers
    OBVIOUS
  <2> QED
    BY <2>4, <2>5
<1>3. ASSUME NEW p \in Providers, Expire(p)
      PROVE  Loop!CtxDone({p})
  <2>1. /\ UNCHANGED <<pc, attempt, outcome>> /\ IsDone(p)'
        /\ \A q \in Providers \ {p} : ctx'[q] = ctx[q]
    BY <1>3 DEF Expire, TypeInv, IsDone, CtxErrors
  <2>2. [q \in Providers |-> IsDone(q)]' = [q \in Providers |-> IsDone(q) \/ q \in {p}]
    BY <2>1 DEF IsDone
  <2> QED
    BY <2>1, <2>2 DEF Loop!CtxDone, Phase, Sent
<1>4. ASSUME NEW p \in Providers,
             Spawn(p) \/ BackoffElapsed(p) \/ LimiterGrants(p) \/ WriteResult(p) \/ Exit(p)
      PROVE  UNCHANGED Loop!vars
  <2>1. /\ UNCHANGED <<attempt, outcome, ctx>>
        /\ \A q \in Providers \ {p} : pc'[q] = pc[q]
    BY <1>4 DEF Spawn, BackoffElapsed, LimiterGrants, WriteResult, Exit, TypeInv
  <2>2. UNCHANGED <<Phase(p), Sent(p), IsDone(p)>>
    BY <1>4, <2>1 DEF Spawn, BackoffElapsed, LimiterGrants, WriteResult, Exit, TypeInv,
                      Phase, Sent, IsDone
  <2> QED
    BY <2>1, <2>2, MappedStep DEF Loop!vars
<1>5. ASSUME NEW p \in Providers, Begin(p)
      PROVE  Loop!Begin(p)
  <2>1. /\ pc[p] = "start" /\ pc'[p] = "limit" /\ attempt' = attempt /\ attempt[p] = 0
        /\ outcome' = outcome /\ outcome[p] = "none"
        /\ \A q \in Providers \ {p} : pc'[q] = pc[q] /\ ctx'[q] = ctx[q]
    BY <1>5 DEF Begin, TypeInv, Fresh, Decided
  <2>2. Phase(p) = "idle" /\ Phase(p)' = "pausing" /\ Sent(p) = 0 /\ Sent(p)' = 0
    BY <2>1 DEF Phase, Sent
  <2>3. \A q \in Providers \ {p} : Sent(q)' = Sent(q)
    BY <2>1 DEF Sent
  <2>4. UNCHANGED [q \in Providers |-> Sent(q)]
    BY <2>2, <2>3
  <2>5. outcome' = [outcome EXCEPT ![p] = "none"]
    BY <2>1 DEF TypeInv
  <2>6. IsDone(p)' \in BOOLEAN
    BY DEF IsDone
  <2> QED
    BY <2>1, <2>2, <2>4, <2>5, <2>6, MappedStep DEF Loop!Begin, Loop!Goto
<1>6. ASSUME NEW p \in Providers, SendRequest(p)
      PROVE  Loop!Send(p)
  <2>1. /\ pc[p] = "call" /\ pc'[p] = "inflight" /\ ~IsDone(p)
        /\ UNCHANGED <<attempt, outcome, ctx>>
        /\ \A q \in Providers \ {p} : pc'[q] = pc[q]
    BY <1>6 DEF SendRequest, TypeInv
  <2>2. /\ Phase(p) = "pausing" /\ Phase(p)' = "fetching"
        /\ Sent(p) = attempt[p] /\ Sent(p)' = attempt[p] + 1
    BY <2>1 DEF Phase, Sent
  <2>3. attempt[p] <= MaxRetries
    BY AggregatorAssumption DEF TypeInv
  <2>4. UNCHANGED [q \in Providers |-> IsDone(q)]
    BY <2>1 DEF IsDone
  <2> QED
    BY <2>1, <2>2, <2>3, <2>4, MappedStep DEF Loop!Send, Loop!Goto
<1>7. ASSUME NEW p \in Providers, FetchOk(p)
      PROVE  Loop!Succeed(p)
  <2>1. pc[p] = "inflight" /\ Finish(p, "ok") /\ UNCHANGED attempt
    BY <1>7 DEF FetchOk
  <2>2. Loop!Return(p, "ok") /\ Phase(p) = "fetching"
    BY <2>1, LoopReturns DEF Phase
  <2> QED
    BY <2>2 DEF Loop!Succeed
<1>8. ASSUME NEW p \in Providers, FetchFailed(p)
      PROVE  Loop!TryAgain(p) \/ Loop!Fail(p)
  <2>1. pc[p] = "inflight" /\ attempt[p] \in 0 .. MaxRetries
    BY <1>8 DEF FetchFailed, TypeInv
  <2>2. Phase(p) = "fetching" /\ Sent(p) = attempt[p] + 1
    BY <2>1 DEF Phase, Sent
  <2>3. CASE attempt[p] < MaxRetries
    <3>1. /\ pc'[p] = "backoff" /\ attempt'[p] = attempt[p] + 1
          /\ UNCHANGED <<ctx, outcome>>
          /\ \A q \in Providers \ {p} : pc'[q] = pc[q] /\ attempt'[q] = attempt[q]
      BY <1>8, <2>3 DEF FetchFailed, TypeInv
    <3>2. Phase(p)' = "pausing" /\ Sent(p)' = attempt[p] + 1
      BY <3>1 DEF Phase, Sent
    <3>3. UNCHANGED [q \in Providers |-> IsDone(q)]
      BY <3>1 DEF IsDone
    <3>4. UNCHANGED [q \in Providers |-> Sent(q)]
      BY <2>2, <3>1, <3>2 DEF Sent
    <3>5. Sent(p) <= MaxRetries
      BY <2>1, <2>2, <2>3, AggregatorAssumption
    <3>6. Loop!TryAgain(p)
      BY <2>2, <3>1, <3>2, <3>3, <3>4, <3>5, MappedStep DEF Loop!TryAgain, Loop!Goto
    <3> QED
      BY <3>6
  <2>4. CASE ~(attempt[p] < MaxRetries)
    <3>1. Finish(p, "failed") /\ UNCHANGED attempt
      BY <1>8, <2>4 DEF FetchFailed
    <3>2. Sent(p) = MaxRetries + 1
      BY <2>1, <2>2, <2>4, AggregatorAssumption
    <3>3. Loop!Return(p, "failed")
      BY <2>1, <3>1, LoopReturns
    <3> QED
      BY <2>2, <3>2, <3>3 DEF Loop!Fail
  <2> QED
    BY <2>3, <2>4
<1>9. ASSUME NEW p \in Providers,
             BackoffCancelled(p) \/ LimiterGivesUp(p) \/ FetchAborted(p)
      PROVE  Loop!Abandon(p)
  <2>1. /\ pc[p] \in {"limit", "call", "inflight", "backoff"}
        /\ IsDone(p) /\ Finish(p, ctx[p]) /\ UNCHANGED attempt
    BY <1>9 DEF BackoffCancelled, LimiterGivesUp, FetchAborted
  <2> QED
    BY <2>1, LoopAbandons
<1>10. \A p \in Providers : {p} \in SUBSET Providers
  OBVIOUS
<1> QED
  BY <1>1, <1>2, <1>3, <1>4, <1>5, <1>6, <1>7, <1>8, <1>9, <1>10 DEF Next, Goroutine

\* Each goroutine of Aggregate makes its call as RetryLoop has it, whatever the
\* others, the limiter and the request do; a call of Calls is one of RetryLoop, too.
THEOREM RefinesRetryLoop == Spec => ImplementsRetryLoop
<1>1. Init => Loop!Init
  <2> SUFFICES ASSUME Init
               PROVE  Loop!Init
    OBVIOUS
  <2>1. \A p \in Providers : Phase(p) = "idle" /\ Sent(p) = 0
    BY DEF Init, Phase, Sent
  <2>2. \A p \in Providers : IsDone(p) = FALSE
    BY DEF Init, IsDone, CtxErrors
  <2>3. [p \in Providers |-> IsDone(p)] = [p \in Providers |-> FALSE]
    BY <2>2, Zenon
  <2> QED
    BY <2>1, <2>3 DEF Init, Loop!Init
<1>2. Init => LoopInv
  BY TypeInit DEF Init, LoopInv, Fresh
<1>3. LoopInv /\ [Next]_vars => LoopInv'
  BY TypeStep, DecidedStep, FreshStep DEF LoopInv
<1>4. LoopInv /\ [Next]_vars => [Loop!Next]_(Loop!vars)
  BY StepOfLoop
<1> QED
  BY <1>1, <1>2, <1>3, <1>4, PTL DEF Spec, ImplementsRetryLoop, Loop!Spec

=============================================================================
