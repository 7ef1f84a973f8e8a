---------------------------- MODULE CacheProofs ----------------------------
(***************************************************************************)
(* Proofs about Cache, for every set of keys, responses and readers, every *)
(* TTL and every bound on the clock.                                       *)
(***************************************************************************)
EXTENDS Cache, TLAPS

LEMMA CurrentType ==
  ASSUME NEW k \in Keys, items \in [Keys -> Entry \union {NoEntry}]
  PROVE  Current(k) \in Entry \union {NoEntry}
  BY DEF Current

LEMMA EntryExp ==
  ASSUME NEW e \in Entry \union {NoEntry}, e # NoEntry
  PROVE  e.exp \in Nat
  BY DEF Entry

LEMMA PutType ==
  ASSUME now \in Nat, NEW v \in Values
  PROVE  /\ [val |-> v, exp |-> now + TTL] \in Entry
         /\ [val |-> v, exp |-> now + TTL] # NoEntry
  BY CacheAssumption DEF Entry

-----------------------------------------------------------------------------
(* Types                                                                   *)

LEMMA TypeInit == Init => TypeOK
<1> SUFFICES ASSUME Init
             PROVE  TypeOK
  OBVIOUS
<1>1. wanted \in [Readers -> Keys]
  <2>1. PICK k \in Keys : wanted = [r \in Readers |-> k]
    BY DEF Init
  <2> QED
    BY <2>1
<1>2. seen \in [Readers -> SUBSET (Entry \union {NoEntry})]
  BY DEF Init
<1>3. /\ items \in [Keys -> Entry \union {NoEntry}]
      /\ read \in [Readers -> Entry \union {NoEntry}]
      /\ answer \in [Readers -> Entry \union {NoEntry}]
      /\ pc \in [Readers -> {"idle", "check"}]
  BY DEF Init
<1>4. now \in 0 .. MaxTime /\ cut \in 0 .. now
  BY CacheAssumption DEF Init
<1>5. tick \in BOOLEAN /\ sweeping \in BOOLEAN
  BY Zenon DEF Init
<1> QED
  BY <1>1, <1>2, <1>3, <1>4, <1>5 DEF TypeOK

LEMMA WatchType ==
  ASSUME TypeOK, items' \in [Keys -> Entry \union {NoEntry}], UNCHANGED wanted, Watch
  PROVE  seen' \in [Readers -> SUBSET (Entry \union {NoEntry})]
<1>1. ASSUME NEW r \in Readers
      PROVE  Current(wanted[r])' \in Entry \union {NoEntry}
  BY DEF TypeOK, Current
<1> QED
  BY <1>1 DEF Watch, TypeOK

LEMMA RespondType ==
  ASSUME TypeOK, NEW r \in Readers, NEW e \in Entry \union {NoEntry}, Respond(r, e)
  PROVE  /\ pc' \in [Readers -> {"idle", "check"}]
         /\ answer' \in [Readers -> Entry \union {NoEntry}]
         /\ read' \in [Readers -> Entry \union {NoEntry}]
         /\ seen' \in [Readers -> SUBSET (Entry \union {NoEntry})]
  BY DEF TypeOK, Respond

LEMMA TypeStep == TypeOK /\ [Next]_vars => TypeOK'
<1> SUFFICES ASSUME TypeOK, [Next]_vars
             PROVE  TypeOK'
  OBVIOUS
<1> USE CacheAssumption
<1>1. CASE Tick
  <2>1. /\ now' \in 0 .. MaxTime /\ cut' \in 0 .. now'
        /\ items' \in [Keys -> Entry \union {NoEntry}]
    BY <1>1 DEF Tick, TypeOK
  <2>2. seen' \in [Readers -> SUBSET (Entry \union {NoEntry})]
    BY <1>1, <2>1, WatchType DEF Tick, readers
  <2> QED
    BY <1>1, <2>1, <2>2 DEF Tick, TypeOK, readers
<1>2. CASE SweepTick
  <2>1. cut' \in 0 .. now'
    BY <1>2 DEF SweepTick, TypeOK
  <2> QED
    BY <1>2, <2>1 DEF SweepTick, TypeOK, readers
<1>3. CASE Sweep
  <2>1. items' \in [Keys -> Entry \union {NoEntry}]
    BY <1>3 DEF Sweep, TypeOK
  <2>2. seen' \in [Readers -> SUBSET (Entry \union {NoEntry})]
    BY <1>3, <2>1, WatchType DEF Sweep, readers
  <2> QED
    BY <1>3, <2>1, <2>2 DEF Sweep, TypeOK, readers
<1>4. ASSUME NEW k \in Keys, Set(k)
      PROVE  TypeOK'
  <2>1. items' \in [Keys -> Entry \union {NoEntry}]
    BY <1>4, PutType DEF Set, TypeOK
  <2>2. seen' \in [Readers -> SUBSET (Entry \union {NoEntry})]
    BY <1>4, <2>1, WatchType DEF Set, readers
  <2> QED
    BY <1>4, <2>1, <2>2 DEF Set, TypeOK, readers, sweeper
<1>5. ASSUME NEW r \in Readers, NEW k \in Keys, GetRead(r, k)
      PROVE  TypeOK'
  BY <1>5, CurrentType DEF GetRead, TypeOK, sweeper
<1>6. ASSUME NEW r \in Readers, GetCheck(r)
      PROVE  TypeOK'
  <2> DEFINE e == IF read[r] # NoEntry /\ now > read[r].exp THEN NoEntry ELSE read[r]
  <2>1. e \in Entry \union {NoEntry}
    BY DEF TypeOK
  <2>2. Respond(r, e)
    BY <1>6 DEF GetCheck
  <2> HIDE DEF e
  <2> QED
    BY <1>6, <2>1, <2>2, RespondType DEF GetCheck, TypeOK, sweeper
<1>7. CASE UNCHANGED vars
  BY <1>7 DEF vars, TypeOK, sweeper, readers
<1> QED
  BY <1>1, <1>2, <1>3, <1>4, <1>5, <1>6, <1>7 DEF Next

\* Every state of the cache is well typed.
THEOREM TypeCorrect == Spec => []TypeOK
  BY TypeInit, TypeStep, PTL DEF Spec

-----------------------------------------------------------------------------
(* The cache is an ExpiringMap                                             *)

\* A sweep works from a clock value of the past, so what it deletes is expired.
LEMMA SweepIsInvisible ==
  ASSUME TypeOK, Sweep, NEW k \in Keys
  PROVE  Current(k)' = Current(k)
<1>1. CASE items[k] # NoEntry /\ cut > items[k].exp
  <2>1. items[k].exp \in Nat /\ items[k].exp < now
    BY <1>1, EntryExp DEF TypeOK
  <2> QED
    BY <1>1, <2>1 DEF Sweep, TypeOK, Current, Valid
<1>2. CASE ~(items[k] # NoEntry /\ cut > items[k].exp)
  BY <1>2 DEF Sweep, TypeOK, Current, Valid
<1> QED
  BY <1>1, <1>2

LEMMA TickExpires ==
  ASSUME TypeOK, Tick, NEW k \in Keys
  PROVE  Current(k)' = IF Current(k) # NoEntry /\ Current(k).exp < now'
                       THEN NoEntry ELSE Current(k)
<1>1. CASE items[k] = NoEntry
  BY <1>1 DEF Tick, Current, Valid
<1>2. CASE items[k] # NoEntry
  <2>1. items[k].exp \in Nat
    BY <1>2, EntryExp DEF TypeOK
  <2> QED
    BY <1>2, <2>1, CacheAssumption DEF Tick, TypeOK, Current, Valid
<1> QED
  BY <1>1, <1>2

LEMMA StepRefines == TypeOK /\ [Next]_vars => [Map!Next]_(Map!vars)
<1> SUFFICES ASSUME TypeOK, [Next]_vars
             PROVE  [Map!Next]_(Map!vars)
  OBVIOUS
<1> DEFINE stored == [k \in Keys |-> Current(k)]
<1>1. CASE now' = now /\ items' = items
  <2>1. stored' = stored
    BY <1>1 DEF Current, Valid
  <2> QED
    BY <1>1, <2>1 DEF Map!vars
<1>2. CASE SweepTick \/ UNCHANGED vars
  BY <1>1, <1>2 DEF SweepTick, vars
<1>3. ASSUME NEW r \in Readers, GetCheck(r) \/ \E k \in Keys : GetRead(r, k)
      PROVE  [Map!Next]_(Map!vars)
  BY <1>1, <1>3 DEF GetCheck, GetRead
<1>4. CASE Sweep
  <2>1. stored' = stored
    BY <1>4, SweepIsInvisible
  <2> QED
    BY <1>4, <2>1 DEF Sweep, Map!vars
<1>5. CASE Tick
  <2>1. stored' = [k \in Keys |->
            IF stored[k] # NoEntry /\ stored[k].exp < now' THEN NoEntry ELSE stored[k]]
    BY <1>5, TickExpires
  <2> HIDE DEF stored
  <2>2. Map!Tick
    BY <1>5, <2>1 DEF Tick, Map!Tick, stored
  <2> QED
    BY <2>2 DEF Map!Next
<1>6. ASSUME NEW k \in Keys, Set(k)
      PROVE  [Map!Next]_(Map!vars)
  <2>1. PICK v \in Values : items' = [items EXCEPT ![k] = [val |-> v, exp |-> now + TTL]]
    BY <1>6 DEF Set
  <2>2. /\ items'[k] = [val |-> v, exp |-> now + TTL] /\ now' = now /\ now \in Nat
        /\ \A j \in Keys : j # k => items'[j] = items[j]
    BY <1>6, <2>1, CacheAssumption DEF Set, TypeOK
  <2>3. Current(k)' = [val |-> v, exp |-> now + TTL]
    BY <2>2, PutType, CacheAssumption DEF Current, Valid
  <2>4. \A j \in Keys : j # k => Current(j)' = Current(j)
    BY <2>2 DEF Current, Valid
  <2>5. stored' = [stored EXCEPT ![k] = [val |-> v, exp |-> now + TTL]]
    BY <2>3, <2>4
  <2> HIDE DEF stored
  <2>6. Map!Put(k)
    BY <2>2, <2>5 DEF Map!Put, stored
  <2> QED
    BY <2>6 DEF Map!Next
<1> QED
  BY <1>2, <1>3, <1>4, <1>5, <1>6 DEF Next

LEMMA InitRefines == Init => Map!Init
  BY DEF Init, Map!Init, Current, Valid

\* The cache implements a map whose entries last TTL: entries are never lost
\* before, whenever the sweeper runs.
THEOREM RefinesMap == Spec => ImplementsMap
  BY TypeInit, TypeStep, InitRefines, StepRefines, PTL DEF Spec, ImplementsMap, Map!Spec

-----------------------------------------------------------------------------
(* The answers of Get                                                      *)

\* What a Get read under the lock was valid then, or it has expired by now and
\* the Get saw a moment without a valid entry.
ReadWasSeen ==
    \A r \in Readers : pc[r] = "check" =>
        \/ read[r] \in seen[r]
        \/ NoEntry \in seen[r] /\ read[r] # NoEntry /\ read[r].exp < now

AnswerInv == TypeOK /\ ReadWasSeen

LEMMA ReadWasSeenStep == AnswerInv /\ [Next]_vars => ReadWasSeen'
<1> SUFFICES ASSUME AnswerInv, [Next]_vars, NEW q \in Readers, pc'[q] = "check"
             PROVE  \/ read'[q] \in seen'[q]
                    \/ NoEntry \in seen'[q] /\ read'[q] # NoEntry /\ read'[q].exp < now'
  BY DEF ReadWasSeen
<1> USE DEF AnswerInv
<1>1. CASE /\ pc[q] = "check" /\ read'[q] = read[q] /\ seen[q] \subseteq seen'[q]
           /\ now' \in Nat /\ now <= now'
  <2>1. CASE read[q] \in seen[q]
    BY <1>1, <2>1
  <2>2. CASE NoEntry \in seen[q] /\ read[q] # NoEntry /\ read[q].exp < now
    <3>1. read[q].exp \in Nat
      BY <2>2, EntryExp DEF TypeOK
    <3> QED
      BY <1>1, <2>2, <3>1 DEF TypeOK
  <2> QED
    BY <1>1, <2>1, <2>2 DEF ReadWasSeen
<1>2. CASE Watch /\ UNCHANGED readers /\ now' \in Nat /\ now <= now'
  BY <1>1, <1>2 DEF Watch, readers, TypeOK
<1>3. CASE Tick
  BY <1>2, <1>3 DEF Tick, TypeOK
<1>4. CASE Sweep \/ \E k \in Keys : Set(k)
  BY <1>2, <1>4 DEF Sweep, Set, TypeOK
<1>5. CASE SweepTick \/ UNCHANGED vars
  BY <1>1, <1>5 DEF SweepTick, vars, readers, TypeOK
<1>6. ASSUME NEW r \in Readers, NEW k \in Keys, GetRead(r, k)
      PROVE  \/ read'[q] \in seen'[q]
             \/ NoEntry \in seen'[q] /\ read'[q] # NoEntry /\ read'[q].exp < now'
  <2>1. CASE q = r
    <3>1. read'[q] = items[k] /\ seen'[q] = {Current(k)} /\ now' = now
      BY <1>6, <2>1 DEF GetRead, TypeOK
    <3>2. items[k] # NoEntry => items[k].exp \in Nat
      BY EntryExp DEF TypeOK
    <3> QED
      BY <3>1, <3>2 DEF Current, Valid, TypeOK
  <2>2. CASE q # r
    BY <1>1, <1>6, <2>2 DEF GetRead, TypeOK
  <2> QED
    BY <2>1, <2>2
<1>7. ASSUME NEW r \in Readers, GetCheck(r)
      PROVE  \/ read'[q] \in seen'[q]
             \/ NoEntry \in seen'[q] /\ read'[q] # NoEntry /\ read'[q].exp < now'
  <2>1. q # r
    BY <1>7 DEF GetCheck, Respond, TypeOK
  <2> QED
    BY <1>1, <1>7, <2>1 DEF GetCheck, Respond, TypeOK
<1> QED
  BY <1>3, <1>4, <1>5, <1>6, <1>7 DEF Next

\* Only GetCheck answers, and with the entry that was read or with a miss.
LEMMA AnswerStep ==
  ASSUME AnswerInv, [Next]_vars, NEW q \in Readers, Answers(q)
  PROVE  \/ /\ answer'[q] = NoEntry /\ read[q] # NoEntry /\ now > read[q].exp
         \/ /\ answer'[q] = read[q]
            /\ ~(read[q] # NoEntry /\ now > read[q].exp)
<1> USE DEF AnswerInv, Answers
<1>1. CASE Tick \/ SweepTick \/ Sweep \/ UNCHANGED vars \/ \E k \in Keys : Set(k)
  BY <1>1 DEF Tick, SweepTick, Sweep, Set, vars, readers
<1>2. ASSUME NEW r \in Readers, NEW k \in Keys, GetRead(r, k)
      PROVE  FALSE
  BY <1>2 DEF GetRead, TypeOK
<1>3. ASSUME NEW r \in Readers, GetCheck(r)
      PROVE  q = r
  BY <1>3 DEF GetCheck, Respond, TypeOK
<1>4. CASE GetCheck(q)
  BY <1>4 DEF GetCheck, Respond, TypeOK
<1> QED
  BY <1>1, <1>2, <1>3, <1>4 DEF Next

LEMMA AnswerInit == Init => AnswerInv
  BY TypeInit DEF Init, AnswerInv, ReadWasSeen

\* A hit was valid under its key at some instant of the Get.
THEOREM HitsAreCurrent == Spec => HitWasCurrent
<1> DEFINE A == \A r \in Readers :
                  Answers(r) /\ answer'[r] # NoEntry => answer'[r] \in seen[r]
<1>1. AnswerInv /\ [Next]_vars => AnswerInv'
  BY TypeStep, ReadWasSeenStep DEF AnswerInv
<1>2. AnswerInv /\ [Next]_vars => A
  <2> SUFFICES ASSUME AnswerInv, [Next]_vars, NEW r \in Readers,
                      Answers(r), answer'[r] # NoEntry
               PROVE  answer'[r] \in seen[r]
    OBVIOUS
  <2>1. answer'[r] = read[r] /\ read[r] # NoEntry /\ ~(now > read[r].exp)
    BY AnswerStep
  <2>2. read[r].exp \in Nat /\ now \in Nat
    BY <2>1, EntryExp DEF AnswerInv, TypeOK
  <2> QED
    BY <2>1, <2>2 DEF AnswerInv, ReadWasSeen, Answers
<1> QED
  BY <1>1, <1>2, AnswerInit, PTL DEF Spec, HitWasCurrent

\* A miss means a moment of the Get without a valid entry, or an entry that has
\* expired since the Get saw it.
THEOREM MissesAreJustified == Spec => MissJustified
<1> DEFINE A == \A r \in Readers :
                  Answers(r) /\ answer'[r] = NoEntry =>
                      \/ NoEntry \in seen[r]
                      \/ \E e \in seen[r] : e # NoEntry /\ e.exp < now
<1>1. AnswerInv /\ [Next]_vars => AnswerInv'
  BY TypeStep, ReadWasSeenStep DEF AnswerInv
<1>2. AnswerInv /\ [Next]_vars => A
  <2> SUFFICES ASSUME AnswerInv, [Next]_vars, NEW r \in Readers,
                      Answers(r), answer'[r] = NoEntry
               PROVE  \/ NoEntry \in seen[r]
                      \/ \E e \in seen[r] : e # NoEntry /\ e.exp < now
    OBVIOUS
  <2>1. \/ read[r] \in seen[r]
        \/ NoEntry \in seen[r]
    BY DEF AnswerInv, ReadWasSeen, Answers
  <2>2. CASE read[r] = NoEntry
    BY <2>1, <2>2
  <2>3. CASE read[r] # NoEntry
    <3>1. now > read[r].exp
      BY <2>3, AnswerStep
    <3>2. read[r].exp \in Nat /\ now \in Nat
      BY <2>3, EntryExp DEF AnswerInv, TypeOK
    <3> QED
      BY <2>1, <2>3, <3>1, <3>2
  <2> QED
    BY <2>2, <2>3
<1> QED
  BY <1>1, <1>2, AnswerInit, PTL DEF Spec, MissJustified

=============================================================================
