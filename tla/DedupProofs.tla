---------------------------- MODULE DedupProofs ----------------------------
(***************************************************************************)
(* Proofs about Dedup, for every list of flights that searchLeg can pass,  *)
(* of any length: what the loop has built after any number of passes.      *)
(***************************************************************************)
EXTENDS Dedup, TLAPS

\* best holds the keys of the flights looked at, and is the inverse of the keys
\* of out: this is what makes the two properties inductive.
BestPoints ==
    /\ \A n \in 1 .. i - 1 : Key(flights[n]) \in DOMAIN best
    /\ \A k \in DOMAIN best : \E n \in 1 .. i - 1 : Key(flights[n]) = k
    /\ \A k \in DOMAIN best : best[k] \in 1 .. Len(out) /\ Key(out[best[k]]) = k
    /\ \A j \in 1 .. Len(out) : Key(out[j]) \in DOMAIN best /\ best[Key(out[j])] = j

\* Every flight in the result is the cheapest of its listings so far.
OutCheapest ==
    \A j \in 1 .. Len(out) :
        \E n \in 1 .. i - 1 : out[j] = flights[n] /\ Cheapest(n, i - 1)

\* The positions best gives follow the order of the first listings.
BestOrdered ==
    \A m, n \in 1 .. i - 1 :
        m < n /\ FirstSeen(m) /\ FirstSeen(n) =>
            best[Key(flights[m])] < best[Key(flights[n])]

Inv == TypeOK /\ BestPoints /\ OutCheapest /\ BestOrdered

-----------------------------------------------------------------------------
(* What a pass does to the variables                                       *)

\* The flight the loop looks at has an amount that can be compared.
LEMMA Current ==
  ASSUME TypeOK, Looks
  PROVE  /\ i \in 1 .. Len(flights)
         /\ flight \in Flight
         /\ flight.amount \in Nat
<1>1. i \in 1 .. Len(flights)
  BY DEF TypeOK, Looks
<1>2. flight \in Flight
  BY <1>1 DEF TypeOK, flight
<1> QED
  BY <1>1, <1>2, DedupAssumption DEF Flight

\* The amounts of any two listings can be compared.
LEMMA AmountsAreNumbers ==
  ASSUME TypeOK, NEW n \in 1 .. Len(flights)
  PROVE  flights[n].amount \in Nat
<1>1. flights[n] \in Flight
  BY DEF TypeOK
<1> QED
  BY <1>1, DedupAssumption DEF Flight

\* Whatever searchLeg passes is a sequence of flights.
LEMMA InputType == \A s \in Inputs : s \in Seq(Flight)
BY DEF Inputs

LEMMA TypeInit == Init => TypeOK
<1> SUFFICES ASSUME Init PROVE TypeOK
  OBVIOUS
<1>1. flights \in Seq(Flight)
  BY InputType DEF Init
<1>2. i \in 1 .. Len(flights) + 1
  BY <1>1 DEF Init
<1>3. best \in [DOMAIN best -> 1 .. Len(out)]
  BY DEF Init
<1> QED
  BY <1>1, <1>2, <1>3 DEF Init, TypeOK

LEMMA TypeStep == TypeOK /\ [Next]_vars => TypeOK'
<1> SUFFICES ASSUME TypeOK, [Next]_vars PROVE TypeOK'
  OBVIOUS
<1>1. CASE Replace
  <2>1. i \in 1 .. Len(flights) /\ flight \in Flight
    BY <1>1, Current DEF Replace
  <2>2. best[Key(flight)] \in 1 .. Len(out)
    BY <1>1 DEF Replace, Known, TypeOK
  <2>3. out' \in Seq(Flight) /\ Len(out') = Len(out)
    BY <1>1, <2>1, <2>2 DEF Replace, TypeOK
  <2> QED
    BY <1>1, <2>1, <2>3 DEF Replace, TypeOK
<1>2. CASE Skip
  <2>1. i \in 1 .. Len(flights)
    BY <1>2, Current DEF Skip
  <2> QED
    BY <1>2, <2>1 DEF Skip, TypeOK
<1>3. CASE Keep
  <2>1. i \in 1 .. Len(flights) /\ flight \in Flight
    BY <1>3, Current DEF Keep
  <2>2. out' \in Seq(Flight) /\ Len(out') = Len(out) + 1
    BY <1>3, <2>1 DEF Keep, TypeOK
  <2>3. best' \in [DOMAIN best' -> 1 .. Len(out')]
    BY <1>3, <2>2 DEF Keep, TypeOK
  <2> QED
    BY <1>3, <2>1, <2>2, <2>3 DEF Keep, TypeOK
<1>4. CASE UNCHANGED vars
  BY <1>4 DEF vars, TypeOK
<1> QED
  BY <1>1, <1>2, <1>3, <1>4 DEF Next

\* The variables of the loop are well typed, for every input.
THEOREM TypeCorrect == Spec => []TypeOK
BY TypeInit, TypeStep, PTL DEF Spec

-----------------------------------------------------------------------------
(* The invariant                                                           *)

LEMMA InvInit == Init => Inv
<1> SUFFICES ASSUME Init PROVE Inv
  OBVIOUS
<1>1. TypeOK
  BY TypeInit
<1>2. BestPoints
  BY DEF Init, BestPoints
<1>3. OutCheapest
  BY DEF Init, OutCheapest
<1>4. BestOrdered
  BY DEF Init, BestOrdered
<1> QED
  BY <1>1, <1>2, <1>3, <1>4 DEF Inv

\* A listing of a flight that is known already is not the first of it.
LEMMA KnownIsNotFirst ==
  ASSUME Inv, Looks, Known
  PROVE  ~FirstSeen(i)
<1>1. PICK n \in 1 .. i - 1 : Key(flights[n]) = Key(flight)
  BY DEF Inv, BestPoints, Known
<1> QED
  BY <1>1 DEF FirstSeen, flight

\* Cheapest looks at the listings and not at the loop.
LEMMA OrderKept ==
  ASSUME Inv, Looks, Known, best' = best, i' = i + 1, flights' = flights
  PROVE  BestOrdered'
<1> SUFFICES ASSUME NEW m \in 1 .. i, NEW n \in 1 .. i,
                    m < n, FirstSeen(m), FirstSeen(n)
             PROVE  best[Key(flights[m])] < best[Key(flights[n])]
  <2>1. i' - 1 = i
    BY Current DEF Inv
  <2> QED
    BY <2>1 DEF BestOrdered, FirstSeen, Key
<1>1. i \in Nat /\ n # i /\ m # i
  BY KnownIsNotFirst, Current DEF Inv
<1>2. m \in 1 .. i - 1 /\ n \in 1 .. i - 1
  BY <1>1
<1> QED
  BY <1>2 DEF Inv, BestOrdered

LEMMA ReplaceKeepsInv == Inv /\ Replace => BestPoints' /\ OutCheapest' /\ BestOrdered'
<1> SUFFICES ASSUME Inv, Replace PROVE BestPoints' /\ OutCheapest' /\ BestOrdered'
  OBVIOUS
<1> DEFINE p == best[Key(flight)]
<1>1. /\ i \in 1 .. Len(flights) /\ flight = flights[i] /\ flight.amount \in Nat
      /\ Key(flight) \in DOMAIN best /\ p \in 1 .. Len(out) /\ Key(out[p]) = Key(flight)
      /\ flight.amount < out[p].amount
      /\ i' = i + 1 /\ flights' = flights /\ best' = best
      /\ out \in Seq(Flight)
  BY Current DEF Inv, BestPoints, Replace, Known, Cheaper, TypeOK, flight
<1>2. /\ Len(out') = Len(out)
      /\ out'[p] = flight
      /\ \A j \in 1 .. Len(out) : j # p => out'[j] = out[j]
  BY <1>1 DEF Replace
<1> HIDE DEF p
<1>3. \A j \in 1 .. Len(out) : Key(out'[j]) = Key(out[j])
  BY <1>1, <1>2
<1>4. BestPoints'
  <2>1. ASSUME NEW n \in 1 .. i PROVE Key(flights[n]) \in DOMAIN best
    <3>1. CASE n = i
      BY <1>1, <3>1
    <3>2. CASE n # i
      <4>1. n \in 1 .. i - 1
        BY <1>1, <3>2
      <4> QED
        BY <4>1 DEF Inv, BestPoints
    <3> QED
      BY <3>1, <3>2
  <2>2. \A k \in DOMAIN best : \E n \in 1 .. i : Key(flights[n]) = k
    BY <1>1 DEF Inv, BestPoints
  <2>3. \A k \in DOMAIN best : best[k] \in 1 .. Len(out) /\ Key(out'[best[k]]) = k
    BY <1>1, <1>3 DEF Inv, BestPoints
  <2>4. \A j \in 1 .. Len(out) : Key(out'[j]) \in DOMAIN best /\ best[Key(out'[j])] = j
    BY <1>1, <1>3 DEF Inv, BestPoints
  <2> QED
    BY <1>1, <1>2, <2>1, <2>2, <2>3, <2>4 DEF BestPoints, Key
<1>5. OutCheapest'
  <2> SUFFICES ASSUME NEW j \in 1 .. Len(out)
               PROVE  \E n \in 1 .. i : out'[j] = flights[n] /\ Cheapest(n, i)
    <3>1. i' - 1 = i
      BY <1>1
    <3> QED
      BY <1>1, <1>2, <3>1 DEF OutCheapest, Cheapest, Key
  <2>1. PICK n \in 1 .. i - 1 : out[j] = flights[n] /\ Cheapest(n, i - 1)
    BY DEF Inv, OutCheapest
  <2>2. flights[n].amount \in Nat /\ \A m \in 1 .. i : flights[m].amount \in Nat
    BY <1>1, AmountsAreNumbers DEF Inv
  <2>3. CASE j = p
    <3>1. ASSUME NEW m \in 1 .. i - 1, Key(flights[m]) = Key(flights[i])
          PROVE  flights[i].amount < flights[m].amount
      <4>1. Key(flights[m]) = Key(flights[n])
        BY <1>1, <2>1, <2>3, <3>1
      <4>2. flights[n].amount <= flights[m].amount
        BY SMTT(30), <1>1, <2>1, <2>2, <4>1 DEF Cheapest
      <4> QED
        BY SMTT(30), <1>1, <2>1, <2>2, <2>3, <4>2
    <3>2. Cheapest(i, i)
      <4> SUFFICES ASSUME NEW m \in 1 .. i, Key(flights[m]) = Key(flights[i])
                   PROVE  \/ flights[i].amount < flights[m].amount
                          \/ flights[i].amount = flights[m].amount /\ i <= m
        BY DEF Cheapest
      <4>1. CASE m = i
        BY <1>1, <4>1
      <4>2. CASE m # i
        <5>1. m \in 1 .. i - 1
          BY <1>1, <4>2
        <5> QED
          BY <3>1, <5>1
      <4> QED
        BY <4>1, <4>2
    <3> QED
      BY <1>1, <1>2, <2>3, <3>2
  <2>4. CASE j # p
    <3>1. Key(out[j]) # Key(flight)
      BY <1>1, <2>4 DEF Inv, BestPoints, p
    <3>2. Cheapest(n, i)
      BY <1>1, <2>1, <3>1 DEF Cheapest
    <3> QED
      BY <1>1, <1>2, <2>1, <2>4, <3>2
  <2> QED
    BY <2>3, <2>4
<1>6. BestOrdered'
  BY <1>1, OrderKept DEF Replace
<1> QED
  BY <1>4, <1>5, <1>6

LEMMA SkipKeepsInv == Inv /\ Skip => BestPoints' /\ OutCheapest' /\ BestOrdered'
<1> SUFFICES ASSUME Inv, Skip PROVE BestPoints' /\ OutCheapest' /\ BestOrdered'
  OBVIOUS
<1> DEFINE p == best[Key(flight)]
<1>1. /\ i \in 1 .. Len(flights) /\ flight = flights[i] /\ flight.amount \in Nat
      /\ Key(flight) \in DOMAIN best /\ p \in 1 .. Len(out) /\ Key(out[p]) = Key(flight)
      /\ ~(flight.amount < out[p].amount)
      /\ i' = i + 1 /\ flights' = flights /\ best' = best /\ out' = out
  BY Current DEF Inv, BestPoints, Skip, Known, Cheaper, TypeOK, flight
<1> HIDE DEF p
<1>2. BestPoints'
  <2>1. \A n \in 1 .. i : Key(flights[n]) \in DOMAIN best
    BY <1>1 DEF Inv, BestPoints
  <2> QED
    BY <1>1, <2>1 DEF Inv, BestPoints, Key
<1>3. OutCheapest'
  <2> SUFFICES ASSUME NEW j \in 1 .. Len(out)
               PROVE  \E n \in 1 .. i : out[j] = flights[n] /\ Cheapest(n, i)
    BY <1>1 DEF OutCheapest, Cheapest, Key
  <2>1. PICK n \in 1 .. i - 1 : out[j] = flights[n] /\ Cheapest(n, i - 1)
    BY DEF Inv, OutCheapest
  <2>2. flights[n].amount \in Nat
    BY <1>1, AmountsAreNumbers DEF Inv
  <2>3. Key(flights[n]) = Key(flight) => j = p
    BY <1>1, <2>1 DEF Inv, BestPoints, p
  <2>4. Cheapest(n, i)
    BY SMTT(30), <1>1, <2>1, <2>2, <2>3 DEF Cheapest
  <2> QED
    BY <1>1, <2>1, <2>4
<1>4. BestOrdered'
  BY <1>1, OrderKept DEF Skip
<1> QED
  BY <1>2, <1>3, <1>4

LEMMA KeepKeepsInv == Inv /\ Keep => BestPoints' /\ OutCheapest' /\ BestOrdered'
<1> SUFFICES ASSUME Inv, Keep PROVE BestPoints' /\ OutCheapest' /\ BestOrdered'
  OBVIOUS
<1>1. /\ i \in 1 .. Len(flights) /\ flight = flights[i] /\ flight.amount \in Nat
      /\ Key(flight) \notin DOMAIN best
      /\ i' = i + 1 /\ flights' = flights
      /\ Len(out) \in Nat /\ out \in Seq(Flight) /\ flight \in Flight
  BY Current DEF Inv, Keep, Known, TypeOK, flight
<1>2. /\ Len(out') = Len(out) + 1
      /\ out'[Len(out) + 1] = flight
      /\ \A j \in 1 .. Len(out) : out'[j] = out[j]
  BY <1>1 DEF Keep
<1>3. /\ DOMAIN best' = DOMAIN best \cup {Key(flight)}
      /\ best'[Key(flight)] = Len(out) + 1
      /\ \A k \in DOMAIN best : best'[k] = best[k]
  BY <1>1 DEF Keep
<1>4. BestPoints'
  <2>1. \A n \in 1 .. i : Key(flights[n]) \in DOMAIN best'
    BY <1>1, <1>3 DEF Inv, BestPoints
  <2>2. \A k \in DOMAIN best' : \E n \in 1 .. i : Key(flights[n]) = k
    BY <1>1, <1>3 DEF Inv, BestPoints
  <2>3. ASSUME NEW k \in DOMAIN best'
        PROVE  best'[k] \in 1 .. Len(out') /\ Key(out'[best'[k]]) = k
    <3>1. CASE k = Key(flight)
      BY <1>1, <1>2, <1>3, <3>1
    <3>2. CASE k # Key(flight)
      BY <1>1, <1>2, <1>3, <3>2 DEF Inv, BestPoints
    <3> QED
      BY <3>1, <3>2
  <2>4. ASSUME NEW j \in 1 .. Len(out')
        PROVE  Key(out'[j]) \in DOMAIN best' /\ best'[Key(out'[j])] = j
    <3>1. CASE j = Len(out) + 1
      BY <1>2, <1>3, <3>1
    <3>2. CASE j # Len(out) + 1
      <4>1. j \in 1 .. Len(out)
        BY <1>1, <1>2, <3>2
      <4> QED
        BY <1>2, <1>3, <4>1 DEF Inv, BestPoints
    <3> QED
      BY <3>1, <3>2
  <2> QED
    BY <1>1, <2>1, <2>2, <2>3, <2>4 DEF BestPoints, Key
<1>5. OutCheapest'
  <2> SUFFICES ASSUME NEW j \in 1 .. Len(out')
               PROVE  \E n \in 1 .. i : out'[j] = flights[n] /\ Cheapest(n, i)
    BY <1>1 DEF OutCheapest, Cheapest, Key
  <2>1. \A n \in 1 .. i - 1 : Key(flights[n]) # Key(flight)
    BY <1>1 DEF Inv, BestPoints
  <2>2. CASE j = Len(out) + 1
    <3>1. Cheapest(i, i)
      BY <1>1, <2>1 DEF Cheapest
    <3> QED
      BY <1>1, <1>2, <2>2, <3>1
  <2>3. CASE j # Len(out) + 1
    <3>1. j \in 1 .. Len(out)
      BY <1>1, <1>2, <2>3
    <3>2. PICK n \in 1 .. i - 1 : out[j] = flights[n] /\ Cheapest(n, i - 1)
      BY <3>1 DEF Inv, OutCheapest
    <3>3. Cheapest(n, i)
      BY <1>1, <2>1, <3>2 DEF Cheapest
    <3> QED
      BY <1>1, <1>2, <3>1, <3>2, <3>3
  <2> QED
    BY <2>2, <2>3
<1>6. BestOrdered'
  <2> SUFFICES ASSUME NEW m \in 1 .. i, NEW n \in 1 .. i,
                      m < n, FirstSeen(m), FirstSeen(n)
               PROVE  best'[Key(flights[m])] < best'[Key(flights[n])]
    BY SMTT(30), <1>1 DEF BestOrdered, FirstSeen, Key
  <2>1. m \in 1 .. i - 1
    BY <1>1
  <2>2. Key(flights[m]) \in DOMAIN best /\ best[Key(flights[m])] \in 1 .. Len(out)
    BY <2>1 DEF Inv, BestPoints
  <2>3. CASE n = i
    BY <1>1, <1>3, <2>2, <2>3
  <2>4. CASE n # i
    <3>1. n \in 1 .. i - 1
      BY <1>1, <2>4
    <3>2. Key(flights[n]) \in DOMAIN best
      BY <3>1 DEF Inv, BestPoints
    <3> QED
      BY <1>3, <2>1, <2>2, <3>1, <3>2 DEF Inv, BestOrdered
  <2> QED
    BY <2>3, <2>4
<1> QED
  BY <1>4, <1>5, <1>6

LEMMA InvStep == Inv /\ [Next]_vars => Inv'
<1> SUFFICES ASSUME Inv, [Next]_vars PROVE Inv'
  OBVIOUS
<1>1. TypeOK'
  BY TypeStep DEF Inv
<1>2. CASE Replace
  BY <1>1, <1>2, ReplaceKeepsInv DEF Inv
<1>3. CASE Skip
  BY <1>1, <1>3, SkipKeepsInv DEF Inv
<1>4. CASE Keep
  BY <1>1, <1>4, KeepKeepsInv DEF Inv
<1>5. CASE UNCHANGED vars
  <2>1. BestPoints'
    BY <1>5 DEF vars, Inv, BestPoints, Key
  <2>2. OutCheapest'
    BY <1>5 DEF vars, Inv, OutCheapest, Cheapest, Key
  <2>3. BestOrdered'
    BY <1>5 DEF vars, Inv, BestOrdered, FirstSeen, Key
  <2> QED
    BY <1>1, <2>1, <2>2, <2>3 DEF Inv
<1> QED
  BY <1>2, <1>3, <1>4, <1>5 DEF Next

LEMMA Invariance == Spec => []Inv
BY InvInit, InvStep, PTL DEF Spec

-----------------------------------------------------------------------------
(* The properties                                                          *)

\* For every input the result holds the cheapest listing of every flight, the
\* first one of equals, and nothing else.
THEOREM CheapestIsKept == Spec => []KeepsCheapest
<1>1. Inv => KeepsCheapest
  <2> SUFFICES ASSUME Inv PROVE KeepsCheapest
    OBVIOUS
  <2>1. \A j, k \in 1 .. Len(out) : Key(out[j]) = Key(out[k]) => j = k
    BY DEF Inv, BestPoints
  <2>2. \A n \in 1 .. i - 1 : \E j \in 1 .. Len(out) : Key(out[j]) = Key(flights[n])
    BY DEF Inv, BestPoints
  <2> QED
    BY <2>1, <2>2 DEF Inv, OutCheapest, KeepsCheapest
<1> QED
  BY <1>1, Invariance, PTL

\* For every input the result is in the order of the first listings.
THEOREM OrderIsKept == Spec => []InOrderOfAppearance
<1>1. Inv => InOrderOfAppearance
  <2> SUFFICES ASSUME Inv,
                      NEW m \in 1 .. i - 1, NEW n \in 1 .. i - 1,
                      m < n, FirstSeen(m), FirstSeen(n)
               PROVE  \E j, k \in 1 .. Len(out) :
                          /\ j < k
                          /\ Key(out[j]) = Key(flights[m])
                          /\ Key(out[k]) = Key(flights[n])
    BY DEF InOrderOfAppearance
  <2>1. best[Key(flights[m])] < best[Key(flights[n])]
    BY DEF Inv, BestOrdered
  <2> QED
    BY <2>1 DEF Inv, BestPoints
<1> QED
  BY <1>1, Invariance, PTL
=============================================================================
