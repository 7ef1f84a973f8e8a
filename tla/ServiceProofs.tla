--------------------------- MODULE ServiceProofs ---------------------------
(***************************************************************************)
(* Proofs about Service, for any number of requests at a time, of any kind *)
(* that the assumption allows, and any number of airlines.                 *)
(***************************************************************************)
EXTENDS Service, TLAPS, FiniteSetTheorems

-----------------------------------------------------------------------------
(* The cache stays raw                                                     *)

\* What is in a map after an assignment is new, or was there before.
LEMMA PutOne ==
  ASSUME NEW m, NEW x, NEW v, NEW k, k \in DOMAIN Put(m, x, v)
  PROVE  \/ Put(m, x, v)[k] = v
         \/ k \in DOMAIN m /\ Put(m, x, v)[k] = m[k]
  BY DEF Put

Raw(a) == a[3] = "raw"

\* The variables are indexed by threads.
Shapes ==
    /\ pc \in [Threads -> Places]
    /\ DOMAIN body = Threads /\ DOMAIN leg = Threads /\ DOMAIN resp = Threads
    /\ DOMAIN flights = Threads /\ DOMAIN outbound = Threads /\ DOMAIN reply = Threads

\* The array that a thread has yet to make is not there.
NotMade ==
    \A t \in Threads :
        /\ pc[t] \in {"idle", "lookup", "fetch"} => ArrayOf(t, "raw") \notin DOMAIN heap
        /\ pc[t] \notin {"write", "done"} /\ outbound[t] = None
               => <<t, 2, "raw">> \notin DOMAIN heap

\* What a thread is about to store is the raw array it has made.
MadeRaw ==
    \A t \in Threads :
        pc[t] = "store" =>
            /\ flights[t] \in DOMAIN heap /\ Raw(flights[t])
            /\ heap[flights[t]] = resp[t].fetched

\* What it presents is not raw.
OwnCopy ==
    \A t \in Threads :
        pc[t] \in {"filter", "rank", "sort", "format"} =>
            ~Raw(flights[t]) /\ flights[t] \in DOMAIN heap

\* What is cached is raw, and what was fetched.
CachedRaw ==
    \A k \in DOMAIN cache :
        /\ cache[k].array \in DOMAIN heap /\ Raw(cache[k].array)
        /\ heap[cache[k].array] = cache[k].fetched

RawInv == Shapes /\ NotMade /\ MadeRaw /\ OwnCopy /\ CachedRaw

\* A step that writes no raw array, and moves one thread.
LEMMA PresentStep ==
  ASSUME RawInv, NEW t \in Threads, NEW p \in Places, NEW a, NEW s,
         pc[t] \in {"copy", "filter", "rank", "sort", "format"},
         p \in {"filter", "rank", "sort", "format", "finish"},
         ~Raw(a), Present(t, a, s), Goto(t, p)
  PROVE  RawInv'
<1> USE DEF RawInv, Present, Goto
<1>1. /\ DOMAIN heap' = DOMAIN heap \cup {a}
      /\ \A b \in DOMAIN heap : b # a => heap'[b] = heap[b]
  BY DEF Put
<1>2. \A b : Raw(b) => b # a
  OBVIOUS
<1>3. Shapes'
  BY DEF Shapes
<1>4. NotMade'
  <2>1. \A u \in Threads : ArrayOf(u, "raw")' = ArrayOf(u, "raw") /\ Raw(ArrayOf(u, "raw"))
                           /\ Raw(<<u, 2, "raw">>)
    BY DEF ArrayOf, Nth, Raw
  <2> QED
    BY <1>1, <1>2, <2>1 DEF NotMade, Shapes
<1>5. MadeRaw'
  BY <1>1, <1>2 DEF MadeRaw, Shapes
<1>6. OwnCopy'
  BY <1>1 DEF OwnCopy, Shapes
<1>7. CachedRaw'
  BY <1>1, <1>2 DEF CachedRaw
<1> QED
  BY <1>3, <1>4, <1>5, <1>6, <1>7

LEMMA RawInit == Init => RawInv
  BY DEF Init, RawInv, Shapes, NotMade, MadeRaw, OwnCopy, CachedRaw, Places, None

LEMMA RawStep == RawInv /\ [Next]_vars => RawInv'
<1> SUFFICES ASSUME RawInv, [Next]_vars
             PROVE  RawInv'
  OBVIOUS
<1> USE DEF RawInv
<1>1. CASE UNCHANGED vars
  BY <1>1 DEF vars, Shapes, NotMade, MadeRaw, OwnCopy, CachedRaw, ArrayOf, Nth
<1>2. ASSUME NEW t \in Threads, Undecodable(t) \/ Start(t) \/ Miss(t) \/ Write(t)
      PROVE  RawInv'
  <2>1. UNCHANGED <<resp, flights, outbound, cache, heap>> /\ pc[t] \in {"idle", "lookup", "write"}
    BY <1>2 DEF Undecodable, Start, Miss, Write
  <2>2. PICK p \in {"lookup", "fetch", "done"} : pc' = [pc EXCEPT ![t] = p]
    BY <1>2 DEF Undecodable, Start, Miss, Write, Reject, Goto
  <2>3. pc[t] = "write" => p = "done"
    BY <1>2, <2>2 DEF Undecodable, Start, Miss, Write, Goto, Shapes
  <2>4. Shapes'
    BY <1>2, <2>1, <2>2 DEF Shapes, Undecodable, Start, Miss, Write, Reject, Places
  <2>5. NotMade'
    BY <2>1, <2>2, <2>3 DEF NotMade, Shapes, ArrayOf, Nth
  <2>6. MadeRaw' /\ OwnCopy' /\ CachedRaw'
    BY <2>1, <2>2 DEF MadeRaw, OwnCopy, CachedRaw, Shapes
  <2> QED
    BY <2>4, <2>5, <2>6
<1>3. ASSUME NEW t \in Threads, Hit(t)
      PROVE  RawInv'
  <2>1. /\ UNCHANGED <<outbound, cache, heap>> /\ pc[t] = "lookup" /\ pc' = [pc EXCEPT ![t] = "copy"]
        /\ UNCHANGED <<body, leg, reply>>
        /\ \A u \in Threads \ {t} : flights'[u] = flights[u] /\ resp'[u] = resp[u]
        /\ DOMAIN flights' = Threads /\ DOMAIN resp' = Threads
    BY <1>3 DEF Hit, Goto, Shapes
  <2> QED
    BY <2>1 DEF Shapes, NotMade, MadeRaw, OwnCopy, CachedRaw, Places, ArrayOf, Nth
<1>4. ASSUME NEW t \in Threads, Aggregate(t)
      PROVE  RawInv'
  <2> DEFINE a == ArrayOf(t, "raw")
  <2>1. PICK raw : /\ heap' = Put(heap, a, raw)
                   /\ \E x : resp' = [resp EXCEPT ![t] = x] /\ x.fetched = raw
    BY <1>4 DEF Aggregate
  <2>2. /\ UNCHANGED <<body, leg, outbound, reply, cache>> /\ pc[t] = "fetch"
        /\ pc' = [pc EXCEPT ![t] = "store"] /\ flights' = [flights EXCEPT ![t] = a]
    BY <1>4 DEF Aggregate, Goto
  <2>3. a \notin DOMAIN heap /\ Raw(a)
    BY <2>2 DEF NotMade, ArrayOf, Nth, Raw
  <2>4. /\ DOMAIN heap' = DOMAIN heap \cup {a} /\ heap'[a] = raw
        /\ \A b \in DOMAIN heap : heap'[b] = heap[b]
    BY <2>1, <2>3 DEF Put
  <2>5. Shapes'
    BY <2>1, <2>2 DEF Shapes, Places
  <2>6. NotMade'
    <3>1. \A u \in Threads \ {t} : ArrayOf(u, "raw") # a /\ <<u, 2, "raw">> # a
      BY DEF ArrayOf, Nth
    <3>2. outbound[t] = None => <<t, 2, "raw">> # a
      BY DEF ArrayOf, Nth
    <3> QED
      BY <2>2, <2>4, <3>1, <3>2 DEF NotMade, Shapes, ArrayOf, Nth
  <2>7. MadeRaw'
    BY <2>1, <2>2, <2>3, <2>4 DEF MadeRaw, Shapes
  <2>8. OwnCopy' /\ CachedRaw'
    BY <2>2, <2>4 DEF OwnCopy, CachedRaw, Shapes
  <2> QED
    BY <2>5, <2>6, <2>7, <2>8
<1>5. ASSUME NEW t \in Threads, Store(t)
      PROVE  RawInv'
  <2> DEFINE e == [criteria |-> resp[t].criteria, succeeded |-> resp[t].succeeded,
                   failed |-> resp[t].failed, fetched |-> resp[t].fetched,
                   array |-> flights[t]]
  <2>1. /\ cache' = Put(cache, Key(leg[t]), e)
        /\ UNCHANGED <<body, leg, resp, flights, outbound, reply, heap>>
        /\ pc[t] = "store" /\ pc' = [pc EXCEPT ![t] = "copy"]
    BY <1>5 DEF Store, Goto
  <2>2. CachedRaw'
    <3>1. e.array = flights[t] /\ e.fetched = resp[t].fetched
      OBVIOUS
    <3>2. \A k \in DOMAIN cache' : \/ cache'[k] = e
                                   \/ k \in DOMAIN cache /\ cache'[k] = cache[k]
      BY <2>1, PutOne
    <3> HIDE DEF e
    <3> QED
      BY <2>1, <3>1, <3>2 DEF CachedRaw, MadeRaw
  <2>3. Shapes' /\ NotMade' /\ MadeRaw' /\ OwnCopy'
    BY <2>1 DEF Shapes, NotMade, MadeRaw, OwnCopy, Places, ArrayOf, Nth
  <2> QED
    BY <2>2, <2>3
<1>6. ASSUME NEW t \in Threads, Copy(t)
      PROVE  RawInv'
  BY <1>6, PresentStep DEF Copy, ArrayOf, Nth, Raw, Places
<1>7. ASSUME NEW t \in Threads, Filter(t), leg[t].filtered
      PROVE  RawInv'
  <2> DEFINE own == flights[t]
             a == ArrayOf(t, "kept")
  <2>1. PICK kept, compacted :
             /\ heap' = Put(Put(heap, own, compacted), a, kept)
             /\ flights' = [flights EXCEPT ![t] = a]
    BY <1>7 DEF Filter
  <2>2. /\ UNCHANGED <<body, leg, resp, outbound, reply, cache>>
        /\ pc[t] = "filter" /\ pc' = [pc EXCEPT ![t] = "rank"]
    BY <1>7 DEF Filter, Goto
  <2>3. ~Raw(own) /\ own \in DOMAIN heap /\ ~Raw(a)
    BY <2>2 DEF OwnCopy, ArrayOf, Nth, Raw
  <2>4. /\ DOMAIN heap' = DOMAIN heap \cup {a}
        /\ \A b \in DOMAIN heap : b # a /\ b # own => heap'[b] = heap[b]
    BY <2>1, <2>3 DEF Put
  <2>5. \A b : Raw(b) => b # a /\ b # own
    BY <2>3
  <2>6. Shapes'
    BY <2>1, <2>2 DEF Shapes, Places
  <2>7. NotMade'
    <3>1. \A u \in Threads : ArrayOf(u, "raw")' = ArrayOf(u, "raw") /\ Raw(ArrayOf(u, "raw"))
                             /\ Raw(<<u, 2, "raw">>)
      BY <2>2 DEF ArrayOf, Nth, Raw
    <3> QED
      BY <2>2, <2>4, <2>5, <3>1 DEF NotMade, Shapes
  <2>8. MadeRaw' /\ OwnCopy' /\ CachedRaw'
    BY <2>1, <2>2, <2>3, <2>4, <2>5 DEF MadeRaw, OwnCopy, CachedRaw, Shapes
  <2> QED
    BY <2>6, <2>7, <2>8
<1>8. ASSUME NEW t \in Threads, Filter(t), ~leg[t].filtered
      PROVE  RawInv'
  <2>1. UNCHANGED <<body, leg, resp, flights, outbound, reply, cache, heap>>
        /\ pc[t] = "filter" /\ pc' = [pc EXCEPT ![t] = "rank"]
    BY <1>8 DEF Filter, Goto
  <2> QED
    BY <2>1 DEF Shapes, NotMade, MadeRaw, OwnCopy, CachedRaw, Places, ArrayOf, Nth
<1>9. ASSUME NEW t \in Threads, Rank(t) \/ Sort(t) \/ Format(t)
      PROVE  RawInv'
  <2>1. pc[t] \in {"rank", "sort", "format"}
    BY <1>9 DEF Rank, Sort, Format
  <2>2. ~Raw(flights[t])
    BY <2>1 DEF OwnCopy
  <2>3. \E s : \E p \in {"sort", "format", "finish"} :
            Present(t, flights[t], s) /\ Goto(t, p)
    BY <1>9 DEF Rank, Sort, Format
  <2> QED
    BY <2>1, <2>2, <2>3, PresentStep DEF Places
<1>10. ASSUME NEW t \in Threads, FinishLeg(t)
       PROVE  RawInv'
  <2>1. /\ UNCHANGED <<body, resp, flights, reply, cache, heap>> /\ pc[t] = "finish"
        /\ DOMAIN leg' = Threads /\ DOMAIN outbound' = Threads
        /\ \A u \in Threads \ {t} : outbound'[u] = outbound[u]
    BY <1>10 DEF FinishLeg, Shapes
  <2>2. \/ /\ pc' = [pc EXCEPT ![t] = "lookup"]
           /\ outbound[t] = None /\ outbound'[t] = <<LegResponse(t)>>
        \/ /\ pc' = [pc EXCEPT ![t] = "write"]
           /\ outbound'[t] = Append(outbound[t], LegResponse(t))
    BY <1>10 DEF FinishLeg, Goto, Shapes
  <2>3. Shapes' /\ MadeRaw' /\ OwnCopy' /\ CachedRaw'
    BY <2>1, <2>2 DEF Shapes, MadeRaw, OwnCopy, CachedRaw, Places
  <2>4. ASSUME NEW u \in Threads \ {t}
        PROVE  pc'[u] = pc[u] /\ ArrayOf(u, "raw")' = ArrayOf(u, "raw")
    BY <2>1, <2>2 DEF Shapes, ArrayOf, Nth
  <2>5. CASE pc' = [pc EXCEPT ![t] = "lookup"] /\ outbound[t] = None
             /\ outbound'[t] = <<LegResponse(t)>>
    <3>1. pc'[t] = "lookup" /\ ArrayOf(t, "raw")' = <<t, 2, "raw">> /\ outbound'[t] # None
      <4>1. ASSUME NEW x
            PROVE  <<x>> # << >>
        OBVIOUS
      <4>2. outbound'[t] # None
        BY <2>5, <4>1 DEF None
      <4> QED
        BY <2>5, <4>2 DEF Shapes, ArrayOf, Nth
    <3>2. <<t, 2, "raw">> \notin DOMAIN heap
      BY <2>1, <2>5 DEF NotMade
    <3> QED
      BY <2>1, <2>3, <2>4, <3>1, <3>2 DEF NotMade
  <2>6. CASE pc' = [pc EXCEPT ![t] = "write"]
    <3>1. pc'[t] = "write"
      BY <2>6 DEF Shapes
    <3> QED
      BY <2>1, <2>3, <2>4, <3>1 DEF NotMade
  <2> QED
    BY <2>2, <2>5, <2>6
<1>11. ASSUME NEW k \in DOMAIN cache, Expire(k)
       PROVE  RawInv'
  BY <1>11 DEF Expire, Shapes, NotMade, MadeRaw, OwnCopy, CachedRaw, ArrayOf, Nth
<1> QED
  BY <1>1, <1>2, <1>3, <1>4, <1>5, <1>6, <1>7, <1>8, <1>9, <1>10, <1>11
     DEF Next, Finished, Serve

\* Whatever requests present the same entry at the same time, nothing writes to
\* the array that the cache holds after it was stored.
THEOREM RawStaysRaw == Spec => []CacheStaysRaw
<1>1. RawInv => CacheStaysRaw
  BY DEF RawInv, CachedRaw, CacheStaysRaw
<1> QED
  BY <1>1, RawInit, RawStep, PTL DEF Spec

-----------------------------------------------------------------------------
(* What is shown is what was asked for                                     *)

IsList(s) == Len(s) \in Nat /\ DOMAIN s = 1 .. Len(s)

NoRepeats(s) == \A i, j \in DOMAIN s : s[i].airline = s[j].airline => i = j

\* A response has flights of the airlines on the leg that its criteria tell of, one
\* each at most.
FetchedFlights(r) ==
    /\ IsList(r.fetched) /\ NoRepeats(r.fetched)
    /\ \A i \in DOMAIN r.fetched : r.fetched[i] = Flight(r.fetched[i].airline, r.criteria)

\* A flight as it is presented: scored against basis, and plain or with its prices said.
Seen(a, l, b, w) ==
    [airline |-> a, from |-> ToUpper[l.from], to |-> ToUpper[l.to], date |-> l.date,
     seats |-> l.passengers, cabin |-> ToLower[l.cabin], basis |-> b, formatted |-> w = "said"]

\* How far the presentation of r on leg l has come before step p.  What r was
\* fetched for is in its criteria, and may be another leg than l.
Presented(p, l, r, s) ==
    /\ IsList(s) /\ NoRepeats(s)
    /\ p # "filter" => Carriers(s) = Wanted(l, r.fetched)
    /\ p = "filter" => s = r.fetched
    /\ \A i \in DOMAIN s :
           s[i] = Seen(s[i].airline, r.criteria,
                       IF p \in {"sort", "format", "finish"} THEN Carriers(s) ELSE {},
                       IF p = "finish" THEN "said" ELSE "plain")
    /\ p \in {"format", "finish"} => \A i, j \in DOMAIN s : i < j => ~ Less(l, s[j], s[i])

\* An array of t for its n-th leg.
OwnArray(t, n, a, h) == a \in {<<t, n, "copy">>, <<t, n, "kept">>} /\ a \in DOMAIN h

\* A leg that t has finished; h is the heap.
LegDone(t, n, l, o, h) ==
    /\ OwnArray(t, n, o.array, h)
    /\ FetchedFlights(o.resp)
    /\ Presented("finish", l, o.resp, h[o.array])
    /\ o.total = Len(h[o.array])

Searching == {"lookup", "fetch", "store", "copy", "filter", "rank", "sort", "format", "finish"}

Presenting == {"filter", "rank", "sort", "format", "finish"}

\* What is true of a goroutine at place p, with body b, on leg l, and so on.
ThreadOk(t, p, b, l, r, f, o, h) ==
    /\ p = "idle" => o = None
    /\ p \in Searching =>
           /\ o = None => l = b
           /\ o # None => /\ l = Inbound(b) /\ o = <<o[1]>> /\ b.ret \notin {"nil", ""}
                          /\ LegDone(t, 1, b, o[1], h)
    /\ p \in Searching \ {"lookup", "fetch"} => FetchedFlights(r)
    /\ p \in {"store", "copy"} => /\ f \in DOMAIN h /\ Raw(f)
                                  /\ h[f] = r.fetched
    /\ p \in Presenting => /\ OwnArray(t, Nth(o), f, h)
                           /\ Presented(p, l, r, h[f])
    /\ p = "write" =>
           /\ IsList(o) /\ Len(o) = Len(Legs(b))
           /\ \A i \in 1 .. Len(Legs(b)) : LegDone(t, i, Legs(b)[i], o[i], h)

ThreadsOk ==
    \A t \in Threads :
        ThreadOk(t, pc[t], body[t], leg[t], resp[t], flights[t], outbound[t], heap)

CacheOk == \A k \in DOMAIN cache : FetchedFlights(cache[k])

-----------------------------------------------------------------------------
(* Lemmas about the pure parts                                             *)

\* The criteria say all that an airline has to know of a leg.
LEMMA FlightOfCriteria == \A a, l : Flight(a, Criteria(l)) = Flight(a, l)
BY DEF Flight, Criteria

LEMMA SeenFetched == \A a, l : Flight(a, l) = Seen(a, l, {}, "plain")
BY DEF Seen, Flight

LEMMA SeenAirline == \A a, l, b, w : Seen(a, l, b, w).airline = a
BY DEF Seen

\* A flight as RepliesFaithful wants it.
Told(a, l, b) == [Flight(a, l) EXCEPT !.basis = b, !.formatted = TRUE]

LEMMA SeenFlight == \A a, l, b : Told(a, l, b) = Seen(a, l, b, "said")
<1>1. TAKE a, l, b
<1> DEFINE x == [Flight(a, l) EXCEPT !.basis = b, !.formatted = TRUE]
<1>2. DOMAIN x = DOMAIN Seen(a, l, b, "said")
  BY DEF Flight, Seen
<1>3. \A field \in DOMAIN x : x[field] = Seen(a, l, b, "said")[field]
  <2>1. /\ x.airline = Seen(a, l, b, "said").airline /\ x.from = Seen(a, l, b, "said").from
        /\ x.to = Seen(a, l, b, "said").to /\ x.date = Seen(a, l, b, "said").date
        /\ x.seats = Seen(a, l, b, "said").seats /\ x.cabin = Seen(a, l, b, "said").cabin
    BY DEF Flight, Seen
  <2>2. x.basis = Seen(a, l, b, "said").basis
    BY DEF Flight, Seen
  <2>3. x.formatted = Seen(a, l, b, "said").formatted
    BY DEF Flight, Seen
  <2>4. DOMAIN x =
            {"airline", "from", "to", "date", "seats", "cabin", "basis", "formatted"}
    BY DEF Flight
  <2> HIDE DEF x
  <2> QED
    BY <2>1, <2>2, <2>3, <2>4
<1>4. x = [field \in DOMAIN x |-> x[field]]
  BY DEF Flight
<1>5. Seen(a, l, b, "said") = [field \in DOMAIN Seen(a, l, b, "said") |-> Seen(a, l, b, "said")[field]]
  BY DEF Seen
<1> HIDE DEF x
<1>6. x = Seen(a, l, b, "said")
  BY <1>2, <1>3, <1>4, <1>5
<1> QED
  BY <1>6 DEF x, Told

\* Ranking and formatting write one field each.
Ranked(x, c) == [x EXCEPT !.basis = c]

Formatted(x) == [x EXCEPT !.formatted = TRUE]

LEMMA SeenRanked ==
  ASSUME NEW a, NEW l, NEW b, NEW c, NEW x, x = Seen(a, l, b, "plain")
  PROVE  Ranked(x, c) = Seen(a, l, c, "plain")
<1> DEFINE z == Seen(a, l, c, "plain")
<1>1. /\ DOMAIN x = {"airline", "from", "to", "date", "seats", "cabin", "basis", "formatted"}
      /\ DOMAIN z = DOMAIN x
  BY DEF Seen
<1>2. /\ x.airline = z.airline /\ x.from = z.from /\ x.to = z.to /\ x.date = z.date
      /\ x.seats = z.seats /\ x.cabin = z.cabin /\ x.formatted = z.formatted /\ z.basis = c
  BY DEF Seen
<1>3. z = [field \in DOMAIN z |-> z[field]]
  BY DEF Seen
<1> HIDE DEF z
<1>4. Ranked(x, c) = [field \in DOMAIN x |-> IF field = "basis" THEN c ELSE x[field]]
  BY <1>1 DEF Ranked
<1>5. \A field \in DOMAIN x : (IF field = "basis" THEN c ELSE x[field]) = z[field]
  BY <1>1, <1>2
<1>6. Ranked(x, c) = z
  BY <1>1, <1>3, <1>4, <1>5
<1> QED
  BY <1>6 DEF z

LEMMA SeenFormatted ==
  ASSUME NEW a, NEW l, NEW b, NEW x, x = Seen(a, l, b, "plain")
  PROVE  Formatted(x) = Seen(a, l, b, "said")
<1> DEFINE z == Seen(a, l, b, "said")
<1>1. /\ DOMAIN x = {"airline", "from", "to", "date", "seats", "cabin", "basis", "formatted"}
      /\ DOMAIN z = DOMAIN x
  BY DEF Seen
<1>2. /\ x.airline = z.airline /\ x.from = z.from /\ x.to = z.to /\ x.date = z.date
      /\ x.seats = z.seats /\ x.cabin = z.cabin /\ x.basis = z.basis /\ z.formatted = TRUE
  BY DEF Seen
<1>3. z = [field \in DOMAIN z |-> z[field]]
  BY DEF Seen
<1> HIDE DEF z
<1>4. Formatted(x) = [field \in DOMAIN x |-> IF field = "formatted" THEN TRUE ELSE x[field]]
  BY <1>1 DEF Formatted
<1>5. \A field \in DOMAIN x : (IF field = "formatted" THEN TRUE ELSE x[field]) = z[field]
  BY <1>1, <1>2
<1>6. Formatted(x) = z
  BY <1>1, <1>3, <1>4, <1>5
<1> QED
  BY <1>6 DEF z

LEMMA InOrderList ==
  ASSUME NEW n \in Nat, NEW S \in SUBSET (1 .. n), NEW p \in InOrder(S)
  PROVE  /\ IsList(p) /\ p \in [DOMAIN p -> S]
         /\ \A i, j \in DOMAIN p : p[i] = p[j] => i = j
         /\ \A x \in S : \E i \in DOMAIN p : p[i] = x
<1>1. Cardinality(S) \in Nat
  <2>1. IsFiniteSet(1 .. n)
    BY FS_Interval
  <2>2. IsFiniteSet(S)
    BY <2>1, FS_Subset
  <2> QED
    BY <2>2, FS_CardinalityType
<1>2. p \in [1 .. Cardinality(S) -> S]
  BY DEF InOrder
<1>3. Len(p) = Cardinality(S) /\ DOMAIN p = 1 .. Cardinality(S)
  BY <1>1, <1>2
<1>4. \A i, j \in DOMAIN p : i < j => p[i] < p[j]
  BY DEF InOrder
<1>5. ASSUME NEW i \in DOMAIN p, NEW j \in DOMAIN p, p[i] = p[j]
      PROVE  i = j
  <2>1. i \in 1 .. Cardinality(S) /\ j \in 1 .. Cardinality(S) /\ p[i] \in S
    BY <1>2, <1>3
  <2>2. ~ (p[i] < p[j]) /\ ~ (p[j] < p[i])
    <3>1. p[i] \in 1 .. n
      BY <2>1
    <3> QED
      BY <1>5, <3>1
  <2>3. ~ (i < j) /\ ~ (j < i)
    BY <1>4, <2>2
  <2> QED
    BY <2>1, <2>3
<1>6. \A x \in S : \E i \in DOMAIN p : p[i] = x
  BY DEF InOrder
<1> QED
  BY <1>1, <1>2, <1>3, <1>5, <1>6 DEF IsList

LEMMA AirlineList ==
  /\ Len(Airlines) \in Nat /\ DOMAIN Airlines = 1 .. Len(Airlines)
  /\ \A i, j \in DOMAIN Airlines : Airlines[i] = Airlines[j] => i = j
<1>1. Airlines \in Seq({Airlines[i] : i \in DOMAIN Airlines})
  BY SearchAssumption
<1>2. \A i, j \in DOMAIN Airlines : Airlines[i] = Airlines[j] => i = j
  BY SearchAssumption
<1> QED
  BY <1>1, <1>2

\* What a fetch comes to is what FetchedFlights says.
LEMMA FetchesFetched ==
  ASSUME NEW l, NEW r \in Fetches(l)
  PROVE  FetchedFlights(r)
<1> DEFINE Raws(good) == IF Sold(l) THEN [i \in DOMAIN good |-> Flight(Airlines[good[i]], l)]
                                    ELSE << >>
<1>0. PICK S \in SUBSET DOMAIN Airlines : \E good \in InOrder(S) : r = Response(l, good)
  BY DEF Fetches
<1>1. PICK good \in InOrder(S) : r = Response(l, good)
  BY <1>0
<1>2. /\ r.criteria = Criteria(l) /\ r.succeeded = Len(good)
      /\ r.failed = Len(Airlines) - Len(good) /\ r.fetched = Raws(good)
  BY <1>1 DEF Response
<1>3. S \in SUBSET (1 .. Len(Airlines)) /\ Len(Airlines) \in Nat
  BY AirlineList
<1>4. /\ IsList(good) /\ good \in [DOMAIN good -> S]
      /\ \A i, j \in DOMAIN good : good[i] = good[j] => i = j
  BY <1>1, <1>3, InOrderList
<1>5. IsList(Raws(good))
  <2>1. CASE Sold(l)
    BY <1>4, <2>1 DEF IsList
  <2>2. CASE ~ Sold(l)
    BY <2>2 DEF IsList
  <2> QED
    BY <2>1, <2>2
<1>6. \A i \in DOMAIN Raws(good) :
          /\ i \in DOMAIN good /\ Sold(l)
          /\ Raws(good)[i] = Flight(Airlines[good[i]], l)
  BY <1>5 DEF IsList
<1>7. \A a : Flight(a, l).airline = a
  BY DEF Flight
<1>8. \A i \in DOMAIN Raws(good) : Raws(good)[i] = Flight(Raws(good)[i].airline, Criteria(l))
  BY <1>6, <1>7, FlightOfCriteria
<1>9. NoRepeats(Raws(good))
  <2>1. \A i \in DOMAIN Raws(good) :
            Raws(good)[i].airline = Airlines[good[i]] /\ good[i] \in DOMAIN Airlines
    BY <1>3, <1>4, <1>6, <1>7, AirlineList
  <2> HIDE DEF Raws
  <2> QED
    BY <1>4, <1>6, <2>1, AirlineList DEF NoRepeats
<1> HIDE DEF Raws
<1> QED
  BY <1>2, <1>5, <1>8, <1>9 DEF FetchedFlights

\* Aggregate is a fetch.
LEMMA AggregateFetches ==
  ASSUME NEW t \in Threads, Aggregate(t)
  PROVE  \E r \in Fetches(leg[t]) : /\ resp' = [resp EXCEPT ![t] = r]
                                    /\ heap' = Put(heap, ArrayOf(t, "raw"), r.fetched)
<1>1. PICK outcome \in [DOMAIN Airlines -> {"ok", "DeadlineExceeded"}] :
        \E good \in InOrder({i \in DOMAIN Airlines : outcome[i] = "ok"}) :
          LET r == Response(leg[t], good)
          IN  /\ heap' = Put(heap, ArrayOf(t, "raw"), r.fetched)
              /\ resp' = [resp EXCEPT ![t] = r]
  BY DEF Aggregate
<1> DEFINE S == {i \in DOMAIN Airlines : outcome[i] = "ok"}
<1>2. PICK good \in InOrder(S) :
        /\ heap' = Put(heap, ArrayOf(t, "raw"), Response(leg[t], good).fetched)
        /\ resp' = [resp EXCEPT ![t] = Response(leg[t], good)]
  BY <1>1
<1>3. S \in SUBSET DOMAIN Airlines
  OBVIOUS
<1> HIDE DEF S
<1>4. Response(leg[t], good) \in Fetches(leg[t])
  BY <1>2, <1>3 DEF Fetches
<1> QED
  BY <1>2, <1>4

-----------------------------------------------------------------------------
(* The steps of applyPresentation on the contents of the slice             *)

LEMMA CopyPresents ==
  ASSUME NEW l, NEW r, FetchedFlights(r)
  PROVE  Presented("filter", l, r, r.fetched)
<1>1. \A i \in DOMAIN r.fetched : r.fetched[i] = Seen(r.fetched[i].airline, r.criteria, {}, "plain")
  BY SeenFetched DEF FetchedFlights
<1> QED
  BY <1>1 DEF FetchedFlights, Presented

LEMMA NoFilterPresents ==
  ASSUME NEW l, NEW r, NEW s, Presented("filter", l, r, s), ~ l.filtered
  PROVE  Presented("rank", l, r, s)
<1>1. s = r.fetched
  BY DEF Presented
<1>2. {i \in DOMAIN r.fetched : Keeps(l, r.fetched[i])} = DOMAIN r.fetched
  BY DEF Keeps
<1>3. Carriers(s) = Wanted(l, r.fetched)
  BY <1>1, <1>2 DEF Carriers, Wanted
<1> QED
  BY <1>3 DEF Presented

LEMMA FilterPresents ==
  ASSUME NEW l, NEW r, NEW s, Presented("filter", l, r, s),
         NEW p \in InOrder({i \in DOMAIN s : Keeps(l, s[i])})
  PROVE  Presented("rank", l, r, [i \in DOMAIN p |-> s[p[i]]])
<1> DEFINE K == {i \in DOMAIN s : Keeps(l, s[i])}
           kept == [i \in DOMAIN p |-> s[p[i]]]
<1>1. s = r.fetched /\ IsList(s) /\ NoRepeats(s)
  BY DEF Presented
<1>2. K \in SUBSET (1 .. Len(s)) /\ Len(s) \in Nat
  BY <1>1 DEF IsList
<1>3. /\ IsList(p) /\ p \in [DOMAIN p -> K]
      /\ \A i, j \in DOMAIN p : p[i] = p[j] => i = j
      /\ \A x \in K : \E i \in DOMAIN p : p[i] = x
  BY <1>2, InOrderList
<1>4. \A i \in DOMAIN p : p[i] \in DOMAIN s /\ kept[i] = s[p[i]]
  BY <1>3
<1>5. IsList(kept) /\ DOMAIN kept = DOMAIN p
  BY <1>3 DEF IsList
<1>6. NoRepeats(kept)
  BY <1>1, <1>3, <1>4, <1>5 DEF NoRepeats
<1>7. Carriers(kept) = Wanted(l, r.fetched)
  <2>1. Wanted(l, r.fetched) = {s[j].airline : j \in K}
    BY <1>1 DEF Wanted
  <2>2. Carriers(kept) = {kept[i].airline : i \in DOMAIN p}
    BY <1>5 DEF Carriers
  <2> HIDE DEF K, kept
  <2>3. \A a \in Carriers(kept) : a \in Wanted(l, r.fetched)
    BY <1>3, <1>4, <2>1, <2>2
  <2>4. \A j \in K : s[j].airline \in Carriers(kept)
    BY <1>3, <1>4, <2>2
  <2> QED
    BY <2>1, <2>3, <2>4
<1>8. \A i \in DOMAIN kept : kept[i] = Seen(kept[i].airline, r.criteria, {}, "plain")
  BY <1>4, <1>5 DEF Presented
<1> HIDE DEF kept
<1> QED
  BY <1>5, <1>6, <1>7, <1>8 DEF Presented, kept

LEMMA RankPresents ==
  ASSUME NEW l, NEW r, NEW s, Presented("rank", l, r, s), NEW C, C = Carriers(s),
         NEW ranked, DOMAIN ranked = DOMAIN s, Len(ranked) = Len(s),
         \A i \in DOMAIN s : ranked[i] = Ranked(s[i], C)
  PROVE  Presented("sort", l, r, ranked)
<1>1. IsList(s) /\ NoRepeats(s) /\ C = Wanted(l, r.fetched)
  BY DEF Presented
<1>2. IsList(ranked) /\ DOMAIN ranked = DOMAIN s
  BY <1>1 DEF IsList
<1>3. \A i \in DOMAIN s : s[i] = Seen(s[i].airline, r.criteria, {}, "plain")
  BY DEF Presented
<1>4. \A i \in DOMAIN s : ranked[i] = Seen(s[i].airline, r.criteria, C, "plain")
  BY <1>3, SeenRanked
<1>5. \A i \in DOMAIN s : ranked[i].airline = s[i].airline
  BY <1>4, SeenAirline
<1>6. Carriers(ranked) = C
  BY <1>2, <1>5 DEF Carriers
<1>7. NoRepeats(ranked)
  BY <1>1, <1>2, <1>5 DEF NoRepeats
<1>8. \A i \in DOMAIN ranked : ranked[i] = Seen(ranked[i].airline, r.criteria, C, "plain")
  BY <1>2, <1>4, <1>5
<1> QED
  BY <1>1, <1>2, <1>6, <1>7, <1>8 DEF Presented

LEMMA SortPresents ==
  ASSUME NEW l, NEW r, NEW s, Presented("sort", l, r, s),
         NEW p \in StableSorts(l, s)
  PROVE  Presented("format", l, r, [i \in DOMAIN s |-> s[p[i]]])
<1> DEFINE sorted == [i \in DOMAIN s |-> s[p[i]]]
<1>1. /\ p \in [DOMAIN s -> DOMAIN s]
      /\ \A x \in DOMAIN s : \E i \in DOMAIN s : p[i] = x
      /\ \A i, j \in DOMAIN s : i < j => p[i] # p[j] /\ ~ Less(l, s[p[j]], s[p[i]])
  BY DEF StableSorts
<1>2. IsList(s) /\ NoRepeats(s) /\ Carriers(s) = Wanted(l, r.fetched)
  BY DEF Presented
<1>3. \A i, j \in DOMAIN s : p[i] = p[j] => i = j
  BY <1>1, <1>2 DEF IsList
<1>4. IsList(sorted) /\ DOMAIN sorted = DOMAIN s
  BY <1>2 DEF IsList
<1>5. \A i \in DOMAIN s : p[i] \in DOMAIN s /\ sorted[i] = s[p[i]]
  BY <1>1
<1> HIDE DEF sorted
<1>6. NoRepeats(sorted)
  BY <1>2, <1>3, <1>4, <1>5 DEF NoRepeats
<1>7. Carriers(sorted) = Carriers(s)
  <2>1. \A a \in Carriers(sorted) : a \in Carriers(s)
    BY <1>4, <1>5 DEF Carriers
  <2>2. \A a \in Carriers(s) : a \in Carriers(sorted)
    BY <1>1, <1>4, <1>5 DEF Carriers
  <2> QED
    BY <2>1, <2>2
<1>8. \A i \in DOMAIN s : sorted[i] = Seen(sorted[i].airline, r.criteria, Carriers(sorted), "plain")
  BY <1>5, <1>7 DEF Presented
<1>9. \A i, j \in DOMAIN sorted : i < j => ~ Less(l, sorted[j], sorted[i])
  BY <1>1, <1>4, <1>5
<1> QED
  BY <1>2, <1>4, <1>6, <1>7, <1>8, <1>9 DEF Presented, sorted

LEMMA FormatPresents ==
  ASSUME NEW l, NEW r, NEW s, Presented("format", l, r, s), NEW C, C = Carriers(s),
         NEW done, DOMAIN done = DOMAIN s, Len(done) = Len(s),
         \A i \in DOMAIN s : done[i] = Formatted(s[i])
  PROVE  Presented("finish", l, r, done)
<1>1. IsList(s) /\ NoRepeats(s) /\ C = Wanted(l, r.fetched)
  BY DEF Presented
<1>2. IsList(done) /\ DOMAIN done = DOMAIN s
  BY <1>1 DEF IsList
<1>3. \A i \in DOMAIN s : s[i] = Seen(s[i].airline, r.criteria, C, "plain")
  BY DEF Presented
<1>4. \A i \in DOMAIN s : done[i] = Seen(s[i].airline, r.criteria, C, "said")
  BY <1>3, SeenFormatted
<1>5. \A i \in DOMAIN s : done[i].airline = s[i].airline
  BY <1>4, SeenAirline
<1>6. Carriers(done) = C
  BY <1>2, <1>5 DEF Carriers
<1>7. NoRepeats(done)
  BY <1>1, <1>2, <1>5 DEF NoRepeats
<1>8. \A i \in DOMAIN done : done[i] = Seen(done[i].airline, r.criteria, C, "said")
  BY <1>2, <1>4, <1>5
<1>9. \A i, j \in DOMAIN s : i < j => ~ Less(l, s[j], s[i])
  BY DEF Presented
<1>10. \A i, j \in DOMAIN done : i < j => ~ Less(l, done[j], done[i])
  BY <1>2, <1>5, <1>9 DEF Less
<1> QED
  BY <1>1, <1>2, <1>6, <1>7, <1>8, <1>10 DEF Presented

-----------------------------------------------------------------------------
(* A step of one goroutine and what the others have                        *)

\* From h to g only the copies that t makes for one of its legs are written.
Kept(t, n, h, g) ==
    /\ DOMAIN h \subseteq DOMAIN g
    /\ \A a \in DOMAIN h : a \notin {<<t, n, "copy">>, <<t, n, "kept">>} => g[a] = h[a]

LEMMA LegKept ==
  ASSUME NEW t, NEW n, NEW h, NEW g, Kept(t, n, h, g),
         NEW u, NEW b, NEW l, NEW o, LegDone(u, b, l, o, h), u # t \/ b # n
  PROVE  LegDone(u, b, l, o, g)
<1>1. o.array \in DOMAIN h /\ o.array \in {<<u, b, "copy">>, <<u, b, "kept">>}
  BY DEF LegDone, OwnArray
<1>2. o.array \notin {<<t, n, "copy">>, <<t, n, "kept">>}
  BY <1>1
<1>3. o.array \in DOMAIN g /\ g[o.array] = h[o.array]
  BY <1>1, <1>2 DEF Kept
<1> QED
  BY <1>1, <1>3 DEF LegDone, OwnArray

LEMMA OtherKept ==
  ASSUME NEW t, NEW n, NEW h, NEW g, Kept(t, n, h, g),
         NEW u, u # t, NEW p, NEW b, NEW l, NEW r, NEW f, NEW o,
         ThreadOk(u, p, b, l, r, f, o, h)
  PROVE  ThreadOk(u, p, b, l, r, f, o, g)
<1>1. ASSUME NEW i, NEW m, NEW q, LegDone(u, i, m, q, h)
      PROVE  LegDone(u, i, m, q, g)
  BY <1>1, LegKept
<1>2. ASSUME p \in {"store", "copy"}
      PROVE  f \in DOMAIN g /\ Raw(f) /\ g[f] = r.fetched
  <2>1. f \in DOMAIN h /\ Raw(f) /\ h[f] = r.fetched
    BY <1>2 DEF ThreadOk
  <2>2. f \notin {<<t, n, "copy">>, <<t, n, "kept">>}
    BY <2>1 DEF Raw
  <2> QED
    BY <2>1, <2>2 DEF Kept
<1>3. ASSUME p \in Presenting
      PROVE  OwnArray(u, Nth(o), f, g) /\ Presented(p, l, r, g[f])
  <2>1. OwnArray(u, Nth(o), f, h) /\ Presented(p, l, r, h[f])
    BY <1>3 DEF ThreadOk
  <2>2. f \in DOMAIN h /\ f \in {<<u, Nth(o), "copy">>, <<u, Nth(o), "kept">>}
    BY <2>1 DEF OwnArray
  <2>3. f \notin {<<t, n, "copy">>, <<t, n, "kept">>}
    BY <2>2
  <2>4. f \in DOMAIN g /\ g[f] = h[f]
    BY <2>2, <2>3 DEF Kept
  <2> QED
    BY <2>1, <2>2, <2>4 DEF OwnArray
<1> QED
  BY <1>1, <1>2, <1>3 DEF ThreadOk

\* A step of t leaves alone what the others have.
LEMMA ServeOthers ==
  ASSUME Shapes, NEW t \in Threads, Serve(t), NEW u \in Threads \ {t}
  PROVE  /\ pc'[u] = pc[u] /\ body'[u] = body[u] /\ leg'[u] = leg[u] /\ resp'[u] = resp[u]
         /\ flights'[u] = flights[u] /\ outbound'[u] = outbound[u] /\ reply'[u] = reply[u]
<1> USE DEF Shapes, Goto
<1>1. CASE Undecodable(t) \/ Start(t)
  BY <1>1 DEF Undecodable, Start, Reject
<1>2. CASE Hit(t) \/ Miss(t)
  BY <1>2 DEF Hit, Miss
<1>3. CASE Aggregate(t)
  BY <1>3 DEF Aggregate
<1>4. CASE Store(t)
  BY <1>4 DEF Store
<1>5. CASE Copy(t) \/ Rank(t) \/ Sort(t) \/ Format(t)
  BY <1>5 DEF Copy, Rank, Sort, Format, Present
<1>6. CASE Filter(t)
  BY <1>6 DEF Filter
<1>7. CASE FinishLeg(t) \/ Write(t)
  BY <1>7 DEF FinishLeg, Write
<1> QED
  BY <1>1, <1>2, <1>3, <1>4, <1>5, <1>6, <1>7 DEF Serve

\* It writes only to arrays of its own, on the leg it is searching.
LEMMA ServeKeeps ==
  ASSUME RawInv, ThreadsOk, NEW t \in Threads, Serve(t)
  PROVE  Kept(t, Nth(outbound[t]), heap, heap')
<1> DEFINE n == Nth(outbound[t])
           own == {<<t, n, "copy">>, <<t, n, "kept">>}
<1>1. ASSUME NEW a, NEW s, heap' = Put(heap, a, s), a \in own \/ a \notin DOMAIN heap
      PROVE  Kept(t, n, heap, heap')
  BY <1>1 DEF Kept, Put
<1>2. ASSUME pc[t] \in Presenting
      PROVE  flights[t] \in own
  BY <1>2 DEF ThreadsOk, ThreadOk, OwnArray
<1>3. ArrayOf(t, "copy") \in own /\ ArrayOf(t, "kept") \in own
  BY DEF ArrayOf, Nth
<1>4. CASE heap' = heap
  BY <1>4 DEF Kept
<1>5. CASE Aggregate(t)
  <2>1. ArrayOf(t, "raw") \notin DOMAIN heap
    BY <1>5 DEF Aggregate, RawInv, NotMade
  <2>2. \E s : heap' = Put(heap, ArrayOf(t, "raw"), s)
    BY <1>5 DEF Aggregate
  <2> QED
    BY <1>1, <2>1, <2>2
<1>6. CASE Copy(t)
  BY <1>1, <1>3, <1>6 DEF Copy, Present
<1>7. CASE Rank(t) \/ Sort(t) \/ Format(t)
  <2>1. flights[t] \in own
    BY <1>2, <1>7 DEF Rank, Sort, Format, Presenting
  <2>2. \E s : heap' = Put(heap, flights[t], s)
    BY <1>7 DEF Rank, Sort, Format, Present
  <2> QED
    BY <1>1, <2>1, <2>2
<1>8. CASE Filter(t) /\ leg[t].filtered
  <2>1. flights[t] \in own
    BY <1>2, <1>8 DEF Filter, Presenting
  <2>2. \E s, r : heap' = Put(Put(heap, flights[t], s), ArrayOf(t, "kept"), r)
    BY <1>8 DEF Filter
  <2> HIDE DEF own
  <2> QED
    BY <1>3, <2>1, <2>2 DEF Kept, Put, own
<1> QED
  BY <1>4, <1>5, <1>6, <1>7, <1>8
     DEF Serve, Undecodable, Start, Hit, Miss, Store, Filter, FinishLeg, Write

LEMMA ThreadsFrame ==
  ASSUME RawInv, ThreadsOk, NEW t \in Threads, Serve(t),
         ThreadOk(t, pc'[t], body'[t], leg'[t], resp'[t], flights'[t], outbound'[t], heap')
  PROVE  ThreadsOk'
<1>1. Kept(t, Nth(outbound[t]), heap, heap')
  BY ServeKeeps
<1>2. ASSUME NEW u \in Threads \ {t}
      PROVE  ThreadOk(u, pc'[u], body'[u], leg'[u], resp'[u], flights'[u], outbound'[u], heap')
  <2>1. /\ pc'[u] = pc[u] /\ body'[u] = body[u] /\ leg'[u] = leg[u] /\ resp'[u] = resp[u]
        /\ flights'[u] = flights[u] /\ outbound'[u] = outbound[u]
    BY <1>2, ServeOthers DEF RawInv
  <2>2. ThreadOk(u, pc[u], body[u], leg[u], resp[u], flights[u], outbound[u], heap)
    BY DEF ThreadsOk
  <2>3. ThreadOk(u, pc[u], body[u], leg[u], resp[u], flights[u], outbound[u], heap')
    BY <1>1, <2>2, OtherKept
  <2> QED
    BY <2>1, <2>3
<1> QED
  BY <1>2 DEF ThreadsOk

\* The leg that t has finished stays as it is while it searches the second.
LEMMA FirstLegKept ==
  ASSUME RawInv, ThreadsOk, NEW t \in Threads, Serve(t), pc[t] \in Searching,
         outbound[t] # None
  PROVE  LegDone(t, 1, body[t], outbound[t][1], heap')
<1>1. Kept(t, 2, heap, heap')
  BY ServeKeeps DEF Nth
<1>2. LegDone(t, 1, body[t], outbound[t][1], heap)
  BY DEF ThreadsOk, ThreadOk
<1> QED
  BY <1>1, <1>2, LegKept

\* A step of t on the leg it is searching, where only the rest is left to show.
LEMMA SearchStep ==
  ASSUME RawInv, ThreadsOk, NEW t \in Threads, Serve(t), pc[t] \in Searching,
         pc'[t] \in Searching, UNCHANGED <<body, leg, outbound>>,
         pc'[t] \notin {"lookup", "fetch"} => FetchedFlights(resp'[t]),
         pc'[t] \in {"store", "copy"} =>
             /\ flights'[t] \in DOMAIN heap' /\ Raw(flights'[t])
             /\ heap'[flights'[t]] = resp'[t].fetched,
         pc'[t] \in Presenting =>
             /\ OwnArray(t, Nth(outbound[t]), flights'[t], heap')
             /\ Presented(pc'[t], leg[t], resp'[t], heap'[flights'[t]])
  PROVE  ThreadsOk'
<1>1. outbound[t] # None => LegDone(t, 1, body[t], outbound[t][1], heap')
  BY FirstLegKept
<1>2. /\ outbound[t] = None => leg[t] = body[t]
      /\ outbound[t] # None => /\ leg[t] = Inbound(body[t]) /\ outbound[t] = <<outbound[t][1]>>
                               /\ body[t].ret \notin {"nil", ""}
  BY DEF ThreadsOk, ThreadOk
<1>3. pc'[t] \notin {"idle", "write"}
  BY DEF Searching
<1>4. ThreadOk(t, pc'[t], body[t], leg[t], resp'[t], flights'[t], outbound[t], heap')
  BY <1>1, <1>2, <1>3 DEF ThreadOk
<1> QED
  BY <1>4, ThreadsFrame

\* A step of applyPresentation.
LEMMA PresentingStep ==
  ASSUME RawInv, ThreadsOk, NEW t \in Threads, Serve(t),
         pc[t] \in Searching \ {"lookup", "fetch"}, pc'[t] \in Presenting,
         UNCHANGED <<body, leg, resp, outbound>>,
         OwnArray(t, Nth(outbound[t]), flights'[t], heap'),
         Presented(pc'[t], leg[t], resp[t], heap'[flights'[t]])
  PROVE  ThreadsOk'
<1>1. FetchedFlights(resp[t])
  BY DEF ThreadsOk, ThreadOk
<1>2. pc'[t] \in Searching /\ pc'[t] \notin {"lookup", "fetch", "store", "copy"}
  BY DEF Presenting, Searching
<1> QED
  BY <1>1, <1>2, SearchStep

-----------------------------------------------------------------------------
(* The invariant, goroutine by goroutine                                   *)

LEMMA ThreadsInit == Init => ThreadsOk
BY DEF Init, ThreadsOk, ThreadOk, Searching, Presenting

LEMMA ThreadsIdle ==
  ASSUME RawInv, ThreadsOk, NEW t \in Threads, Undecodable(t) \/ Start(t) \/ Write(t)
  PROVE  ThreadsOk'
<1> DEFINE p == pc'[t]
<1>1. Serve(t)
  BY DEF Serve
<1>2. p = "done" \/ (Start(t) /\ p = "lookup")
  BY DEF Undecodable, Start, Write, Reject, Goto, RawInv, Shapes
<1>3. CASE p = "done"
  <2>1. ThreadOk(t, p, body'[t], leg'[t], resp'[t], flights'[t], outbound'[t], heap')
    BY <1>3 DEF ThreadOk, Searching, Presenting
  <2> QED
    BY <1>1, <2>1, ThreadsFrame
<1>4. CASE Start(t) /\ p = "lookup"
  <2>1. outbound[t] = None /\ outbound' = outbound
    BY <1>4 DEF Start, ThreadsOk, ThreadOk
  <2>2. leg'[t] = body'[t]
    BY <1>4 DEF Start, Reject, Goto, RawInv, Shapes
  <2>3. ThreadOk(t, p, body'[t], leg'[t], resp'[t], flights'[t], outbound'[t], heap')
    BY <1>4, <2>1, <2>2 DEF ThreadOk, Searching, Presenting
  <2> QED
    BY <1>1, <2>3, ThreadsFrame
<1> QED
  BY <1>2, <1>3, <1>4

LEMMA ThreadsHit ==
  ASSUME RawInv, ThreadsOk, CacheOk, NEW t \in Threads, Hit(t)
  PROVE  ThreadsOk'
<1> DEFINE e == cache[Key(leg[t])]
           r == [criteria |-> e.criteria, succeeded |-> e.succeeded,
                 failed |-> e.failed, hit |-> TRUE, fetched |-> e.fetched]
<1>1. Serve(t) /\ pc[t] = "lookup" /\ Key(leg[t]) \in DOMAIN cache
  BY DEF Serve, Hit
<1>2. /\ pc'[t] = "copy" /\ resp'[t] = r /\ flights'[t] = e.array
      /\ UNCHANGED <<body, leg, outbound, heap>>
  BY DEF Hit, Goto, RawInv, Shapes
<1>3. FetchedFlights(e)
  BY <1>1 DEF CacheOk
<1>4. /\ r.criteria = e.criteria /\ r.succeeded = e.succeeded /\ r.failed = e.failed
      /\ r.fetched = e.fetched
  OBVIOUS
<1>5. e.array \in DOMAIN heap /\ Raw(e.array) /\ heap[e.array] = e.fetched
  BY <1>1 DEF RawInv, CachedRaw
<1> HIDE DEF e, r
<1>6. FetchedFlights(r)
  BY <1>3, <1>4 DEF FetchedFlights
<1> QED
  BY <1>1, <1>2, <1>4, <1>5, <1>6, SearchStep DEF Searching, Presenting

LEMMA ThreadsMiss ==
  ASSUME RawInv, ThreadsOk, NEW t \in Threads, Miss(t)
  PROVE  ThreadsOk'
<1>1. /\ Serve(t) /\ pc[t] = "lookup" /\ pc'[t] = "fetch"
      /\ UNCHANGED <<body, leg, outbound>>
  BY DEF Serve, Miss, Goto, RawInv, Shapes
<1> QED
  BY <1>1, SearchStep DEF Searching, Presenting

LEMMA ThreadsAggregate ==
  ASSUME RawInv, ThreadsOk, NEW t \in Threads, Aggregate(t)
  PROVE  ThreadsOk'
<1>1. /\ Serve(t) /\ pc[t] = "fetch" /\ pc'[t] = "store"
      /\ UNCHANGED <<body, leg, outbound>> /\ flights'[t] = ArrayOf(t, "raw")
  BY DEF Serve, Aggregate, Goto, RawInv, Shapes
<1>2. PICK r \in Fetches(leg[t]) : /\ resp' = [resp EXCEPT ![t] = r]
                                   /\ heap' = Put(heap, ArrayOf(t, "raw"), r.fetched)
  BY AggregateFetches
<1>3. resp'[t] = r /\ FetchedFlights(r)
  BY <1>2, FetchesFetched DEF RawInv, Shapes
<1>4. /\ ArrayOf(t, "raw") \in DOMAIN heap' /\ Raw(ArrayOf(t, "raw"))
      /\ heap'[ArrayOf(t, "raw")] = r.fetched
  BY <1>2 DEF Put, Raw, ArrayOf
<1> QED
  BY <1>1, <1>2, <1>3, <1>4, SearchStep DEF Searching, Presenting

LEMMA ThreadsStore ==
  ASSUME RawInv, ThreadsOk, NEW t \in Threads, Store(t)
  PROVE  ThreadsOk'
<1>1. /\ Serve(t) /\ pc[t] = "store" /\ pc'[t] = "copy"
      /\ UNCHANGED <<body, leg, resp, flights, outbound, heap>>
  BY DEF Serve, Store, Goto, RawInv, Shapes
<1>2. /\ FetchedFlights(resp[t]) /\ flights[t] \in DOMAIN heap /\ Raw(flights[t])
      /\ heap[flights[t]] = resp[t].fetched
  BY <1>1 DEF ThreadsOk, ThreadOk, Searching
<1> QED
  BY <1>1, <1>2, SearchStep DEF Searching, Presenting

LEMMA ThreadsCopy ==
  ASSUME RawInv, ThreadsOk, NEW t \in Threads, Copy(t)
  PROVE  ThreadsOk'
<1> DEFINE a == ArrayOf(t, "copy")
<1>1. /\ Serve(t) /\ pc[t] = "copy" /\ pc'[t] = "filter"
      /\ UNCHANGED <<body, leg, resp, outbound>> /\ flights'[t] = a
      /\ heap' = Put(heap, a, heap[flights[t]])
  BY DEF Serve, Copy, Present, Goto, RawInv, Shapes
<1>2. FetchedFlights(resp[t]) /\ heap[flights[t]] = resp[t].fetched
  BY <1>1 DEF ThreadsOk, ThreadOk, Searching
<1>3. a \in DOMAIN heap' /\ heap'[a] = resp[t].fetched
  BY <1>1, <1>2 DEF Put
<1>4. OwnArray(t, Nth(outbound[t]), a, heap')
  BY <1>3 DEF OwnArray, ArrayOf
<1>5. Presented("filter", leg[t], resp[t], heap'[a])
  BY <1>2, <1>3, CopyPresents
<1> QED
  BY <1>1, <1>4, <1>5, PresentingStep DEF Searching, Presenting

LEMMA ThreadsFilter ==
  ASSUME RawInv, ThreadsOk, NEW t \in Threads, Filter(t)
  PROVE  ThreadsOk'
<1> DEFINE s == heap[flights[t]]
           a == ArrayOf(t, "kept")
<1>1. /\ Serve(t) /\ pc[t] = "filter" /\ pc'[t] = "rank"
      /\ UNCHANGED <<body, leg, resp, outbound>>
  BY DEF Serve, Filter, Goto, RawInv, Shapes
<1>2. /\ OwnArray(t, Nth(outbound[t]), flights[t], heap)
      /\ Presented("filter", leg[t], resp[t], s)
  BY <1>1 DEF ThreadsOk, ThreadOk, Presenting
<1>3. CASE leg[t].filtered
  <2>1. PICK p \in InOrder({i \in DOMAIN s : Keeps(leg[t], s[i])}) :
            \E c : heap' = Put(Put(heap, flights[t], c), a, [i \in DOMAIN p |-> s[p[i]]])
    BY <1>3 DEF Filter
  <2>2. flights'[t] = a
    BY <1>3 DEF Filter, RawInv, Shapes
  <2>3. a \in DOMAIN heap' /\ heap'[a] = [i \in DOMAIN p |-> s[p[i]]]
    BY <2>1 DEF Put
  <2>4. Presented("rank", leg[t], resp[t], heap'[a])
    BY <1>2, <2>3, FilterPresents
  <2>5. OwnArray(t, Nth(outbound[t]), a, heap')
    BY <2>3 DEF OwnArray, ArrayOf
  <2> QED
    BY <1>1, <2>2, <2>4, <2>5, PresentingStep DEF Searching, Presenting
<1>4. CASE ~ leg[t].filtered
  <2>1. UNCHANGED <<heap, flights>>
    BY <1>4 DEF Filter
  <2>2. Presented("rank", leg[t], resp[t], s)
    BY <1>2, <1>4, NoFilterPresents
  <2> QED
    BY <1>1, <1>2, <2>1, <2>2, PresentingStep DEF Searching, Presenting
<1> QED
  BY <1>3, <1>4

\* Rank, Sort and Format write where the slice is.
LEMMA ThreadsInPlace ==
  ASSUME RawInv, ThreadsOk, NEW t \in Threads, Serve(t), pc[t] \in {"rank", "sort", "format"},
         pc'[t] \in Presenting, NEW s, Present(t, flights[t], s),
         Presented(pc'[t], leg[t], resp[t], s)
  PROVE  ThreadsOk'
<1>1. OwnArray(t, Nth(outbound[t]), flights[t], heap)
  BY DEF ThreadsOk, ThreadOk, Presenting
<1>2. /\ heap' = Put(heap, flights[t], s) /\ flights'[t] = flights[t]
      /\ UNCHANGED <<body, leg, resp, outbound>>
  BY DEF Present, RawInv, Shapes
<1>3. heap'[flights[t]] = s /\ OwnArray(t, Nth(outbound[t]), flights[t], heap')
  BY <1>1, <1>2 DEF Put, OwnArray
<1> QED
  BY <1>2, <1>3, PresentingStep DEF Searching

LEMMA ThreadsRank ==
  ASSUME RawInv, ThreadsOk, NEW t \in Threads, Rank(t)
  PROVE  ThreadsOk'
<1> DEFINE s == heap[flights[t]]
           ranked == [i \in DOMAIN s |-> [s[i] EXCEPT !.basis = Carriers(s)]]
<1>1. /\ Serve(t) /\ pc[t] = "rank" /\ pc'[t] = "sort" /\ Present(t, flights[t], ranked)
  BY DEF Serve, Rank, Goto, RawInv, Shapes
<1>2. Presented("rank", leg[t], resp[t], s)
  BY <1>1 DEF ThreadsOk, ThreadOk, Presenting
<1>3. Presented("sort", leg[t], resp[t], ranked)
  <2>1. PICK C : C = Carriers(s)
    OBVIOUS
  <2>2. DOMAIN ranked = DOMAIN s /\ \A i \in DOMAIN s : ranked[i] = Ranked(s[i], C)
    BY <2>1 DEF Ranked
  <2>3. Len(ranked) = Len(s)
    BY <1>2 DEF Presented, IsList
  <2> HIDE DEF ranked, s
  <2> QED
    BY <1>2, <2>1, <2>2, <2>3, RankPresents
<1> HIDE DEF ranked
<1> QED
  BY <1>1, <1>3, ThreadsInPlace DEF Presenting

LEMMA ThreadsSort ==
  ASSUME RawInv, ThreadsOk, NEW t \in Threads, Sort(t)
  PROVE  ThreadsOk'
<1> DEFINE s == heap[flights[t]]
<1>1. /\ Serve(t) /\ pc[t] = "sort" /\ pc'[t] = "format"
  BY DEF Serve, Sort, Goto, RawInv, Shapes
<1>2. PICK p \in StableSorts(leg[t], s) : Present(t, flights[t], [i \in DOMAIN s |-> s[p[i]]])
  BY DEF Sort
<1>3. Presented("sort", leg[t], resp[t], s)
  BY <1>1 DEF ThreadsOk, ThreadOk, Presenting
<1>4. Presented("format", leg[t], resp[t], [i \in DOMAIN s |-> s[p[i]]])
  BY <1>3, SortPresents
<1> QED
  BY <1>1, <1>2, <1>4, ThreadsInPlace DEF Presenting

LEMMA ThreadsFormat ==
  ASSUME RawInv, ThreadsOk, NEW t \in Threads, Format(t)
  PROVE  ThreadsOk'
<1> DEFINE s == heap[flights[t]]
           formatted == [i \in DOMAIN s |-> [s[i] EXCEPT !.formatted = TRUE]]
<1>1. /\ Serve(t) /\ pc[t] = "format" /\ pc'[t] = "finish" /\ Present(t, flights[t], formatted)
  BY DEF Serve, Format, Goto, RawInv, Shapes
<1>2. Presented("format", leg[t], resp[t], s)
  BY <1>1 DEF ThreadsOk, ThreadOk, Presenting
<1>3. Presented("finish", leg[t], resp[t], formatted)
  <2>1. PICK C : C = Carriers(s)
    OBVIOUS
  <2>2. DOMAIN formatted = DOMAIN s /\ \A i \in DOMAIN s : formatted[i] = Formatted(s[i])
    BY DEF Formatted
  <2>3. Len(formatted) = Len(s)
    BY <1>2 DEF Presented, IsList
  <2> HIDE DEF formatted, s
  <2> QED
    BY <1>2, <2>1, <2>2, <2>3, FormatPresents
<1> HIDE DEF formatted
<1> QED
  BY <1>1, <1>3, ThreadsInPlace DEF Presenting

LEMMA ThreadsFinish ==
  ASSUME RawInv, ThreadsOk, NEW t \in Threads, FinishLeg(t)
  PROVE  ThreadsOk'
<1> DEFINE o == LegResponse(t)
<1>1. /\ Serve(t) /\ pc[t] = "finish" /\ UNCHANGED <<body, resp, flights, heap>>
  BY DEF Serve, FinishLeg
<1>2. LegDone(t, Nth(outbound[t]), leg[t], o, heap)
  <2>1. /\ o.array = flights[t] /\ o.resp = resp[t] /\ o.total = Len(heap[flights[t]])
    BY DEF LegResponse
  <2>2. /\ FetchedFlights(resp[t]) /\ OwnArray(t, Nth(outbound[t]), flights[t], heap)
        /\ Presented("finish", leg[t], resp[t], heap[flights[t]])
    BY <1>1 DEF ThreadsOk, ThreadOk, Searching, Presenting
  <2> HIDE DEF o
  <2> QED
    BY <2>1, <2>2 DEF LegDone
<1>3. CASE outbound[t] = None /\ body[t].ret \notin {"nil", ""}
  <2>1. /\ outbound'[t] = <<o>> /\ leg'[t] = Inbound(body[t]) /\ pc'[t] = "lookup"
    BY <1>3 DEF FinishLeg, Goto, RawInv, Shapes
  <2>2. leg[t] = body[t]
    BY <1>1, <1>3 DEF ThreadsOk, ThreadOk, Searching
  <2>3. LegDone(t, 1, body[t], o, heap)
    BY <1>2, <1>3, <2>2 DEF Nth
  <2> HIDE DEF o
  <2>4. outbound'[t] # None /\ outbound'[t] = <<outbound'[t][1]>> /\ outbound'[t][1] = o
    BY <2>1 DEF None
  <2>5. ThreadOk(t, "lookup", body[t], Inbound(body[t]), resp[t], flights[t], outbound'[t], heap)
    BY <1>3, <2>3, <2>4 DEF ThreadOk, Searching, Presenting
  <2> QED
    BY <1>1, <2>1, <2>5, ThreadsFrame
<1>4. CASE ~ (outbound[t] = None /\ body[t].ret \notin {"nil", ""})
  <2>1. outbound'[t] = Append(outbound[t], o) /\ pc'[t] = "write" /\ leg' = leg
    BY <1>4 DEF FinishLeg, Goto, RawInv, Shapes
  <2> HIDE DEF o
  <2>2. /\ IsList(outbound'[t]) /\ Len(outbound'[t]) = Len(Legs(body[t]))
        /\ \A i \in 1 .. Len(Legs(body[t])) :
               LegDone(t, i, Legs(body[t])[i], outbound'[t][i], heap)
    <3>1. CASE outbound[t] = None
      <4>1. Legs(body[t]) = <<body[t]>> /\ leg[t] = body[t]
        BY <1>1, <1>4, <3>1 DEF Legs, ThreadsOk, ThreadOk, Searching
      <4>2. outbound'[t] = <<o>> /\ IsList(outbound'[t])
        BY <2>1, <3>1 DEF None, IsList
      <4>3. LegDone(t, 1, body[t], o, heap)
        BY <1>2, <3>1, <4>1 DEF Nth
      <4> QED
        BY <4>1, <4>2, <4>3
    <3>2. CASE outbound[t] # None
      <4>1. /\ leg[t] = Inbound(body[t]) /\ outbound[t] = <<outbound[t][1]>>
            /\ body[t].ret \notin {"nil", ""} /\ LegDone(t, 1, body[t], outbound[t][1], heap)
        BY <1>1, <3>2 DEF ThreadsOk, ThreadOk, Searching
      <4>2. Legs(body[t]) = <<body[t], leg[t]>>
        BY <4>1 DEF Legs
      <4>3. PICK q : outbound[t] = <<q>> /\ q = outbound[t][1]
        BY <4>1
      <4>4. PICK x : x = <<q>> /\ x \in Seq({q}) /\ Len(x) = 1 /\ x[1] = q
        <5>1. <<q>> \in Seq({q})
          OBVIOUS
        <5>2. Len(<<q>>) = 1
          OBVIOUS
        <5>3. <<q>>[1] = q
          OBVIOUS
        <5> QED
          BY <5>1, <5>2, <5>3
      <4>5. /\ Len(outbound'[t]) = 2 /\ outbound'[t][1] = q /\ outbound'[t][2] = o
            /\ IsList(outbound'[t])
        <5>1. outbound'[t] = Append(x, o)
          BY <2>1, <4>3, <4>4
        <5>2. x \in Seq({q, o})
          BY <4>4
        <5> QED
          BY <4>4, <5>1, <5>2 DEF IsList
      <4>6. LegDone(t, 2, leg[t], o, heap)
        BY <1>2, <3>2 DEF Nth
      <4>7. Len(Legs(body[t])) = 2 /\ Legs(body[t])[1] = body[t] /\ Legs(body[t])[2] = leg[t]
        BY <4>2
      <4>8. \A i \in 1 .. 2 : i = 1 \/ i = 2
        OBVIOUS
      <4> QED
        BY <4>1, <4>3, <4>5, <4>6, <4>7, <4>8
    <3> QED
      BY <3>1, <3>2
  <2>3. ThreadOk(t, "write", body[t], leg[t], resp[t], flights[t], outbound'[t], heap)
    BY <2>2 DEF ThreadOk, Searching, Presenting
  <2> QED
    BY <1>1, <2>1, <2>3, ThreadsFrame
<1> QED
  BY <1>3, <1>4

LEMMA ThreadsStep == RawInv /\ ThreadsOk /\ CacheOk /\ [Next]_vars => ThreadsOk'
<1> SUFFICES ASSUME RawInv, ThreadsOk, CacheOk, [Next]_vars
             PROVE  ThreadsOk'
  OBVIOUS
<1>1. CASE UNCHANGED vars
  BY <1>1 DEF vars, ThreadsOk
<1>2. ASSUME NEW t \in Threads, Serve(t)
      PROVE  ThreadsOk'
  BY <1>2, ThreadsIdle, ThreadsHit, ThreadsMiss, ThreadsAggregate, ThreadsStore, ThreadsCopy,
     ThreadsFilter, ThreadsRank, ThreadsSort, ThreadsFormat, ThreadsFinish DEF Serve
<1>3. ASSUME NEW k \in DOMAIN cache, Expire(k)
      PROVE  ThreadsOk'
  BY <1>3 DEF Expire, ThreadsOk
<1> QED
  BY <1>1, <1>2, <1>3 DEF Next, Finished

LEMMA CacheInit == Init => CacheOk
BY DEF Init, CacheOk

LEMMA CacheStep == RawInv /\ ThreadsOk /\ CacheOk /\ [Next]_vars => CacheOk'
<1> SUFFICES ASSUME RawInv, ThreadsOk, CacheOk, [Next]_vars
             PROVE  CacheOk'
  OBVIOUS
<1>1. CASE cache' = cache
  BY <1>1 DEF CacheOk
<1>2. ASSUME NEW t \in Threads, Store(t)
      PROVE  CacheOk'
  <2> DEFINE e == [criteria |-> resp[t].criteria, succeeded |-> resp[t].succeeded,
                   failed |-> resp[t].failed, fetched |-> resp[t].fetched,
                   array |-> flights[t]]
  <2>1. FetchedFlights(resp[t])
    BY <1>2 DEF Store, ThreadsOk, ThreadOk, Searching
  <2>2. /\ e.criteria = resp[t].criteria /\ e.succeeded = resp[t].succeeded
        /\ e.failed = resp[t].failed /\ e.fetched = resp[t].fetched
    OBVIOUS
  <2>3. cache' = Put(cache, Key(leg[t]), e)
    BY <1>2 DEF Store
  <2> HIDE DEF e
  <2>4. FetchedFlights(e)
    BY <2>1, <2>2 DEF FetchedFlights
  <2>5. \A k \in DOMAIN cache' : \/ cache'[k] = e
                                 \/ k \in DOMAIN cache /\ cache'[k] = cache[k]
    BY <2>3, PutOne
  <2> QED
    BY <2>4, <2>5 DEF CacheOk
<1>3. ASSUME NEW k \in DOMAIN cache, Expire(k)
      PROVE  CacheOk'
  BY <1>3 DEF Expire, CacheOk
<1>4. ASSUME NEW t \in Threads, Serve(t), ~ Store(t)
      PROVE  cache' = cache
  BY <1>4 DEF Serve, Undecodable, Start, Hit, Miss, Aggregate, Copy, Filter, Rank, Sort, Format,
              FinishLeg, Write, Present
<1> QED
  BY <1>1, <1>2, <1>3, <1>4 DEF Next, Finished, vars

-----------------------------------------------------------------------------
(* Replies                                                                 *)

\* The flights of a leg of a reply as RepliesFaithful wants them.
LegFaithful(l, g) == Shows(l, g.resp.fetched, g.flights) /\ g.total = Len(g.flights)

LEMMA LegDoneFaithful ==
  ASSUME NEW t, NEW n, NEW l, NEW o, NEW h, LegDone(t, n, l, o, h),
         NEW g, g.resp = o.resp, g.total = o.total, g.flights = h[o.array]
  PROVE  LegFaithful(l, g)
<1> DEFINE s == g.flights
           c == g.resp.fetched
           m == g.resp.criteria
<1>1. FetchedFlights(g.resp) /\ g.total = Len(s) /\ Presented("finish", l, g.resp, s)
  BY DEF LegDone
<1>2. Carriers(s) = Wanted(l, c) /\ IsList(s) /\ NoRepeats(s)
  BY <1>1 DEF Presented
<1>3. \A j, k \in DOMAIN s : j < k => ~ Less(l, s[k], s[j])
  BY <1>1 DEF Presented
<1>4. \A j, k \in DOMAIN s : j < k => s[j].airline # s[k].airline
  BY <1>2 DEF IsList, NoRepeats
<1>5. \A j \in DOMAIN s : s[j] = Told(s[j].airline, m, Carriers(s))
  BY <1>1, SeenFlight DEF Presented
<1>6. ASSUME NEW j \in DOMAIN s
      PROVE  \E i \in DOMAIN c : s[j] = [c[i] EXCEPT !.basis = Carriers(s), !.formatted = TRUE]
  <2>1. s[j].airline \in Wanted(l, c)
    BY <1>2 DEF Carriers
  <2>2. PICK i \in DOMAIN c : c[i].airline = s[j].airline
    BY <2>1 DEF Wanted
  <2>3. c[i] = Flight(s[j].airline, m)
    BY <1>1, <2>2 DEF FetchedFlights
  <2> QED
    BY <1>5, <2>3 DEF Told
<1> QED
  BY <1>1, <1>2, <1>3, <1>4, <1>6 DEF LegFaithful, Shows

LEMMA AppendOne == \A x, y : Append(<<y>>, x) = <<y, x>>
<1>1. TAKE x, y
<1> DEFINE s == Append(<<y>>, x)
<1>2. <<y>> \in Seq({x, y}) /\ Len(<<y>>) = 1
  OBVIOUS
<1>3. s \in Seq({x, y}) /\ Len(s) = 2 /\ s[1] = y /\ s[2] = x
  BY <1>2
<1> HIDE DEF s
<1>4. s = <<s[1], s[2]>>
  BY <1>3
<1> QED
  BY <1>3, <1>4 DEF s

LEMMA LegsList == \A b : DOMAIN Legs(b) = 1 .. Len(Legs(b))
<1>1. TAKE b
<1>2. CASE b.ret \in {"nil", ""}
  <2>1. Legs(b) = <<b>>
    BY <1>2 DEF Legs
  <2> QED
    BY <2>1
<1>3. CASE b.ret \notin {"nil", ""}
  <2>1. Legs(b) = <<b, Inbound(b)>>
    BY <1>3 DEF Legs
  <2> QED
    BY <2>1
<1> QED
  BY <1>2, <1>3

\* What is true of a reply r to body b.
ReplyOk(b, r) ==
    r.status = 200 =>
        /\ Len(r.legs) = Len(Legs(b)) /\ DOMAIN r.legs = DOMAIN Legs(b)
        /\ \A i \in DOMAIN Legs(b) : LegFaithful(Legs(b)[i], r.legs[i])

RepliesOk == \A t \in Threads : pc[t] = "done" => ReplyOk(body[t], reply[t])

LEMMA RepliesInit == Init => RepliesOk
BY DEF Init, RepliesOk

LEMMA RepliesStep == RawInv /\ ThreadsOk /\ RepliesOk /\ [Next]_vars => RepliesOk'
<1> SUFFICES ASSUME RawInv, ThreadsOk, RepliesOk, [Next]_vars
             PROVE  RepliesOk'
  OBVIOUS
<1>1. CASE UNCHANGED vars
  BY <1>1 DEF vars, RepliesOk
<1>2. ASSUME NEW k \in DOMAIN cache, Expire(k)
      PROVE  RepliesOk'
  BY <1>2 DEF Expire, RepliesOk
<1>3. ASSUME NEW t \in Threads, Serve(t), pc'[t] = "done" => ReplyOk(body'[t], reply'[t])
      PROVE  RepliesOk'
  <2>1. ASSUME NEW u \in Threads \ {t}
        PROVE  pc'[u] = pc[u] /\ body'[u] = body[u] /\ reply'[u] = reply[u]
    BY <1>3, ServeOthers DEF RawInv
  <2> QED
    BY <1>3, <2>1 DEF RepliesOk
<1>4. ASSUME NEW t \in Threads, Undecodable(t) \/ Start(t), pc'[t] = "done"
      PROVE  ReplyOk(body'[t], reply'[t])
  <2>1. reply'[t].status = 400
    BY <1>4 DEF Undecodable, Start, Reject, BadRequest, Goto, RawInv, Shapes
  <2> QED
    BY <2>1 DEF ReplyOk
<1>5. ASSUME NEW t \in Threads, Write(t)
      PROVE  ReplyOk(body'[t], reply'[t])
  <2> DEFINE b == body[t]
             o == outbound[t]
             legs == [i \in DOMAIN o |-> [resp |-> o[i].resp, total |-> o[i].total,
                                          flights |-> heap[o[i].array]]]
  <2>1. /\ IsList(o) /\ Len(o) = Len(Legs(b))
        /\ \A i \in 1 .. Len(Legs(b)) : LegDone(t, i, Legs(b)[i], o[i], heap)
    BY <1>5 DEF Write, ThreadsOk, ThreadOk
  <2>2. DOMAIN Legs(b) = 1 .. Len(Legs(b))
    BY LegsList
  <2>3. body'[t] = b /\ reply'[t] = [status |-> 200, legs |-> legs]
    BY <1>5 DEF Write, RawInv, Shapes
  <2>4. reply'[t].legs = legs
    BY <2>3
  <2>5. Len(legs) = Len(Legs(b)) /\ DOMAIN legs = DOMAIN Legs(b)
    BY <2>1, <2>2 DEF IsList
  <2>6. ASSUME NEW i \in DOMAIN Legs(b)
        PROVE  LegFaithful(Legs(b)[i], legs[i])
    <3>1. LegDone(t, i, Legs(b)[i], o[i], heap)
      BY <2>1, <2>2
    <3>2. /\ legs[i].resp = o[i].resp /\ legs[i].total = o[i].total
          /\ legs[i].flights = heap[o[i].array]
      BY <2>5
    <3> HIDE DEF legs, o
    <3> QED
      BY <3>1, <3>2, LegDoneFaithful
  <2> HIDE DEF legs
  <2> QED
    BY <2>3, <2>4, <2>5, <2>6 DEF ReplyOk
<1>6. ASSUME NEW t \in Threads, Serve(t), pc'[t] = "done"
      PROVE  Undecodable(t) \/ Start(t) \/ Write(t)
  <2>1. ASSUME NEW p, p # "done", Goto(t, p)
        PROVE  FALSE
    BY <1>6, <2>1 DEF Goto, RawInv, Shapes
  <2> QED
    BY <1>6, <2>1 DEF Serve, Hit, Miss, Aggregate, Store, Copy, Filter, Rank, Sort, Format, FinishLeg
<1> QED
  BY <1>1, <1>2, <1>3, <1>4, <1>5, <1>6 DEF Next, Finished

-----------------------------------------------------------------------------
(* Types                                                                   *)

LEMMA TypeInit == Init => TypeOK
BY DEF Init, TypeOK, Places, None

LEMMA TypeStep == RawInv /\ ThreadsOk /\ TypeOK /\ [Next]_vars => TypeOK'
<1> SUFFICES ASSUME RawInv, ThreadsOk, TypeOK, [Next]_vars
             PROVE  TypeOK'
  OBVIOUS
<1>1. CASE UNCHANGED vars
  BY <1>1 DEF vars, TypeOK
<1>2. ASSUME NEW k \in DOMAIN cache, Expire(k)
      PROVE  TypeOK'
  BY <1>2 DEF Expire, TypeOK
<1>3. ASSUME NEW t \in Threads, Serve(t)
      PROVE  TypeOK'
  <2>1. pc' \in [Threads -> Places]
    BY <1>3 DEF TypeOK, Places, Goto, Serve, Undecodable, Start, Reject, Hit, Miss, Aggregate,
                Store, Copy, Filter, Rank, Sort, Format, FinishLeg, Write
  <2>2. ASSUME NEW u \in Threads
        PROVE  body'[u] = None \/ Body(body'[u])
    <3>1. CASE Start(t)
      <4>1. PICK b \in Requests : body' = [body EXCEPT ![t] = b]
                                  \/ body' = [body EXCEPT ![t] = WithDefaults(b)]
        BY <3>1 DEF Start
      <4>2. Body(b) /\ Body(WithDefaults(b))
        BY SearchAssumption DEF Body, WithDefaults
      <4> QED
        BY <4>1, <4>2 DEF TypeOK, RawInv, Shapes
    <3>2. CASE ~ Start(t)
      <4>1. body' = body
        BY <1>3, <3>2 DEF Serve, Undecodable, Hit, Miss, Aggregate, Store, Copy, Filter, Rank,
                          Sort, Format, FinishLeg, Write, Present
      <4> QED
        BY <4>1 DEF TypeOK
    <3> QED
      BY <3>1, <3>2
  <2>3. DOMAIN heap \subseteq DOMAIN heap'
    BY <1>3, ServeKeeps DEF Kept
  <2>4. flights'[t] = flights[t] \/ flights'[t] \in DOMAIN heap'
    <3>1. CASE Hit(t)
      <4>1. flights'[t] \in DOMAIN heap /\ heap' = heap
        BY <3>1 DEF Hit, TypeOK, RawInv, Shapes
      <4> QED
        BY <4>1
    <3>2. CASE Aggregate(t)
      BY <3>2 DEF Aggregate, Put, RawInv, Shapes
    <3>3. CASE Copy(t) \/ Rank(t) \/ Sort(t) \/ Format(t)
      BY <3>3 DEF Copy, Rank, Sort, Format, Present, Put, RawInv, Shapes
    <3>4. CASE Filter(t)
      <4>1. CASE leg[t].filtered
        <5>1. \E c, k : heap' = Put(Put(heap, flights[t], c), ArrayOf(t, "kept"), k)
          BY <3>4, <4>1 DEF Filter
        <5>2. flights'[t] = ArrayOf(t, "kept")
          BY <3>4, <4>1 DEF Filter, RawInv, Shapes
        <5> QED
          BY <5>1, <5>2 DEF Put
      <4>2. CASE ~ leg[t].filtered
        BY <3>4, <4>2 DEF Filter
      <4> QED
        BY <4>1, <4>2
    <3> QED
      BY <1>3, <3>1, <3>2, <3>3, <3>4
         DEF Serve, Undecodable, Start, Miss, Store, FinishLeg, Write
  <2>5. ASSUME NEW u \in Threads
        PROVE  flights'[u] = None \/ flights'[u] \in DOMAIN heap'
    <3>1. flights'[u] = flights[u] \/ flights'[u] \in DOMAIN heap'
      BY <1>3, <2>4, ServeOthers DEF RawInv
    <3>2. flights[u] = None \/ flights[u] \in DOMAIN heap
      BY DEF TypeOK
    <3> QED
      BY <2>3, <3>1, <3>2
  <2>6. ASSUME NEW u \in Threads
        PROVE  Len(outbound'[u]) <= 2
    <3>1. CASE FinishLeg(t)
      <4>1. CASE outbound'[u] = outbound[u]
        BY <4>1 DEF TypeOK
      <4>2. CASE u = t
        <5>1. \/ outbound'[t] = <<LegResponse(t)>>
              \/ outbound'[t] = Append(outbound[t], LegResponse(t))
          BY <3>1 DEF FinishLeg, RawInv, Shapes
        <5>2. pc[t] = "finish"
          BY <3>1 DEF FinishLeg
        <5>3. outbound[t] = << >> \/ outbound[t] = <<outbound[t][1]>>
          BY <5>2 DEF ThreadsOk, ThreadOk, Searching, None
        <5>4. PICK q : q = outbound[t][1]
          OBVIOUS
        <5>5. <<q>> \in Seq({q}) /\ Len(<<q>>) = 1
          OBVIOUS
        <5>6. << >> \in Seq({q}) /\ Len(<< >>) = 0
          OBVIOUS
        <5>7. outbound[t] \in Seq({q}) /\ Len(outbound[t]) \in 0 .. 1
          <6>1. outbound[t] = << >> \/ outbound[t] = <<q>>
            BY <5>3, <5>4
          <6>2. 0 \in 0 .. 1 /\ 1 \in 0 .. 1
            OBVIOUS
          <6> QED
            BY <5>5, <5>6, <6>1, <6>2
        <5>8. outbound[t] \in Seq({q, LegResponse(t)})
          BY <5>7
        <5>9. Len(Append(outbound[t], LegResponse(t))) = Len(outbound[t]) + 1
          BY <5>8
        <5>10. Len(<<LegResponse(t)>>) = 1
          OBVIOUS
        <5>11. CASE outbound'[t] = <<LegResponse(t)>>
          BY <4>2, <5>10, <5>11
        <5>12. CASE outbound'[t] = Append(outbound[t], LegResponse(t))
          BY <4>2, <5>7, <5>9, <5>12
        <5> QED
          BY <5>1, <5>11, <5>12
      <4> QED
        BY <1>3, <4>1, <4>2, ServeOthers DEF RawInv
    <3>2. CASE ~ FinishLeg(t)
      <4>1. outbound' = outbound
        BY <1>3, <3>2 DEF Serve, Undecodable, Start, Hit, Miss, Aggregate, Store, Copy, Filter, Rank,
                          Sort, Format, Write, Present
      <4> QED
        BY <4>1 DEF TypeOK
    <3> QED
      BY <3>1, <3>2
  <2>7. DOMAIN heap' \subseteq Arrays
    <3>1. ArrayOf(t, "raw") \in Arrays /\ ArrayOf(t, "copy") \in Arrays
          /\ ArrayOf(t, "kept") \in Arrays
      BY DEF ArrayOf, Arrays, Nth
    <3>2. pc[t] \in {"filter", "rank", "sort", "format"} => flights[t] \in DOMAIN heap
      BY DEF RawInv, OwnCopy
    <3>3. CASE Aggregate(t)
      BY <3>1, <3>3 DEF Aggregate, Put, TypeOK
    <3>4. CASE Copy(t) \/ Rank(t) \/ Sort(t) \/ Format(t)
      BY <3>1, <3>2, <3>4 DEF Copy, Rank, Sort, Format, Present, Put, TypeOK
    <3>5. CASE Filter(t)
      <4>1. CASE leg[t].filtered
        <5>1. \E c, k : heap' = Put(Put(heap, flights[t], c), ArrayOf(t, "kept"), k)
          BY <3>5, <4>1 DEF Filter
        <5>2. flights[t] \in DOMAIN heap
          BY <3>2, <3>5 DEF Filter
        <5>3. DOMAIN heap' = DOMAIN heap \cup {ArrayOf(t, "kept")}
          BY <5>1, <5>2 DEF Put
        <5> QED
          BY <3>1, <5>3 DEF TypeOK
      <4>2. CASE ~ leg[t].filtered
        BY <3>5, <4>2 DEF Filter, TypeOK
      <4> QED
        BY <4>1, <4>2
    <3> QED
      BY <1>3, <3>3, <3>4, <3>5
         DEF TypeOK, Serve, Undecodable, Start, Hit, Miss, Store, FinishLeg, Write
  <2>8. ASSUME NEW k \in DOMAIN cache'
        PROVE  cache'[k].array \in DOMAIN heap'
    <3>1. RawInv'
      BY RawStep
    <3> QED
      BY <3>1 DEF RawInv, CachedRaw
  <2> QED
    BY <2>1, <2>2, <2>5, <2>6, <2>7, <2>8 DEF TypeOK
<1> QED
  BY <1>1, <1>2, <1>3 DEF Next, Finished

-----------------------------------------------------------------------------
(* The theorems                                                            *)

Inv == RawInv /\ ThreadsOk /\ CacheOk /\ RepliesOk /\ TypeOK

LEMMA InvInit == Init => Inv
BY RawInit, ThreadsInit, CacheInit, RepliesInit, TypeInit DEF Inv

LEMMA InvStep == Inv /\ [Next]_vars => Inv'
BY RawStep, ThreadsStep, CacheStep, RepliesStep, TypeStep DEF Inv

\* A slice of a request, or of the cache, always has an array behind it, of the
\* request that made it, and a request has a response for two legs at most.
THEOREM TypeCorrect == Spec => []TypeOK
<1>1. Inv => TypeOK
  BY DEF Inv
<1> QED
  BY <1>1, InvInit, InvStep, PTL DEF Spec

-----------------------------------------------------------------------------
(* Which request a response was fetched for                                *)

\* A request has a body while it is served, and has fetched for its leg what it is
\* about to store.
RequestOk ==
    \A t \in Threads :
        /\ pc[t] = "idle" => body[t] = None /\ reply[t] = None
        /\ pc[t] \in Searching \cup {"write"} => body[t] # None /\ reply[t] = None
        /\ pc[t] = "store" => resp[t] \in Fetches(leg[t])

LEMMA RequestInit == Init => RequestOk
BY DEF Init, RequestOk, Searching

LEMMA BodyIsSome == \A b \in Requests : WithDefaults(b) # None
<1>1. TAKE b \in Requests
<1>2. "from" \in DOMAIN b
  BY SearchAssumption DEF Body
<1>3. "from" \in DOMAIN WithDefaults(b)
  BY <1>2 DEF WithDefaults
<1>4. DOMAIN None = {}
  BY DEF None
<1> QED
  BY <1>3, <1>4

LEMMA RequestStep == RawInv /\ RequestOk /\ [Next]_vars => RequestOk'
<1> SUFFICES ASSUME RawInv, RequestOk, [Next]_vars
             PROVE  RequestOk'
  OBVIOUS
<1> DEFINE Ok(t) == /\ pc[t] = "idle" => body[t] = None /\ reply[t] = None
                    /\ pc[t] \in Searching \cup {"write"} => body[t] # None /\ reply[t] = None
                    /\ pc[t] = "store" => resp[t] \in Fetches(leg[t])
<1>1. CASE UNCHANGED vars
  BY <1>1 DEF vars, RequestOk
<1>2. ASSUME NEW k \in DOMAIN cache, Expire(k)
      PROVE  RequestOk'
  BY <1>2 DEF Expire, RequestOk
<1>3. ASSUME NEW t \in Threads, Serve(t), Ok(t)'
      PROVE  RequestOk'
  <2>1. ASSUME NEW u \in Threads \ {t}
        PROVE  Ok(u)'
    <3>1. /\ pc'[u] = pc[u] /\ body'[u] = body[u] /\ leg'[u] = leg[u]
          /\ resp'[u] = resp[u] /\ reply'[u] = reply[u]
      BY <1>3, <2>1, ServeOthers DEF RawInv
    <3>2. Ok(u)
      BY DEF RequestOk
    <3>3. Fetches(leg[u])' = Fetches(leg'[u])
      BY DEF Fetches, Response, Criteria, Flight, Sold, Plain, InOrder
    <3> QED
      BY <3>1, <3>2, <3>3
  <2> QED
    BY <1>3, <2>1 DEF RequestOk
<1>4. ASSUME NEW t \in Threads, Undecodable(t) \/ Start(t)
      PROVE  Ok(t)'
  <2>1. pc'[t] = "done" \/ (Start(t) /\ pc'[t] = "lookup" /\ reply' = reply
                            /\ \E b \in Requests : body'[t] = WithDefaults(b))
    BY <1>4 DEF Undecodable, Start, Reject, Goto, RawInv, Shapes
  <2> QED
    BY <1>4, <2>1, BodyIsSome DEF Start, RequestOk, Searching
<1>5. ASSUME NEW t \in Threads, Aggregate(t)
      PROVE  Ok(t)'
  <2>1. resp'[t] \in Fetches(leg[t])
    BY <1>5, AggregateFetches DEF RawInv, Shapes
  <2>2. pc'[t] = "store" /\ pc[t] = "fetch" /\ UNCHANGED <<body, leg, reply>>
    BY <1>5 DEF Aggregate, Goto, RawInv, Shapes
  <2> QED
    BY <2>1, <2>2 DEF RequestOk, Searching
<1>6. ASSUME NEW t \in Threads, Serve(t), ~ (Undecodable(t) \/ Start(t) \/ Aggregate(t))
      PROVE  Ok(t)'
  <2>1. pc'[t] = "done" \/ (/\ pc[t] \in Searching /\ pc'[t] \notin {"idle", "store"}
                            /\ UNCHANGED <<body, reply>>)
    BY <1>6 DEF Serve, Hit, Miss, Store, Copy, Filter, Rank, Sort, Format, FinishLeg, Write,
                Present, Goto, RawInv, Shapes, Searching
  <2> QED
    BY <2>1 DEF RequestOk, Searching
<1> QED
  BY <1>1, <1>2, <1>3, <1>4, <1>5, <1>6 DEF Next, Finished, Serve

\* r was fetched for one of the legs A, whose key is k.
Origin(A, k, r) == \E m \in A : Key(m) = k /\ [r EXCEPT !.hit = FALSE] \in Fetches(m)

\* The responses of goroutine t were fetched for legs with the keys of its own:
\* b is its body, l its leg, o what is finished, y its reply, and A what was asked.
ThreadFrom(A, p, b, l, r, o, y) ==
    /\ p \in Searching \cup {"write"} => Validates(b)
    /\ p \in Searching \ {"lookup", "fetch"} => Origin(A, Key(l), r)
    /\ p \in Searching \cup {"write"} =>
           \A i \in DOMAIN o : Origin(A, Key(Legs(b)[i]), o[i].resp)
    /\ p = "done" /\ y.status = 200 =>
           /\ b # None
           /\ \A i \in DOMAIN Legs(b) : Origin(A, Key(Legs(b)[i]), y.legs[i].resp)

CacheFrom == \A k \in DOMAIN cache : Origin(Asked, k, Entry(k))

ThreadsFrom ==
    \A t \in Threads :
        ThreadFrom(Asked, pc[t], body[t], leg[t], resp[t], outbound[t], reply[t])

\* What is known of every state before the origins are looked at.
Known == Inv /\ RequestOk

LEMMA KnownInit == Init => Known
BY InvInit, RequestInit DEF Known

LEMMA KnownStep == Known /\ [Next]_vars => Known'
BY InvStep, RequestStep DEF Known, Inv

LEMMA OriginGrows ==
  ASSUME NEW A, NEW B, A \subseteq B, NEW k, NEW r, Origin(A, k, r)
  PROVE  Origin(B, k, r)
BY DEF Origin

LEMMA ThreadFromGrows ==
  ASSUME NEW A, NEW B, A \subseteq B, NEW p, NEW b, NEW l, NEW r, NEW o, NEW y,
         ThreadFrom(A, p, b, l, r, o, y)
  PROVE  ThreadFrom(B, p, b, l, r, o, y)
<1>1. \A k, q : Origin(A, k, q) => Origin(B, k, q)
  BY OriginGrows
<1> QED
  BY <1>1 DEF ThreadFrom

LEMMA EntryOfFetch ==
  ASSUME NEW l, NEW r \in Fetches(l)
  PROVE  r = [criteria |-> r.criteria, succeeded |-> r.succeeded, failed |-> r.failed,
              hit |-> FALSE, fetched |-> r.fetched]
<1>1. PICK good : r = Response(l, good)
  BY DEF Fetches
<1> QED
  BY <1>1 DEF Response

\* Clearing the mark of a hit gives what was fetched.
LEMMA Unmarked ==
  ASSUME NEW a, NEW b, NEW c, NEW d, NEW h
  PROVE  [[criteria |-> a, succeeded |-> b, failed |-> c, hit |-> h, fetched |-> d]
              EXCEPT !.hit = FALSE]
         = [criteria |-> a, succeeded |-> b, failed |-> c, hit |-> FALSE, fetched |-> d]
<1> DEFINE x == [criteria |-> a, succeeded |-> b, failed |-> c, hit |-> h, fetched |-> d]
           z == [criteria |-> a, succeeded |-> b, failed |-> c, hit |-> FALSE, fetched |-> d]
<1>1. /\ DOMAIN x = {"criteria", "succeeded", "failed", "hit", "fetched"}
      /\ DOMAIN z = DOMAIN x /\ z = [field \in DOMAIN z |-> z[field]]
      /\ x.criteria = z.criteria /\ x.succeeded = z.succeeded /\ x.failed = z.failed
      /\ x.fetched = z.fetched /\ z.hit = FALSE
  OBVIOUS
<1> HIDE DEF x, z
<1>2. \A field \in DOMAIN x : (IF field = "hit" THEN FALSE ELSE x[field]) = z[field]
  BY <1>1
<1>3. [x EXCEPT !.hit = FALSE] = [field \in DOMAIN x |-> IF field = "hit" THEN FALSE ELSE x[field]]
  OBVIOUS
<1>4. [x EXCEPT !.hit = FALSE] = z
  BY <1>1, <1>2, <1>3
<1> QED
  BY <1>4 DEF x, z

LEMMA FetchUnmarked ==
  ASSUME NEW l, NEW r \in Fetches(l)
  PROVE  [r EXCEPT !.hit = FALSE] = r
<1>1. PICK a, b : \E c, d : r = [criteria |-> a, succeeded |-> b, failed |-> c, hit |-> FALSE,
                                 fetched |-> d]
  BY EntryOfFetch
<1>2. PICK c, d : r = [criteria |-> a, succeeded |-> b, failed |-> c, hit |-> FALSE, fetched |-> d]
  BY <1>1
<1> QED
  BY <1>2, Unmarked

\* A leg that is searched was asked for.
LEMMA LegAsked ==
  ASSUME Known, ThreadsFrom, NEW t \in Threads, pc[t] \in Searching
  PROVE  leg[t] \in Asked
<1>1. body[t] # None /\ Validates(body[t])
  BY DEF Known, RequestOk, ThreadsFrom, ThreadFrom
<1>2. \/ leg[t] = body[t]
      \/ leg[t] = Inbound(body[t]) /\ body[t].ret \notin {"nil", ""}
  BY DEF Known, Inv, ThreadsOk, ThreadOk
<1>3. \E i \in DOMAIN Legs(body[t]) : leg[t] = Legs(body[t])[i]
  <2>1. PICK b, m : b = body[t] /\ m = Inbound(b)
    OBVIOUS
  <2>2. \A x, y : /\ 1 \in DOMAIN <<x>> /\ <<x>>[1] = x
                  /\ 1 \in DOMAIN <<x, y>> /\ <<x, y>>[1] = x
                  /\ 2 \in DOMAIN <<x, y>> /\ <<x, y>>[2] = y
    OBVIOUS
  <2>3. Legs(b) = <<b>> \/ Legs(b) = <<b, m>>
    BY <2>1 DEF Legs
  <2>4. b.ret \notin {"nil", ""} => Legs(b) = <<b, m>>
    BY <2>1 DEF Legs
  <2>5. 1 \in DOMAIN Legs(b) /\ Legs(b)[1] = b
    BY <2>2, <2>3
  <2>6. ASSUME b.ret \notin {"nil", ""}
        PROVE  2 \in DOMAIN Legs(b) /\ Legs(b)[2] = m
    <3>1. Legs(b) = <<b, m>>
      BY <2>4, <2>6
    <3>2. 2 \in DOMAIN <<b, m>> /\ <<b, m>>[2] = m
      OBVIOUS
    <3> QED
      BY <3>1, <3>2
  <2> QED
    BY <1>2, <2>1, <2>5, <2>6
<1> QED
  BY <1>1, <1>3 DEF Asked

\* What was asked for is not forgotten.
LEMMA AskedGrows ==
  ASSUME Known, NEW t \in Threads, Serve(t)
  PROVE  Asked \subseteq Asked'
<1>1. ASSUME NEW u \in Threads, body[u] # None
      PROVE  body'[u] = body[u]
  <2>1. CASE u # t
    BY <2>1, ServeOthers DEF Known, Inv, RawInv
  <2>2. CASE u = t
    <3>1. ~ Start(t)
      BY <1>1, <2>2 DEF Start, Known, RequestOk
    <3>2. body' = body
      BY <3>1 DEF Serve, Undecodable, Hit, Miss, Aggregate, Store, Copy, Filter, Rank, Sort,
                  Format, FinishLeg, Write, Present
    <3> QED
      BY <3>2
  <2> QED
    BY <2>1, <2>2
<1>2. \A b : Legs(b)' = Legs(b) /\ (Validates(b)' <=> Validates(b))
  BY DEF Legs, Inbound, Validates
<1> QED
  BY <1>1 DEF Asked


\* A step of t, and nothing of what the others have.
LEMMA FromFrame ==
  ASSUME Known, ThreadsFrom, NEW t \in Threads, Serve(t),
         ThreadFrom(Asked', pc'[t], body'[t], leg'[t], resp'[t], outbound'[t], reply'[t])
  PROVE  ThreadsFrom'
<1>1. ASSUME NEW u \in Threads \ {t}
      PROVE  ThreadFrom(Asked', pc'[u], body'[u], leg'[u], resp'[u], outbound'[u], reply'[u])
  <2>1. /\ pc'[u] = pc[u] /\ body'[u] = body[u] /\ leg'[u] = leg[u] /\ resp'[u] = resp[u]
        /\ outbound'[u] = outbound[u] /\ reply'[u] = reply[u]
    BY <1>1, ServeOthers DEF Known, Inv, RawInv
  <2>2. ThreadFrom(Asked, pc[u], body[u], leg[u], resp[u], outbound[u], reply[u])
    BY DEF ThreadsFrom
  <2>3. ThreadFrom(Asked', pc[u], body[u], leg[u], resp[u], outbound[u], reply[u])
    BY <2>2, AskedGrows, ThreadFromGrows
  <2> QED
    BY <2>1, <2>3
<1> QED
  BY <1>1 DEF ThreadsFrom

LEMMA FromStart ==
  ASSUME Known, ThreadsFrom, NEW t \in Threads, Undecodable(t) \/ Start(t)
  PROVE  ThreadsFrom'
<1>1. Serve(t) /\ pc[t] = "idle" /\ UNCHANGED outbound
  BY DEF Serve, Undecodable, Start
<1>2. outbound[t] = None /\ outbound'[t] = None
  BY <1>1 DEF Known, Inv, ThreadsOk, ThreadOk
<1>3. DOMAIN outbound'[t] = {}
  BY <1>2 DEF None
<1>4. CASE pc'[t] = "done" /\ reply'[t].status = 400
  BY <1>1, <1>4, FromFrame DEF ThreadFrom, Searching
<1>5. CASE pc'[t] = "lookup" /\ Validates(body'[t])
  BY <1>1, <1>3, <1>5, FromFrame DEF ThreadFrom, Searching
<1>6. CASE Undecodable(t)
  BY <1>4, <1>6 DEF Undecodable, Reject, BadRequest, Goto, Known, Inv, RawInv, Shapes
<1>7. CASE Start(t)
  <2>1. PICK b \in Requests :
          IF Validates(b)
          THEN body' = [body EXCEPT ![t] = WithDefaults(b)] /\ Goto(t, "lookup")
          ELSE Reject(t)
    BY <1>7 DEF Start
  <2>2. CASE Validates(b)
    <3>1. pc'[t] = "lookup" /\ body'[t] = WithDefaults(b)
      BY <2>1, <2>2 DEF Goto, Known, Inv, RawInv, Shapes
    <3>2. Validates(WithDefaults(b))
      BY <2>2, SearchAssumption DEF Body, WithDefaults, Validates
    <3> QED
      BY <1>5, <3>1, <3>2
  <2>3. CASE ~ Validates(b)
    BY <1>4, <2>1, <2>3 DEF Reject, BadRequest, Goto, Known, Inv, RawInv, Shapes
  <2> QED
    BY <2>2, <2>3
<1> QED
  BY <1>6, <1>7

\* A step on the leg that t is searching.
LEMMA FromSearching ==
  ASSUME Known, ThreadsFrom, NEW t \in Threads, Serve(t), pc[t] \in Searching,
         pc'[t] \in Searching, UNCHANGED <<body, leg, outbound>>,
         pc'[t] \notin {"lookup", "fetch"} => Origin(Asked', Key(leg[t]), resp'[t])
  PROVE  ThreadsFrom'
<1>1. ThreadFrom(Asked', pc[t], body[t], leg[t], resp[t], outbound[t], reply[t])
  BY AskedGrows, ThreadFromGrows DEF ThreadsFrom
<1>2. ThreadFrom(Asked', pc'[t], body[t], leg[t], resp'[t], outbound[t], reply'[t])
  <2>1. pc'[t] # "done"
    BY DEF Searching
  <2> QED
    BY <1>1, <2>1 DEF ThreadFrom
<1> QED
  BY <1>2, FromFrame

LEMMA FromHit ==
  ASSUME Known, CacheFrom, ThreadsFrom, NEW t \in Threads, Hit(t)
  PROVE  ThreadsFrom'
<1> DEFINE k == Key(leg[t])
           r == [criteria |-> cache[k].criteria, succeeded |-> cache[k].succeeded,
                 failed |-> cache[k].failed, hit |-> TRUE, fetched |-> cache[k].fetched]
<1>1. /\ Serve(t) /\ pc[t] = "lookup" /\ pc'[t] = "copy" /\ k \in DOMAIN cache
      /\ resp'[t] = r /\ UNCHANGED <<body, leg, outbound>>
  BY DEF Serve, Hit, Goto, Known, Inv, RawInv, Shapes
<1>2. Origin(Asked, k, Entry(k))
  BY <1>1 DEF CacheFrom
<1>3. [Entry(k) EXCEPT !.hit = FALSE] = Entry(k) /\ [r EXCEPT !.hit = FALSE] = Entry(k)
  BY Unmarked DEF Entry
<1> HIDE DEF r, k
<1>4. Origin(Asked, k, r)
  BY <1>2, <1>3 DEF Origin
<1>5. Origin(Asked', k, r)
  BY <1>1, <1>4, AskedGrows, OriginGrows
<1> QED
  BY <1>1, <1>5, FromSearching DEF Searching, k

LEMMA FromAggregate ==
  ASSUME Known, ThreadsFrom, NEW t \in Threads, Aggregate(t)
  PROVE  ThreadsFrom'
<1>1. /\ Serve(t) /\ pc[t] = "fetch" /\ pc'[t] = "store" /\ UNCHANGED <<body, leg, outbound>>
  BY DEF Serve, Aggregate, Goto, Known, Inv, RawInv, Shapes
<1>2. resp'[t] \in Fetches(leg[t])
  BY AggregateFetches DEF Known, Inv, RawInv, Shapes
<1>3. [resp'[t] EXCEPT !.hit = FALSE] = resp'[t]
  BY <1>2, FetchUnmarked
<1>4. leg[t] \in Asked'
  BY <1>1, LegAsked, AskedGrows DEF Searching
<1>5. Origin(Asked', Key(leg[t]), resp'[t])
  BY <1>2, <1>3, <1>4 DEF Origin
<1> QED
  BY <1>1, <1>5, FromSearching DEF Searching

\* The steps that leave the response as it is, or have none yet.
LEMMA FromPresents ==
  ASSUME Known, ThreadsFrom, NEW t \in Threads,
         Miss(t) \/ Store(t) \/ Copy(t) \/ Filter(t) \/ Rank(t) \/ Sort(t) \/ Format(t)
  PROVE  ThreadsFrom'
<1>1. /\ Serve(t) /\ UNCHANGED <<body, leg, outbound, resp>>
      /\ pc[t] \in Searching /\ pc'[t] \in Searching
      /\ pc'[t] \notin {"lookup", "fetch"} => pc[t] \notin {"lookup", "fetch"}
  BY DEF Serve, Miss, Store, Copy, Filter, Rank, Sort, Format, Present, Goto, Searching,
         Known, Inv, RawInv, Shapes
<1>2. pc'[t] \notin {"lookup", "fetch"} => Origin(Asked', Key(leg[t]), resp'[t])
  BY <1>1, AskedGrows, OriginGrows DEF ThreadsFrom, ThreadFrom
<1> QED
  BY <1>1, <1>2, FromSearching

\* A leg that is finished keeps its response.
LEMMA FromFinish ==
  ASSUME Known, ThreadsFrom, NEW t \in Threads, FinishLeg(t)
  PROVE  ThreadsFrom'
<1> PICK x : x = LegResponse(t)
  OBVIOUS
<1>1. /\ Serve(t) /\ pc[t] = "finish" /\ pc'[t] \in {"lookup", "write"}
      /\ UNCHANGED <<body, resp, reply>>
  BY DEF FinishLeg, Serve, Goto, Known, Inv, RawInv, Shapes
<1>2. x.resp = resp[t]
  BY DEF LegResponse
<1>3. Validates(body[t]) /\ Origin(Asked', Key(leg[t]), resp[t])
  BY <1>1, AskedGrows, OriginGrows DEF ThreadsFrom, ThreadFrom, Searching
<1>4. \A i \in DOMAIN outbound[t] : Origin(Asked', Key(Legs(body[t])[i]), outbound[t][i].resp)
  BY <1>1, AskedGrows, OriginGrows DEF ThreadsFrom, ThreadFrom, Searching
<1>5. \A i \in DOMAIN outbound'[t] : Origin(Asked', Key(Legs(body[t])[i]), outbound'[t][i].resp)
  <2>1. CASE outbound[t] = None
    <3>1. outbound'[t] = <<x>>
      <4>1. Append(None, x) = <<x>>
        BY DEF None
      <4> QED
        BY <2>1, <4>1 DEF FinishLeg, Known, Inv, RawInv, Shapes
    <3>2. leg[t] = body[t] /\ Legs(body[t])[1] = body[t]
      BY <1>1, <2>1 DEF Known, Inv, ThreadsOk, ThreadOk, Searching, Legs
    <3>3. DOMAIN <<x>> = {1} /\ <<x>>[1] = x
      OBVIOUS
    <3> QED
      BY <1>2, <1>3, <3>1, <3>2, <3>3
  <2>2. CASE outbound[t] # None
    <3>1. /\ leg[t] = Inbound(body[t]) /\ outbound[t] = <<outbound[t][1]>>
          /\ body[t].ret \notin {"nil", ""}
      BY <1>1, <2>2 DEF Known, Inv, ThreadsOk, ThreadOk, Searching
    <3>2. PICK y : y = outbound[t][1]
      OBVIOUS
    <3>3. outbound[t] = <<y>>
      BY <3>1, <3>2
    <3>4. outbound'[t] = <<y, x>>
      BY <2>2, <3>3, AppendOne DEF FinishLeg, Known, Inv, RawInv, Shapes
    <3>5. Legs(body[t])[2] = leg[t]
      BY <3>1 DEF Legs
    <3>6. DOMAIN <<y, x>> = {1, 2} /\ <<y, x>>[1] = y /\ <<y, x>>[2] = x
      OBVIOUS
    <3>7. 1 \in DOMAIN <<y>> /\ <<y>>[1] = y
      OBVIOUS
    <3>8. Origin(Asked', Key(Legs(body[t])[1]), y.resp)
      BY <1>4, <3>3, <3>7
    <3> QED
      BY <1>2, <1>3, <3>4, <3>5, <3>6, <3>8
  <2> QED
    BY <2>1, <2>2
<1>6. ThreadFrom(Asked', pc'[t], body'[t], leg'[t], resp'[t], outbound'[t], reply'[t])
  BY <1>1, <1>3, <1>5 DEF ThreadFrom, Searching
<1> QED
  BY <1>1, <1>6, FromFrame

LEMMA FromWrite ==
  ASSUME Known, ThreadsFrom, NEW t \in Threads, Write(t)
  PROVE  ThreadsFrom'
<1> DEFINE b == body[t]
           o == outbound[t]
           legs == [i \in DOMAIN o |-> [resp |-> o[i].resp, total |-> o[i].total,
                                        flights |-> heap[o[i].array]]]
<1>1. /\ Serve(t) /\ pc[t] = "write" /\ pc'[t] = "done" /\ body' = body
      /\ reply'[t] = [status |-> 200, legs |-> legs]
  BY DEF Serve, Write, Goto, Known, Inv, RawInv, Shapes
<1>2. DOMAIN Legs(b) = DOMAIN o
  <2>1. IsList(o) /\ Len(o) = Len(Legs(b))
    BY <1>1 DEF Known, Inv, ThreadsOk, ThreadOk
  <2>2. DOMAIN Legs(b) = 1 .. Len(Legs(b))
    BY LegsList
  <2> QED
    BY <2>1, <2>2 DEF IsList
<1>3. \A i \in DOMAIN o : Origin(Asked', Key(Legs(b)[i]), o[i].resp)
  BY <1>1, AskedGrows, OriginGrows DEF ThreadsFrom, ThreadFrom
<1>4. reply'[t].legs = legs /\ \A i \in DOMAIN o : legs[i].resp = o[i].resp
  BY <1>1
<1> HIDE DEF legs, o, b
<1>5. \A i \in DOMAIN Legs(b) : Origin(Asked', Key(Legs(b)[i]), reply'[t].legs[i].resp)
  BY <1>2, <1>3, <1>4
<1>6. ThreadFrom(Asked', "done", b, leg'[t], resp'[t], outbound'[t], reply'[t])
  <2>1. b # None
    BY <1>1 DEF Known, RequestOk, b
  <2> QED
    BY <1>5, <2>1 DEF ThreadFrom, Searching
<1> QED
  BY <1>1, <1>6, FromFrame DEF b

\* What is stored under a key was fetched for a leg that has it.
LEMMA CacheFromStep ==
  ASSUME Known, CacheFrom, ThreadsFrom, NEW t \in Threads, Serve(t)
  PROVE  CacheFrom'
<1>1. Asked \subseteq Asked'
  BY AskedGrows
<1>2. CASE cache' = cache
  BY <1>1, <1>2, OriginGrows DEF CacheFrom, Entry
<1>3. CASE Store(t)
  <2> PICK k, r : k = Key(leg[t]) /\ r = resp[t]
    OBVIOUS
  <2> DEFINE e == [criteria |-> r.criteria, succeeded |-> r.succeeded, failed |-> r.failed,
                   fetched |-> r.fetched, array |-> flights[t]]
  <2>1. pc[t] = "store" /\ cache' = Put(cache, k, e)
    BY <1>3 DEF Store
  <2>2. r \in Fetches(leg[t]) /\ leg[t] \in Asked
    BY <2>1, LegAsked DEF Known, RequestOk, Searching
  <2>3. Origin(Asked', k, r)
    BY <1>1, <2>2, FetchUnmarked DEF Origin
  <2>4. DOMAIN cache' = DOMAIN cache \cup {k} /\ cache'[k] = e
        /\ \A j \in DOMAIN cache \ {k} : cache'[j] = cache[j]
    BY <2>1 DEF Put
  <2>5. /\ e.criteria = r.criteria /\ e.succeeded = r.succeeded /\ e.failed = r.failed
        /\ e.fetched = r.fetched
    OBVIOUS
  <2> HIDE DEF e
  <2>6. Entry(k)' = r
    BY <2>2, <2>4, <2>5, EntryOfFetch DEF Entry
  <2>7. ASSUME NEW j \in DOMAIN cache \ {k}
        PROVE  Entry(j)' = Entry(j) /\ Origin(Asked', j, Entry(j))
    <3>1. Entry(j)' = Entry(j)
      BY <2>4 DEF Entry
    <3>2. Origin(Asked, j, Entry(j))
      BY DEF CacheFrom
    <3> QED
      BY <1>1, <3>1, <3>2, OriginGrows
  <2> QED
    BY <2>3, <2>4, <2>6, <2>7 DEF CacheFrom
<1>4. ~ Store(t) => cache' = cache
  BY DEF Serve, Undecodable, Start, Hit, Miss, Aggregate, Copy, Filter, Rank, Sort, Format,
         FinishLeg, Write, Present
<1> QED
  BY <1>2, <1>3, <1>4

LEMMA FromInit == Init => CacheFrom /\ ThreadsFrom
<1> SUFFICES ASSUME Init
             PROVE  CacheFrom /\ ThreadsFrom
  OBVIOUS
<1>1. CacheFrom
  BY DEF Init, CacheFrom
<1>2. ThreadsFrom
  BY DEF Init, ThreadsFrom, ThreadFrom, Searching
<1> QED
  BY <1>1, <1>2

LEMMA FromStep ==
  Known /\ CacheFrom /\ ThreadsFrom /\ [Next]_vars => CacheFrom' /\ ThreadsFrom'
<1> SUFFICES ASSUME Known, CacheFrom, ThreadsFrom, [Next]_vars
             PROVE  CacheFrom' /\ ThreadsFrom'
  OBVIOUS
<1>1. CASE UNCHANGED vars
  <2>1. Asked' = Asked
    BY <1>1 DEF vars, Asked
  <2> QED
    BY <1>1, <2>1 DEF vars, CacheFrom, Entry, ThreadsFrom
<1>2. ASSUME NEW k \in DOMAIN cache, Expire(k)
      PROVE  CacheFrom' /\ ThreadsFrom'
  <2>1. Asked' = Asked
    BY <1>2 DEF Expire, Asked
  <2> QED
    BY <1>2, <2>1 DEF Expire, CacheFrom, Entry, ThreadsFrom
<1>3. ASSUME NEW t \in Threads, Serve(t)
      PROVE  CacheFrom' /\ ThreadsFrom'
  <2>1. ThreadsFrom'
    BY <1>3, FromStart, FromHit, FromAggregate, FromPresents, FromFinish, FromWrite DEF Serve
  <2> QED
    BY <1>3, <2>1, CacheFromStep
<1> QED
  BY <1>1, <1>2, <1>3 DEF Next, Finished

LEMMA Joined ==
  ASSUME NEW T, NEW x \in Seq(T), NEW y \in Seq(T)
  PROVE  /\ (x \o y) \in Seq(T) /\ Len(x \o y) = Len(x) + Len(y)
         /\ \A i \in 1 .. Len(x) : (x \o y)[i] = x[i]
         /\ \A i \in 1 .. Len(y) : (x \o y)[Len(x) + i] = y[i]
OBVIOUS

\* The first parts of a list of parts.
LEMMA FirstParts ==
  ASSUME NEW T, NEW a \in T, NEW b \in T, NEW d \in T, NEW p \in T, NEW c \in T, NEW z \in Seq(T)
  PROVE  LET k == <<a>> \o <<b>> \o <<d, p>> \o <<c>> \o z
         IN  k[1] = a /\ k[2] = b /\ k[3] = d /\ k[4] = p /\ k[5] = c
<1>1. /\ <<a>> \in Seq(T) /\ Len(<<a>>) = 1 /\ <<a>>[1] = a
      /\ <<b>> \in Seq(T) /\ Len(<<b>>) = 1 /\ <<b>>[1] = b
      /\ <<c>> \in Seq(T) /\ Len(<<c>>) = 1 /\ <<c>>[1] = c
      /\ <<d, p>> \in Seq(T) /\ Len(<<d, p>>) = 2 /\ <<d, p>>[1] = d /\ <<d, p>>[2] = p
  OBVIOUS
<1>2. PICK A, B, C, E \in Seq(T) : A = <<a>> /\ B = <<b>> /\ C = <<c>> /\ E = <<d, p>>
  BY <1>1
<1>3. PICK v \in Seq(T) : v = A \o B
  BY Joined
<1>4. Len(v) = 2 /\ v[1] = a /\ v[2] = b
  BY <1>1, <1>2, <1>3, Joined
<1>5. PICK w \in Seq(T) : w = v \o E
  BY Joined
<1>6. Len(w) = 4 /\ w[1] = a /\ w[2] = b /\ w[3] = d /\ w[4] = p
  <2>0. Len(v) = 2 /\ Len(E) = 2
    BY <1>1, <1>2, <1>4
  <2>1. /\ Len(w) = 2 + 2
        /\ \A i \in 1 .. 2 : w[i] = v[i]
        /\ \A i \in 1 .. 2 : w[2 + i] = E[i]
    <3>1. /\ Len(v \o E) = Len(v) + Len(E)
          /\ \A i \in 1 .. Len(v) : (v \o E)[i] = v[i]
          /\ \A i \in 1 .. Len(E) : (v \o E)[Len(v) + i] = E[i]
      BY Joined
    <3> QED
      BY <1>5, <2>0, <3>1
  <2>2. w[2 + 1] = E[1] /\ w[2 + 2] = E[2]
    BY <2>1
  <2> QED
    BY <1>1, <1>2, <1>4, <2>1, <2>2
<1>7. PICK x \in Seq(T) : x = w \o C
  BY Joined
<1>8. Len(x) = 5 /\ x[1] = a /\ x[2] = b /\ x[3] = d /\ x[4] = p /\ x[5] = c
  <2>0. Len(w) = 4 /\ Len(C) = 1
    BY <1>1, <1>2, <1>6
  <2>1. /\ Len(x) = 4 + 1
        /\ \A i \in 1 .. 4 : x[i] = w[i]
        /\ \A i \in 1 .. 1 : x[4 + i] = C[i]
    <3>1. /\ Len(w \o C) = Len(w) + Len(C)
          /\ \A i \in 1 .. Len(w) : (w \o C)[i] = w[i]
          /\ \A i \in 1 .. Len(C) : (w \o C)[Len(w) + i] = C[i]
      BY Joined
    <3> QED
      BY <1>7, <2>0, <3>1
  <2>2. x[4 + 1] = C[1]
    BY <2>1
  <2> QED
    BY <1>1, <1>2, <1>6, <2>1, <2>2
<1>9. PICK k : k = x \o z
  OBVIOUS
<1>10. k[1] = a /\ k[2] = b /\ k[3] = d /\ k[4] = p /\ k[5] = c
  <2>1. \A i \in 1 .. 5 : k[i] = x[i]
    <3>1. \A i \in 1 .. Len(x) : (x \o z)[i] = x[i]
      BY Joined
    <3> QED
      BY <1>8, <1>9, <3>1
  <2> QED
    BY <1>8, <2>1
<1>11. k = <<a>> \o <<b>> \o <<d, p>> \o <<c>> \o z
  BY <1>2, <1>3, <1>5, <1>7, <1>9
<1> QED
  BY <1>10, <1>11

\* Legs without bars that have the same key are the same search.
LEMMA KeyOfPlain ==
  ASSUME NEW l, Plain(l)
  PROVE  /\ Key(l)[1] = ToUpper[l.from] /\ Key(l)[2] = ToUpper[l.to]
         /\ Key(l)[3] = l.date /\ Key(l)[4] = Printed[l.passengers]
         /\ Key(l)[5] = ToLower[l.cabin]
<1>1. PICK a, b, d, p : /\ a = ToUpper[l.from] /\ b = ToUpper[l.to] /\ d = l.date
                        /\ p = Printed[l.passengers]
  OBVIOUS
<1>2. PICK c, r, z : /\ c = ToLower[l.cabin] /\ r = l.ret
                     /\ z = (IF r = "nil" THEN << >> ELSE <<r>>)
  OBVIOUS
<1>3. z \in Seq({a, b, d, p, c, r})
  <2>1. r \in {a, b, d, p, c, r}
    OBVIOUS
  <2>2. \A T : r \in T => << >> \in Seq(T) /\ <<r>> \in Seq(T)
    OBVIOUS
  <2> QED
    BY <1>2, <2>1, <2>2
<1>4. Key(l) = <<a>> \o <<b>> \o <<d, p>> \o <<c>> \o z
  <2>1. Split[a] = <<a>> /\ Split[b] = <<b>> /\ Split[c] = <<c>>
    BY <1>1, <1>2 DEF Plain
  <2> QED
    BY <1>1, <1>2, <2>1 DEF Key
<1>5. PICK T : /\ a \in T /\ b \in T /\ d \in T /\ p \in T /\ c \in T /\ z \in Seq(T)
  BY <1>3
<1>6. /\ Key(l)[1] = a /\ Key(l)[2] = b /\ Key(l)[3] = d /\ Key(l)[4] = p /\ Key(l)[5] = c
  BY <1>4, <1>5, FirstParts
<1> QED
  BY <1>1, <1>2, <1>6

LEMMA PlainKeys ==
  ASSUME NEW k, NEW l, Plain(k), Plain(l), Key(k) = Key(l),
         k.passengers \in DOMAIN Printed, l.passengers \in DOMAIN Printed
  PROVE  SameUpToCase(k, l)
<1>1. /\ ToUpper[k.from] = ToUpper[l.from] /\ ToUpper[k.to] = ToUpper[l.to]
      /\ k.date = l.date /\ Printed[k.passengers] = Printed[l.passengers]
      /\ ToLower[k.cabin] = ToLower[l.cabin]
  BY KeyOfPlain
<1>2. k.passengers = l.passengers
  BY <1>1, SearchAssumption
<1> QED
  BY <1>1, <1>2 DEF SameUpToCase

\* Both ways are for as many people.
LEMMA LegPassengers ==
  ASSUME NEW b, Body(b), NEW i \in DOMAIN Legs(b)
  PROVE  Legs(b)[i].passengers \in DOMAIN Printed
<1> PICK m : m = Inbound(b)
  OBVIOUS
<1>1. b.passengers \in DOMAIN Printed /\ m.passengers \in DOMAIN Printed
  BY DEF Body, Inbound
<1>2. CASE Legs(b) = <<b>>
  BY <1>1, <1>2
<1>3. CASE Legs(b) = <<b, m>>
  BY <1>1, <1>3
<1> QED
  BY <1>2, <1>3 DEF Legs

LEMMA AskedPassengers ==
  ASSUME TypeOK, NEW m \in Asked
  PROVE  m.passengers \in DOMAIN Printed
<1>1. PICK t \in Threads : body[t] # None /\ m \in {Legs(body[t])[i] : i \in DOMAIN Legs(body[t])}
  BY DEF Asked
<1>2. Body(body[t])
  BY <1>1 DEF TypeOK
<1> QED
  BY <1>1, <1>2, LegPassengers

\* A reply y that shows the legs of its request as RepliesFaithful wants them.
Faithful(legs, y) ==
    /\ Len(y.legs) = Len(legs)
    /\ \A i \in DOMAIN legs : /\ LegFaithful(legs[i], y.legs[i])
                              /\ FetchedUnderKey(legs[i], y.legs[i].resp)

LEMMA RepliesMean == Known /\ ThreadsFrom => RepliesFaithful
<1> SUFFICES ASSUME Known, ThreadsFrom, NEW t \in Threads, Answered(t)
             PROVE  Faithful(Legs(body[t]), reply[t])
  BY DEF RepliesFaithful, LegFaithful, Faithful
<1> PICK legs, y : legs = Legs(body[t]) /\ y = reply[t]
  OBVIOUS
<1>1. ReplyOk(body[t], y) /\ y.status = 200 /\ pc[t] = "done"
  BY DEF Known, Inv, RepliesOk, Answered
<1>2. \A i \in DOMAIN legs : Origin(Asked, Key(legs[i]), y.legs[i].resp)
  BY <1>1 DEF ThreadsFrom, ThreadFrom
<1>3. Body(body[t])
  BY <1>1 DEF ThreadsFrom, ThreadFrom, Known, Inv, TypeOK
<1>4. ASSUME NEW i \in DOMAIN legs
      PROVE  FetchedUnderKey(legs[i], y.legs[i].resp)
  <2>1. PICK m \in Asked : /\ Key(m) = Key(legs[i])
                           /\ [y.legs[i].resp EXCEPT !.hit = FALSE] \in Fetches(m)
    BY <1>2 DEF Origin
  <2>2. Plain(m) /\ Plain(legs[i]) => SameUpToCase(m, legs[i])
    BY <1>3, <2>1, PlainKeys, LegPassengers, AskedPassengers DEF Known, Inv
  <2> QED
    BY <2>1, <2>2 DEF FetchedUnderKey
<1> QED
  BY <1>1, <1>4 DEF ReplyOk, Faithful

\* A reply shows what the request's own filters keep of one fetch, scored, formatted
\* and in its own order, with the criteria and the counters of that fetch, whatever
\* others do with the entry meanwhile.  The fetch was made for a leg that some valid
\* request had asked for and that has the same key: the same search, but for the case
\* it is typed in, unless there is a bar in an airport or a cabin of one of the two.
THEOREM RepliesAreFaithful == Spec => []RepliesFaithful
<1>1. Known /\ ThreadsFrom => RepliesFaithful
  BY RepliesMean
<1> QED
  BY <1>1, KnownInit, KnownStep, FromInit, FromStep, PTL DEF Spec

-----------------------------------------------------------------------------
(* Service implements Search                                               *)

\* Search and Service have the same pure parts.
LEMMA SameParts ==
  /\ Promise!None = None /\ Promise!BadRequest = BadRequest
  /\ \A b : Promise!Validates(b) <=> Validates(b)
  /\ \A b : Promise!WithDefaults(b) = WithDefaults(b)
  /\ \A b : Promise!Legs(b) = Legs(b)
  /\ \A l : Promise!Key(l) = Key(l)
  /\ \A l : Promise!Fetches(l) = Fetches(l)
  /\ \A m, x, v : Promise!Put(m, x, v) = Put(m, x, v)
  /\ \A l, fetched, shown : Promise!Shows(l, fetched, shown) <=> Shows(l, fetched, shown)
<1>1. Promise!None = None /\ Promise!BadRequest = BadRequest
  BY DEF None, Promise!None, BadRequest, Promise!BadRequest
<1>2. \A b : Promise!Validates(b) <=> Validates(b)
  BY DEF Validates, Promise!Validates
<1>3. \A b : Promise!WithDefaults(b) = WithDefaults(b)
  BY DEF WithDefaults, Promise!WithDefaults
<1>4. \A b : Promise!Legs(b) = Legs(b)
  BY DEF Legs, Promise!Legs, Inbound, Promise!Inbound
<1>5. \A l : Promise!Key(l) = Key(l)
  BY DEF Key, Promise!Key
<1>6. \A l : Promise!Fetches(l) = Fetches(l)
  <2>1. ASSUME NEW l, NEW good
        PROVE  Promise!Response(l, good) = Response(l, good)
    BY DEF Response, Promise!Response, Criteria, Promise!Criteria, Flight, Promise!Flight,
           Sold, Promise!Sold, Plain, Promise!Plain
  <2>2. ASSUME NEW S
        PROVE  Promise!InOrder(S) = InOrder(S)
    <3>1. Promise!Cardinality(S) = Cardinality(S)
      BY DEF Cardinality, Promise!Cardinality
    <3> QED
      BY <3>1 DEF InOrder, Promise!InOrder
  <2> QED
    BY <2>1, <2>2 DEF Fetches, Promise!Fetches
<1>7. \A m, x, v : Promise!Put(m, x, v) = Put(m, x, v)
  BY DEF Put, Promise!Put
<1>8. \A l, fetched, shown : Promise!Shows(l, fetched, shown) <=> Shows(l, fetched, shown)
  BY DEF Shows, Promise!Shows, Carriers, Promise!Carriers, Wanted, Promise!Wanted, Keeps,
         Promise!Keeps, Less, Promise!Less
<1> QED
  BY <1>1, <1>2, <1>3, <1>4, <1>5, <1>6, <1>7, <1>8

\* What decided and store stand for.
D == [t \in Threads |-> Decided(t)]

Stored == [k \in DOMAIN cache |-> Entry(k)]

\* The responses of finished legs.
Resps(o) == [i \in DOMAIN o |-> o[i].resp]

LEMMA RespsNone == Resps(None) = << >>
BY DEF Resps, None

LEMMA RespsOne == \A x : Resps(<<x>>) = <<x.resp>>
BY DEF Resps

LEMMA RespsTwo == \A x, y : Resps(<<x, y>>) = <<x.resp, y.resp>>
BY DEF Resps

LEMMA RespsAppend ==
  ASSUME NEW o, o = None \/ o = <<o[1]>>, NEW x
  PROVE  Resps(Append(o, x)) = Append(Resps(o), x.resp)
<1>1. CASE o = None
  <2>1. Append(o, x) = <<x>>
    BY <1>1 DEF None
  <2> QED
    BY <1>1, <2>1, RespsNone, RespsOne
<1>2. CASE o = <<o[1]>>
  <2> DEFINE y == o[1]
  <2>1. o = <<y>>
    BY <1>2
  <2> HIDE DEF y
  <2>2. Append(o, x) = <<y, x>>
    BY <2>1, AppendOne
  <2>3. Append(Resps(o), x.resp) = <<y.resp, x.resp>>
    BY <2>1, RespsOne, AppendOne
  <2> QED
    BY <2>2, <2>3, RespsTwo
<1> QED
  BY <1>1, <1>2

\* The leg that a goroutine searches is the first that is not decided.
LEMMA LegNow ==
  ASSUME ThreadsOk, NEW t \in Threads, pc[t] \in {"lookup", "fetch", "store"}
  PROVE  /\ Decided(t) = Resps(outbound[t])
         /\ Len(Decided(t)) < Len(Legs(body[t]))
         /\ Legs(body[t])[Len(Decided(t)) + 1] = leg[t]
<1>1. Decided(t) = Resps(outbound[t])
  BY DEF Decided, Resps
<1>2. /\ outbound[t] = None => leg[t] = body[t]
      /\ outbound[t] # None => /\ leg[t] = Inbound(body[t]) /\ outbound[t] = <<outbound[t][1]>>
                               /\ body[t].ret \notin {"nil", ""}
  BY DEF ThreadsOk, ThreadOk, Searching
<1>3. CASE outbound[t] = None
  <2>1. Len(Decided(t)) = 0
    BY <1>1, <1>3, RespsNone
  <2>2. Len(Legs(body[t])) \in {1, 2} /\ Legs(body[t])[1] = body[t]
    BY DEF Legs
  <2> QED
    BY <1>1, <1>2, <1>3, <2>1, <2>2
<1>4. CASE outbound[t] # None
  <2> DEFINE y == outbound[t][1]
  <2>1. Len(Decided(t)) = 1
    <3>1. outbound[t] = <<y>>
      BY <1>2, <1>4
    <3> HIDE DEF y
    <3>2. Resps(outbound[t]) = <<y.resp>>
      BY <3>1, RespsOne
    <3> QED
      BY <1>1, <3>2
  <2>2. Len(Legs(body[t])) = 2 /\ Legs(body[t])[2] = Inbound(body[t])
    BY <1>2, <1>4 DEF Legs
  <2>3. leg[t] = Inbound(body[t])
    BY <1>2, <1>4
  <2>4. Len(Decided(t)) + 1 = 2
    BY <2>1
  <2> HIDE DEF y
  <2> QED
    BY <1>1, <2>1, <2>2, <2>3, <2>4
<1> QED
  BY <1>3, <1>4

\* A step of t decides something for t only.
LEMMA DecidedStep ==
  ASSUME Shapes, NEW t \in Threads, Serve(t)
  PROVE  D' = [D EXCEPT ![t] = Decided(t)']
<1>1. ASSUME NEW u \in Threads \ {t}
      PROVE  Decided(u)' = Decided(u)
  BY <1>1, ServeOthers DEF Decided
<1> QED
  BY <1>1 DEF D

\* A step of t that decides nothing, answers nothing and stores nothing.
LEMMA StutterStep ==
  ASSUME Shapes, NEW t \in Threads, Serve(t), Decided(t)' = Decided(t),
         UNCHANGED <<body, reply, cache>>
  PROVE  UNCHANGED <<body, D, reply, Stored>>
<1>1. D' = D
  BY DecidedStep DEF D
<1>2. Stored' = Stored
  BY DEF Stored, Entry
<1> QED
  BY <1>1, <1>2

LEMMA SearchInit == Init => Promise!Init
<1> SUFFICES ASSUME Init
             PROVE  Promise!Init
  OBVIOUS
<1>1. D = [t \in Threads |-> << >>]
  <2>1. \A t \in Threads : Decided(t) = Resps(None)
    BY DEF Init, Decided, Resps
  <2> QED
    BY <2>1, RespsNone DEF D
<1>2. Stored = << >>
  BY DEF Init, Stored
<1> QED
  BY <1>1, <1>2, SameParts DEF Init, Promise!Init, D, Stored

LEMMA SearchStart ==
  ASSUME RawInv, RequestOk, NEW t \in Threads, Undecodable(t) \/ Start(t)
  PROVE  Promise!Refuse(t) \/ Promise!Accept(t)
<1>1. pc[t] = "idle" /\ Serve(t) /\ UNCHANGED <<outbound, resp, cache>>
  BY DEF Undecodable, Start, Serve
<1>2. Promise!New(t)
  BY <1>1, SameParts DEF RequestOk, Promise!New
<1>3. Decided(t)' = Decided(t)
  <2>1. pc'[t] \in {"lookup", "done"}
    BY DEF Undecodable, Start, Reject, Goto, RawInv, Shapes
  <2> QED
    BY <1>1, <2>1 DEF Decided
<1>4. UNCHANGED <<D, Stored>>
  BY <1>1, <1>3, DecidedStep DEF RawInv, D, Stored, Entry
<1>5. CASE Undecodable(t)
  BY <1>2, <1>4, <1>5, SameParts DEF Undecodable, Reject, Promise!Refuse, D, Stored
<1>6. CASE Start(t)
  <2>1. PICK b \in Requests :
          IF Validates(b)
          THEN body' = [body EXCEPT ![t] = WithDefaults(b)] /\ UNCHANGED reply
          ELSE body' = [body EXCEPT ![t] = b] /\ Reject(t)
    BY <1>6 DEF Start
  <2>2. CASE Validates(b)
    BY <1>2, <1>4, <2>1, <2>2, SameParts DEF Promise!Accept, D, Stored
  <2>3. CASE ~ Validates(b)
    BY <1>2, <1>4, <2>1, <2>3, SameParts DEF Reject, Promise!Refuse, D, Stored
  <2> QED
    BY <2>2, <2>3
<1> QED
  BY <1>5, <1>6

\* The leg of t is the one that Search decides next.
LEMMA SearchLegNow ==
  ASSUME RawInv, ThreadsOk, RequestOk, NEW t \in Threads, pc[t] \in {"lookup", "fetch", "store"}
  PROVE  Promise!Undecided(t) /\ Promise!Leg(t) = leg[t]
<1>1. D[t] = Decided(t)
  BY DEF D
<1>2. /\ Len(D[t]) < Len(Legs(body[t]))
      /\ Legs(body[t])[Len(D[t]) + 1] = leg[t]
  BY <1>1, LegNow
<1>3. body[t] # None /\ reply[t] = None
  BY DEF RequestOk, Searching
<1> QED
  BY <1>2, <1>3, SameParts DEF Promise!Undecided, Promise!Underway, Promise!Leg, D

LEMMA EntryShown ==
  ASSUME NEW a, NEW b, NEW c, NEW d
  PROVE  [[criteria |-> a, succeeded |-> b, failed |-> c, hit |-> FALSE, fetched |-> d]
              EXCEPT !.hit = TRUE]
         = [criteria |-> a, succeeded |-> b, failed |-> c, hit |-> TRUE, fetched |-> d]
<1> DEFINE x == [criteria |-> a, succeeded |-> b, failed |-> c, hit |-> FALSE, fetched |-> d]
           z == [criteria |-> a, succeeded |-> b, failed |-> c, hit |-> TRUE, fetched |-> d]
<1>1. /\ DOMAIN x = {"criteria", "succeeded", "failed", "hit", "fetched"}
      /\ DOMAIN z = DOMAIN x /\ z = [field \in DOMAIN z |-> z[field]]
      /\ x.criteria = z.criteria /\ x.succeeded = z.succeeded /\ x.failed = z.failed
      /\ x.fetched = z.fetched /\ z.hit = TRUE
  OBVIOUS
<1> HIDE DEF x, z
<1>2. \A field \in DOMAIN x : (IF field = "hit" THEN TRUE ELSE x[field]) = z[field]
  BY <1>1
<1>3. [x EXCEPT !.hit = TRUE] = [field \in DOMAIN x |-> IF field = "hit" THEN TRUE ELSE x[field]]
  OBVIOUS
<1>4. [x EXCEPT !.hit = TRUE] = z
  BY <1>1, <1>2, <1>3
<1> QED
  BY <1>4 DEF x, z

LEMMA SearchHit ==
  ASSUME RawInv, ThreadsOk, RequestOk, NEW t \in Threads, Hit(t)
  PROVE  Promise!FromCache(t)
<1> DEFINE k == Key(leg[t])
           r == [criteria |-> cache[k].criteria, succeeded |-> cache[k].succeeded,
                 failed |-> cache[k].failed, hit |-> TRUE, fetched |-> cache[k].fetched]
<1>1. /\ pc[t] = "lookup" /\ pc'[t] = "copy" /\ k \in DOMAIN cache /\ Serve(t)
      /\ resp'[t] = r /\ UNCHANGED <<body, outbound, reply, cache>>
  BY DEF Hit, Goto, Serve, RawInv, Shapes
<1>2. Promise!Undecided(t) /\ Promise!Leg(t) = leg[t]
  BY <1>1, SearchLegNow
<1>3. k \in DOMAIN Stored /\ [Stored[k] EXCEPT !.hit = TRUE] = r
  <2>1. k \in DOMAIN Stored /\ Stored[k] = Entry(k)
    BY <1>1 DEF Stored
  <2> QED
    BY <2>1, EntryShown DEF Entry
<1>4. D' = [D EXCEPT ![t] = Append(@, r)]
  <2>1. Decided(t)' = Append(Decided(t), r)
    BY <1>1 DEF Decided
  <2> HIDE DEF r
  <2> QED
    BY <1>1, <2>1, DecidedStep DEF RawInv, D
<1>5. Stored' = Stored
  BY <1>1 DEF Stored, Entry
<1> HIDE DEF r
<1> QED
  BY <1>1, <1>2, <1>3, <1>4, <1>5, SameParts DEF Promise!FromCache, Promise!Decide, D, Stored

LEMMA SearchStore ==
  ASSUME RawInv, ThreadsOk, RequestOk, NEW t \in Threads, Store(t)
  PROVE  Promise!FromAirlines(t)
<1> PICK k : k = Key(leg[t])
  OBVIOUS
<1> DEFINE r == resp[t]
           e == [criteria |-> r.criteria, succeeded |-> r.succeeded, failed |-> r.failed,
                 fetched |-> r.fetched, array |-> flights[t]]
<1>1. /\ pc[t] = "store" /\ pc'[t] = "copy" /\ Serve(t) /\ cache' = Put(cache, k, e)
      /\ UNCHANGED <<body, outbound, resp, reply, flights>>
  BY DEF Store, Goto, Serve, RawInv, Shapes
<1>2. Promise!Undecided(t) /\ Promise!Leg(t) = leg[t]
  BY <1>1, SearchLegNow
<1>3. r \in Fetches(leg[t])
  BY <1>1 DEF RequestOk
<1>4. D' = [D EXCEPT ![t] = Append(@, r)]
  <2>1. Decided(t)' = Append(Decided(t), r)
    BY <1>1 DEF Decided
  <2> QED
    BY <1>1, <2>1, DecidedStep DEF RawInv, D
<1>5. Stored' = Put(Stored, k, r)
  <2>1. DOMAIN cache' = DOMAIN cache \cup {k}
    BY <1>1 DEF Put
  <2>2. cache'[k] = e /\ \A j \in DOMAIN cache \ {k} : cache'[j] = cache[j]
    BY <1>1 DEF Put
  <2>3. Entry(k)' = r
    <3>1. /\ e.criteria = r.criteria /\ e.succeeded = r.succeeded /\ e.failed = r.failed
          /\ e.fetched = r.fetched
      OBVIOUS
    <3> HIDE DEF e
    <3>2. Entry(k)' = [criteria |-> e.criteria, succeeded |-> e.succeeded,
                       failed |-> e.failed, hit |-> FALSE, fetched |-> e.fetched]
      BY <2>2 DEF Entry
    <3>3. Entry(k)' = [criteria |-> r.criteria, succeeded |-> r.succeeded,
                       failed |-> r.failed, hit |-> FALSE, fetched |-> r.fetched]
      BY <3>1, <3>2
    <3> HIDE DEF r
    <3> QED
      BY <1>3, <3>3, EntryOfFetch
  <2>4. \A j \in DOMAIN cache \ {k} : Entry(j)' = Entry(j)
    BY <2>2 DEF Entry
  <2> HIDE DEF r, e
  <2>5. \A j \in DOMAIN cache \cup {k} : Entry(j)' = IF j = k THEN r ELSE Stored[j]
    BY <2>3, <2>4 DEF Stored
  <2>6. Stored' = [j \in DOMAIN cache \cup {k} |-> Entry(j)']
    BY <2>1 DEF Stored
  <2>7. DOMAIN Stored = DOMAIN cache
    BY DEF Stored
  <2> QED
    BY <2>5, <2>6, <2>7 DEF Put
<1> QED
  BY <1>1, <1>2, <1>3, <1>4, <1>5, SameParts DEF Promise!FromAirlines, Promise!Decide, D, Stored

\* Until it is finished a leg that is decided stays as it is.
LEMMA SearchPresents ==
  ASSUME RawInv, NEW t \in Threads,
         Miss(t) \/ Aggregate(t) \/ Copy(t) \/ Filter(t) \/ Rank(t) \/ Sort(t) \/ Format(t)
  PROVE  UNCHANGED <<body, D, reply, Stored>>
<1>1. Serve(t) /\ UNCHANGED <<body, outbound, reply, cache>>
  BY DEF Serve, Miss, Aggregate, Copy, Filter, Rank, Sort, Format, Present
<1>2. CASE Miss(t) \/ Aggregate(t)
  <2>1. pc[t] \in {"lookup", "fetch"} /\ pc'[t] \in {"fetch", "store"}
    BY <1>2 DEF Miss, Aggregate, Goto, RawInv, Shapes
  <2>2. Decided(t)' = Decided(t)
    BY <1>1, <2>1 DEF Decided
  <2> QED
    BY <1>1, <2>2, StutterStep DEF RawInv
<1>3. CASE Copy(t) \/ Filter(t) \/ Rank(t) \/ Sort(t) \/ Format(t)
  <2>1. /\ pc[t] \in {"copy", "filter", "rank", "sort", "format"}
        /\ pc'[t] \in {"filter", "rank", "sort", "format", "finish"} /\ resp' = resp
    BY <1>3 DEF Copy, Filter, Rank, Sort, Format, Present, Goto, RawInv, Shapes
  <2>2. Decided(t)' = Decided(t)
    BY <1>1, <2>1 DEF Decided
  <2> QED
    BY <1>1, <2>2, StutterStep DEF RawInv
<1> QED
  BY <1>2, <1>3

\* Finishing it moves its response to the finished ones.
LEMMA SearchFinish ==
  ASSUME RawInv, ThreadsOk, NEW t \in Threads, FinishLeg(t)
  PROVE  UNCHANGED <<body, D, reply, Stored>>
<1> PICK x : x = LegResponse(t)
  OBVIOUS
<1>1. /\ Serve(t) /\ pc[t] = "finish" /\ pc'[t] \in {"lookup", "write"}
      /\ UNCHANGED <<body, resp, reply, cache>>
  BY DEF FinishLeg, Serve, Goto, RawInv, Shapes
<1>2. outbound[t] = None \/ outbound[t] = <<outbound[t][1]>>
  BY <1>1 DEF ThreadsOk, ThreadOk, Searching
<1>3. outbound'[t] = Append(outbound[t], x)
  <2>1. CASE outbound[t] = None /\ body[t].ret \notin {"nil", ""}
    <3>1. outbound'[t] = <<x>>
      BY <2>1 DEF FinishLeg, RawInv, Shapes
    <3>2. Append(None, x) = <<x>>
      BY DEF None
    <3> QED
      BY <2>1, <3>1, <3>2
  <2>2. CASE ~ (outbound[t] = None /\ body[t].ret \notin {"nil", ""})
    BY <2>2 DEF FinishLeg, RawInv, Shapes
  <2> QED
    BY <2>1, <2>2
<1>4. x.resp = resp[t]
  BY DEF LegResponse
<1>5. Resps(outbound'[t]) = Append(Resps(outbound[t]), resp[t])
  BY <1>2, <1>3, <1>4, RespsAppend
<1>6. Decided(t)' = Decided(t)
  BY <1>1, <1>5 DEF Decided, Resps
<1> QED
  BY <1>1, <1>6, StutterStep DEF RawInv

LEMMA SearchWrite ==
  ASSUME RawInv, ThreadsOk, RequestOk, NEW t \in Threads, Write(t)
  PROVE  Promise!Answer(t)
<1> DEFINE b == body[t]
           o == outbound[t]
           legs == [i \in DOMAIN o |-> [resp |-> o[i].resp, total |-> o[i].total,
                                        flights |-> heap[o[i].array]]]
<1>1. /\ pc[t] = "write" /\ pc'[t] = "done" /\ Serve(t)
      /\ reply' = [reply EXCEPT ![t] = [status |-> 200, legs |-> legs]]
      /\ UNCHANGED <<body, outbound, resp, cache>>
  BY DEF Write, Goto, Serve, RawInv, Shapes
<1>2. /\ IsList(o) /\ Len(o) = Len(Legs(b))
      /\ \A i \in 1 .. Len(Legs(b)) : LegDone(t, i, Legs(b)[i], o[i], heap)
  BY <1>1 DEF ThreadsOk, ThreadOk
<1>3. D[t] = Resps(o)
  BY <1>1 DEF D, Decided, Resps
<1>4. Len(legs) = Len(o) /\ Len(D[t]) = Len(o) /\ DOMAIN D[t] = 1 .. Len(o)
  BY <1>2, <1>3 DEF IsList, Resps
<1>5. reply'[t] = [status |-> 200, legs |-> legs]
  BY <1>1 DEF RawInv, Shapes
<1>6. reply'[t] # None /\ reply'[t].status = 200 /\ reply'[t].legs = legs
  <2>1. "status" \in DOMAIN reply'[t] /\ DOMAIN None = {}
    BY <1>5 DEF None
  <2> QED
    BY <1>5, <2>1
<1>7. reply' = [reply EXCEPT ![t] = reply'[t]]
  BY <1>1, <1>5
<1>8. ASSUME NEW i \in DOMAIN D[t]
      PROVE  /\ legs[i].resp = D[t][i] /\ legs[i].total = Len(legs[i].flights)
             /\ Shows(Legs(b)[i], legs[i].resp.fetched, legs[i].flights)
  <2>1. i \in DOMAIN o /\ LegDone(t, i, Legs(b)[i], o[i], heap)
    BY <1>2, <1>4, <1>8 DEF IsList
  <2>2. /\ legs[i].resp = o[i].resp /\ legs[i].total = o[i].total
        /\ legs[i].flights = heap[o[i].array]
    BY <2>1
  <2>3. D[t][i] = o[i].resp
    BY <1>3, <2>1 DEF Resps
  <2> HIDE DEF legs, o, b
  <2>4. LegFaithful(Legs(b)[i], legs[i])
    BY <2>1, <2>2, LegDoneFaithful
  <2> QED
    BY <2>2, <2>3, <2>4 DEF LegFaithful
<1>9. D' = D /\ Stored' = Stored
  <2>1. Decided(t)' = Decided(t)
    BY <1>1 DEF Decided
  <2> QED
    BY <1>1, <2>1, DecidedStep DEF RawInv, D, Stored, Entry
<1>10. body[t] # None /\ reply[t] = None
  BY <1>1 DEF RequestOk
<1> HIDE DEF legs
<1> QED
  BY <1>1, <1>2, <1>4, <1>6, <1>7, <1>8, <1>9, <1>10, SameParts
     DEF Promise!Answer, Promise!Underway, D, Stored

LEMMA SearchExpire ==
  ASSUME NEW k \in DOMAIN cache, Expire(k)
  PROVE  k \in DOMAIN Stored /\ Promise!Expire(k)
<1>1. D' = D
  BY DEF Expire, D, Decided
<1>2. Stored' = [j \in DOMAIN Stored \ {k} |-> Stored[j]]
  BY DEF Expire, Stored, Entry
<1> QED
  BY <1>1, <1>2 DEF Expire, Promise!Expire, D, Stored

LEMMA SearchSteps ==
  RawInv /\ ThreadsOk /\ RequestOk /\ [Next]_vars => [Promise!Next]_(Promise!vars)
<1> SUFFICES ASSUME RawInv, ThreadsOk, RequestOk, [Next]_vars
             PROVE  Promise!Next \/ UNCHANGED <<body, D, reply, Stored>>
  BY DEF Promise!vars, D, Stored
<1>1. CASE UNCHANGED vars
  BY <1>1 DEF vars, D, Decided, Stored, Entry
<1>2. ASSUME NEW k \in DOMAIN cache, Expire(k)
      PROVE  Promise!Next
  BY <1>2, SearchExpire DEF Promise!Next, Stored
<1>3. ASSUME NEW t \in Threads, Serve(t)
      PROVE  Promise!Next \/ UNCHANGED <<body, D, reply, Stored>>
  <2>1. CASE Undecodable(t) \/ Start(t)
    BY <2>1, SearchStart DEF Promise!Next
  <2>2. CASE Hit(t)
    BY <2>2, SearchHit DEF Promise!Next
  <2>3. CASE Store(t)
    BY <2>3, SearchStore DEF Promise!Next
  <2>4. CASE Miss(t) \/ Aggregate(t) \/ Copy(t) \/ Filter(t) \/ Rank(t) \/ Sort(t) \/ Format(t)
    BY <2>4, SearchPresents
  <2>5. CASE FinishLeg(t)
    BY <2>5, SearchFinish
  <2>6. CASE Write(t)
    BY <2>6, SearchWrite DEF Promise!Next
  <2> QED
    BY <1>3, <2>1, <2>2, <2>3, <2>4, <2>5, <2>6 DEF Serve
<1> QED
  BY <1>1, <1>2, <1>3 DEF Next, Finished

\* Concurrent requests, with their slices, their lookups and their stores apart,
\* do nothing that Search does not allow: which has an entry serve every leg with
\* its key, and requests that find nothing at once each fetch.
THEOREM RefinesSearch == Spec => ImplementsSearch
<1>1. Inv /\ RequestOk => RawInv /\ ThreadsOk
  BY DEF Inv
<1> QED
  BY <1>1, InvInit, InvStep, RequestInit, RequestStep, SearchInit, SearchSteps, PTL
     DEF Spec, ImplementsSearch, Promise!Spec

=============================================================================
