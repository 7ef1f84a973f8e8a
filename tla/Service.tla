------------------------------ MODULE Service ------------------------------
(***************************************************************************)
(* Requests served concurrently by internal/app/service/service.go behind  *)
(* handleSearch of internal/app/api/handler.go: a leg is looked up in the  *)
(* cache, or fetched and stored raw, and a copy of it is then filtered,    *)
(* ranked, sorted and formatted for the request.  Go slices are references *)
(* into a heap of arrays, so that sharing an array is visible.  Aggregate  *)
(* is FanOut, and the cache ExpiringMap with its clock abstracted away.    *)
(***************************************************************************)
EXTENDS SearchLeg

CONSTANT
    Threads     \* goroutines of net/http, each with one request

VARIABLES
    pc,         \* where each goroutine is
    body,       \* the body it decoded, as Validate left it
    leg,        \* the leg it searches: the body, or the way back
    resp,       \* the domain.SearchResponse of that leg, as far as it is built
    flights,    \* the slice being presented
    outbound,   \* the finished response of the first leg
    reply,      \* what was written to the client
    cache,      \* the valid entries of the cache
    heap,       \* the arrays that slices point to
    outcomes    \* history: how the providers ended in the latest Aggregate

vars == <<pc, body, leg, resp, flights, outbound, reply, cache, heap, outcomes>>

Places == {"idle", "lookup", "fetch", "store", "copy", "filter", "rank", "sort",
           "format", "finish", "write", "done"}

\* Which leg a goroutine is on that has finished those of o.
Nth(o) == IF o = None THEN 1 ELSE 2

\* An array: who made it, on which leg, and for what.
ArrayOf(t, use) == <<t, Nth(outbound[t]), use>>

\* Where each place of a stably sorted s comes from: there is one such permutation.
StableSorts(l, s) ==
    {p \in [DOMAIN s -> DOMAIN s] :
        /\ \A x \in DOMAIN s : \E i \in DOMAIN s : p[i] = x
        /\ \A i, j \in DOMAIN s :
               i < j => /\ p[i] # p[j] /\ ~ Less(l, s[p[j]], s[p[i]])
                        /\ Less(l, s[p[i]], s[p[j]]) \/ p[i] < p[j]}

-----------------------------------------------------------------------------
Init ==
    /\ pc = [t \in Threads |-> "idle"]
    /\ body = [t \in Threads |-> None]
    /\ leg = [t \in Threads |-> None]
    /\ resp = [t \in Threads |-> None]
    /\ flights = [t \in Threads |-> None]
    /\ outbound = [t \in Threads |-> None]
    /\ reply = [t \in Threads |-> None]
    /\ cache = << >>
    /\ heap = << >>
    /\ outcomes = [t \in Threads |-> None]

Goto(t, place) == pc' = [pc EXCEPT ![t] = place]

Reject(t) ==
    /\ reply' = [reply EXCEPT ![t] = BadRequest]
    /\ Goto(t, "done")

\* handleSearch cannot decode the body.
Undecodable(t) ==
    /\ pc[t] = "idle"
    /\ Reject(t)
    /\ UNCHANGED <<body, leg, resp, flights, outbound, cache, heap, outcomes>>

\* It decodes a body, and Search validates it.
Start(t) ==
    /\ pc[t] = "idle"
    /\ \E b \in Requests :
        IF Validates(b)
        THEN /\ body' = [body EXCEPT ![t] = WithDefaults(b)]
             /\ leg' = [leg EXCEPT ![t] = WithDefaults(b)]
             /\ Goto(t, "lookup")
             /\ UNCHANGED reply
        ELSE /\ body' = [body EXCEPT ![t] = b]
             /\ Reject(t)
             /\ UNCHANGED leg
    /\ UNCHANGED <<resp, flights, outbound, cache, heap, outcomes>>

\* Mutant: the response is the entry as it was stored.
HitUnmarked(t) ==
    /\ pc[t] = "lookup"
    /\ Key(leg[t]) \in DOMAIN cache
    /\ LET e == cache[Key(leg[t])]
       IN  /\ resp' = [resp EXCEPT ![t] =
                [criteria |-> e.criteria, succeeded |-> e.succeeded,
                 failed |-> e.failed, hit |-> FALSE, fetched |-> e.fetched]]
           /\ flights' = [flights EXCEPT ![t] = e.array]
    /\ Goto(t, "copy")
    /\ UNCHANGED <<body, leg, outbound, reply, cache, heap, outcomes>>

\* cache.Get returns an entry: its criteria and metadata are the response's.
Hit(t) ==
    /\ pc[t] = "lookup"
    /\ Key(leg[t]) \in DOMAIN cache
    /\ LET e == cache[Key(leg[t])]
       IN  /\ resp' = [resp EXCEPT ![t] =
                [criteria |-> e.criteria, succeeded |-> e.succeeded,
                 failed |-> e.failed, hit |-> TRUE, fetched |-> e.fetched]]
           /\ flights' = [flights EXCEPT ![t] = e.array]
    /\ Goto(t, "copy")
    /\ UNCHANGED <<body, leg, outbound, reply, cache, heap, outcomes>>

\* It does not: the key is not there or no longer valid.
Miss(t) ==
    /\ pc[t] = "lookup"
    /\ Key(leg[t]) \notin DOMAIN cache
    /\ Goto(t, "fetch")
    /\ UNCHANGED <<body, leg, resp, flights, outbound, reply, cache, heap, outcomes>>

\* Aggregate returns, and the flights of the providers that answered are put
\* together.
Aggregate(t) ==
    /\ pc[t] = "fetch"
    /\ \E outcome \in [DOMAIN Airlines -> {"ok", "DeadlineExceeded"}] :
        \E good \in InOrder({i \in DOMAIN Airlines : outcome[i] = "ok"}) :
            LET r == Response(leg[t], good)
            IN  /\ heap' = Put(heap, ArrayOf(t, "raw"), r.fetched)
                /\ resp' = [resp EXCEPT ![t] = r]
                /\ outcomes' = [outcomes EXCEPT ![t] = outcome]
    /\ flights' = [flights EXCEPT ![t] = ArrayOf(t, "raw")]
    /\ Goto(t, "store")
    /\ UNCHANGED <<body, leg, outbound, reply, cache>>

\* cache.Set of the raw flights, over whatever another request has stored since.
Store(t) ==
    /\ pc[t] = "store"
    /\ cache' = Put(cache, Key(leg[t]),
                    [criteria |-> resp[t].criteria, succeeded |-> resp[t].succeeded,
                     failed |-> resp[t].failed, fetched |-> resp[t].fetched,
                     array |-> flights[t]])
    /\ Goto(t, "copy")
    /\ UNCHANGED <<body, leg, resp, flights, outbound, reply, heap, outcomes>>

-----------------------------------------------------------------------------
(* applyPresentation                                                       *)

\* The slice of t is now array a, with contents s.
Present(t, a, s) ==
    /\ heap' = Put(heap, a, s)
    /\ flights' = [flights EXCEPT ![t] = a]
    /\ UNCHANGED <<body, leg, resp, outbound, reply, cache, outcomes>>

\* Mutant: the presentation works on the slice it is given.
CopyNothing(t) ==
    /\ pc[t] = "copy"
    /\ Present(t, flights[t], heap[flights[t]])
    /\ Goto(t, "filter")

Copy(t) ==
    /\ pc[t] = "copy"
    /\ Present(t, ArrayOf(t, "copy"), heap[flights[t]])
    /\ Goto(t, "filter")

\* Mutant: the new slice is returned without an array behind it.
FilterForgets(t) ==
    /\ pc[t] = "filter"
    /\ flights' = [flights EXCEPT ![t] = ArrayOf(t, "kept")]
    /\ Goto(t, "rank")
    /\ UNCHANGED <<body, leg, resp, outbound, reply, cache, heap, outcomes>>

\* filter.Apply with filters: compacts the array in place, then copies what is
\* left into a new one.  Without filters it returns the slice as it is.
Filter(t) ==
    /\ pc[t] = "filter"
    /\ IF leg[t].filtered
       THEN LET s == heap[flights[t]]
            IN  /\ \E p \in InOrder({i \in DOMAIN s : Keeps(leg[t], s[i])}) :
                    LET kept == [i \in DOMAIN p |-> s[p[i]]]
                        compacted == [i \in DOMAIN s |-> IF i \in DOMAIN p THEN kept[i] ELSE s[i]]
                    IN  heap' = Put(Put(heap, flights[t], compacted), ArrayOf(t, "kept"), kept)
                /\ flights' = [flights EXCEPT ![t] = ArrayOf(t, "kept")]
       ELSE UNCHANGED <<heap, flights>>
    /\ Goto(t, "rank")
    /\ UNCHANGED <<body, leg, resp, outbound, reply, cache, outcomes>>

\* ranker.Rank writes a score into every flight.
Rank(t) ==
    /\ pc[t] = "rank"
    /\ LET s == heap[flights[t]]
       IN  Present(t, flights[t], [i \in DOMAIN s |-> [s[i] EXCEPT !.basis = Carriers(s)]])
    /\ Goto(t, "sort")

\* filter.Sort, in place.
Sort(t) ==
    /\ pc[t] = "sort"
    /\ LET s == heap[flights[t]]
       IN  \E p \in StableSorts(leg[t], s) : Present(t, flights[t], [i \in DOMAIN s |-> s[p[i]]])
    /\ Goto(t, "format")

\* The loop over money.Format.
Format(t) ==
    /\ pc[t] = "format"
    /\ LET s == heap[flights[t]]
       IN  Present(t, flights[t], [i \in DOMAIN s |-> [s[i] EXCEPT !.formatted = TRUE]])
    /\ Goto(t, "finish")

-----------------------------------------------------------------------------
\* The response of the leg, its flights still a slice.
LegResponse(t) == [resp |-> resp[t], array |-> flights[t], total |-> Len(heap[flights[t]])]

\* searchLeg returns: Search goes on with the leg back or is done.
FinishLeg(t) ==
    /\ pc[t] = "finish"
    /\ IF outbound[t] = None /\ body[t].ret \notin {"nil", ""}
       THEN /\ outbound' = [outbound EXCEPT ![t] = <<LegResponse(t)>>]
            /\ leg' = [leg EXCEPT ![t] = Inbound(body[t])]
            /\ Goto(t, "lookup")
       ELSE /\ outbound' = [outbound EXCEPT ![t] = Append(@, LegResponse(t))]
            /\ Goto(t, "write")
            /\ UNCHANGED leg
    /\ UNCHANGED <<body, resp, flights, reply, cache, heap, outcomes>>

\* handleSearch encodes the arrays as they are now.
Write(t) ==
    /\ pc[t] = "write"
    /\ reply' = [reply EXCEPT ![t] =
            [status |-> 200,
             legs |-> [i \in DOMAIN outbound[t] |->
                          [resp |-> outbound[t][i].resp, total |-> outbound[t][i].total,
                           flights |-> heap[outbound[t][i].array]]]]]
    /\ Goto(t, "done")
    /\ UNCHANGED <<body, leg, resp, flights, outbound, cache, heap, outcomes>>

\* An entry reaches its TTL.
Expire(k) ==
    /\ cache' = [j \in DOMAIN cache \ {k} |-> cache[j]]
    /\ UNCHANGED <<pc, body, leg, resp, flights, outbound, reply, heap, outcomes>>

Serve(t) ==
    \/ Undecodable(t) \/ Start(t) \/ Hit(t) \/ Miss(t) \/ Aggregate(t) \/ Store(t)
    \/ Copy(t) \/ Filter(t) \/ Rank(t) \/ Sort(t) \/ Format(t)
    \/ FinishLeg(t) \/ Write(t)

\* Every request has been answered.
Finished == (\A t \in Threads : pc[t] = "done") /\ UNCHANGED vars

Next ==
    \/ Finished
    \/ \E t \in Threads : Serve(t)
    \/ \E k \in DOMAIN cache : Expire(k)

Spec == Init /\ [][Next]_vars

-----------------------------------------------------------------------------
(* Properties                                                              *)

Arrays == Threads \X {1, 2} \X {"raw", "copy", "kept"}

\* Types of the control state; the arrays that slices point to exist.
TypeOK ==
    /\ pc \in [Threads -> Places]
    /\ \A t \in Threads :
        /\ body[t] = None \/ Body(body[t])
        /\ flights[t] = None \/ flights[t] \in DOMAIN heap
        /\ Len(outbound[t]) <= 2
    /\ DOMAIN heap \subseteq Arrays
    /\ \A k \in DOMAIN cache : cache[k].array \in DOMAIN heap

\* The cache stays raw: whatever requests are presenting the same entry at the
\* same time, nothing writes to the array it holds after it was stored.
CacheStaysRaw ==
    \A k \in DOMAIN cache : heap[cache[k].array] = cache[k].fetched

Answered(t) == pc[t] = "done" /\ reply[t].status = 200

\* Legs that say the same but for the case they are typed in.
SameUpToCase(p, q) ==
    /\ ToUpper[p.from] = ToUpper[q.from] /\ ToUpper[p.to] = ToUpper[q.to]
    /\ p.date = q.date /\ p.passengers = q.passengers
    /\ ToLower[p.cabin] = ToLower[q.cabin]

\* The legs that valid requests have asked for.
Asked ==
    UNION {{Legs(body[t])[i] : i \in DOMAIN Legs(body[t])} :
               t \in {u \in Threads : body[u] # None /\ Validates(body[u])}}

\* What leg l shows, r, was fetched for a leg with the key of l: for l itself up to
\* case, unless there is a bar in one of the two.
FetchedUnderKey(l, r) ==
    \E k \in Asked :
        /\ Key(k) = Key(l)
        /\ [r EXCEPT !.hit = FALSE] \in Fetches(k)
        /\ Plain(k) /\ Plain(l) => SameUpToCase(k, l)

\* Each leg of a reply shows what its request's own filters keep of one fetch,
\* scored, formatted and in this request's order, with the criteria and counters
\* of that fetch, whoever made it and whatever others did to the entry meanwhile.
\* The fetch was made for a leg that a request asked for under the same key
\* (cache.go:74); legs without bars have the same key only if they are the same.
RepliesFaithful ==
    \A t \in Threads : Answered(t) =>
        LET legs == Legs(body[t])
        IN  /\ Len(reply[t].legs) = Len(legs)
            /\ \A i \in DOMAIN legs :
                   LET g == reply[t].legs[i]
                   IN  /\ Shows(legs[i], g.resp.fetched, g.flights)
                       /\ g.total = Len(g.flights)
                       /\ FetchedUnderKey(legs[i], g.resp)

-----------------------------------------------------------------------------
(* Service implements Search                                               *)

\* The leg is decided when its entry is found, or fetched and stored; until it
\* is finished its response is resp, then one of outbound.
Decided(t) ==
    LET finished == [i \in DOMAIN outbound[t] |-> outbound[t][i].resp]
    IN  IF pc[t] \in {"copy", "filter", "rank", "sort", "format", "finish"}
        THEN Append(finished, resp[t])
        ELSE finished

\* An entry as it was fetched.
Entry(k) ==
    [criteria |-> cache[k].criteria, succeeded |-> cache[k].succeeded,
     failed |-> cache[k].failed, hit |-> FALSE, fetched |-> cache[k].fetched]

Promise ==
    INSTANCE Search WITH decided <- [t \in Threads |-> Decided(t)],
                         store <- [k \in DOMAIN cache |-> Entry(k)]

\* Although nothing holds the lookup, the fetch and the store of a leg together,
\* and the parts of its answer are built in place in several steps, each leg looks
\* as if it was answered at one instant from the cache or from the airlines.
ImplementsSearch == Promise!Spec

-----------------------------------------------------------------------------
(* What the comments say and the code does not do                          *)

\* handler.go:45: 504 if the search times out.
TimeoutIs504 ==
    \A t \in Threads :
        /\ pc[t] = "done"
        /\ outcomes[t] # None
        /\ \A i \in DOMAIN outcomes[t] : outcomes[t][i] = "DeadlineExceeded"
        => reply[t].status = 504

=============================================================================
