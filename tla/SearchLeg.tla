----------------------------- MODULE SearchLeg -----------------------------
(***************************************************************************)
(* What a search asks for and what it is given: the pure parts of Validate *)
(* (internal/pkg/domain/search.go), cache.Key and searchLeg, which Search  *)
(* and Service share.                                                      *)
(***************************************************************************)
EXTENDS Integers, Sequences, FiniteSets

CONSTANTS
    Requests,   \* the bodies a client may post
    Airlines,   \* a.providers, in the order of the result slice
    Price,      \* the price of the flight each of them offers
    MaxPrice,   \* what the filter of a request that has one lets through
    Dates,      \* the strings time.Parse takes for a date
    ToUpper,    \* strings.ToUpper and
    ToLower,    \* strings.ToLower, on airports and cabins as they are typed
    Split,      \* the parts of a string between its bars, strings.Split(s, "|")
    Printed     \* fmt.Sprintf("p=%d", n)

\* A body: ret is "nil", "" or a date; filtered tells whether it has filters.
Body(b) ==
    /\ DOMAIN b = {"from", "to", "date", "ret", "passengers", "cabin", "filtered",
                   "sortOrder"}
    /\ b.passengers \in DOMAIN Printed /\ b.filtered \in BOOLEAN

ASSUME SearchAssumption ==
    /\ \A b \in Requests : Body(b)
    /\ Dates \cap {"nil", ""} = {}
    /\ Airlines \in Seq({Airlines[i] : i \in DOMAIN Airlines})
    /\ \A i, j \in DOMAIN Airlines : Airlines[i] = Airlines[j] => i = j
    /\ Price \in [{Airlines[i] : i \in DOMAIN Airlines} -> Nat]
    /\ MaxPrice \in Nat
    /\ \A x, y \in DOMAIN Split : Split[x] = Split[y] => x = y
    /\ DOMAIN Printed \subseteq Int
    /\ \A m, n \in DOMAIN Printed : Printed[m] = Printed[n] => m = n

None == << >>

BadRequest == [status |-> 400, legs |-> << >>]

\* m[x] = v, on a map that may have x or not.
Put(m, x, v) == [y \in DOMAIN m \cup {x} |-> IF y = x THEN v ELSE m[y]]

-----------------------------------------------------------------------------
\* Validate (domain/search.go): airports are compared as they are typed.
Validates(b) ==
    /\ b.from # "" /\ b.to # ""
    /\ b.from # b.to
    /\ b.date \in Dates
    /\ b.ret \in Dates \cup {"nil", ""}
    /\ b.passengers >= 1

\* What it leaves of the request.
WithDefaults(b) == IF b.cabin = "" THEN [b EXCEPT !.cabin = "economy"] ELSE b

\* The leg back: origin and destination swapped, on the return date, one way.
Inbound(b) == [b EXCEPT !.from = b.to, !.to = b.from, !.date = b.ret, !.ret = "nil"]

\* Mutant: the dates are left out of the key.
KeyWithoutDate(l) ==
    Split[ToUpper[l.from]] \o Split[ToUpper[l.to]]
        \o <<Printed[l.passengers]>> \o Split[ToLower[l.cabin]]

\* cache.Key: strings.Join puts bars between parts that may have bars themselves,
\* so a key tells no more than the parts of all its parts in a row.  A date of
\* return is part of it, but the leg back has none.
Key(l) ==
    Split[ToUpper[l.from]] \o Split[ToUpper[l.to]]
        \o <<l.date, Printed[l.passengers]>> \o Split[ToLower[l.cabin]]
        \o (IF l.ret = "nil" THEN << >> ELSE <<l.ret>>)

\* A leg without a bar in its airports and its cabin, which Validate does not ask for.
Plain(l) ==
    \A x \in {ToUpper[l.from], ToUpper[l.to], ToLower[l.cabin]} : Split[x] = <<x>>

\* SearchCriteria repeats the parameters as the client typed them.
Criteria(l) ==
    [from |-> l.from, to |-> l.to, date |-> l.date, passengers |-> l.passengers,
     cabin |-> l.cabin]

\* What an airline sells on a leg: a flight with seats enough in that cabin.
\* basis is the set its best-value score is relative to, none before it is ranked.
Flight(a, l) ==
    [airline |-> a, from |-> ToUpper[l.from], to |-> ToUpper[l.to], date |-> l.date,
     seats |-> l.passengers, cabin |-> ToLower[l.cabin], basis |-> {}, formatted |-> FALSE]

\* No airline flies from an airport to itself, and no airport or cabin has a bar.
Sold(l) == ToUpper[l.from] # ToUpper[l.to] /\ Plain(l)

Keeps(l, f) == l.filtered => Price[f.airline] <= MaxPrice

\* The order of filter.Sort, which is that of the price here.
Less(l, f, g) ==
    IF l.sortOrder = "desc" THEN Price[f.airline] > Price[g.airline]
                            ELSE Price[f.airline] < Price[g.airline]

\* The indices S, in order: there is one such sequence.
InOrder(S) ==
    {p \in [1 .. Cardinality(S) -> S] :
        /\ \A i, j \in DOMAIN p : i < j => p[i] < p[j]
        /\ \A x \in S : \E i \in DOMAIN p : p[i] = x}

\* What searchLeg builds of a fetch of leg l, which the airlines with the indices
\* `good` have answered: any error counts as a failure, a timeout included.
Response(l, good) ==
    [criteria |-> Criteria(l), succeeded |-> Len(good), failed |-> Len(Airlines) - Len(good),
     hit |-> FALSE,
     fetched |-> IF Sold(l) THEN [i \in DOMAIN good |-> Flight(Airlines[good[i]], l)]
                            ELSE << >>]

\* All that a fetch of leg l may come to.
Fetches(l) ==
    {Response(l, good) : good \in UNION {InOrder(S) : S \in SUBSET DOMAIN Airlines}}

\* The legs of a request, in the order they are searched.
Legs(b) == IF b.ret \in {"nil", ""} THEN <<b>> ELSE <<b, Inbound(b)>>

\* The flights among those fetched that the filters of the leg keep.
Wanted(l, fetched) ==
    {fetched[j].airline : j \in {i \in DOMAIN fetched : Keeps(l, fetched[i])}}

Carriers(s) == {s[i].airline : i \in DOMAIN s}

\* What a reply shows on leg l is the presentation of a fetch: the flights that the
\* filters of l keep, as they were fetched but scored against each other and
\* formatted, and in the order of l.
Shows(l, fetched, shown) ==
    /\ Carriers(shown) = Wanted(l, fetched)
    /\ \A j, k \in DOMAIN shown :
           j < k => /\ shown[j].airline # shown[k].airline
                    /\ ~ Less(l, shown[k], shown[j])
    /\ \A j \in DOMAIN shown : \E i \in DOMAIN fetched :
           shown[j] = [fetched[i] EXCEPT !.basis = Carriers(shown), !.formatted = TRUE]

=============================================================================
