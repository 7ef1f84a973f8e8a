---------------------------- MODULE Presentation ----------------------------
(***************************************************************************)
(* What applyPresentation of internal/app/service/service.go does to its   *)
(* copy of a list of flights: filter.Apply compacts it in place, pass by   *)
(* pass, ranker.Rank scores what is left, filter.Sort orders it and        *)
(* money.Format puts prices in words.  Service says which arrays these     *)
(* steps write; here it is what they write.  Scores are exact: counted in  *)
(* 1/10000 and rounded once, where the code rounds a float64.              *)
(***************************************************************************)
EXTENDS Integers, Sequences

CONSTANTS
    Lists,      \* the lists of flights a search may find
    Requests,   \* what may be asked for: filters, sort_by and sort_order
    Weights,    \* DefaultWeights, in tenths
    ToUpper,    \* strings.ToUpper and
    TrimSpace   \* strings.TrimSpace, on the names at hand

\* A pointer is the set of what it points to: {} is nil.
Pointer(S) == \A x, y \in S : x = y

Filters(F) ==
    /\ F.minPrice \in Nat /\ F.maxPrice \in Nat /\ F.maxMins \in Nat
    /\ Pointer(F.maxStops) /\ \A n \in F.maxStops : n \in Nat
    /\ \A W \in {F.depWindow, F.arrWindow} :
           Pointer(W) /\ W \subseteq [from : 0 .. 23, to : 0 .. 23]

\* What applyPresentation reads and writes of a flight; the rest of it goes by
\* its id.
Fields ==
    {"id", "price", "mins", "stops", "dep", "arr", "code", "name", "score", "formatted"}

\* A list of flights of one fetch: no two of them are the same flight.
Listed(s) ==
    /\ s \in Seq({s[i] : i \in DOMAIN s})
    /\ \A i \in DOMAIN s :
           /\ DOMAIN s[i] = Fields
           /\ {s[i].price, s[i].mins, s[i].stops, s[i].dep, s[i].arr} \subseteq Nat
           /\ \A j \in DOMAIN s : s[i].id = s[j].id => i = j

ASSUME PresentationAssumption ==
    /\ \A s \in Lists : Listed(s)
    /\ \A r \in Requests : Pointer(r.filters) /\ \A F \in r.filters : Filters(F)
    /\ Weights \in [{"price", "mins", "stops"} -> Nat]
    /\ Weights.price + Weights.mins + Weights.stops > 0

VARIABLES
    input,      \* history: the flights as they were found
    request,    \* the presentation options of the request
    pc,         \* the step of applyPresentation
    array,      \* the array of the slice at hand
    read,       \* how far the loop of the step has come
    kept        \* Apply's len(out)

vars == <<input, request, pc, array, read, kept>>

Steps == {"filter", "rank", "sort", "format", "done"}

Init ==
    /\ input \in Lists
    /\ request \in Requests
    /\ pc = "filter"
    /\ array = input
    /\ read = 0
    /\ kept = 0

Goto(step) == pc' = step /\ UNCHANGED <<input, request>>

-----------------------------------------------------------------------------
(* filter.Apply                                                            *)

\* Mutant: the window does not wrap midnight.
InHourWindowSameDay(ts, w) ==
    LET h == (ts \div 3600) % 24
    IN  h >= w.from /\ h <= w.to

\* inHourWindow: the hour is that of UTC.
InHourWindow(ts, w) ==
    LET h == (ts \div 3600) % 24
    IN  IF w.from <= w.to
        THEN h >= w.from /\ h <= w.to
        ELSE h >= w.from \/ h <= w.to

\* matches: a zero or nil field of the filters asks for nothing.
Matches(f, F) ==
    LET airlineSet == {ToUpper[TrimSpace[a]] : a \in F.airlines}
    IN  /\ F.minPrice > 0 => f.price >= F.minPrice
        /\ F.maxPrice > 0 => f.price <= F.maxPrice
        /\ \A n \in F.maxStops : f.stops <= n
        /\ F.maxMins > 0 => f.mins <= F.maxMins
        /\ airlineSet # {} =>
               ToUpper[f.code] \in airlineSet \/ ToUpper[f.name] \in airlineSet
        /\ \A w \in F.depWindow : InHourWindow(f.dep, w)
        /\ \A w \in F.arrWindow : InHourWindow(f.arr, w)

\* No filters: the slice is returned as it is.
ApplyNothing ==
    /\ pc = "filter"
    /\ request.filters = {}
    /\ Goto("rank")
    /\ UNCHANGED <<array, read, kept>>

\* A pass of the loop: out shares its array with the flights still to be read.
ApplyPass ==
    /\ pc = "filter"
    /\ read < Len(array)
    /\ \E F \in request.filters :
        IF Matches(array[read + 1], F)
        THEN /\ array' = [array EXCEPT ![kept + 1] = array[read + 1]]
             /\ kept' = kept + 1
        ELSE UNCHANGED <<array, kept>>
    /\ read' = read + 1
    /\ UNCHANGED <<input, request, pc>>

\* Mutant: the array is returned as it is.
ApplyReturnsAll ==
    /\ pc = "filter"
    /\ request.filters # {}
    /\ read = Len(array)
    /\ read' = 0
    /\ Goto("rank")
    /\ UNCHANGED <<array, kept>>

\* The end of it: out is copied into a slice of its own.
ApplyReturns ==
    /\ pc = "filter"
    /\ request.filters # {}
    /\ read = Len(array)
    /\ array' = SubSeq(array, 1, kept)
    /\ read' = 0
    /\ Goto("rank")
    /\ UNCHANGED kept

-----------------------------------------------------------------------------
(* ranker.Rank                                                             *)

Values(field) == {array[i][field] : i \in DOMAIN array}
Least(S) == CHOOSE x \in S : \A y \in S : x <= y
Greatest(S) == CHOOSE x \in S : \A y \in S : x >= y

\* Mutant: the stops are given the range that price and duration have.
SpreadFromLeast(field) ==
    LET range == Greatest(Values(field)) - Least(Values(field))
    IN  IF range > 0 THEN range ELSE 1

\* What a dimension is scaled by, 1 if all flights are equal in it.
Spread(field) ==
    LET range == Greatest(Values(field)) - (IF field = "stops" THEN 0 ELSE Least(Values(field)))
    IN  IF range > 0 THEN range ELSE 1

\* How far f is from the worst of its dimension, out of Spread(field).
Margin(f, field) ==
    Spread(field) - (f[field] - (IF field = "stops" THEN 0 ELSE Least(Values(field))))

\* A score of 1, in 1/10000.
One == 10000

\* The weighted sum over the weights' total, rounded half up to 1/10000.
Score(f) ==
    LET p == Spread("price")
        d == Spread("mins")
        s == Spread("stops")
        sum == Weights.price + Weights.mins + Weights.stops
        total == (IF sum = 0 THEN 1 ELSE sum) * p * d * s
        score == Weights.price * Margin(f, "price") * d * s
                     + Weights.mins * Margin(f, "mins") * p * s
                     + Weights.stops * Margin(f, "stops") * p * d
    IN  (2 * One * score + total) \div (2 * total)

Rank ==
    /\ pc = "rank"
    /\ array' = [i \in DOMAIN array |-> [array[i] EXCEPT !.score = Score(array[i])]]
    /\ read' = IF array = << >> THEN 0 ELSE 1
    /\ Goto("sort")
    /\ UNCHANGED kept

-----------------------------------------------------------------------------
(* filter.Sort                                                             *)

\* What comparator compares: a higher score counts as less.
Compared(f) ==
    CASE request.sortBy = "duration" -> f.mins
      [] request.sortBy = "departure_time" -> f.dep
      [] request.sortBy = "arrival_time" -> f.arr
      [] request.sortBy = "best_value" -> 0 - f.score
      [] OTHER -> f.price

\* Mutant: descending is the negation of ascending.
LessNegated(f, g) ==
    IF request.sortOrder = "desc" THEN ~ (Compared(f) < Compared(g)) ELSE Compared(f) < Compared(g)

\* The order handed to sort.SliceStable.
Less(f, g) ==
    IF request.sortOrder = "desc" THEN Compared(g) < Compared(f) ELSE Compared(f) < Compared(g)

\* A pass of its insertion sort: the next flight moves down past every
\* flight it is less than.
SortPass ==
    /\ pc = "sort"
    /\ read < Len(array)
    /\ LET n == read + 1
           to == Least({k \in 1 .. n : \A i \in k .. read : Less(array[n], array[i])})
       IN  array' = [i \in DOMAIN array |->
                        IF i = to THEN array[n]
                        ELSE IF i \in to + 1 .. n THEN array[i - 1] ELSE array[i]]
    /\ read' = read + 1
    /\ UNCHANGED <<input, request, pc, kept>>

SortReturns ==
    /\ pc = "sort"
    /\ read = Len(array)
    /\ read' = 0
    /\ Goto("format")
    /\ UNCHANGED <<array, kept>>

-----------------------------------------------------------------------------
(* money.FormatIDR                                                         *)

\* strconv.FormatInt: as many digits as the amount has; here it has nine at most.
Digits(amount) ==
    LET n == Least({k \in 1 .. 9 : amount < 10 ^ k})
    IN  [i \in 1 .. n |-> (amount \div 10 ^ (n - i)) % 10]

\* Mutant: the first group is what is left over, even when nothing is.
RupiahFromRest(amount) ==
    LET s == Digits(amount)
        first == Len(s) % 3
    IN  [g \in 1 .. 1 + (Len(s) - first) \div 3 |->
            IF g = 1 THEN SubSeq(s, 1, first)
            ELSE SubSeq(s, first + 3 * (g - 2) + 1, first + 3 * (g - 1))]

\* The groups of digits between the dots.
Rupiah(amount) ==
    LET s == Digits(amount)
        first == IF Len(s) % 3 = 0 THEN 3 ELSE Len(s) % 3
    IN  [g \in 1 .. 1 + (Len(s) - first) \div 3 |->
            IF g = 1 THEN SubSeq(s, 1, first)
            ELSE SubSeq(s, first + 3 * (g - 2) + 1, first + 3 * (g - 1))]

Format ==
    /\ pc = "format"
    /\ array' = [i \in DOMAIN array |-> [array[i] EXCEPT !.formatted = Rupiah(array[i].price)]]
    /\ Goto("done")
    /\ UNCHANGED <<read, kept>>

\* The response is complete.
Finished == pc = "done" /\ UNCHANGED vars

Next ==
    \/ ApplyNothing \/ ApplyPass \/ ApplyReturns
    \/ Rank \/ SortPass \/ SortReturns \/ Format \/ Finished

Spec == Init /\ [][Next]_vars

-----------------------------------------------------------------------------
(* Properties                                                              *)

\* Types; what Apply returns is as long as what it kept.
TypeOK ==
    /\ request \in Requests
    /\ pc \in Steps
    /\ read \in 0 .. Len(array)
    /\ kept \in 0 .. Len(array)
    /\ Len(array) = IF pc = "filter" \/ request.filters = {} THEN Len(input) ELSE kept

\* The hours of a window, from one midnight to the next (domain/search.go:28).
HoursOf(w) == {(w.from + k) % 24 : k \in 0 .. (w.to - w.from) % 24}

\* What the filters ask for, by their documentation.
Wanted(f, F) ==
    /\ F.minPrice <= f.price
    /\ F.maxPrice > 0 => f.price \in F.minPrice .. F.maxPrice
    /\ F.maxStops = {} \/ f.stops <= Greatest(F.maxStops)
    /\ f.mins <= IF F.maxMins = 0 THEN f.mins ELSE F.maxMins
    /\ F.airlines = {} \/ \E a \in F.airlines :
           ToUpper[TrimSpace[a]] \in {ToUpper[f.code], ToUpper[f.name]}
    /\ \A w \in F.depWindow : (f.dep \div 3600) % 24 \in HoursOf(w)
    /\ \A w \in F.arrWindow : (f.arr \div 3600) % 24 \in HoursOf(w)

WantedByAll(f) == \A F \in request.filters : Wanted(f, F)

SameFlight(f, g) == \A field \in Fields \ {"score", "formatted"} : f[field] = g[field]

\* A client gets every flight that satisfies all its filters, once, and no other:
\* in-place compaction, scoring and sorting lose, repeat and alter none.
FlightsShown ==
    pc = "done" =>
        /\ \A i \in DOMAIN array : \E k \in DOMAIN input :
               WantedByAll(input[k]) /\ SameFlight(array[i], input[k])
        /\ \A k \in DOMAIN input :
               WantedByAll(input[k]) => \E i \in DOMAIN array : array[i].id = input[k].id
        /\ \A i, j \in DOMAIN array : array[i].id = array[j].id => i = j

\* The number a sequence of digits says, to a base.
Number(s, base) ==
    LET n[i \in 0 .. Len(s)] == IF i = 0 THEN 0 ELSE base * n[i - 1] + s[i]
    IN  n[Len(s)]

\* The price of a flight in words is its price in digits, in groups of three.
PricesSaid ==
    pc = "done" => \A i \in DOMAIN array :
        LET groups == array[i].formatted
            said == [g \in DOMAIN groups |-> Number(groups[g], 10)]
        IN  /\ Number(said, 1000) = array[i].price
            /\ Len(groups[1]) \in 1 .. 3
            /\ \A g \in 2 .. Len(groups) : Len(groups[g]) = 3

NoWorse(f, g) == f.price <= g.price /\ f.mins <= g.mins /\ f.stops <= g.stops

\* To half a unit of rounding, f scores 1 less the weight of stops times the share
\* it has in the most stops of the list.
LosesForStops(f, list) ==
    LET most == Greatest({1} \cup {list[j].stops : j \in DOMAIN list})
        all == (Weights.price + Weights.mins + Weights.stops) * most
        off == 2 * (One - f.score) * all - 2 * One * Weights.stops * f.stops
    IN  off \in 0 - all .. all

\* Scores are between 0 and 1; a flight that is no dearer, no longer and has no
\* more stops than another never scores lower, in spite of the rounding; and the
\* cheapest and shortest flight loses what its stops cost and nothing else.  It
\* does so also when no other has fewer stops, since they are scaled from zero
\* (ranker.go:54): the comment of Rank (ranker.go:22) has such a flight score 1.
ScoresFair ==
    pc = "done" => \A i \in DOMAIN array :
        /\ array[i].score \in 0 .. One
        /\ \A j \in DOMAIN array :
               NoWorse(array[i], array[j]) => array[i].score >= array[j].score
        /\ (\A j \in DOMAIN array :
                array[i].price <= array[j].price /\ array[i].mins <= array[j].mins)
               => LosesForStops(array[i], array)

\* Where a flight is in the list it was found in.
Found(f, list) == CHOOSE i \in DOMAIN list : list[i].id = f.id

\* The order asked for, and the order they were found in for flights equal in it.
Before(f, g) ==
    \/ IF request.sortOrder = "desc" THEN Compared(f) > Compared(g) ELSE Compared(f) < Compared(g)
    \/ Compared(f) = Compared(g) /\ Found(f, input) < Found(g, input)

\* The flights are in the order asked for, ascending or descending, the best
\* scores first for best_value ascending; flights that are equal in it stay in
\* the order they were found in, in both directions.
SortedAsAsked ==
    pc = "done" => \A i, j \in DOMAIN array : i < j => Before(array[i], array[j])

=============================================================================
