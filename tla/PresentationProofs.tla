------------------------- MODULE PresentationProofs -------------------------
(***************************************************************************)
(* Proofs about Presentation, for lists of any length, any filters, any    *)
(* weights and any order: what a client is shown, and in which order.      *)
(***************************************************************************)
EXTENDS Presentation, TLAPS, WellFoundedInduction

\* What the code's own test says of a flight.
Matching(f) == \A F \in request.filters : Matches(f, F)

\* The array is a sequence of flights with the fields they were found with.
Shape ==
    /\ input \in Lists
    /\ Len(array) \in Nat
    /\ DOMAIN array = 1 .. Len(array)
    /\ \A i \in DOMAIN array : DOMAIN array[i] = Fields
    /\ pc = "rank" => read = 0

\* Apply appends to the array it is reading: it never overwrites a flight before
\* it has looked at it.
NothingOverwritten ==
    pc = "filter" =>
        /\ kept <= read
        /\ \A i \in read + 1 .. Len(input) : array[i] = input[i]

\* What Apply has kept of the flights it has read, in the order they were found.
KeptMatch ==
    pc = "filter" =>
        /\ request.filters = {} => read = 0
        /\ \A i \in 1 .. kept : \E k \in 1 .. read :
               array[i] = input[k] /\ Matching(input[k])
        /\ \A k \in 1 .. read :
               Matching(input[k]) => \E i \in 1 .. kept : array[i] = input[k]
        /\ \A i, j \in 1 .. kept : i < j => Found(array[i], input) < Found(array[j], input)

\* From then on the array holds the matching flights, each once.
ArrayMatches ==
    pc # "filter" =>
        /\ \A i \in DOMAIN array : \E k \in DOMAIN input :
               Matching(input[k]) /\ SameFlight(array[i], input[k])
        /\ \A k \in DOMAIN input :
               Matching(input[k]) => \E i \in DOMAIN array : SameFlight(array[i], input[k])
        /\ \A i, j \in DOMAIN array : array[i].id = array[j].id => i = j

\* What the insertion sort has read is in order; the rest is as it was found,
\* and was found after it.
PrefixSorted ==
    pc # "filter" =>
        \A i, j \in DOMAIN array :
            i < j => IF j <= read \/ pc \in {"format", "done"}
                     THEN Before(array[i], array[j])
                     ELSE Found(array[i], input) < Found(array[j], input)

\* A flight of list a that is both the cheapest and the shortest.
Cheapest(i, a) ==
    \A j \in DOMAIN a : a[i].price <= a[j].price /\ a[i].mins <= a[j].mins

\* The scores are fair as soon as there are scores.
Fair(i) ==
    /\ array[i].score \in 0 .. One
    /\ \A j \in DOMAIN array :
           NoWorse(array[i], array[j]) => array[i].score >= array[j].score
    /\ Cheapest(i, array) => LosesForStops(array[i], array)

Scored == pc \in {"sort", "format", "done"} => \A i \in DOMAIN array : Fair(i)

Inv ==
    /\ TypeOK /\ Shape /\ NothingOverwritten /\ KeptMatch
    /\ ArrayMatches /\ PrefixSorted /\ Scored

-----------------------------------------------------------------------------
(* The list that was found                                                 *)

LEMMA InputListed ==
  ASSUME input \in Lists
  PROVE  /\ Len(input) \in Nat
         /\ DOMAIN input = 1 .. Len(input)
         /\ \A k \in DOMAIN input :
                /\ DOMAIN input[k] = Fields
                /\ input[k].price \in Nat /\ input[k].mins \in Nat /\ input[k].stops \in Nat
                /\ input[k].dep \in Nat /\ input[k].arr \in Nat
                /\ \A j \in DOMAIN input : input[k].id = input[j].id => k = j
<1>1. Listed(input)
  BY PresentationAssumption
<1> QED
  BY <1>1 DEF Listed

\* A flight was found at the only place where its id is.
LEMMA FoundAt ==
  ASSUME input \in Lists, NEW k \in DOMAIN input, NEW f, f.id = input[k].id
  PROVE  Found(f, input) = k
<1>1. \A i \in DOMAIN input : input[i].id = f.id <=> i = k
  BY InputListed
<1> QED
  BY <1>1 DEF Found

-----------------------------------------------------------------------------
(* The tests of matches are what the filters are documented to ask for     *)

\* The test on the hour is membership in the hours of the window.
LEMMA WindowIsHours ==
  ASSUME NEW ts \in Nat, NEW w \in [from : 0 .. 23, to : 0 .. 23]
  PROVE  InHourWindow(ts, w) <=> (ts \div 3600) % 24 \in HoursOf(w)
<1> DEFINE h == (ts \div 3600) % 24
           a == w.from
           b == w.to
<1>1. h \in 0 .. 23 /\ a \in 0 .. 23 /\ b \in 0 .. 23
  OBVIOUS
<1>2. InHourWindow(ts, w) <=> IF a <= b THEN h >= a /\ h <= b ELSE h >= a \/ h <= b
  BY DEF InHourWindow
<1>3. HoursOf(w) = {(a + k) % 24 : k \in 0 .. (b - a) % 24}
  BY DEF HoursOf
<1> HIDE DEF h, a, b
<1>4. ASSUME NEW k \in 0 .. (b - a) % 24, h = (a + k) % 24
      PROVE  IF a <= b THEN h >= a /\ h <= b ELSE h >= a \/ h <= b
  BY <1>1, <1>4
<1>5. ASSUME IF a <= b THEN h >= a /\ h <= b ELSE h >= a \/ h <= b
      PROVE  \E k \in 0 .. (b - a) % 24 : h = (a + k) % 24
  <2>1. (b - a) % 24 = IF a <= b THEN b - a ELSE b - a + 24
    BY <1>1
  <2>2. CASE h >= a
    <3>1. h - a \in 0 .. (b - a) % 24
      BY <1>1, <1>5, <2>1, <2>2
    <3>2. (a + (h - a)) % 24 = h
      BY <1>1
    <3> QED
      BY <3>1, <3>2
  <2>3. CASE h < a
    <3>1. h - a + 24 \in 0 .. (b - a) % 24
      BY <1>1, <1>5, <2>1, <2>3
    <3>2. (a + (h - a + 24)) % 24 = h
      BY <1>1
    <3> QED
      BY <3>1, <3>2
  <2> QED
    BY <1>1, <2>2, <2>3
<1>6. (ts \div 3600) % 24 \in HoursOf(w) <=> \E k \in 0 .. (b - a) % 24 : h = (a + k) % 24
  BY <1>3 DEF h
<1> QED
  BY <1>2, <1>4, <1>5, <1>6

LEMMA GreatestOfOne ==
  ASSUME NEW S \in SUBSET Nat, Pointer(S), NEW n \in S
  PROVE  Greatest(S) = n
<1>1. S = {n}
  BY DEF Pointer
<1>2. \A y \in {n} : n >= y
  OBVIOUS
<1> QED
  BY <1>1, <1>2 DEF Greatest

LEMMA MatchesIsWanted ==
  ASSUME NEW f, NEW F, Filters(F),
         f.price \in Nat, f.mins \in Nat, f.stops \in Nat, f.dep \in Nat, f.arr \in Nat
  PROVE  Matches(f, F) <=> Wanted(f, F)
<1> DEFINE prices == /\ F.minPrice > 0 => f.price >= F.minPrice
                     /\ F.maxPrice > 0 => f.price <= F.maxPrice
           codes == {ToUpper[TrimSpace[a]] : a \in F.airlines}
           airline == codes # {} => ToUpper[f.code] \in codes \/ ToUpper[f.name] \in codes
<1>1. prices <=> /\ F.minPrice <= f.price
                 /\ F.maxPrice > 0 => f.price \in F.minPrice .. F.maxPrice
  BY DEF Filters
<1>2. (F.maxMins > 0 => f.mins <= F.maxMins) <=> f.mins <= IF F.maxMins = 0 THEN f.mins ELSE F.maxMins
  BY DEF Filters
<1>3. (\A n \in F.maxStops : f.stops <= n) <=> F.maxStops = {} \/ f.stops <= Greatest(F.maxStops)
  BY GreatestOfOne DEF Filters
<1>4. airline <=> \/ F.airlines = {}
                  \/ \E a \in F.airlines : ToUpper[TrimSpace[a]] \in {ToUpper[f.code], ToUpper[f.name]}
  OBVIOUS
<1>5. \A w \in F.depWindow : InHourWindow(f.dep, w) <=> (f.dep \div 3600) % 24 \in HoursOf(w)
  BY WindowIsHours DEF Filters
<1>6. \A w \in F.arrWindow : InHourWindow(f.arr, w) <=> (f.arr \div 3600) % 24 \in HoursOf(w)
  BY WindowIsHours DEF Filters
<1>7. Matches(f, F) <=>
        /\ prices /\ (\A n \in F.maxStops : f.stops <= n)
        /\ (F.maxMins > 0 => f.mins <= F.maxMins) /\ airline
        /\ \A w \in F.depWindow : InHourWindow(f.dep, w)
        /\ \A w \in F.arrWindow : InHourWindow(f.arr, w)
  BY DEF Matches
<1> HIDE DEF prices, codes, airline
<1> QED
  BY <1>1, <1>2, <1>3, <1>4, <1>5, <1>6, <1>7 DEF Wanted

\* The flights that match are those that are wanted.
LEMMA MatchingIsWanted ==
  ASSUME input \in Lists, request \in Requests, NEW k \in DOMAIN input
  PROVE  Matching(input[k]) <=> WantedByAll(input[k])
<1>1. \A F \in request.filters : Filters(F)
  BY PresentationAssumption
<1> QED
  BY <1>1, InputListed, MatchesIsWanted DEF Matching, WantedByAll

-----------------------------------------------------------------------------
(* The least and the greatest value of a dimension                         *)

LEMMA LeastIs ==
  ASSUME NEW S \in SUBSET Int, NEW x \in S, \A y \in S : x <= y
  PROVE  Least(S) = x
<1>1. \A z \in S : (\A y \in S : z <= y) => z = x
  OBVIOUS
<1> QED
  BY <1>1 DEF Least

LEMMA GreatestIs ==
  ASSUME NEW S \in SUBSET Int, NEW x \in S, \A y \in S : x >= y
  PROVE  Greatest(S) = x
<1>1. \A z \in S : (\A y \in S : z >= y) => z = x
  OBVIOUS
<1> QED
  BY <1>1 DEF Greatest

LEMMA LeastExists ==
  ASSUME NEW S \in SUBSET Nat, S # {}
  PROVE  Least(S) \in S /\ \A y \in S : Least(S) <= y
<1>1. PICK x \in S : \A y \in S : ~ (<<y, x>> \in OpToRel(<, Nat))
  BY NatLessThanWellFounded, WFMin, Zenon
<1>2. \A y \in S : x <= y
  <2>1. SUFFICES ASSUME NEW y \in S, y < x PROVE FALSE
    OBVIOUS
  <2>2. <<y, x>> \in Nat \X Nat /\ <<y, x>>[1] < <<y, x>>[2]
    BY <2>1
  <2>3. <<y, x>> \in OpToRel(<, Nat)
    BY <2>2, Zenon DEF OpToRel
  <2> QED
    BY <1>1, <2>3
<1>3. Least(S) = x
  BY <1>2, LeastIs
<1> QED
  BY <1>2, <1>3

\* The greatest of finitely many numbers: were there none, there would be a
\* shortest prefix without one, and its last number would be no candidate.
LEMMA GreatestExists ==
  ASSUME NEW n \in Nat \ {0}, NEW f, \A i \in 1 .. n : f[i] \in Nat
  PROVE  LET S == {f[i] : i \in 1 .. n}
         IN  Greatest(S) \in S /\ \A y \in S : Greatest(S) >= y
<1> DEFINE Has(m) == \E i \in 1 .. m : \A j \in 1 .. m : f[i] >= f[j]
           T == {k \in 1 .. n : ~ Has(k)}
<1>1. T = {}
  <2>1. SUFFICES ASSUME T # {} PROVE FALSE
    OBVIOUS
  <2>2. T \in SUBSET Nat
    OBVIOUS
  <2> DEFINE m == Least(T)
  <2>3. m \in T /\ \A y \in T : m <= y
    BY <2>1, <2>2, LeastExists
  <2> HIDE DEF m
  <2>4. m # 1
    BY <2>3
  <2>5. PICK i \in 1 .. m - 1 : \A j \in 1 .. m - 1 : f[i] >= f[j]
    <3>1. m \in 1 .. n
      BY <2>3
    <3>2. m - 1 \in 1 .. n /\ ~ (m <= m - 1)
      BY <3>1, <2>4
    <3>3. m - 1 \notin T
      BY <3>2, <2>3
    <3> QED
      BY <3>2, <3>3
  <2>6. CASE f[i] >= f[m]
    BY <2>3, <2>5, <2>6
  <2>7. CASE f[m] > f[i]
    BY <2>3, <2>5, <2>7
  <2> QED
    BY <2>3, <2>5, <2>6, <2>7
<1>2. PICK i \in 1 .. n : \A j \in 1 .. n : f[i] >= f[j]
  BY <1>1
<1>3. Greatest({f[j] : j \in 1 .. n}) = f[i]
  <2>1. {f[j] : j \in 1 .. n} \in SUBSET Int
    OBVIOUS
  <2>2. f[i] \in {f[j] : j \in 1 .. n} /\ \A y \in {f[j] : j \in 1 .. n} : f[i] >= y
    BY <1>2
  <2> QED
    BY <2>1, <2>2, GreatestIs
<1> QED
  BY <1>2, <1>3

-----------------------------------------------------------------------------
(* Scores                                                                  *)

\* How far a flight is from the worst of a dimension.
LEMMA MarginBounds ==
  ASSUME DOMAIN array = 1 .. Len(array), Len(array) \in Nat, NEW i \in DOMAIN array,
         NEW field, \A j \in DOMAIN array : array[j][field] \in Nat
  PROVE  /\ Spread(field) \in Nat \ {0}
         /\ Margin(array[i], field) \in 0 .. Spread(field)
         /\ \A j \in DOMAIN array :
                /\ Margin(array[j], field) \in 0 .. Spread(field)
                /\ array[i][field] <= array[j][field] =>
                       Margin(array[i], field) >= Margin(array[j], field)
         /\ /\ \A j \in DOMAIN array : array[i][field] <= array[j][field]
            /\ field = "stops" => array[i][field] = 0
            => Margin(array[i], field) = Spread(field)
<1> DEFINE V == Values(field)
           least == Least(V)
           base == IF field = "stops" THEN 0 ELSE least
           range == Greatest(V) - base
<1>1. V = {array[j][field] : j \in 1 .. Len(array)}
  BY DEF Values
<1>2. V \in SUBSET Nat /\ V # {}
  BY <1>1
<1>3. least \in V /\ \A y \in V : least <= y
  BY <1>2, LeastExists
<1>4. Greatest(V) \in V /\ \A y \in V : Greatest(V) >= y
  <2> DEFINE f == [j \in 1 .. Len(array) |-> array[j][field]]
  <2>1. \A j \in 1 .. Len(array) : f[j] \in Nat
    OBVIOUS
  <2>2. Len(array) \in Nat \ {0}
    OBVIOUS
  <2>3. V = {f[j] : j \in 1 .. Len(array)}
    BY <1>1
  <2> HIDE DEF f
  <2> QED
    BY <2>1, <2>2, <2>3, GreatestExists
<1>5. \A j \in DOMAIN array : array[j][field] \in V
  BY <1>1
<1> HIDE DEF V
<1>6. /\ base \in Nat /\ Greatest(V) \in Nat /\ least \in Nat
      /\ \A j \in DOMAIN array : base <= array[j][field] /\ array[j][field] <= Greatest(V)
  <2>1. base \in {0, least} /\ least \in Nat /\ Greatest(V) \in Nat
    BY <1>2, <1>3, <1>4
  <2>2. \A j \in DOMAIN array : least <= array[j][field] /\ array[j][field] <= Greatest(V)
    BY <1>3, <1>4, <1>5
  <2> HIDE DEF least, base
  <2> QED
    BY <2>1, <2>2
<1> HIDE DEF least, base
<1>7. range \in Nat /\ \A j \in DOMAIN array : array[j][field] - base \in 0 .. range
  BY <1>6
<1>8. Spread(field) = IF range > 0 THEN range ELSE 1
  BY DEF Spread, V, base, least
<1>9. \A j \in DOMAIN array : Margin(array[j], field) = Spread(field) - (array[j][field] - base)
  BY DEF Margin, V, base, least
<1>10. ASSUME \A j \in DOMAIN array : array[i][field] <= array[j][field],
              field = "stops" => array[i][field] = 0
       PROVE  array[i][field] = base
  <2>1. PICK j \in DOMAIN array : least = array[j][field]
    BY <1>3 DEF V, Values
  <2> QED
    BY <1>3, <1>5, <1>6, <1>10, <2>1 DEF base
<1> HIDE DEF range
<1>11. Spread(field) \in Nat \ {0} /\ range <= Spread(field)
  BY <1>7, <1>8
<1>12. \A j \in DOMAIN array : Margin(array[j], field) \in 0 .. Spread(field)
  BY <1>7, <1>9, <1>11
<1>13. ASSUME NEW j \in DOMAIN array, array[i][field] <= array[j][field]
       PROVE  Margin(array[i], field) >= Margin(array[j], field)
  BY <1>6, <1>9, <1>11, <1>13
<1> QED
  BY <1>7, <1>9, <1>10, <1>11, <1>12, <1>13

LEMMA TimesMonotone ==
  ASSUME NEW x \in Nat, NEW y \in Nat, NEW z \in Nat, x <= y
  PROVE  x * z \in Nat /\ z * x \in Nat /\ x * z <= y * z /\ z * x <= z * y
OBVIOUS

LEMMA DivMonotone ==
  ASSUME NEW x \in Nat, NEW y \in Nat, NEW k \in Nat \ {0}, x <= y
  PROVE  x \div k \in Nat /\ x \div k <= y \div k
OBVIOUS

\* Half up: one and a half ten-thousandth rounds to one.
LEMMA DivOfAll ==
  ASSUME NEW t \in Nat \ {0}
  PROVE  (2 * One * t + t) \div (2 * t) = One
BY DEF One

LEMMA TermMonotone ==
  ASSUME NEW w \in Nat, NEW m \in Nat, NEW n \in Nat, NEW q \in Nat, NEW r \in Nat, m <= n
  PROVE  /\ w * m * q * r \in Nat /\ w * n * q * r \in Nat
         /\ w * m * q * r <= w * n * q * r
<1>1. w * m \in Nat /\ w * n \in Nat /\ w * m <= w * n
  BY TimesMonotone
<1> DEFINE a == w * m
           b == w * n
<1> HIDE DEF a, b
<1>2. a * q \in Nat /\ b * q \in Nat /\ a * q <= b * q
  BY <1>1, TimesMonotone DEF a, b
<1> DEFINE c == a * q
           e == b * q
<1> HIDE DEF c, e
<1>3. c * r \in Nat /\ e * r \in Nat /\ c * r <= e * r
  BY <1>2, TimesMonotone DEF c, e
<1> QED
  BY <1>3 DEF a, b, c, e

\* What is taken off a weighted sum whose first two terms are whole.
LEMMA SumAndLoss ==
  ASSUME NEW u \in Nat, NEW v \in Nat, NEW w \in Nat, NEW p \in Nat, NEW d \in Nat,
         NEW s \in Nat, NEW n \in 0 .. s
  PROVE  u * p * d * s + v * d * p * s + w * (s - n) * p * d + (w * n) * (p * d)
             = ((u + v + w) * s) * (p * d)
OBVIOUS

LEMMA Cancel ==
  ASSUME NEW x \in Int, NEW y \in Int, NEW k \in Nat \ {0}, k * x <= k * y
  PROVE  x <= y
<1>1. SUFFICES ASSUME x >= y + 1 PROVE FALSE
  OBVIOUS
<1>2. x - y - 1 \in Nat
  BY <1>1
<1>3. k * (x - y - 1) \in Nat
  BY <1>2
<1>4. k * (x - y - 1) = k * x - k * y - k
  OBVIOUS
<1>5. k * x \in Int /\ k * y \in Int
  OBVIOUS
<1> QED
  BY <1>3, <1>4, <1>5

LEMMA DivBounds ==
  ASSUME NEW n \in Nat, NEW b \in Nat \ {0}
  PROVE  /\ n \div b \in Nat
         /\ b * (n \div b) <= n /\ n <= b * (n \div b) + b
OBVIOUS

\* A fraction m/(ak) of one, rounded half up, falls short of one by c/a, and by no
\* more than half a unit else.
LEMMA RoundedLoss ==
  ASSUME NEW a \in Nat \ {0}, NEW k \in Nat \ {0}, NEW c \in Nat, NEW m \in Nat,
         m + c * k = a * k
  PROVE  LET q == (2 * One * m + a * k) \div (2 * (a * k))
             off == 2 * (One - q) * a - 2 * One * c
         IN  off \in 0 - a .. a
<1> DEFINE t == a * k
           q == (2 * One * m + t) \div (2 * t)
           u == 2 * One * (a - c) + a
<1>1. t \in Nat \ {0}
  OBVIOUS
<1>2. c * k \in Nat
  OBVIOUS
<1>3. k * u = 2 * One * m + t
  <2>1. m = k * a - k * c
    BY <1>2
  <2> QED
    BY <2>1 DEF One
<1>4. q \in Nat /\ 2 * t * q <= 2 * One * m + t /\ 2 * One * m + t <= 2 * t * q + 2 * t
  <2> DEFINE n == 2 * One * m + t
             b == 2 * t
  <2>1. n \in Nat /\ b \in Nat \ {0}
    BY <1>1 DEF One
  <2> HIDE DEF n, b, t
  <2>2. n \div b \in Nat /\ b * (n \div b) <= n /\ n <= b * (n \div b) + b
    BY <2>1, DivBounds
  <2> QED
    BY <2>2 DEF n, b
<1> HIDE DEF q
<1>5. k * (2 * (a * q)) = 2 * t * q /\ k * (2 * (a * q) + 2 * a) = 2 * t * q + 2 * t
  BY <1>4
<1>6. a * q \in Nat /\ u \in Int /\ a * (One - q) = One * a - a * q
  BY <1>4 DEF One
<1>7. 2 * (a * q) <= u
  BY <1>3, <1>4, <1>5, <1>6, Cancel
<1>8. u <= 2 * (a * q) + 2 * a
  BY <1>3, <1>4, <1>5, <1>6, Cancel
<1>9. 2 * (One - q) * a = 2 * One * a - 2 * (a * q)
  BY <1>4 DEF One
<1> QED
  BY <1>6, <1>7, <1>8, <1>9 DEF q, One
\* The weighted sum of the margins, before it is divided by the weights' total.
WeightedSum(f) ==
    LET p == Spread("price")
        d == Spread("mins")
        s == Spread("stops")
    IN  Weights.price * Margin(f, "price") * d * s
            + Weights.mins * Margin(f, "mins") * p * s
            + Weights.stops * Margin(f, "stops") * p * d

WeightedTotal ==
    (Weights.price + Weights.mins + Weights.stops) * Spread("price") * Spread("mins") * Spread("stops")

LEMMA WeightedSums ==
  ASSUME DOMAIN array = 1 .. Len(array), Len(array) \in Nat,
         \A j \in DOMAIN array :
             array[j].price \in Nat /\ array[j].mins \in Nat /\ array[j].stops \in Nat,
         NEW i \in DOMAIN array
  PROVE  /\ WeightedTotal \in Nat \ {0}
         /\ WeightedSum(array[i]) \in 0 .. WeightedTotal
         /\ \A j \in DOMAIN array :
                /\ WeightedSum(array[j]) \in Nat
                /\ NoWorse(array[i], array[j]) => WeightedSum(array[i]) >= WeightedSum(array[j])
         /\ Cheapest(i, array) =>
                WeightedSum(array[i])
                    + (Weights.stops * array[i].stops) * (Spread("price") * Spread("mins"))
                    = WeightedTotal
<1> DEFINE p == Spread("price")
           d == Spread("mins")
           s == Spread("stops")
           n == array[i].stops
           M(j, field) == Margin(array[j], field)
           Term(w, m, q, r) == w * m * q * r
           wp == Weights.price
           wd == Weights.mins
           ws == Weights.stops
<1>1. /\ p \in Nat \ {0}
      /\ \A j \in DOMAIN array :
             /\ M(j, "price") \in 0 .. p
             /\ array[i].price <= array[j].price => M(i, "price") >= M(j, "price")
      /\ (\A j \in DOMAIN array : array[i].price <= array[j].price) => M(i, "price") = p
  BY MarginBounds
<1>2. /\ d \in Nat \ {0}
      /\ \A j \in DOMAIN array :
             /\ M(j, "mins") \in 0 .. d
             /\ array[i].mins <= array[j].mins => M(i, "mins") >= M(j, "mins")
      /\ (\A j \in DOMAIN array : array[i].mins <= array[j].mins) => M(i, "mins") = d
  BY MarginBounds
<1>3. /\ s \in Nat \ {0}
      /\ \A j \in DOMAIN array :
             /\ M(j, "stops") \in 0 .. s
             /\ array[i].stops <= array[j].stops => M(i, "stops") >= M(j, "stops")
      /\ (\A j \in DOMAIN array : array[i].stops <= array[j].stops) /\ array[i].stops = 0
             => M(i, "stops") = s
  BY MarginBounds
<1>4. wp \in Nat /\ wd \in Nat /\ ws \in Nat /\ wp + wd + ws > 0
  BY PresentationAssumption
<1>5. \A j \in DOMAIN array :
          WeightedSum(array[j]) = Term(wp, M(j, "price"), d, s) + Term(wd, M(j, "mins"), p, s)
                                      + Term(ws, M(j, "stops"), p, d)
  BY DEF WeightedSum
<1>6. WeightedTotal = Term(wp, p, d, s) + Term(wd, d, p, s) + Term(ws, s, p, d)
  <2> DEFINE t == WeightedTotal
  <2>1. t = (wp + wd + ws) * p * d * s
    BY DEF WeightedTotal
  <2> HIDE DEF t, p, d, s, wp, wd, ws
  <2> QED
    BY <1>1, <1>2, <1>3, <1>4, <2>1 DEF t
<1>7. WeightedTotal \in Nat \ {0}
  <2> DEFINE t == WeightedTotal
             w == wp + wd + ws
  <2>1. t = w * p * d * s /\ w \in Nat \ {0}
    BY <1>4 DEF WeightedTotal
  <2> HIDE DEF t, w, p, d, s, wp, wd, ws
  <2>2. w * p \in Nat \ {0}
    BY <1>1, <2>1
  <2>3. (w * p) * d \in Nat \ {0}
    BY <1>2, <2>2
  <2>4. ((w * p) * d) * s \in Nat \ {0}
    BY <1>3, <2>3
  <2> QED
    BY <2>1, <2>4 DEF t
<1> HIDE DEF p, d, s, wp, wd, ws
<1>8. \A j \in DOMAIN array :
          /\ Term(wp, M(j, "price"), d, s) \in Nat
          /\ Term(wd, M(j, "mins"), p, s) \in Nat
          /\ Term(ws, M(j, "stops"), p, d) \in Nat
  <2>1. TAKE j \in DOMAIN array
  <2>2. M(j, "price") \in Nat /\ M(j, "mins") \in Nat /\ M(j, "stops") \in Nat
    BY <1>1, <1>2, <1>3
  <2>3. ASSUME NEW w \in Nat, NEW m \in Nat, NEW q \in Nat, NEW r \in Nat
        PROVE  Term(w, m, q, r) \in Nat
    <3>1. m <= m
      OBVIOUS
    <3> QED
      BY <3>1, TermMonotone
  <2>4. p \in Nat /\ d \in Nat /\ s \in Nat
    BY <1>1, <1>2, <1>3
  <2> HIDE DEF M, Term
  <2> QED
    BY <1>4, <2>2, <2>3, <2>4
<1>9. /\ Term(wp, p, d, s) \in Nat /\ Term(wp, M(i, "price"), d, s) <= Term(wp, p, d, s)
      /\ Term(wd, d, p, s) \in Nat /\ Term(wd, M(i, "mins"), p, s) <= Term(wd, d, p, s)
      /\ Term(ws, s, p, d) \in Nat /\ Term(ws, M(i, "stops"), p, d) <= Term(ws, s, p, d)
  <2>2. M(i, "price") \in 0 .. p /\ M(i, "mins") \in 0 .. d /\ M(i, "stops") \in 0 .. s
    BY <1>1, <1>2, <1>3
  <2> HIDE DEF M
  <2>3. Term(wp, p, d, s) \in Nat /\ Term(wp, M(i, "price"), d, s) <= Term(wp, p, d, s)
    BY <1>1, <1>2, <1>3, <1>4, <2>2, TermMonotone
  <2>4. Term(wd, d, p, s) \in Nat /\ Term(wd, M(i, "mins"), p, s) <= Term(wd, d, p, s)
    BY <1>1, <1>2, <1>3, <1>4, <2>2, TermMonotone
  <2>5. Term(ws, s, p, d) \in Nat /\ Term(ws, M(i, "stops"), p, d) <= Term(ws, s, p, d)
    BY <1>1, <1>2, <1>3, <1>4, <2>2, TermMonotone
  <2> QED
    BY <2>3, <2>4, <2>5
<1>10. ASSUME NEW j \in DOMAIN array, NoWorse(array[i], array[j])
       PROVE  /\ Term(wp, M(i, "price"), d, s) >= Term(wp, M(j, "price"), d, s)
              /\ Term(wd, M(i, "mins"), p, s) >= Term(wd, M(j, "mins"), p, s)
              /\ Term(ws, M(i, "stops"), p, d) >= Term(ws, M(j, "stops"), p, d)
  <2>1. /\ M(i, "price") \in Nat /\ M(i, "mins") \in Nat /\ M(i, "stops") \in Nat
        /\ M(j, "price") \in Nat /\ M(j, "mins") \in Nat /\ M(j, "stops") \in Nat
    BY <1>1, <1>2, <1>3
  <2>2. M(i, "price") >= M(j, "price") /\ M(i, "mins") >= M(j, "mins") /\ M(i, "stops") >= M(j, "stops")
    BY <1>1, <1>2, <1>3, <1>10 DEF NoWorse
  <2> HIDE DEF M
  <2> QED
    BY <1>1, <1>2, <1>3, <1>4, <2>1, <2>2, TermMonotone
<1>11. ASSUME Cheapest(i, array)
       PROVE  WeightedSum(array[i]) + (ws * n) * (p * d) = WeightedTotal
  <2>1. M(i, "price") = p /\ M(i, "mins") = d
    BY <1>1, <1>2, <1>11 DEF Cheapest
  <2>2. M(i, "stops") = s - n /\ n \in 0 .. s
    <3>1. M(i, "stops") = s - n
      BY DEF Margin, s
    <3> QED
      BY <1>3, <3>1
  <2>3. WeightedSum(array[i]) = wp * p * d * s + wd * d * p * s + ws * (s - n) * p * d
    BY <1>5, <2>1, <2>2
  <2>4. WeightedTotal = ((wp + wd + ws) * s) * (p * d)
    <3>1. WeightedTotal = (wp + wd + ws) * p * d * s
      BY DEF WeightedTotal, p, d, s, wp, wd, ws
    <3> HIDE DEF M, Term, n
    <3> QED
      BY <1>1, <1>2, <1>3, <1>4, <3>1
  <2> HIDE DEF M, Term, n
  <2>5. wp * p * d * s + wd * d * p * s + ws * (s - n) * p * d + (ws * n) * (p * d)
            = ((wp + wd + ws) * s) * (p * d)
    <3>1. /\ wp \in Nat /\ wd \in Nat /\ ws \in Nat
          /\ p \in Nat /\ d \in Nat /\ s \in Nat /\ n \in 0 .. s
      BY <1>1, <1>2, <1>3, <1>4, <2>2
    <3> QED
      BY ONLY <3>1, SumAndLoss
  <2> QED
    BY <2>3, <2>4, <2>5
<1> HIDE DEF Term
<1>12. WeightedSum(array[i]) \in 0 .. WeightedTotal
  BY <1>5, <1>6, <1>8, <1>9
<1>13. ASSUME NEW j \in DOMAIN array
       PROVE  /\ WeightedSum(array[j]) \in Nat
              /\ NoWorse(array[i], array[j]) => WeightedSum(array[i]) >= WeightedSum(array[j])
  <2>1. NoWorse(array[i], array[j]) =>
            /\ Term(wp, M(i, "price"), d, s) >= Term(wp, M(j, "price"), d, s)
            /\ Term(wd, M(i, "mins"), p, s) >= Term(wd, M(j, "mins"), p, s)
            /\ Term(ws, M(i, "stops"), p, d) >= Term(ws, M(j, "stops"), p, d)
    BY <1>10
  <2> HIDE DEF M
  <2> QED
    BY <1>5, <1>8, <2>1
<1> QED
  BY <1>7, <1>11, <1>12, <1>13 DEF p, d, ws

\* The most stops, or one where there are none, is what stops are scaled by.
LEMMA MostStops ==
  ASSUME DOMAIN array = 1 .. Len(array), Len(array) \in Nat, array # << >>,
         \A j \in DOMAIN array : array[j].stops \in Nat
  PROVE  /\ Greatest({1} \cup {array[j].stops : j \in DOMAIN array}) = Spread("stops")
         /\ Spread("stops") \in Nat \ {0}
<1> DEFINE V == Values("stops")
           f == [j \in 1 .. Len(array) |-> array[j].stops]
           n == Len(array)
<1>1. n \in Nat \ {0}
  OBVIOUS
<1>2. V = {f[j] : j \in 1 .. n} /\ \A j \in 1 .. n : f[j] \in Nat
  BY DEF Values
<1>3. V = {array[j].stops : j \in DOMAIN array} /\ V \in SUBSET Nat
  BY DEF Values
<1> HIDE DEF V, f, n
<1>4. Greatest(V) \in V /\ \A y \in V : Greatest(V) >= y
  BY <1>1, <1>2, GreatestExists
<1>5. Spread("stops") = IF Greatest(V) > 0 THEN Greatest(V) ELSE 1
  <2>1. Greatest(V) - 0 = Greatest(V)
    BY <1>3, <1>4
  <2> QED
    BY <2>1 DEF Spread, V
<1>6. {1} \cup V \in SUBSET Int
  BY <1>3
<1>7. Spread("stops") \in {1} \cup V /\ \A y \in {1} \cup V : Spread("stops") >= y
  BY <1>3, <1>4, <1>5
<1>8. Greatest({1} \cup V) = Spread("stops")
  BY <1>6, <1>7, GreatestIs
<1>9. Spread("stops") \in Nat \ {0}
  BY <1>3, <1>4, <1>5
<1> QED
  BY <1>3, <1>8, <1>9

\* The loss of a score for so many stops, where the most are so many.
RoundedOff(score, stops, most) ==
    LET all == (Weights.price + Weights.mins + Weights.stops) * most
        off == 2 * (One - score) * all - 2 * One * Weights.stops * stops
    IN  off \in 0 - all .. all

LEMMA ScoreFair ==
  ASSUME DOMAIN array = 1 .. Len(array), Len(array) \in Nat,
         \A j \in DOMAIN array :
             array[j].price \in Nat /\ array[j].mins \in Nat /\ array[j].stops \in Nat,
         NEW i \in DOMAIN array
  PROVE  /\ Score(array[i]) \in 0 .. One
         /\ \A j \in DOMAIN array :
                NoWorse(array[i], array[j]) => Score(array[i]) >= Score(array[j])
         /\ Cheapest(i, array) => RoundedOff(Score(array[i]), array[i].stops, Spread("stops"))
<1> DEFINE T == WeightedTotal
           S(j) == WeightedSum(array[j])
           c == Weights.stops * array[i].stops
           k == Spread("price") * Spread("mins")
           a == (Weights.price + Weights.mins + Weights.stops) * Spread("stops")
           Rounded(n) == (2 * One * n + T) \div (2 * T)
<1>1. Weights.price + Weights.mins + Weights.stops # 0
  BY PresentationAssumption
<1>2. \A j \in DOMAIN array : Score(array[j]) = Rounded(S(j))
  BY <1>1 DEF Score, WeightedSum, WeightedTotal
<1>3. /\ T \in Nat \ {0} /\ S(i) \in 0 .. T
      /\ \A j \in DOMAIN array :
             S(j) \in Nat /\ (NoWorse(array[i], array[j]) => S(i) >= S(j))
      /\ Cheapest(i, array) => S(i) + c * k = T
  BY WeightedSums
<1>11. /\ a \in Nat \ {0} /\ k \in Nat \ {0} /\ c \in Nat /\ T = a * k
  <2> DEFINE w == Weights.price + Weights.mins + Weights.stops
             p == Spread("price")
             d == Spread("mins")
             s == Spread("stops")
  <2>1. p \in Nat \ {0} /\ d \in Nat \ {0} /\ s \in Nat \ {0} /\ array[i].stops \in Nat
    BY MarginBounds
  <2>2. w \in Nat \ {0} /\ Weights.stops \in Nat
    BY PresentationAssumption
  <2>3. T = w * p * d * s /\ a = w * s /\ k = p * d
    BY DEF WeightedTotal
  <2>4. c \in Nat
    BY <2>1, <2>2
  <2> HIDE DEF w, p, d, s, T, a, k, c
  <2> QED
    BY <2>1, <2>2, <2>3, <2>4
<1> HIDE DEF T, S, a, k
<1>4. /\ 2 * T \in Nat \ {0} /\ 2 * One * T + T \in Nat
      /\ \A j \in DOMAIN array : 2 * One * S(j) + T \in Nat
  BY <1>3 DEF One
<1>5. Rounded(T) = One /\ One \in Nat
  BY <1>3, DivOfAll DEF One
<1>6. Score(array[i]) \in 0 .. One
  <2>1. 2 * One * S(i) + T <= 2 * One * T + T
    BY <1>3 DEF One
  <2>2. Rounded(S(i)) <= Rounded(T)
    BY <1>4, <2>1, DivMonotone
  <2>3. Rounded(S(i)) \in Nat
    BY <1>4, DivMonotone
  <2> HIDE DEF Rounded
  <2>4. Score(array[i]) = Rounded(S(i))
    BY <1>2
  <2> QED
    BY <1>5, <2>2, <2>3, <2>4
<1>7. ASSUME NEW j \in DOMAIN array, NoWorse(array[i], array[j])
      PROVE  Score(array[i]) >= Score(array[j])
  <2>1. 2 * One * S(j) + T <= 2 * One * S(i) + T
    BY <1>3, <1>7 DEF One
  <2>2. Rounded(S(j)) <= Rounded(S(i))
    BY <1>4, <2>1, DivMonotone
  <2>3. Rounded(S(j)) \in Nat /\ Rounded(S(i)) \in Nat
    BY <1>4, DivMonotone
  <2> HIDE DEF Rounded
  <2> QED
    BY <1>2, <2>2, <2>3
<1>9. ASSUME Cheapest(i, array)
      PROVE  RoundedOff(Score(array[i]), array[i].stops, Spread("stops"))
  <2> DEFINE q == Rounded(S(i))
             off == 2 * (One - q) * a - 2 * One * c
  <2>1. S(i) \in Nat /\ S(i) + c * k = T
    BY <1>3, <1>9
  <2> HIDE DEF c
  <2>2. off \in 0 - a .. a
    BY <1>11, <2>1, RoundedLoss
  <2>3. Score(array[i]) = q
    BY <1>2
  <2> HIDE DEF q
  <2>4. 2 * One * Weights.stops * array[i].stops = 2 * One * c
    BY PresentationAssumption DEF One, c
  <2> QED
    BY <2>2, <2>3, <2>4 DEF RoundedOff, a
<1>10. \A j \in DOMAIN array : NoWorse(array[i], array[j]) => Score(array[i]) >= Score(array[j])
  BY <1>7
<1> QED
  BY <1>6, <1>9, <1>10

-----------------------------------------------------------------------------
(* What a step does to the array                                           *)

\* A flight of the array has the values of the flight it is.
LEMMA ArrayValues ==
  ASSUME Shape, ArrayMatches, pc # "filter"
  PROVE  \A i \in DOMAIN array :
             /\ array[i].price \in Nat /\ array[i].mins \in Nat /\ array[i].stops \in Nat
             /\ array[i].dep \in Nat /\ array[i].arr \in Nat
             /\ Found(array[i], input) \in Nat
             /\ \E k \in DOMAIN input : Found(array[i], input) = k /\ SameFlight(array[i], input[k])
<1> SUFFICES ASSUME NEW i \in DOMAIN array
             PROVE  /\ array[i].price \in Nat /\ array[i].mins \in Nat /\ array[i].stops \in Nat
                    /\ array[i].dep \in Nat /\ array[i].arr \in Nat
                    /\ Found(array[i], input) \in Nat
                    /\ \E k \in DOMAIN input :
                           Found(array[i], input) = k /\ SameFlight(array[i], input[k])
  OBVIOUS
<1>1. PICK k \in DOMAIN input : SameFlight(array[i], input[k])
  BY DEF ArrayMatches
<1>2. /\ array[i].id = input[k].id
      /\ array[i].price = input[k].price /\ array[i].mins = input[k].mins
      /\ array[i].stops = input[k].stops
      /\ array[i].dep = input[k].dep /\ array[i].arr = input[k].arr
  BY <1>1 DEF SameFlight, Fields
<1>3. Found(array[i], input) = k
  BY <1>2, FoundAt DEF Shape
<1> QED
  BY <1>1, <1>2, <1>3, InputListed DEF Shape

\* A pass of the insertion sort moves one flight down.
LEMMA Insertion ==
  ASSUME Shape, TypeOK, SortPass
  PROVE  /\ DOMAIN array' = DOMAIN array /\ Len(array') = Len(array)
         /\ \E to \in 1 .. read + 1 :
                /\ \A i \in to .. read : Less(array[read + 1], array[i])
                /\ to > 1 => ~ Less(array[read + 1], array[to - 1])
                /\ \A i \in DOMAIN array :
                       array'[i] = IF i = to THEN array[read + 1]
                                   ELSE IF i \in to + 1 .. read + 1 THEN array[i - 1]
                                   ELSE array[i]
<1> DEFINE n == read + 1
           K == {k \in 1 .. n : \A i \in k .. read : Less(array[n], array[i])}
           to == Least(K)
<1>1. n \in Nat /\ read \in Nat /\ n \in DOMAIN array
  BY DEF Shape, TypeOK, SortPass
<1>2. n \in K /\ K \in SUBSET Nat
  BY <1>1
<1>3. to \in K /\ \A k \in K : to <= k
  BY <1>2, LeastExists
<1>4. array' = [i \in DOMAIN array |-> IF i = to THEN array[n]
                                       ELSE IF i \in to + 1 .. n THEN array[i - 1] ELSE array[i]]
  BY DEF SortPass
<1> HIDE DEF to
<1>5. to \in 1 .. n /\ \A i \in to .. read : Less(array[n], array[i])
  BY <1>3
<1>6. ASSUME to > 1 PROVE ~ Less(array[n], array[to - 1])
  <2>1. SUFFICES ASSUME Less(array[n], array[to - 1]) PROVE FALSE
    OBVIOUS
  <2>2. to - 1 \in 1 .. n
    BY <1>1, <1>5, <1>6
  <2>3. \A i \in to - 1 .. read : i = to - 1 \/ i \in to .. read
    BY <1>1, <1>5, <1>6
  <2>4. to - 1 \in K
    BY <1>5, <2>1, <2>2, <2>3
  <2> QED
    BY <1>1, <1>3, <1>5, <2>4
<1>7. DOMAIN array' = DOMAIN array /\ Len(array') = Len(array)
  BY <1>4 DEF Shape
<1> QED
  BY <1>4, <1>5, <1>6, <1>7

\* So it permutes the array.
LEMMA Permutation ==
  ASSUME Shape, TypeOK, SortPass
  PROVE  \E p \in [DOMAIN array -> DOMAIN array] :
             /\ \A i \in DOMAIN array : array'[i] = array[p[i]]
             /\ \A i, j \in DOMAIN array : p[i] = p[j] => i = j
             /\ \A k \in DOMAIN array : \E i \in DOMAIN array : p[i] = k
<1>1. PICK to \in 1 .. read + 1 :
          \A i \in DOMAIN array :
              array'[i] = IF i = to THEN array[read + 1]
                          ELSE IF i \in to + 1 .. read + 1 THEN array[i - 1] ELSE array[i]
  BY Insertion
<1>2. read \in Nat /\ read + 1 \in 1 .. Len(array) /\ Len(array) \in Nat
      /\ DOMAIN array = 1 .. Len(array)
  BY DEF Shape, TypeOK, SortPass
<1> DEFINE p == [i \in DOMAIN array |-> IF i = to THEN read + 1
                                        ELSE IF i \in to + 1 .. read + 1 THEN i - 1 ELSE i]
<1>3. p \in [DOMAIN array -> DOMAIN array]
  BY <1>2
<1>4. \A i \in DOMAIN array : array'[i] = array[p[i]]
  BY <1>1, <1>2
<1>5. \A i, j \in DOMAIN array : p[i] = p[j] => i = j
  BY <1>2
<1>6. ASSUME NEW k \in DOMAIN array PROVE \E i \in DOMAIN array : p[i] = k
  <2>1. CASE k = read + 1
    <3>1. to \in DOMAIN array /\ p[to] = k
      BY <1>2, <2>1
    <3> QED
      BY <3>1
  <2>2. CASE k \in to .. read
    <3>1. k + 1 \in DOMAIN array /\ p[k + 1] = k
      BY <1>2, <2>2
    <3> QED
      BY <3>1
  <2>3. CASE k < to \/ k > read + 1
    <3>1. p[k] = k
      BY <1>2, <2>3
    <3> QED
      BY <3>1
  <2> QED
    BY <1>2, <2>1, <2>2, <2>3
<1> HIDE DEF p
<1> QED
  BY <1>3, <1>4, <1>5, <1>6

\* Scoring and formatting write only what SameFlight leaves out.
LEMMA RankWrites ==
  ASSUME Shape, Rank
  PROVE  /\ DOMAIN array' = DOMAIN array /\ Len(array') = Len(array)
         /\ \A i \in DOMAIN array :
                /\ DOMAIN array'[i] = Fields /\ SameFlight(array'[i], array[i])
                /\ array'[i].score = Score(array[i])
<1>1. array' = [i \in DOMAIN array |-> [array[i] EXCEPT !.score = Score(array[i])]]
  BY DEF Rank
<1>2. DOMAIN array' = DOMAIN array /\ Len(array') = Len(array)
  BY <1>1 DEF Shape
<1>3. \A i \in DOMAIN array : array'[i] = [array[i] EXCEPT !.score = Score(array[i])]
  BY <1>1
<1>4. \A i \in DOMAIN array : DOMAIN array[i] = Fields
  BY DEF Shape
<1> QED
  BY <1>2, <1>3, <1>4 DEF SameFlight, Fields

LEMMA FormatWrites ==
  ASSUME Shape, Format
  PROVE  /\ DOMAIN array' = DOMAIN array /\ Len(array') = Len(array)
         /\ \A i \in DOMAIN array :
                /\ DOMAIN array'[i] = Fields /\ SameFlight(array'[i], array[i])
                /\ array'[i].score = array[i].score
                /\ array'[i].formatted = Rupiah(array[i].price)
<1>1. array' = [i \in DOMAIN array |->
                   [array[i] EXCEPT !.formatted = Rupiah(array[i].price)]]
  BY DEF Format
<1>2. DOMAIN array' = DOMAIN array /\ Len(array') = Len(array)
  BY <1>1 DEF Shape
<1>3. \A i \in DOMAIN array : array'[i] = [array[i] EXCEPT !.formatted = Rupiah(array[i].price)]
  BY <1>1
<1>4. \A i \in DOMAIN array : DOMAIN array[i] = Fields
  BY DEF Shape
<1> QED
  BY <1>2, <1>3, <1>4 DEF SameFlight, Fields

-----------------------------------------------------------------------------
(* The price in words                                                      *)

\* What is left of an amount without its last k digits, and the next digit.
Over(p, k) == p \div (10 ^ k)

DigitAt(p, k) == Over(p, k) % 10

LEMMA Powers ==
  /\ 10 ^ 0 = 1 /\ 10 ^ 1 = 10 /\ 10 ^ 2 = 100 /\ 10 ^ 3 = 1000 /\ 10 ^ 4 = 10000
  /\ 10 ^ 5 = 100000 /\ 10 ^ 6 = 1000000 /\ 10 ^ 7 = 10000000 /\ 10 ^ 8 = 100000000
  /\ 10 ^ 9 = 1000000000
  OBVIOUS

LEMMA TenPowers ==
  ASSUME NEW k \in 0 .. 9
  PROVE  10 ^ k \in Nat
<1>0. CASE k = 0
  BY <1>0, Powers
<1>1. CASE k = 1
  BY <1>1, Powers
<1>2. CASE k = 2
  BY <1>2, Powers
<1>3. CASE k = 3
  BY <1>3, Powers
<1>4. CASE k = 4
  BY <1>4, Powers
<1>5. CASE k = 5
  BY <1>5, Powers
<1>6. CASE k = 6
  BY <1>6, Powers
<1>7. CASE k = 7
  BY <1>7, Powers
<1>8. CASE k = 8
  BY <1>8, Powers
<1>9. CASE k = 9
  BY <1>9, Powers
<1> QED
  BY <1>0, <1>1, <1>2, <1>3, <1>4, <1>5, <1>6, <1>7, <1>8, <1>9

LEMMA OverOf ==
  ASSUME NEW p
  PROVE  /\ Over(p, 0) = p \div 1 /\ Over(p, 1) = p \div 10 /\ Over(p, 2) = p \div 100
         /\ Over(p, 3) = p \div 1000 /\ Over(p, 4) = p \div 10000 /\ Over(p, 5) = p \div 100000
         /\ Over(p, 6) = p \div 1000000 /\ Over(p, 7) = p \div 10000000
         /\ Over(p, 8) = p \div 100000000 /\ Over(p, 9) = p \div 1000000000
  BY Powers DEF Over

LEMMA LastDigit ==
  ASSUME NEW a \in Nat, NEW q, NEW r, q = a \div 10, r = a % 10
  PROVE  q \in Nat /\ r \in 0 .. 9 /\ a = 10 * q + r
<1>1. q \in Nat /\ r \in 0 .. 9
  OBVIOUS
<1>2. a = 10 * q + r
  OBVIOUS
<1> QED
  BY <1>1, <1>2

LEMMA NextDigit ==
  ASSUME NEW p \in Nat, NEW k \in 0 .. 8
  PROVE  /\ Over(p, k) \in Nat /\ Over(p, k + 1) \in Nat /\ DigitAt(p, k) \in 0 .. 9
         /\ DigitAt(p, k) \in Nat
         /\ Over(p, k) = 10 * Over(p, k + 1) + DigitAt(p, k)
<1>1. Over(p, k) \in Nat /\ Over(p, k + 1) = Over(p, k) \div 10
  <2>1. CASE k = 0
    <3>1. Over(p, k) = p \div 1 /\ Over(p, k + 1) = p \div 10
      BY <2>1, OverOf, 0 + 1 = 1
    <3> QED
      BY <3>1
  <2>2. CASE k = 1
    <3>1. Over(p, k) = p \div 10 /\ Over(p, k + 1) = p \div 100
      BY <2>2, OverOf, 1 + 1 = 2
    <3> QED
      BY <3>1
  <2>3. CASE k = 2
    <3>1. Over(p, k) = p \div 100 /\ Over(p, k + 1) = p \div 1000
      BY <2>3, OverOf, 2 + 1 = 3
    <3> QED
      BY <3>1
  <2>4. CASE k = 3
    <3>1. Over(p, k) = p \div 1000 /\ Over(p, k + 1) = p \div 10000
      BY <2>4, OverOf, 3 + 1 = 4
    <3> QED
      BY <3>1
  <2>5. CASE k = 4
    <3>1. Over(p, k) = p \div 10000 /\ Over(p, k + 1) = p \div 100000
      BY <2>5, OverOf, 4 + 1 = 5
    <3> QED
      BY <3>1
  <2>6. CASE k = 5
    <3>1. Over(p, k) = p \div 100000 /\ Over(p, k + 1) = p \div 1000000
      BY <2>6, OverOf, 5 + 1 = 6
    <3> QED
      BY <3>1
  <2>7. CASE k = 6
    <3>1. Over(p, k) = p \div 1000000 /\ Over(p, k + 1) = p \div 10000000
      BY <2>7, OverOf, 6 + 1 = 7
    <3> QED
      BY <3>1
  <2>8. CASE k = 7
    <3>1. Over(p, k) = p \div 10000000 /\ Over(p, k + 1) = p \div 100000000
      BY <2>8, OverOf, 7 + 1 = 8
    <3> QED
      BY <3>1
  <2>9. CASE k = 8
    <3>1. Over(p, k) = p \div 100000000 /\ Over(p, k + 1) = p \div 1000000000
      BY <2>9, OverOf, 8 + 1 = 9
    <3> QED
      BY <3>1
  <2> QED
    BY <2>1, <2>2, <2>3, <2>4, <2>5, <2>6, <2>7, <2>8, <2>9
<1>2. /\ DigitAt(p, k) \in 0 .. 9
      /\ Over(p, k) = 10 * Over(p, k + 1) + DigitAt(p, k)
  BY <1>1, LastDigit DEF DigitAt
<1>3. DigitAt(p, k) \in Nat
  BY <1>2
<1> QED
  BY <1>1, <1>2, <1>3

LEMMA OverNat ==
  ASSUME NEW p \in Nat, NEW k \in 0 .. 9
  PROVE  Over(p, k) \in Nat
<1>1. CASE k \in 0 .. 8
  BY <1>1, NextDigit
<1>2. CASE k = 9
  BY <1>2, OverOf
<1> QED
  BY <1>1, <1>2

\* The number three digits from the k-th say.
ThreeFrom(p, k) == 10 * (10 * DigitAt(p, k + 2) + DigitAt(p, k + 1)) + DigitAt(p, k)

\* Three digits say three places.
LEMMA ThreeDigits ==
  ASSUME NEW p \in Nat, NEW k \in 0 .. 6
  PROVE  Over(p, k) = 1000 * Over(p, k + 3) + ThreeFrom(p, k)
<1>1. Over(p, k) \in Nat /\ Over(p, k) = 10 * Over(p, k + 1) + DigitAt(p, k) /\ DigitAt(p, k) \in 0 .. 9
  BY k \in 0 .. 8, NextDigit
<1>2. /\ Over(p, k + 1) \in Nat /\ Over(p, k + 1) = 10 * Over(p, k + 2) + DigitAt(p, k + 1)
      /\ DigitAt(p, k + 1) \in 0 .. 9
  BY k + 1 \in 0 .. 8, (k + 1) + 1 = k + 2, NextDigit
<1>3. /\ Over(p, k + 2) \in Nat /\ Over(p, k + 2) = 10 * Over(p, k + 3) + DigitAt(p, k + 2)
      /\ DigitAt(p, k + 2) \in 0 .. 9 /\ Over(p, k + 3) \in Nat
  BY k + 2 \in 0 .. 8, (k + 2) + 1 = k + 3, NextDigit
<1> DEFINE a == Over(p, k)
           b == Over(p, k + 1)
           c == Over(p, k + 2)
           d == Over(p, k + 3)
           x == DigitAt(p, k)
           y == DigitAt(p, k + 1)
           z == DigitAt(p, k + 2)
<1>4. /\ a \in Nat /\ b \in Nat /\ c \in Nat /\ d \in Nat /\ x \in Int /\ y \in Int /\ z \in Int
      /\ a = 10 * b + x /\ b = 10 * c + y /\ c = 10 * d + z
  BY <1>1, <1>2, <1>3
<1> HIDE DEF a, b, c, d, x, y, z
<1>5. a = 1000 * d + (10 * (10 * z + y) + x)
  BY <1>4
<1> QED
  BY <1>4, <1>5 DEF a, d, x, y, z, ThreeFrom

\* A number of up to three digits to a base.
LEMMA NumberOf ==
  ASSUME NEW s, NEW base \in Nat, Len(s) \in 1 .. 3, \A i \in 1 .. Len(s) : s[i] \in Nat
  PROVE  /\ Len(s) = 1 => Number(s, base) = s[1]
         /\ Len(s) = 2 => Number(s, base) = base * s[1] + s[2]
         /\ Len(s) = 3 => Number(s, base) = base * (base * s[1] + s[2]) + s[3]
<1> DEFINE n == CHOOSE f : f = [i \in 0 .. Len(s) |-> IF i = 0 THEN 0 ELSE base * f[i - 1] + s[i]]
           w == [i \in 0 .. Len(s) |->
                    IF i = 0 THEN 0 ELSE IF i = 1 THEN s[1] ELSE IF i = 2 THEN base * s[1] + s[2]
                    ELSE base * (base * s[1] + s[2]) + s[3]]
<1>1. w = [i \in 0 .. Len(s) |-> IF i = 0 THEN 0 ELSE base * w[i - 1] + s[i]]
  <2> SUFFICES ASSUME NEW i \in 0 .. Len(s)
               PROVE  w[i] = IF i = 0 THEN 0 ELSE base * w[i - 1] + s[i]
    OBVIOUS
  <2>1. CASE i = 0
    BY <2>1
  <2>2. CASE i = 1
    BY <2>2
  <2>3. CASE i = 2
    BY <2>3
  <2>4. CASE i = 3
    BY <2>4
  <2> QED
    BY <2>1, <2>2, <2>3, <2>4
<1>2. n = [i \in 0 .. Len(s) |-> IF i = 0 THEN 0 ELSE base * n[i - 1] + s[i]]
  <2> HIDE DEF w
  <2> QED
    BY <1>1
<1>3. Number(s, base) = n[Len(s)]
  BY DEF Number
<1> HIDE DEF n
<1>4. n[0] = 0 /\ n[1] = base * n[0] + s[1]
  BY <1>2
<1>5. n[1] = s[1]
  BY <1>4
<1>6. Len(s) \in {2, 3} => n[2] = base * s[1] + s[2]
  BY <1>2, <1>5
<1>7. Len(s) = 3 => n[3] = base * n[2] + s[3]
  BY <1>2
<1> QED
  BY <1>3, <1>5, <1>6, <1>7

LEMMA OneDigitNumber ==
  ASSUME NEW s, NEW base \in Nat, Len(s) = 1, s[1] \in Nat
  PROVE  Number(s, base) = s[1]
<1>1. Len(s) \in 1 .. 3 /\ \A i \in 1 .. Len(s) : s[i] \in Nat
  OBVIOUS
<1> QED
  BY <1>1, NumberOf

LEMMA TwoDigitNumber ==
  ASSUME NEW s, NEW base \in Nat, Len(s) = 2, s[1] \in Nat, s[2] \in Nat
  PROVE  Number(s, base) = base * s[1] + s[2]
<1>1. Len(s) \in 1 .. 3 /\ \A i \in 1 .. Len(s) : s[i] \in Nat
  OBVIOUS
<1> QED
  BY <1>1, NumberOf

LEMMA ThreeDigitNumber ==
  ASSUME NEW s, NEW base \in Nat, Len(s) = 3, s[1] \in Nat, s[2] \in Nat, s[3] \in Nat
  PROVE  Number(s, base) = base * (base * s[1] + s[2]) + s[3]
<1>1. Len(s) \in 1 .. 3 /\ \A i \in 1 .. Len(s) : s[i] \in Nat
  OBVIOUS
<1> QED
  BY <1>1, NumberOf

\* FormatInt finds the digits of an amount that has nine at most.
LEMMA DigitsOf ==
  ASSUME NEW p \in Nat, p < 10 ^ 9
  PROVE  \E n \in 1 .. 9 :
             /\ Over(p, n) = 0
             /\ Len(Digits(p)) = n
             /\ Digits(p) = [i \in 1 .. n |-> DigitAt(p, n - i)]
<1> DEFINE S == {k \in 1 .. 9 : p < 10 ^ k}
           n == Least(S)
<1>1. n \in S
  <2>1. 9 \in S /\ S \in SUBSET Nat
    OBVIOUS
  <2> QED
    BY <2>1, LeastExists
<1>2. n \in 1 .. 9 /\ p < 10 ^ n
  BY <1>1
<1>3. Over(p, n) = 0
  <2> HIDE DEF n
  <2> DEFINE m == 10 ^ n
  <2>1. m \in Nat /\ p < m
    BY <1>2, TenPowers
  <2> HIDE DEF m
  <2>2. p \div m = 0
    BY <2>1
  <2> QED
    BY <2>2 DEF Over, m
<1>4. Digits(p) = [i \in 1 .. n |-> DigitAt(p, n - i)]
  BY DEF Digits, DigitAt, Over
<1> HIDE DEF n
<1>5. Len(Digits(p)) = n
  BY <1>2, <1>4
<1> QED
  BY <1>2, <1>3, <1>4, <1>5

\* A part of a sequence of numbers.
LEMMA PartOf ==
  ASSUME NEW s \in Seq(Int), NEW a \in 1 .. Len(s), NEW b \in a .. Len(s)
  PROVE  /\ Len(SubSeq(s, a, b)) = b - a + 1
         /\ \A j \in 1 .. b - a + 1 : SubSeq(s, a, b)[j] = s[a + j - 1]
  OBVIOUS

\* A group of n digits is those of p from the k-th.
DigitsFrom(h, p, k, n) == Len(h) = n /\ \A j \in 1 .. n : h[j] = DigitAt(p, k + n - j)

\* The groups: three digits each but for the first, and as many as that takes.
LEMMA GroupsOf ==
  ASSUME NEW p \in Nat, p < 10 ^ 9
  PROVE  \E first \in 1 .. 3, G \in 1 .. 3 :
            /\ Over(p, first + 3 * (G - 1)) = 0
            /\ DOMAIN Rupiah(p) = 1 .. G /\ Len(Rupiah(p)) = G
            /\ DigitsFrom(Rupiah(p)[1], p, 3 * (G - 1), first)
            /\ \A g \in 2 .. G : DigitsFrom(Rupiah(p)[g], p, 3 * (G - g), 3)
<1> DEFINE s == Digits(p)
<1>1. PICK n \in 1 .. 9 : Over(p, n) = 0 /\ Len(s) = n /\ s = [i \in 1 .. n |-> DigitAt(p, n - i)]
  BY DigitsOf
<1> DEFINE first == IF n % 3 = 0 THEN 3 ELSE n % 3
           G == 1 + (n - first) \div 3
<1>2. first \in 1 .. 3 /\ G \in 1 .. 3 /\ n = first + 3 * (G - 1)
  OBVIOUS
<1>3. Rupiah(p) = [g \in 1 .. G |-> IF g = 1 THEN SubSeq(s, 1, first)
                                    ELSE SubSeq(s, first + 3 * (g - 2) + 1, first + 3 * (g - 1))]
  BY <1>1 DEF Rupiah
<1>4. s \in Seq(Int) /\ \A i \in 1 .. n : s[i] = DigitAt(p, n - i)
  <2>1. \A i \in 1 .. n : DigitAt(p, n - i) \in Int
    <3> SUFFICES ASSUME NEW i \in 1 .. n
                 PROVE  DigitAt(p, n - i) \in Int
      OBVIOUS
    <3>1. n - i \in 0 .. 8
      OBVIOUS
    <3>2. DigitAt(p, n - i) \in 0 .. 9
      BY <3>1, NextDigit
    <3> QED
      BY <3>2
  <2> QED
    BY <1>1, <2>1
<1> HIDE DEF s, first, G
<1>5. DOMAIN Rupiah(p) = 1 .. G /\ Len(Rupiah(p)) = G
  BY <1>2, <1>3
<1>6. DigitsFrom(Rupiah(p)[1], p, 3 * (G - 1), first)
  <2>1. Rupiah(p)[1] = SubSeq(s, 1, first)
    BY <1>2, <1>3
  <2>2. 1 \in 1 .. Len(s) /\ first \in 1 .. Len(s)
    BY <1>1, <1>2
  <2>3. /\ Len(SubSeq(s, 1, first)) = first - 1 + 1
        /\ \A j \in 1 .. first - 1 + 1 : SubSeq(s, 1, first)[j] = s[1 + j - 1]
    BY <1>4, <2>2, PartOf
  <2>4. \A j \in 1 .. first : s[1 + j - 1] = DigitAt(p, 3 * (G - 1) + first - j)
    <3> SUFFICES ASSUME NEW j \in 1 .. first
                 PROVE  s[1 + j - 1] = DigitAt(p, 3 * (G - 1) + first - j)
      OBVIOUS
    <3>1. 1 + j - 1 = j /\ j \in 1 .. n /\ n - j = 3 * (G - 1) + first - j
      BY <1>2
    <3> QED
      BY <1>4, <3>1
  <2> QED
    BY <1>2, <2>1, <2>3, <2>4, first - 1 + 1 = first DEF DigitsFrom
<1>7. ASSUME NEW g \in 2 .. G
      PROVE  DigitsFrom(Rupiah(p)[g], p, 3 * (G - g), 3)
  <2> DEFINE a == first + 3 * (g - 2) + 1
             b == first + 3 * (g - 1)
  <2>1. Rupiah(p)[g] = SubSeq(s, a, b)
    BY <1>2, <1>3, <1>7
  <2>2. a \in 1 .. Len(s) /\ b \in a .. Len(s) /\ b - a + 1 = 3
    BY <1>1, <1>2, <1>7
  <2>3. \A j \in 1 .. 3 : a + j - 1 \in 1 .. n /\ n - (a + j - 1) = 3 * (G - g) + 3 - j
    BY <1>1, <1>2, <1>7
  <2> HIDE DEF a, b
  <2>4. /\ Len(SubSeq(s, a, b)) = 3
        /\ \A j \in 1 .. 3 : SubSeq(s, a, b)[j] = s[a + j - 1]
    BY <1>4, <2>2, PartOf
  <2> QED
    BY <1>4, <2>1, <2>3, <2>4 DEF DigitsFrom
<1>8. Over(p, first + 3 * (G - 1)) = 0
  BY <1>1, <1>2
<1> USE <1>2
<1> WITNESS first \in 1 .. 3, G \in 1 .. 3
<1> QED
  BY <1>5, <1>6, <1>7, <1>8

\* What the first group says, and each of the others.
LEMMA FirstGroup ==
  ASSUME NEW p \in Nat, NEW first \in 1 .. 3, NEW k \in {0, 3, 6}, NEW h,
         Over(p, first + k) = 0, DigitsFrom(h, p, k, first)
  PROVE  Number(h, 10) = Over(p, k)
<1> DEFINE a == Over(p, k)
           b == Over(p, k + 1)
           c == Over(p, k + 2)
           d == Over(p, k + 3)
           x == DigitAt(p, k)
           y == DigitAt(p, k + 1)
           z == DigitAt(p, k + 2)
<1>1. a \in Nat /\ b \in Nat /\ a = 10 * b + x /\ x \in Nat
  <2>1. k \in 0 .. 8
    OBVIOUS
  <2> QED
    BY <2>1, NextDigit
<1>2. c \in Nat /\ b = 10 * c + y /\ y \in Nat
  <2> DEFINE m == k + 1
  <2>1. m \in 0 .. 8 /\ m + 1 = k + 2
    OBVIOUS
  <2> HIDE DEF m
  <2>2. /\ Over(p, m + 1) \in Nat /\ DigitAt(p, m) \in Nat
        /\ Over(p, m) = 10 * Over(p, m + 1) + DigitAt(p, m)
    BY <2>1, NextDigit
  <2>3. Over(p, m + 1) = c
    BY <2>1
  <2> QED
    BY <2>2, <2>3 DEF m
<1>3. d \in Nat /\ c = 10 * d + z /\ z \in Nat
  <2> DEFINE m == k + 2
  <2>1. m \in 0 .. 8 /\ m + 1 = k + 3
    OBVIOUS
  <2> HIDE DEF m
  <2>2. /\ Over(p, m + 1) \in Nat /\ DigitAt(p, m) \in Nat
        /\ Over(p, m) = 10 * Over(p, m + 1) + DigitAt(p, m)
    BY <2>1, NextDigit
  <2>3. Over(p, m + 1) = d
    BY <2>1
  <2> QED
    BY <2>2, <2>3 DEF m
<1>4. CASE first = 1
  <2>1. h[1] = x /\ b = 0 /\ Len(h) = 1
    BY <1>4, 1 + k = k + 1, k + 1 - 1 = k DEF DigitsFrom
  <2>2. Number(h, 10) = h[1]
    BY <1>1, <1>4, <2>1, OneDigitNumber
  <2> QED
    BY <1>1, <2>1, <2>2
<1>5. CASE first = 2
  <2>1. h[1] = y /\ h[2] = x /\ c = 0 /\ Len(h) = 2
    BY <1>5, 2 + k = k + 2, k + 2 - 1 = k + 1, k + 2 - 2 = k DEF DigitsFrom
  <2>2. Number(h, 10) = 10 * h[1] + h[2]
    BY <1>1, <1>2, <1>5, <2>1, TwoDigitNumber
  <2> QED
    BY <1>1, <1>2, <2>1, <2>2
<1>6. CASE first = 3
  <2>1. h[1] = z /\ h[2] = y /\ h[3] = x /\ d = 0 /\ Len(h) = 3
    BY <1>6, 3 + k = k + 3, k + 3 - 1 = k + 2, k + 3 - 2 = k + 1, k + 3 - 3 = k DEF DigitsFrom
  <2>2. Number(h, 10) = 10 * (10 * h[1] + h[2]) + h[3]
    BY <1>1, <1>2, <1>3, <1>6, <2>1, ThreeDigitNumber
  <2> QED
    BY <1>1, <1>2, <1>3, <2>1, <2>2
<1> QED
  BY <1>4, <1>5, <1>6

LEMMA OtherGroup ==
  ASSUME NEW p \in Nat, NEW k \in 0 .. 6, NEW h, DigitsFrom(h, p, k, 3)
  PROVE  /\ Over(p, k) \in Nat /\ Over(p, k + 3) \in Nat /\ Number(h, 10) \in Nat
         /\ Over(p, k) = 1000 * Over(p, k + 3) + Number(h, 10)
<1>1. /\ h[1] = DigitAt(p, k + 2) /\ h[2] = DigitAt(p, k + 1) /\ h[3] = DigitAt(p, k)
      /\ Len(h) = 3
  BY k + 3 - 1 = k + 2, k + 3 - 2 = k + 1, k + 3 - 3 = k DEF DigitsFrom
<1>2. h[1] \in Nat /\ h[2] \in Nat /\ h[3] \in Nat
  <2>1. k + 2 \in 0 .. 8 /\ k + 1 \in 0 .. 8 /\ k \in 0 .. 8
    OBVIOUS
  <2>2. DigitAt(p, k + 2) \in Nat /\ DigitAt(p, k + 1) \in Nat /\ DigitAt(p, k) \in Nat
    BY <2>1, NextDigit
  <2> QED
    BY <1>1, <2>2
<1>3. Number(h, 10) = 10 * (10 * h[1] + h[2]) + h[3]
  BY <1>1, <1>2, ThreeDigitNumber
<1>4. Number(h, 10) \in Nat
  BY <1>2, <1>3
<1>5. /\ Over(p, k) \in Nat /\ Over(p, k + 3) \in Nat
      /\ Over(p, k) = 1000 * Over(p, k + 3) + (10 * (10 * h[1] + h[2]) + h[3])
  <2>1. Over(p, k) = 1000 * Over(p, k + 3) + ThreeFrom(p, k)
    BY ThreeDigits
  <2>3. Over(p, k) \in Nat /\ Over(p, k + 3) \in Nat
    BY k \in 0 .. 9, k + 3 \in 0 .. 9, OverNat
  <2>2. ThreeFrom(p, k) = 10 * (10 * h[1] + h[2]) + h[3]
    BY <1>1 DEF ThreeFrom
  <2> QED
    BY <2>1, <2>2, <2>3
<1> QED
  BY <1>3, <1>4, <1>5

\* What is said is the amount.
LEMMA RupiahSays ==
  ASSUME NEW p \in Nat, p < 10 ^ 9
  PROVE  LET groups == Rupiah(p)
             said == [g \in DOMAIN groups |-> Number(groups[g], 10)]
         IN  /\ Number(said, 1000) = p
             /\ Len(groups[1]) \in 1 .. 3
             /\ \A g \in 2 .. Len(groups) : Len(groups[g]) = 3
<1> DEFINE groups == Rupiah(p)
           said == [g \in DOMAIN groups |-> Number(groups[g], 10)]
<1>1. PICK first \in 1 .. 3, G \in 1 .. 3 :
            /\ Over(p, first + 3 * (G - 1)) = 0
            /\ DOMAIN groups = 1 .. G /\ Len(groups) = G
            /\ DigitsFrom(groups[1], p, 3 * (G - 1), first)
            /\ \A g \in 2 .. G : DigitsFrom(groups[g], p, 3 * (G - g), 3)
  BY GroupsOf
<1> HIDE DEF groups
<1>2. said = [g \in 1 .. G |-> Number(groups[g], 10)]
  BY <1>1
<1>3. Len(said) = G /\ \A g \in 1 .. G : said[g] = Number(groups[g], 10)
  BY <1>2
<1> HIDE DEF said
<1>4. said[1] = Over(p, 3 * (G - 1))
  <2> DEFINE k == 3 * (G - 1)
             h == groups[1]
  <2>1. k \in {0, 3, 6} /\ Over(p, first + k) = 0 /\ DigitsFrom(h, p, k, first)
    BY <1>1
  <2> HIDE DEF k, h
  <2>2. Number(h, 10) = Over(p, k)
    BY <2>1, FirstGroup
  <2> QED
    BY <1>1, <1>3, <2>2 DEF k, h
<1>5. \A g \in 2 .. G : /\ said[g] \in Nat /\ Over(p, 3 * (G - g)) \in Nat
                        /\ Over(p, 3 * (G - g)) = 1000 * Over(p, 3 * (G - g) + 3) + said[g]
  <2> SUFFICES ASSUME NEW g \in 2 .. G
               PROVE  /\ said[g] \in Nat /\ Over(p, 3 * (G - g)) \in Nat
                      /\ Over(p, 3 * (G - g)) = 1000 * Over(p, 3 * (G - g) + 3) + said[g]
    OBVIOUS
  <2> DEFINE k == 3 * (G - g)
             h == groups[g]
  <2>1. k \in 0 .. 6 /\ DigitsFrom(h, p, k, 3)
    BY <1>1
  <2> HIDE DEF k, h
  <2>2. /\ Over(p, k) \in Nat /\ Number(h, 10) \in Nat
        /\ Over(p, k) = 1000 * Over(p, k + 3) + Number(h, 10)
    BY <2>1, OtherGroup
  <2>3. said[g] = Number(h, 10)
    BY <1>3 DEF h
  <2> QED
    BY <2>2, <2>3 DEF k
<1>6. Over(p, 0) = p
  BY OverOf
<1>7. Number(said, 1000) = p
  <2>1. CASE G = 1
    <3>1. said[1] = p
      BY <1>4, <1>6, <2>1, 3 * (1 - 1) = 0
    <3> QED
      BY <1>3, <2>1, <3>1, OneDigitNumber
  <2>2. CASE G = 2
    <3>1. said[1] = Over(p, 3) /\ p = 1000 * Over(p, 3) + said[2] /\ said[2] \in Nat
      BY <1>4, <1>5, <1>6, <2>2, 3 * (2 - 1) = 3, 3 * (2 - 2) = 0, 0 + 3 = 3
    <3>2. Over(p, 3) \in Nat
      BY 3 \in 0 .. 8, NextDigit
    <3> QED
      BY <1>3, <2>2, <3>1, <3>2, TwoDigitNumber
  <2>3. CASE G = 3
    <3>1. /\ said[1] = Over(p, 6)
          /\ Over(p, 3) = 1000 * Over(p, 6) + said[2] /\ said[2] \in Nat
          /\ p = 1000 * Over(p, 3) + said[3] /\ said[3] \in Nat
      BY <1>4, <1>5, <1>6, <2>3, 3 * (3 - 1) = 6, 3 * (3 - 2) = 3, 3 * (3 - 3) = 0, 0 + 3 = 3, 3 + 3 = 6
    <3>2. Over(p, 6) \in Nat
      BY 6 \in 0 .. 8, NextDigit
    <3> QED
      BY <1>3, <2>3, <3>1, <3>2, ThreeDigitNumber
  <2> QED
    BY <2>1, <2>2, <2>3
<1> QED
  BY <1>1, <1>7 DEF said, groups, DigitsFrom

-----------------------------------------------------------------------------
(* The invariant                                                           *)

LEMMA InitInv == Init => Inv
<1> SUFFICES ASSUME Init PROVE Inv
  OBVIOUS
<1>1. input \in Lists /\ array = input /\ pc = "filter" /\ read = 0 /\ kept = 0
  BY DEF Init
<1>2. Shape
  BY <1>1, InputListed DEF Shape
<1>3. TypeOK
  BY <1>1, <1>2 DEF Init, TypeOK, Steps, Shape
<1>4. NothingOverwritten /\ KeptMatch
  BY <1>1, <1>2 DEF NothingOverwritten, KeptMatch, Shape
<1>5. ArrayMatches /\ PrefixSorted /\ Scored
  BY <1>1 DEF ArrayMatches, PrefixSorted, Scored
<1> QED
  BY <1>2, <1>3, <1>4, <1>5 DEF Inv

\* What a pass of Apply and its end do.
LEMMA ApplyPassDoes ==
  ASSUME Inv, ApplyPass
  PROVE  /\ read < Len(input) /\ array[read + 1] = input[read + 1]
         /\ UNCHANGED <<input, request, pc>> /\ read' = read + 1
         /\ DOMAIN array' = DOMAIN array /\ Len(array') = Len(array)
         /\ \/ /\ Matching(input[read + 1]) /\ kept' = kept + 1
               /\ array' = [array EXCEPT ![kept + 1] = input[read + 1]]
            \/ ~ Matching(input[read + 1]) /\ UNCHANGED <<array, kept>>
<1>1. /\ pc = "filter" /\ read < Len(array) /\ UNCHANGED <<input, request, pc>>
      /\ read' = read + 1
      /\ \E F \in request.filters :
             IF Matches(array[read + 1], F)
             THEN /\ array' = [array EXCEPT ![kept + 1] = array[read + 1]]
                  /\ kept' = kept + 1
             ELSE UNCHANGED <<array, kept>>
  BY DEF ApplyPass
<1>2. Len(array) = Len(input) /\ Len(input) \in Nat /\ read \in Nat /\ request \in Requests
  BY <1>1 DEF Inv, TypeOK, Shape
<1>3. array[read + 1] = input[read + 1]
  BY <1>1, <1>2 DEF Inv, NothingOverwritten
<1>4. PICK F \in request.filters :
          IF Matches(input[read + 1], F)
          THEN /\ array' = [array EXCEPT ![kept + 1] = input[read + 1]]
               /\ kept' = kept + 1
          ELSE UNCHANGED <<array, kept>>
  BY <1>1, <1>3
<1>5. request.filters = {F}
  BY <1>2, <1>4, PresentationAssumption DEF Pointer
<1>6. Matching(input[read + 1]) <=> Matches(input[read + 1], F)
  BY <1>5 DEF Matching
<1>7. DOMAIN array' = DOMAIN array /\ Len(array') = Len(array)
  BY <1>4 DEF Inv, Shape
<1> QED
  BY <1>1, <1>2, <1>3, <1>4, <1>6, <1>7

LEMMA ApplyReturnsDoes ==
  ASSUME Inv, ApplyReturns
  PROVE  /\ read = Len(input) /\ pc' = "rank" /\ read' = 0
         /\ UNCHANGED <<input, request, kept>>
         /\ kept \in 0 .. Len(input)
         /\ DOMAIN array' = 1 .. kept /\ Len(array') = kept
         /\ \A i \in 1 .. kept : array'[i] = array[i]
<1>1. array' = SubSeq(array, 1, kept) /\ pc = "filter" /\ read = Len(array)
  BY DEF ApplyReturns
<1>2. Len(array) = Len(input) /\ kept \in 0 .. Len(array) /\ Len(array) \in Nat
      /\ DOMAIN array = 1 .. Len(array)
  BY <1>1 DEF Inv, TypeOK, Shape
<1>3. Len(array') = kept /\ DOMAIN array' = 1 .. kept /\ \A i \in 1 .. kept : array'[i] = array[i]
  BY <1>1, <1>2
<1> QED
  BY <1>1, <1>2, <1>3 DEF ApplyReturns, Goto

LEMMA TypeStep == Inv /\ [Next]_vars => TypeOK' /\ Shape'
<1> SUFFICES ASSUME Inv, [Next]_vars PROVE TypeOK' /\ Shape'
  OBVIOUS
<1> USE DEF Inv
<1>1. CASE ApplyNothing
  BY <1>1 DEF ApplyNothing, Goto, TypeOK, Shape, Steps, KeptMatch
<1>2. CASE ApplyPass
  <2>1. pc' = "filter" /\ pc = "filter" /\ kept <= read
    BY <1>2 DEF ApplyPass, NothingOverwritten
  <2>2. read + 1 \in DOMAIN input /\ DOMAIN input[read + 1] = Fields
    BY <1>2, <2>1, ApplyPassDoes, InputListed DEF TypeOK, Shape
  <2>3. \A i \in DOMAIN array' : DOMAIN array'[i] = Fields
    BY <1>2, <2>2, ApplyPassDoes DEF Shape
  <2>4. kept' \in 0 .. Len(array)
    BY <1>2, <2>1, ApplyPassDoes DEF TypeOK, Shape
  <2> QED
    BY <1>2, <2>1, <2>3, <2>4, ApplyPassDoes DEF TypeOK, Shape
<1>3. CASE ApplyReturns
  <2>1. request.filters # {} /\ request \in Requests
    BY <1>3 DEF ApplyReturns, TypeOK
  <2>2. \A i \in DOMAIN array' : i \in DOMAIN array /\ array'[i] = array[i]
    BY <1>3, ApplyReturnsDoes, InputListed DEF TypeOK, Shape, ApplyReturns
  <2>3. kept \in Nat
    BY <1>3, ApplyReturnsDoes, InputListed DEF Shape
  <2>4. Shape'
    BY <1>3, <2>2, <2>3, ApplyReturnsDoes DEF Shape
  <2> QED
    BY <1>3, <2>1, <2>3, <2>4, ApplyReturnsDoes DEF TypeOK, Steps
<1>4. CASE Rank
  <2>1. pc' = "sort" /\ pc = "rank" /\ read' \in {0, 1} /\ (read' = 1 => array # << >>)
        /\ UNCHANGED <<input, request, kept>>
    BY <1>4 DEF Rank, Goto
  <2>2. read' \in 0 .. Len(array)
    BY <2>1 DEF Shape
  <2> QED
    BY <1>4, <2>1, <2>2, RankWrites DEF TypeOK, Shape, Steps
<1>5. CASE SortPass
  <2>1. \A i \in DOMAIN array' : DOMAIN array'[i] = Fields
    BY <1>5, Permutation, Insertion DEF Shape
  <2>2. UNCHANGED <<input, request, pc, kept>> /\ read' \in 0 .. Len(array) /\ pc = "sort"
    BY <1>5 DEF SortPass, TypeOK, Shape
  <2> QED
    BY <1>5, <2>1, <2>2, Insertion DEF TypeOK, Shape
<1>6. CASE SortReturns
  BY <1>6 DEF SortReturns, Goto, TypeOK, Shape, Steps
<1>7. CASE Format
  BY <1>7, FormatWrites DEF Format, Goto, TypeOK, Shape, Steps
<1>8. CASE UNCHANGED vars
  BY <1>8 DEF vars, TypeOK, Shape
<1> QED
  BY <1>1, <1>2, <1>3, <1>4, <1>5, <1>6, <1>7, <1>8 DEF Next, Finished

LEMMA KeptStep == Inv /\ [Next]_vars => NothingOverwritten' /\ KeptMatch'
<1> SUFFICES ASSUME Inv, [Next]_vars, pc' = "filter" PROVE NothingOverwritten' /\ KeptMatch'
  BY DEF NothingOverwritten, KeptMatch
<1> USE DEF Inv
<1>1. CASE ApplyPass
  <2> DEFINE n == read + 1
  <2>1. /\ n \in 1 .. Len(input) /\ n \in Nat /\ pc = "filter" /\ read \in Nat
        /\ kept \in 0 .. read /\ DOMAIN array = 1 .. Len(input)
        /\ DOMAIN input = 1 .. Len(input) /\ Len(input) \in Nat
    BY <1>1, ApplyPassDoes, InputListed DEF ApplyPass, NothingOverwritten, TypeOK, Shape
  <2>2. \A i \in 1 .. kept : \E k \in 1 .. read : array[i] = input[k] /\ Matching(input[k])
    BY <2>1 DEF KeptMatch
  <2>3. \A k \in 1 .. read : Matching(input[k]) => \E i \in 1 .. kept : array[i] = input[k]
    BY <2>1 DEF KeptMatch
  <2>4. \A i, j \in 1 .. kept : i < j => Found(array[i], input) < Found(array[j], input)
    BY <2>1 DEF KeptMatch
  <2>5. \A i \in n .. Len(input) : array[i] = input[i]
    BY <2>1 DEF NothingOverwritten
  <2>6. read' = n /\ input' = input /\ request' = request /\ request.filters # {}
    BY <1>1, ApplyPassDoes DEF ApplyPass
  <2>7. \A f : Matching(f)' <=> Matching(f)
    BY <2>6 DEF Matching
  <2>8. CASE /\ Matching(input[n]) /\ kept' = kept + 1
             /\ array' = [array EXCEPT ![kept + 1] = input[n]]
    <3>1. /\ \A i \in 1 .. kept : array'[i] = array[i]
          /\ array'[kept + 1] = input[n]
          /\ \A i \in n + 1 .. Len(input) : array'[i] = array[i]
      BY <2>1, <2>8
    <3>2. \A i \in 1 .. kept : Found(array[i], input) < n
      <4>1. TAKE i \in 1 .. kept
      <4>2. PICK k \in 1 .. read : array[i] = input[k]
        BY <2>2
      <4>3. Found(array[i], input) = k
        BY <2>1, <4>2, FoundAt DEF Shape
      <4> QED
        BY <2>1, <4>3
    <3>3. Found(input[n], input) = n
      BY <2>1, FoundAt DEF Shape
    <3>4. NothingOverwritten'
      BY <2>1, <2>5, <2>6, <2>8, <3>1 DEF NothingOverwritten
    <3>5. ASSUME NEW i \in 1 .. kept + 1
          PROVE  \E k \in 1 .. n : array'[i] = input[k] /\ Matching(input[k])
      <4>1. CASE i \in 1 .. kept
        BY <2>1, <2>2, <3>1, <4>1
      <4>2. CASE i = kept + 1
        BY <2>1, <2>8, <3>1, <4>2
      <4> QED
        BY <2>1, <4>1, <4>2
    <3>6. ASSUME NEW k \in 1 .. n, Matching(input[k])
          PROVE  \E i \in 1 .. kept + 1 : array'[i] = input[k]
      <4>1. CASE k \in 1 .. read
        BY <2>1, <2>3, <3>1, <3>6, <4>1
      <4>2. CASE k = n
        BY <2>1, <3>1, <4>2
      <4> QED
        BY <2>1, <4>1, <4>2
    <3>7. ASSUME NEW i \in 1 .. kept + 1, NEW j \in 1 .. kept + 1, i < j
          PROVE  Found(array'[i], input) < Found(array'[j], input)
      <4>1. i \in 1 .. kept /\ array'[i] = array[i]
        BY <2>1, <3>1, <3>7
      <4>2. CASE j \in 1 .. kept
        BY <2>4, <3>1, <3>7, <4>1, <4>2
      <4>3. CASE j = kept + 1
        BY <3>1, <3>2, <3>3, <4>1, <4>3
      <4> QED
        BY <2>1, <4>2, <4>3
    <3>8. KeptMatch'
      BY <2>6, <2>7, <2>8, <3>5, <3>6, <3>7 DEF KeptMatch
    <3> QED
      BY <3>4, <3>8
  <2>9. CASE ~ Matching(input[n]) /\ UNCHANGED <<array, kept>>
    <3>1. NothingOverwritten'
      BY <2>1, <2>5, <2>6, <2>9 DEF NothingOverwritten
    <3>2. \A i \in 1 .. kept : \E k \in 1 .. n : array[i] = input[k] /\ Matching(input[k])
      BY <2>1, <2>2
    <3>3. ASSUME NEW k \in 1 .. n, Matching(input[k])
          PROVE  \E i \in 1 .. kept : array[i] = input[k]
      BY <2>1, <2>3, <2>9, <3>3
    <3>4. KeptMatch'
      BY <2>4, <2>6, <2>7, <2>9, <3>2, <3>3 DEF KeptMatch
    <3> QED
      BY <3>1, <3>4
  <2> QED
    BY <1>1, <2>8, <2>9, ApplyPassDoes
<1>2. CASE UNCHANGED vars
  BY <1>2 DEF vars, NothingOverwritten, KeptMatch, Matching
<1>3. CASE Rank \/ ApplyReturns \/ ApplyNothing \/ SortPass \/ SortReturns \/ Format
  BY <1>3 DEF Rank, ApplyReturns, ApplyNothing, SortPass, SortReturns, Format, Goto
<1> QED
  BY <1>1, <1>2, <1>3 DEF Next, Finished

\* The steps after Apply keep the flights.
LEMMA MatchesStep == Inv /\ [Next]_vars => ArrayMatches'
<1> SUFFICES ASSUME Inv, [Next]_vars, pc' # "filter" PROVE ArrayMatches'
  BY DEF ArrayMatches
<1> USE DEF Inv
<1> DEFINE Shown(a) ==
        /\ \A i \in DOMAIN a : \E k \in DOMAIN input :
               Matching(input[k]) /\ SameFlight(a[i], input[k])
        /\ \A k \in DOMAIN input :
               Matching(input[k]) => \E i \in DOMAIN a : SameFlight(a[i], input[k])
        /\ \A i, j \in DOMAIN a : a[i].id = a[j].id => i = j
<1>1. input' = input /\ request' = request
  BY DEF Next, ApplyNothing, ApplyPass, ApplyReturns, Rank, SortPass, SortReturns, Format,
         Finished, Goto, vars
<1>2. Shown(array') => ArrayMatches'
  BY <1>1 DEF ArrayMatches, Matching
<1>3. pc # "filter" => Shown(array)
  BY DEF ArrayMatches
<1>4. ASSUME pc # "filter", DOMAIN array' = DOMAIN array,
             \A i \in DOMAIN array : SameFlight(array'[i], array[i])
      PROVE  Shown(array')
  <2>1. \A i \in DOMAIN array : \A k \in DOMAIN input :
            SameFlight(array'[i], input[k]) <=> SameFlight(array[i], input[k])
    BY <1>4 DEF SameFlight
  <2>2. \A i \in DOMAIN array : array'[i].id = array[i].id
    BY <1>4 DEF SameFlight, Fields
  <2> QED
    BY <1>3, <1>4, <2>1, <2>2
<1>5. CASE ApplyNothing
  <2>1. /\ array' = array /\ pc = "filter" /\ request.filters = {} /\ read = 0
        /\ Len(array) = Len(input) /\ DOMAIN array = 1 .. Len(array)
    BY <1>5 DEF ApplyNothing, KeptMatch, TypeOK, Shape
  <2>2. DOMAIN input = 1 .. Len(input) /\ Len(input) \in Nat
    BY InputListed DEF Shape
  <2>3. \A i \in DOMAIN input : array[i] = input[i]
    BY <2>1, <2>2 DEF NothingOverwritten
  <2>4. \A k \in DOMAIN input : Matching(input[k]) /\ SameFlight(input[k], input[k])
    BY <2>1 DEF Matching, SameFlight
  <2>5. \A i, j \in DOMAIN input : input[i].id = input[j].id => i = j
    BY InputListed DEF Shape
  <2>6. Shown(array')
    BY <2>1, <2>2, <2>3, <2>4, <2>5
  <2> QED
    BY <1>2, <2>6
<1>6. CASE ApplyReturns
  <2>1. /\ read = Len(input) /\ DOMAIN array' = 1 .. kept /\ kept \in Nat
        /\ \A i \in 1 .. kept : array'[i] = array[i]
        /\ DOMAIN input = 1 .. Len(input) /\ pc = "filter"
    <3>1. DOMAIN input = 1 .. Len(input) /\ Len(input) \in Nat /\ pc = "filter"
      BY <1>6, InputListed DEF Shape, ApplyReturns
    <3>2. /\ read = Len(input) /\ DOMAIN array' = 1 .. kept /\ kept \in 0 .. Len(input)
          /\ \A i \in 1 .. kept : array'[i] = array[i]
      BY <1>6, ApplyReturnsDoes
    <3> QED
      BY <3>1, <3>2
  <2>2. \A i \in 1 .. kept : \E k \in DOMAIN input : array'[i] = input[k] /\ Matching(input[k])
    <3>1. \A i \in 1 .. kept : \E k \in 1 .. read : array[i] = input[k] /\ Matching(input[k])
      <4>1. KeptMatch /\ pc = "filter"
        BY <2>1
      <4> QED
        BY <4>1 DEF KeptMatch
    <3>2. TAKE i \in 1 .. kept
    <3>3. PICK k \in 1 .. read : array[i] = input[k] /\ Matching(input[k])
      BY <3>1
    <3>4. k \in DOMAIN input /\ array'[i] = input[k]
      BY <2>1, <3>3
    <3> QED
      BY <3>3, <3>4
  <2>3. \A k \in DOMAIN input : Matching(input[k]) => \E i \in 1 .. kept : array'[i] = input[k]
    BY <2>1 DEF KeptMatch
  <2>4. ASSUME NEW i \in 1 .. kept, NEW j \in 1 .. kept, array'[i].id = array'[j].id
        PROVE  i = j
    <3>1. PICK k \in DOMAIN input : array'[i] = input[k]
      BY <2>2
    <3>2. Found(array[i], input) = k /\ Found(array[j], input) = k /\ k \in Nat
      BY <2>1, <2>4, <3>1, FoundAt DEF Shape
    <3>3. ~ (i < j) /\ ~ (j < i)
      BY <2>1, <3>2 DEF KeptMatch
    <3> QED
      BY <3>3
  <2>5. \A k \in DOMAIN input : SameFlight(input[k], input[k])
    BY DEF SameFlight
  <2>6. \A i \in DOMAIN array' : \E k \in DOMAIN input :
            Matching(input[k]) /\ SameFlight(array'[i], input[k])
    <3>1. TAKE i \in DOMAIN array'
    <3>2. PICK k \in DOMAIN input : array'[i] = input[k] /\ Matching(input[k])
      BY <2>1, <2>2
    <3>3. SameFlight(array'[i], input[k])
      BY <2>5, <3>2
    <3> QED
      BY <3>2, <3>3
  <2>7. \A k \in DOMAIN input :
            Matching(input[k]) => \E i \in DOMAIN array' : SameFlight(array'[i], input[k])
    <3>1. ASSUME NEW k \in DOMAIN input, Matching(input[k])
          PROVE  \E i \in DOMAIN array' : SameFlight(array'[i], input[k])
      <4>1. PICK i \in 1 .. kept : array'[i] = input[k]
        BY <2>3, <3>1
      <4>2. i \in DOMAIN array' /\ SameFlight(array'[i], input[k])
        BY <2>1, <2>5, <4>1
      <4> QED
        BY <4>2
    <3> QED
      BY <3>1
  <2>8. \A i, j \in DOMAIN array' : array'[i].id = array'[j].id => i = j
    BY <2>1, <2>4
  <2> QED
    BY <1>2, <2>6, <2>7, <2>8
<1>7. CASE Rank
  BY <1>2, <1>4, <1>7, RankWrites DEF Rank
<1>8. CASE SortPass
  <2>1. PICK p \in [DOMAIN array -> DOMAIN array] :
            /\ \A i \in DOMAIN array : array'[i] = array[p[i]]
            /\ \A i, j \in DOMAIN array : p[i] = p[j] => i = j
            /\ \A k \in DOMAIN array : \E i \in DOMAIN array : p[i] = k
    BY <1>8, Permutation
  <2>2. DOMAIN array' = DOMAIN array /\ Shown(array)
    BY <1>3, <1>8, Insertion DEF SortPass
  <2>3. \A i \in DOMAIN array : \E k \in DOMAIN input :
            Matching(input[k]) /\ SameFlight(array'[i], input[k])
    BY <2>1, <2>2
  <2>4. \A k \in DOMAIN input :
            Matching(input[k]) => \E i \in DOMAIN array : SameFlight(array'[i], input[k])
    BY <2>1, <2>2
  <2>5. \A i, j \in DOMAIN array : array'[i].id = array'[j].id => i = j
    <3>1. \A i, j \in DOMAIN array : array[i].id = array[j].id => i = j
      BY <2>2
    <3>2. \A i \in DOMAIN array : p[i] \in DOMAIN array /\ array'[i] = array[p[i]]
      BY <2>1
    <3> QED
      BY <2>1, <3>1, <3>2
  <2> QED
    BY <1>2, <2>2, <2>3, <2>4, <2>5
<1>9. CASE Format
  BY <1>2, <1>4, <1>9, FormatWrites DEF Format
<1>10. CASE SortReturns \/ UNCHANGED vars
  <2>1. array' = array /\ pc # "filter"
    BY <1>10 DEF SortReturns, Goto, vars
  <2> QED
    BY <1>2, <1>3, <2>1
<1>11. ~ ApplyPass
  BY DEF ApplyPass
<1> QED
  BY <1>5, <1>6, <1>7, <1>8, <1>9, <1>10, <1>11 DEF Next, Finished

\* What is compared depends on the values a flight shows.
LEMMA ComparedSame ==
  ASSUME NEW f, NEW g, SameFlight(f, g), f.score = g.score
  PROVE  Compared(f) = Compared(g)
<1>1. f.mins = g.mins /\ f.dep = g.dep /\ f.arr = g.arr /\ f.price = g.price
  BY DEF SameFlight, Fields
<1> QED
  BY <1>1 DEF Compared

LEMMA ComparedInt ==
  ASSUME NEW f, f.mins \in Nat, f.dep \in Nat, f.arr \in Nat, f.price \in Nat, f.score \in Nat
  PROVE  Compared(f) \in Int
BY DEF Compared

LEMMA BeforeTransitive ==
  ASSUME NEW f, NEW g, NEW h, Before(f, g), Before(g, h),
         Compared(f) \in Int, Compared(g) \in Int, Compared(h) \in Int,
         Found(f, input) \in Nat, Found(g, input) \in Nat, Found(h, input) \in Nat
  PROVE  Before(f, h)
BY DEF Before

\* Flights with one id were found at one place.
LEMMA FoundSame ==
  ASSUME Shape, ArrayMatches, pc # "filter",
         NEW i \in DOMAIN array, NEW f, SameFlight(f, array[i])
  PROVE  Found(f, input) = Found(array[i], input)
<1>1. PICK k \in DOMAIN input : SameFlight(array[i], input[k])
  BY DEF ArrayMatches
<1>2. f.id = input[k].id /\ array[i].id = input[k].id
  BY <1>1 DEF SameFlight, Fields
<1> QED
  BY <1>2, FoundAt DEF Shape

LEMMA SortedStep == Inv /\ [Next]_vars => PrefixSorted'
<1> SUFFICES ASSUME Inv, [Next]_vars, pc' # "filter" PROVE PrefixSorted'
  BY DEF PrefixSorted
<1> USE DEF Inv
<1>1. input' = input /\ request' = request
  BY DEF Next, ApplyNothing, ApplyPass, ApplyReturns, Rank, SortPass, SortReturns, Format,
         Finished, Goto, vars
<1>2. \A f, g : Before(f, g)' <=> Before(f, g)
  BY <1>1 DEF Before, Compared
<1>3. CASE ApplyNothing
  <2>1. /\ array' = array /\ pc = "filter" /\ pc' = "rank" /\ read = 0 /\ read' = 0
        /\ Len(array) = Len(input) /\ DOMAIN array = 1 .. Len(array)
    BY <1>3 DEF ApplyNothing, Goto, KeptMatch, TypeOK, Shape
  <2>2. DOMAIN input = 1 .. Len(input) /\ Len(input) \in Nat
    BY InputListed DEF Shape
  <2>3. \A i \in DOMAIN array' : array'[i] = input[i] /\ Found(input[i], input) = i
    BY <2>1, <2>2, FoundAt DEF NothingOverwritten, Shape
  <2> QED
    BY <1>1, <2>1, <2>2, <2>3 DEF PrefixSorted
<1>4. CASE ApplyReturns
  <2>1. /\ DOMAIN array' = 1 .. kept /\ read' = 0 /\ pc' = "rank"
        /\ \A i \in 1 .. kept : array'[i] = array[i]
    BY <1>4, ApplyReturnsDoes
  <2>2. \A i, j \in 1 .. kept : i < j => Found(array[i], input) < Found(array[j], input)
    BY <1>4 DEF ApplyReturns, KeptMatch
  <2>3. \A j \in 1 .. kept : ~ (j <= 0)
    OBVIOUS
  <2> QED
    BY <1>1, <2>1, <2>2, <2>3 DEF PrefixSorted
<1>5. CASE Rank
  <2>1. /\ pc = "rank" /\ pc' = "sort" /\ read' \in {0, 1} /\ DOMAIN array' = DOMAIN array
        /\ DOMAIN array = 1 .. Len(array) /\ Len(array) \in Nat
    BY <1>5, RankWrites DEF Rank, Goto, Shape
  <2>2. \A i \in DOMAIN array : Found(array'[i], input) = Found(array[i], input)
    BY <1>5, <2>1, RankWrites, FoundSame
  <2>3. read = 0
    BY <2>1 DEF Shape
  <2>4. \A i, j \in DOMAIN array : i < j => Found(array[i], input) < Found(array[j], input)
    BY <2>1, <2>3 DEF PrefixSorted
  <2>5. \A i, j \in DOMAIN array : i < j => ~ (j <= read')
    BY <2>1
  <2> QED
    BY <1>1, <2>1, <2>2, <2>4, <2>5 DEF PrefixSorted
<1>6. CASE SortPass
  <2> DEFINE n == read + 1
             C(i) == Compared(array[i])
             At(i) == Found(array[i], input)
  <2>1. /\ pc = "sort" /\ pc' = "sort" /\ read' = n /\ read \in Nat /\ n \in DOMAIN array
        /\ DOMAIN array = 1 .. Len(array) /\ Len(array) \in Nat /\ DOMAIN array' = DOMAIN array
    BY <1>6, Insertion DEF SortPass, Shape, TypeOK
  <2>2. \A i \in DOMAIN array : C(i) \in Int /\ At(i) \in Nat
    <3>1. \A i \in DOMAIN array : array[i].score \in Nat
      BY <2>1 DEF Scored, Fair
    <3>2. \A i \in DOMAIN array :
              /\ array[i].price \in Nat /\ array[i].mins \in Nat
              /\ array[i].dep \in Nat /\ array[i].arr \in Nat /\ At(i) \in Nat
      BY <2>1, ArrayValues
    <3> QED
      BY <3>1, <3>2, ComparedInt
  <2>3. /\ \A i, j \in 1 .. read : i < j => Before(array[i], array[j])
        /\ \A i, j \in DOMAIN array : i < j /\ j > read => At(i) < At(j)
    BY <2>1 DEF PrefixSorted
  <2>4. PICK to \in 1 .. n :
            /\ \A i \in to .. read : Less(array[n], array[i])
            /\ to > 1 => ~ Less(array[n], array[to - 1])
            /\ \A i \in DOMAIN array :
                   array'[i] = IF i = to THEN array[n]
                               ELSE IF i \in to + 1 .. n THEN array[i - 1] ELSE array[i]
    BY <1>6, Insertion
  <2>5. \A i \in to .. read : Before(array[n], array[i])
    BY <2>1, <2>2, <2>4 DEF Before, Less
  <2>6. ASSUME NEW i \in 1 .. to - 1 PROVE Before(array[i], array[n])
    <3>1. to - 1 \in 1 .. read /\ i \in 1 .. read /\ to > 1
      BY <2>1
    <3>2. At(to - 1) < At(n)
      BY <2>1, <2>3, <3>1
    <3>3. Before(array[to - 1], array[n])
      BY <2>1, <2>2, <2>4, <3>1, <3>2 DEF Before, Less
    <3>4. CASE i = to - 1
      BY <3>3, <3>4
    <3>5. CASE i < to - 1
      <4>1. Before(array[i], array[to - 1])
        BY <2>3, <3>1, <3>5
      <4> QED
        BY <2>1, <2>2, <3>1, <3>3, <4>1, BeforeTransitive
    <3> QED
      BY <3>1, <3>4, <3>5
  <2>7. ASSUME NEW i \in DOMAIN array, NEW j \in DOMAIN array, i < j, j <= n
        PROVE  Before(array'[i], array'[j])
    <3>1. CASE i = to
      <4>1. j - 1 \in to .. read /\ array'[j] = array[j - 1] /\ array'[i] = array[n]
        BY <2>1, <2>4, <2>7, <3>1
      <4> QED
        BY <2>5, <4>1
    <3>2. CASE j = to
      <4>1. i \in 1 .. to - 1 /\ array'[i] = array[i] /\ array'[j] = array[n]
        BY <2>1, <2>4, <2>7, <3>2
      <4> QED
        BY <2>6, <4>1
    <3>3. CASE i # to /\ j # to
      <4> DEFINE p(m) == IF m \in to + 1 .. n THEN m - 1 ELSE m
      <4>1. p(i) \in 1 .. read /\ p(j) \in 1 .. read /\ p(i) < p(j)
        BY <2>1, <2>7, <3>3
      <4>2. array'[i] = array[p(i)] /\ array'[j] = array[p(j)]
        BY <2>4, <3>3
      <4> HIDE DEF p
      <4> QED
        BY <2>3, <4>1, <4>2
    <3> QED
      BY <3>1, <3>2, <3>3
  <2>8. ASSUME NEW i \in DOMAIN array, NEW j \in DOMAIN array, i < j, j > n
        PROVE  Found(array'[i], input) < Found(array'[j], input)
    <3>1. array'[j] = array[j]
      BY <2>1, <2>4, <2>8
    <3>2. PICK m \in DOMAIN array : m < j /\ array'[i] = array[m]
      <4>1. CASE i = to
        BY <2>1, <2>4, <2>8, <4>1
      <4>2. CASE i \in to + 1 .. n
        <5>1. i - 1 \in DOMAIN array /\ i - 1 < j /\ array'[i] = array[i - 1]
          BY <2>1, <2>4, <2>8, <4>2
        <5> QED
          BY <5>1
      <4>3. CASE i # to /\ i \notin to + 1 .. n
        BY <2>4, <2>8, <4>3
      <4> QED
        BY <4>1, <4>2, <4>3
    <3> QED
      BY <2>1, <2>3, <2>8, <3>1, <3>2
  <2> QED
    BY <1>1, <1>2, <2>1, <2>7, <2>8 DEF PrefixSorted
<1>7. CASE SortReturns
  <2>1. array' = array /\ pc = "sort" /\ pc' = "format" /\ read = Len(array)
        /\ DOMAIN array = 1 .. Len(array)
    BY <1>7 DEF SortReturns, Goto, Shape
  <2>2. \A i, j \in DOMAIN array : i < j => Before(array[i], array[j])
    BY <2>1 DEF PrefixSorted
  <2> QED
    BY <1>1, <1>2, <2>1, <2>2 DEF PrefixSorted
<1>8. CASE Format
  <2>1. pc = "format" /\ pc' = "done" /\ DOMAIN array' = DOMAIN array
    BY <1>8, FormatWrites DEF Format, Goto
  <2>2. \A i, j \in DOMAIN array : i < j => Before(array[i], array[j])
    BY <2>1 DEF PrefixSorted
  <2>3. \A i \in DOMAIN array : /\ Found(array'[i], input) = Found(array[i], input)
                                /\ Compared(array'[i]) = Compared(array[i])
    BY <1>8, <2>1, FormatWrites, FoundSame, ComparedSame
  <2>4. \A i, j \in DOMAIN array : i < j => Before(array'[i], array'[j])
    BY <2>2, <2>3 DEF Before
  <2> QED
    BY <1>1, <1>2, <2>1, <2>4 DEF PrefixSorted
<1>9. CASE UNCHANGED vars
  <2>1. UNCHANGED <<array, pc, read>>
    BY <1>9 DEF vars
  <2> QED
    BY <1>1, <1>2, <2>1 DEF PrefixSorted
<1>10. ~ ApplyPass
  BY DEF ApplyPass
<1> QED
  BY <1>3, <1>4, <1>5, <1>6, <1>7, <1>8, <1>9, <1>10 DEF Next, Finished

LEMMA ScoredStep == Inv /\ [Next]_vars => Scored'
<1> SUFFICES ASSUME Inv, [Next]_vars, pc' \in {"sort", "format", "done"} PROVE Scored'
  BY DEF Scored
<1> USE DEF Inv
<1> DEFINE AllFair(a) ==
        \A i \in DOMAIN a :
            /\ a[i].score \in 0 .. One
            /\ \A j \in DOMAIN a : NoWorse(a[i], a[j]) => a[i].score >= a[j].score
            /\ Cheapest(i, a) => LosesForStops(a[i], a)
<1>1. AllFair(array') => Scored'
  BY DEF Scored, Fair
<1>2. pc \in {"sort", "format", "done"} => AllFair(array)
  BY DEF Scored, Fair
<1>3. CASE Rank
  <2>1. /\ pc # "filter" /\ DOMAIN array' = DOMAIN array
        /\ DOMAIN array = 1 .. Len(array) /\ Len(array) \in Nat
        /\ \A i \in DOMAIN array :
               array'[i].score = Score(array[i]) /\ SameFlight(array'[i], array[i])
    BY <1>3, RankWrites DEF Rank, Shape
  <2>2. \A i \in DOMAIN array :
            array'[i].price = array[i].price /\ array'[i].mins = array[i].mins
                /\ array'[i].stops = array[i].stops
    BY <2>1 DEF SameFlight, Fields
  <2>3. \A i, j \in DOMAIN array : NoWorse(array'[i], array'[j]) <=> NoWorse(array[i], array[j])
    BY <2>2 DEF NoWorse
  <2>4. \A j \in DOMAIN array :
            array[j].price \in Nat /\ array[j].mins \in Nat /\ array[j].stops \in Nat
    BY <2>1, ArrayValues
  <2>5. \A i \in DOMAIN array :
            /\ Score(array[i]) \in 0 .. One
            /\ \A j \in DOMAIN array :
                   NoWorse(array[i], array[j]) => Score(array[i]) >= Score(array[j])
            /\ Cheapest(i, array) => RoundedOff(Score(array[i]), array[i].stops, Spread("stops"))
    BY <2>1, <2>4, ScoreFair
  <2>6. ASSUME NEW i \in DOMAIN array, Cheapest(i, array')
        PROVE  LosesForStops(array'[i], array')
    <3>1. Cheapest(i, array)
      BY <2>1, <2>2, <2>6 DEF Cheapest
    <3>2. array # << >>
      OBVIOUS
    <3>3. Greatest({1} \cup {array[j].stops : j \in DOMAIN array}) = Spread("stops")
      BY <2>1, <2>4, <3>2, MostStops
    <3>4. {array'[j].stops : j \in DOMAIN array'} = {array[j].stops : j \in DOMAIN array}
      BY <2>1, <2>2
    <3>5. RoundedOff(array'[i].score, array'[i].stops, Spread("stops"))
      BY <2>1, <2>2, <2>5, <3>1
    <3> QED
      BY <3>3, <3>4, <3>5 DEF RoundedOff, LosesForStops
  <2>7. \A i \in DOMAIN array :
            /\ array'[i].score \in 0 .. One
            /\ \A j \in DOMAIN array : NoWorse(array'[i], array'[j]) => array'[i].score >= array'[j].score
    BY <2>1, <2>3, <2>5
  <2>8. AllFair(array')
    BY <2>1, <2>6, <2>7
  <2> QED
    BY <1>1, <2>8
<1>4. CASE SortPass
  <2>1. PICK p \in [DOMAIN array -> DOMAIN array] :
            /\ \A i \in DOMAIN array : array'[i] = array[p[i]]
            /\ \A i, j \in DOMAIN array : p[i] = p[j] => i = j
            /\ \A k \in DOMAIN array : \E i \in DOMAIN array : p[i] = k
    BY <1>4, Permutation
  <2>2. DOMAIN array' = DOMAIN array /\ AllFair(array)
    BY <1>2, <1>4, Insertion DEF SortPass
  <2>3. {array'[j].stops : j \in DOMAIN array'} = {array[j].stops : j \in DOMAIN array}
    BY <2>1, <2>2
  <2>4. ASSUME NEW i \in DOMAIN array, Cheapest(i, array')
        PROVE  LosesForStops(array'[i], array')
    <3>1. Cheapest(p[i], array)
      BY <2>1, <2>2, <2>4 DEF Cheapest
    <3>2. LosesForStops(array[p[i]], array)
      BY <2>1, <2>2, <3>1
    <3> QED
      BY <2>1, <2>3, <3>2 DEF LosesForStops
  <2>5. \A i \in DOMAIN array :
            /\ array'[i].score \in 0 .. One
            /\ \A j \in DOMAIN array : NoWorse(array'[i], array'[j]) => array'[i].score >= array'[j].score
    <3>1. TAKE i \in DOMAIN array
    <3>2. p[i] \in DOMAIN array /\ array'[i] = array[p[i]]
      BY <2>1
    <3>3. array[p[i]].score \in 0 .. One
      BY <2>2, <3>2
    <3>4. ASSUME NEW j \in DOMAIN array, NoWorse(array'[i], array'[j])
          PROVE  array'[i].score >= array'[j].score
      <4>1. p[j] \in DOMAIN array /\ array'[j] = array[p[j]]
        BY <2>1
      <4>2. NoWorse(array[p[i]], array[p[j]])
        BY <3>2, <3>4, <4>1
      <4>3. array[p[i]].score >= array[p[j]].score
        BY <2>2, <3>2, <4>1, <4>2
      <4> QED
        BY <3>2, <4>1, <4>3
    <3> QED
      BY <3>2, <3>3, <3>4
  <2>6. AllFair(array')
    BY <2>2, <2>4, <2>5
  <2> QED
    BY <1>1, <2>6
<1>5. CASE Format
  <2>1. /\ pc = "format" /\ DOMAIN array' = DOMAIN array
        /\ \A i \in DOMAIN array :
               array'[i].score = array[i].score /\ SameFlight(array'[i], array[i])
    BY <1>5, FormatWrites DEF Format
  <2>2. \A i \in DOMAIN array :
            array'[i].price = array[i].price /\ array'[i].mins = array[i].mins
                /\ array'[i].stops = array[i].stops
    BY <2>1 DEF SameFlight, Fields
  <2>3. \A i, j \in DOMAIN array : NoWorse(array'[i], array'[j]) <=> NoWorse(array[i], array[j])
    BY <2>2 DEF NoWorse
  <2>4. {array'[j].stops : j \in DOMAIN array'} = {array[j].stops : j \in DOMAIN array}
    BY <2>1, <2>2
  <2>5. ASSUME NEW i \in DOMAIN array, Cheapest(i, array')
        PROVE  LosesForStops(array'[i], array')
    <3>1. Cheapest(i, array)
      BY <2>1, <2>2, <2>5 DEF Cheapest
    <3>2. LosesForStops(array[i], array)
      BY <1>2, <2>1, <3>1
    <3> QED
      BY <2>1, <2>2, <2>4, <3>2 DEF LosesForStops
  <2>6. \A i \in DOMAIN array :
            /\ array'[i].score \in 0 .. One
            /\ \A j \in DOMAIN array : NoWorse(array'[i], array'[j]) => array'[i].score >= array'[j].score
    BY <1>2, <2>1, <2>3
  <2>7. AllFair(array')
    BY <2>1, <2>5, <2>6
  <2> QED
    BY <1>1, <2>7
<1>6. CASE SortReturns \/ UNCHANGED vars
  <2>1. array' = array /\ pc \in {"sort", "format", "done"}
    BY <1>6 DEF SortReturns, Goto, vars
  <2> QED
    BY <1>1, <1>2, <2>1
<1>7. ~ ApplyNothing /\ ~ ApplyPass /\ ~ ApplyReturns
  BY DEF ApplyNothing, ApplyPass, ApplyReturns, Goto
<1> QED
  BY <1>3, <1>4, <1>5, <1>6, <1>7 DEF Next, Finished

THEOREM Invariance == Spec => []Inv
<1>1. Init => Inv
  BY InitInv
<1>2. Inv /\ [Next]_vars => Inv'
  BY TypeStep, KeptStep, MatchesStep, SortedStep, ScoredStep DEF Inv
<1> QED
  BY <1>1, <1>2, PTL DEF Spec

-----------------------------------------------------------------------------
(* Theorems                                                                *)

\* The variables have their types, and what Apply returns is as long as what it
\* kept.
THEOREM TypeCorrect == Spec => []TypeOK
<1>1. Inv => TypeOK
  BY DEF Inv
<1> QED
  BY <1>1, Invariance, PTL

\* The loop of Apply, whose out shares its array with the flights it has still to
\* read, never writes to one of them.
THEOREM NothingIsOverwritten == Spec => []NothingOverwritten
<1>1. Inv => NothingOverwritten
  BY DEF Inv
<1> QED
  BY <1>1, Invariance, PTL

\* A client gets the flights it wants, once, as they were found, and no other:
\* whatever the filters, in place though they are applied.
THEOREM FlightsAreShown == Spec => []FlightsShown
<1>1. ASSUME Inv, pc = "done" PROVE FlightsShown
  <2>1. \A k \in DOMAIN input : Matching(input[k]) <=> WantedByAll(input[k])
    BY <1>1, MatchingIsWanted DEF Inv, Shape, TypeOK
  <2>2. \A f, g : SameFlight(f, g) => f.id = g.id
    BY DEF SameFlight, Fields
  <2> QED
    BY <1>1, <2>1, <2>2 DEF Inv, ArrayMatches, FlightsShown
<1>2. Inv => FlightsShown
  BY <1>1 DEF FlightsShown
<1> QED
  BY <1>2, Invariance, PTL

\* Scores are between 0 and 1 and follow price, duration and stops; and what the
\* cheapest and shortest flight falls short of 1 is what its stops cost it, in
\* lists with and without a direct flight (not what ranker.go:22 has it be).
THEOREM ScoresAreFair == Spec => []ScoresFair
<1>1. Inv => ScoresFair
  BY DEF Inv, Scored, Fair, Cheapest, ScoresFair
<1> QED
  BY <1>1, Invariance, PTL

\* The flights are in the order asked for, and equal ones as they were found.
THEOREM OrderIsAsAsked == Spec => []SortedAsAsked
<1>1. Inv => SortedAsAsked
  BY DEF Inv, PrefixSorted, SortedAsAsked
<1> QED
  BY <1>1, Invariance, PTL

\* A price in words is the price: FormatIDR drops, doubles and moves no digit of
\* an amount that has as many as the model's Digits finds.
THEOREM PricesAreSaid ==
  ASSUME \A s \in Lists : \A k \in DOMAIN s : s[k].price < 10 ^ 9
  PROVE  Spec => []PricesSaid
<1> DEFINE Formatted == pc = "done" =>
               \A i \in DOMAIN array : array[i].formatted = Rupiah(array[i].price)
<1>1. Init => Formatted
  BY DEF Init
<1>2. Inv /\ Formatted /\ [Next]_vars => Formatted'
  <2> SUFFICES ASSUME Inv, Formatted, [Next]_vars, pc' = "done"
               PROVE  \A i \in DOMAIN array' : array'[i].formatted = Rupiah(array'[i].price)
    OBVIOUS
  <2>1. CASE Format
    <3>1. /\ DOMAIN array' = DOMAIN array
          /\ \A i \in DOMAIN array : /\ SameFlight(array'[i], array[i])
                                     /\ array'[i].formatted = Rupiah(array[i].price)
      BY <2>1, FormatWrites DEF Inv
    <3> QED
      BY <3>1 DEF SameFlight, Fields
  <2>2. CASE Finished \/ UNCHANGED vars
    BY <2>2 DEF Finished, vars
  <2>3. CASE ApplyNothing \/ ApplyPass \/ ApplyReturns \/ Rank \/ SortPass \/ SortReturns
    BY <2>3 DEF ApplyNothing, ApplyPass, ApplyReturns, Rank, SortPass, SortReturns, Goto
  <2> QED
    BY <2>1, <2>2, <2>3 DEF Next
<1>3. Inv /\ Formatted => PricesSaid
  <2> SUFFICES ASSUME Inv, pc = "done", NEW i \in DOMAIN array,
                      array[i].formatted = Rupiah(array[i].price)
               PROVE  LET groups == array[i].formatted
                          said == [g \in DOMAIN groups |-> Number(groups[g], 10)]
                      IN  /\ Number(said, 1000) = array[i].price
                          /\ Len(groups[1]) \in 1 .. 3
                          /\ \A g \in 2 .. Len(groups) : Len(groups[g]) = 3
    BY DEF PricesSaid
  <2>1. PICK k \in DOMAIN input : SameFlight(array[i], input[k])
    BY DEF Inv, ArrayMatches
  <2>2. array[i].price = input[k].price /\ input \in Lists
    BY <2>1 DEF SameFlight, Fields, Inv, Shape
  <2> DEFINE p == array[i].price
  <2>3. p \in Nat /\ p < 10 ^ 9
    BY <2>2, InputListed
  <2> HIDE DEF p
  <2>4. LET groups == Rupiah(p)
            said == [g \in DOMAIN groups |-> Number(groups[g], 10)]
        IN  /\ Number(said, 1000) = p
            /\ Len(groups[1]) \in 1 .. 3
            /\ \A g \in 2 .. Len(groups) : Len(groups[g]) = 3
    BY <2>3, RupiahSays
  <2>5. array[i].formatted = Rupiah(p)
    BY DEF p
  <2> QED
    BY <2>4, <2>5 DEF p
<1>4. Spec => []Formatted
  BY <1>1, <1>2, Invariance, PTL DEF Spec
<1> QED
  BY <1>3, <1>4, Invariance, PTL

=============================================================================
