--------------------------- MODULE MCPresentation ---------------------------
(***************************************************************************)
(* Flights for Presentation: two of them tie in the price, two in the      *)
(* number of minutes, and two airlines share a name in different letters;  *)
(* they depart and arrive on either side of midnight, UTC.                 *)
(***************************************************************************)
EXTENDS Presentation, TLC

CONSTANT MaxFlights     \* how many a search may find

Midnight == 1765756800  \* 2025-12-15T00:00:00Z

At(hour, minute) == Midnight + 3600 * hour + 60 * minute

Flight(id, price, mins, stops, dep, code, name) ==
    [id |-> id, price |-> price, mins |-> mins, stops |-> stops, dep |-> dep,
     arr |-> dep + 60 * mins, code |-> code, name |-> name,
     score |-> 0, formatted |-> << >>]

Catalogue ==
    {Flight("GA1", 1000002, 60, 0, At(0, 0), "GA", "Garuda"),
     Flight("JT1", 999999, 61, 2, At(22, 59), "JT", "Lion"),
     Flight("QZ1", 999999, 60, 0, At(21, 59), "QZ", "AirAsia"),
     Flight("ID1", 1000000, 64, 1, At(2, 59), "ID", "AIRASIA"),
     Flight("ID2", 1000002, 65, 3, At(3, 0), "ID", "Batik")}

MCLists ==
    UNION {{s \in [1 .. n -> Catalogue] : \A i, j \in 1 .. n : s[i] = s[j] => i = j} :
               n \in 0 .. MaxFlights}

Upper ==
    [x \in {"GA", "JT", "QZ", "ID", "GARUDA", "LION", "AIRASIA", "BATIK", ""} |-> x]
        @@ "Garuda" :> "GARUDA" @@ "Lion" :> "LION" @@ "AirAsia" :> "AIRASIA"
        @@ "Batik" :> "BATIK" @@ "jt" :> "JT" @@ "airasia" :> "AIRASIA"

Trim ==
    [x \in DOMAIN Upper |-> x] @@ " airasia " :> "airasia" @@ "  " :> ""

AskNothing ==
    [minPrice |-> 0, maxPrice |-> 0, maxStops |-> {}, maxMins |-> 0,
     airlines |-> {}, depWindow |-> {}, arrWindow |-> {}]

Window(a, b) == {[from |-> a, to |-> b]}

SomeFilters ==
    {AskNothing,
     [AskNothing EXCEPT !.minPrice = 1000000],
     [AskNothing EXCEPT !.minPrice = 1000000, !.maxPrice = 999999],
     [AskNothing EXCEPT !.maxPrice = 1000000, !.maxMins = 61],
     [AskNothing EXCEPT !.maxStops = {0}],
     [AskNothing EXCEPT !.maxStops = {1}, !.airlines = {"jt", "GA", " airasia "}],
     [AskNothing EXCEPT !.airlines = {"  "}],
     [AskNothing EXCEPT !.depWindow = Window(22, 2)],
     [AskNothing EXCEPT !.depWindow = Window(0, 2), !.maxStops = {1}],
     [AskNothing EXCEPT !.arrWindow = Window(23, 1)],
     [AskNothing EXCEPT !.arrWindow = Window(4, 4), !.airlines = {"ID"}]}

Ask(F, by, order) == [filters |-> F, sortBy |-> by, sortOrder |-> order]

MCRequests ==
    {Ask({F}, "", "") : F \in SomeFilters}
        \cup {Ask({}, by, order) :
                  by \in {"price", "duration", "departure_time", "arrival_time", "best_value"},
                  order \in {"asc", "desc"}}
        \cup {Ask({[AskNothing EXCEPT !.maxStops = {1}]}, "best_value", ""), Ask({}, "name", "up")}

MCWeights == [price |-> 6, mins |-> 3, stops |-> 1]

=============================================================================
