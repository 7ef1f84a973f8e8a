----------------------------- MODULE MCService -----------------------------
(***************************************************************************)
(* Bodies for Service: plain and filtered requests for one leg, typed in   *)
(* both cases and with the cabin left to its default; a round trip over    *)
(* it, and a request for one leg whose cabin has a bar and looks like it;  *)
(* a request for its way back alone; for another day; for two people; from *)
(* an airport to itself, typed in two cases; and some that do not          *)
(* validate.                                                               *)
(***************************************************************************)
EXTENDS Service, TLC

MCAirlines == <<"garuda", "lion">>

MCPrice == [garuda |-> 2, lion |-> 1]

Upper ==
    [x \in {"CGK", "DPS", "cgk", "dps"} |->
        CASE x = "cgk" -> "CGK" [] x = "dps" -> "DPS" [] OTHER -> x]

Lower == [x \in {"economy", "Economy", "economy|d2"} |-> IF x = "Economy" THEN "economy" ELSE x]

Parts ==
    [x \in {"CGK", "DPS", "economy", "economy|d2"} |->
        IF x = "economy|d2" THEN <<"economy", "d2">> ELSE <<x>>]

MCPrinted == [n \in 0 .. 2 |-> "p=" \o ToString(n)]

OneWay ==
    [from |-> "CGK", to |-> "DPS", date |-> "d1", ret |-> "nil", passengers |-> 1,
     cabin |-> "economy", filtered |-> FALSE, sortOrder |-> "asc"]

Filtered ==
    [OneWay EXCEPT !.filtered = TRUE, !.from = "cgk", !.to = "dps", !.cabin = "Economy"]

RoundTrip == [OneWay EXCEPT !.ret = "d2", !.sortOrder = "desc", !.cabin = ""]

Barred == [OneWay EXCEPT !.cabin = "economy|d2"]

WayBack == [OneWay EXCEPT !.from = "DPS", !.to = "CGK", !.date = "d2", !.filtered = TRUE]

NextDay == [OneWay EXCEPT !.date = "d2", !.ret = ""]

Couple == [OneWay EXCEPT !.passengers = 2, !.cabin = ""]

Nowhere == [OneWay EXCEPT !.to = "cgk"]

Invalid ==
    {[OneWay EXCEPT !.to = "CGK"], [OneWay EXCEPT !.from = ""], [OneWay EXCEPT !.date = "x"],
     [OneWay EXCEPT !.ret = "x"], [OneWay EXCEPT !.passengers = 0]}

AllRequests ==
    {OneWay, Filtered, RoundTrip, Barred, WayBack, NextDay, Couple, Nowhere} \cup Invalid

OneLeg == {OneWay, Filtered}

\* No definition tells one goroutine from another.
Symmetry == Permutations(Threads)

=============================================================================
