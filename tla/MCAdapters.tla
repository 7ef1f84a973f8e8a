----------------------------- MODULE MCAdapters -----------------------------
(***************************************************************************)
(* Trips for Adapters.  A day is six minutes long and Jakarta is a minute  *)
(* ahead of UTC, so the minute 5 is in day 1 there and in day 0 of UTC.    *)
(***************************************************************************)
EXTENDS Adapters

MCZone == [CGK |-> 1, SUB |-> 1, DPS |-> 2]

MCRequest == [origin |-> "CGK", destination |-> "DPS", date |-> 1,
              cabin |-> "economy", passengers |-> 2]

Direct == <<"CGK", "DPS">>
OneStop == <<"CGK", "SUB", "DPS">>

Good == [via |-> Direct, dep |-> 5, arr |-> 8, price |-> 1, seats |-> 2, cabin |-> "economy"]

\* Trips that differ from a good one in a few respects each.
MCTrips ==
    {[Good EXCEPT !.via = via, !.dep = dep, !.arr = dep + 3, !.cabin = cabin] :
        via \in {Direct, OneStop}, dep \in {4, 5, 9}, cabin \in {"untold", "economy", "business"}}
    \cup {[Good EXCEPT !.via = via, !.seats = seats, !.price = price, !.arr = arr] :
            via \in {Direct, OneStop}, seats \in {0, 1}, price \in {0, 1}, arr \in {5, 8}}
    \cup {[Good EXCEPT !.via = via] : via \in {<<"CGK", "SUB">>, <<"SUB", "DPS">>,
                                               <<"CGK", "DPS", "SUB">>, <<"DPS", "CGK">>}}

Handled == {"otherLayout", "unknownZone", "firstLegOnly", "stopsByFlag",
            "wrongMinutes"}
=============================================================================
