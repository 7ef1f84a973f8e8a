------------------------------ MODULE Adapters ------------------------------
(***************************************************************************)
(* The provider adapters of internal/pkg/providers: Fetch asks an airline  *)
(* for its flights, and normalizes, validates and matches them one by one. *)
(* The airlines are the environment: each writes the trips it flies in a   *)
(* format of its own and makes the mistakes listed in Faults.  What Fetch  *)
(* returns can then be compared with the trips.  The four formats keep     *)
(* their facts in one record, in which an adapter looks at its own fields. *)
(* Time is counted in minutes.                                             *)
(***************************************************************************)
EXTENDS Integers, Sequences

CONSTANTS
    Zone,           \* airport -> the offset of its clock from UTC
    Listed,         \* the airports in the table of internal/pkg/airport
    DayLength,      \* minutes in a day
    Request,        \* the search: origin, destination, date, cabin, passengers
    Trips,          \* what the airlines fly
    Faults,         \* the mistakes they make in telling it
    MaxFlights      \* bound on the flights returned, for model checking

Airports == DOMAIN Zone
Names == {"Garuda", "Lion", "Batik", "AirAsia"}
KnownFaults == {"otherLayout", "unknownZone", "noZone", "firstLegOnly", "stopsByFlag",
                "wrongMinutes"}

\* A trip, with "untold" for a cabin that is not told (the empty string) and 0 for
\* seats that are not.
Trip == [via : Seq(Airports), dep : Int, arr : Int, price : Int, seats : Nat,
         cabin : {"untold", "economy", "business"}]

ASSUME AdaptersAssumption ==
    /\ Zone \in [Airports -> Int]
    /\ Listed \subseteq Airports
    /\ DayLength \in Nat \ {0}
    /\ Request.passengers \in Nat \ {0}
    /\ Request.cabin # "untold"
    /\ \A t \in Trips : t \in Trip /\ Len(t.via) \in 2 .. 3
    /\ Faults \subseteq KnownFaults
    /\ MaxFlights \in Nat

VARIABLES
    provider,   \* whose adapter it is
    pc,         \* "get", "loop", "done" or "failed"
    out,        \* the flights kept so far
    wanted      \* history: the trips listed so far that answer the request

vars == <<provider, pc, out, wanted>>

\* A flight that has passed Validate.
Flight == [from : Airports, to : Airports, dep : Int, arr : Int, date : Int,
           minutes : Nat \ {0}, stops : Nat, price : Nat \ {0}, seats : Nat,
           cabin : {"untold", "economy", "business"}]

-----------------------------------------------------------------------------
(* What an airline writes                                                  *)

\* The layouts an airline writes its times in: "colon" is RFC 3339, "compact"
\* has the offset without a colon, "naive" has no offset.
Writes == [Garuda |-> {"colon"}, Lion |-> {"naive"},
           Batik |-> {"compact", "colon"}, AirAsia |-> {"colon"}]

WhenFault(fault, S) == IF fault \in Faults THEN S ELSE {}

\* A time on the clock of airport a, with the offset or the name of its zone.
Stamp(a, t, form, zone) ==
    [clock |-> t + Zone[a], offset |-> Zone[a], form |-> form, zone |-> zone]

\* The legs of a trip with a stop: it lands a minute after it took off and takes
\* off again a minute before it arrives.
Legs(trip, form) ==
    LET stop == trip.via[2] IN
    << [from |-> trip.via[1], dep |-> Stamp(trip.via[1], trip.dep, form, "named"),
        to |-> stop, arr |-> Stamp(stop, trip.dep + 1, form, "named")],
       [from |-> stop, dep |-> Stamp(stop, trip.arr - 1, form, "named"),
        to |-> trip.via[3], arr |-> Stamp(trip.via[3], trip.arr, form, "named")] >>

\* Batik writes the letter of a cabin, the others its name.
Written(p, cabin) ==
    IF p # "Batik" THEN cabin
    ELSE CASE cabin = "economy" -> "Y" [] cabin = "business" -> "C" [] OTHER -> "untold"

\* What an airline may write, for each fact it may get wrong.  Garuda may tell the
\* arrival of the first leg only, and no stop, beside the segments (GA315 of its
\* test data); Lion may count a stop of a flight it flags as direct, and AirAsia
\* list none of one that it does not.
Forms(p) == Writes[p] \cup WhenFault("otherLayout", {"other"})

Zones(p) ==
    {"named"} \cup
    IF p # "Lion" THEN {}
    ELSE WhenFault("unknownZone", {"unknown"}) \cup WhenFault("noZone", {"none"})

Ends(p, last) ==
    {last} \cup IF p = "Garuda" THEN WhenFault("firstLegOnly", {2}) ELSE {}

StopsTold(p, last) ==
    {last - 2} \cup
    WhenFault("stopsByFlag", CASE p = "Garuda" /\ last = 3 -> {0}
                               [] p = "Lion" /\ last = 2 -> {1}
                               [] p = "AirAsia" /\ last = 3 -> {0}
                               [] OTHER -> {})

MinutesTold(trip) ==
    {trip.arr - trip.dep} \cup WhenFault("wrongMinutes", {0, trip.arr - trip.dep + 1})

Entry(p, trip, form, zone, end, stops, minutes) ==
    LET last == Len(trip.via) IN
    [from |-> trip.via[1],
     to |-> trip.via[end],
     dep |-> Stamp(trip.via[1], trip.dep, form, zone),
     arr |-> Stamp(trip.via[end], IF end = last THEN trip.arr ELSE trip.dep + 1, form, zone),
     segments |-> IF p = "Garuda" /\ last = 3 THEN Legs(trip, form) ELSE << >>,
     stops |-> stops,
     direct |-> last = 2,
     minutes |-> minutes,
     price |-> trip.price,
     seats |-> trip.seats,
     cabin |-> Written(p, trip.cabin)]

\* The ways airline p may list a trip.
Listings(p, trip) ==
    {Entry(p, trip, form, zone, end, stops, minutes) :
        form \in Forms(p), zone \in Zones(p), end \in Ends(p, Len(trip.via)),
        stops \in StopsTold(p, Len(trip.via)), minutes \in MinutesTold(trip)}

-----------------------------------------------------------------------------
(* What an adapter reads                                                   *)

\* The layouts each adapter can read.
Layouts == [Garuda |-> {"colon"}, Lion |-> {"naive"},
            Batik |-> {"compact", "colon"}, AirAsia |-> {"colon"}]

\* The offset of an airport by the table, which falls back on UTC.
Location(a) == IF a \in Listed THEN Zone[a] ELSE 0

\* Lion names a zone.  An unknown one is looked up by airport; none at all is
\* UTC, which time.LoadLocation returns for the empty name, without an error.
Offset(p, stamp, a) ==
    IF p # "Lion" THEN stamp.offset
    ELSE CASE stamp.zone = "named" -> stamp.offset
           [] stamp.zone = "unknown" -> Location(a)
           [] stamp.zone = "none" -> 0

Instant(p, stamp, a) == stamp.clock - Offset(p, stamp, a)

\* Mutant: the first leg of a flight with segments is taken for the whole.
GarudaRouteFirstLeg(raw) ==
    [from |-> raw.from, dep |-> raw.dep, to |-> raw.to, arr |-> raw.arr,
     stops |-> raw.stops]

\* Garuda: the ends and the stops come from the segments if there are several.
GarudaRoute(raw) ==
    LET n == Len(raw.segments) IN
    IF n > 1
    THEN [from |-> raw.segments[1].from, dep |-> raw.segments[1].dep,
          to |-> raw.segments[n].to, arr |-> raw.segments[n].arr,
          stops |-> n - 1]
    ELSE [from |-> raw.from, dep |-> raw.dep, to |-> raw.to, arr |-> raw.arr,
          stops |-> raw.stops]

LionStops(raw) == IF raw.direct THEN 0 ELSE raw.stops

BatikStops(raw) == raw.stops

\* AirAsia: a flight that is not direct and lists no stop has one.
AirAsiaStops(raw) ==
    IF raw.direct THEN 0 ELSE IF raw.stops > 0 THEN raw.stops ELSE 1

Route(p, raw) ==
    IF p = "Garuda" THEN GarudaRoute(raw)
    ELSE [from |-> raw.from, dep |-> raw.dep, to |-> raw.to, arr |-> raw.arr,
          stops |-> CASE p = "Lion" -> LionStops(raw)
                      [] p = "Batik" -> BatikStops(raw)
                      [] p = "AirAsia" -> AirAsiaStops(raw)]

\* Mutant: the provider's own duration is preferred.
MinutesAsTold(told, computed) == IF told > 0 THEN told ELSE computed

\* The duration is computed; the one told stands in when that is not positive.
Minutes(told, computed) == IF computed > 0 THEN computed ELSE told

NormalizeCabin(v) == CASE v = "Y" -> "economy" [] v = "C" -> "business" [] OTHER -> v

\* The names of cabins of Garuda are passed on as they are.
Cabin(p, v) == IF p = "Garuda" THEN v ELSE NormalizeCabin(v)

Readable(p, raw) ==
    /\ Route(p, raw).dep.form \in Layouts[p]
    /\ Route(p, raw).arr.form \in Layouts[p]

Normalized(p, raw) ==
    LET r == Route(p, raw)
        dep == Instant(p, r.dep, r.from)
        arr == Instant(p, r.arr, r.to)
    IN  [from |-> r.from, to |-> r.to, dep |-> dep, arr |-> arr,
         date |-> r.dep.clock \div DayLength,
         minutes |-> Minutes(raw.minutes, arr - dep), stops |-> r.stops,
         price |-> raw.price, seats |-> raw.seats, cabin |-> Cabin(p, raw.cabin)]

\* Mutant: the price is not looked at.
ValidatesTimes(f) == f.dep # 0 /\ f.arr > f.dep /\ f.minutes > 0 /\ f.stops >= 0

\* Flight.Validate.
Validates(f) ==
    /\ f.dep # 0 /\ f.arr # 0
    /\ f.arr > f.dep
    /\ f.price > 0
    /\ f.minutes > 0
    /\ f.stops >= 0

\* flightMatches: an airline that tells no cabin or no seats is given the benefit
\* of the doubt.
FlightMatches(f) ==
    /\ f.from = Request.origin
    /\ f.to = Request.destination
    /\ f.date = Request.date
    /\ f.cabin # "untold" => f.cabin = Request.cabin
    /\ f.seats > 0 => f.seats >= Request.passengers

Kept(p, raw) ==
    /\ Readable(p, raw)
    /\ Validates(Normalized(p, raw))
    /\ FlightMatches(Normalized(p, raw))

-----------------------------------------------------------------------------
(* What the request asks for                                               *)

\* A trip as a flight, the way it is flown.
Flown(trip) ==
    LET from == trip.via[1]  to == trip.via[Len(trip.via)]
    IN  [from |-> from, to |-> to, dep |-> trip.dep, arr |-> trip.arr,
         date |-> (trip.dep + Zone[from]) \div DayLength,
         minutes |-> trip.arr - trip.dep, stops |-> Len(trip.via) - 2,
         price |-> trip.price, seats |-> trip.seats, cabin |-> trip.cabin]

\* The trip can be true, and it is one the traveller asked for: on that day where
\* it takes off, in that cabin and with room, unless nothing is said of those.
Answers(trip) ==
    LET f == Flown(trip) IN
    /\ f.dep # 0 /\ f.arr # 0 /\ f.dep < f.arr /\ f.price > 0
    /\ <<f.from, f.to, f.date>> = <<Request.origin, Request.destination, Request.date>>
    /\ f.cabin \in {"untold", Request.cabin}
    /\ f.seats \notin 1 .. Request.passengers - 1

-----------------------------------------------------------------------------
(* Fetch                                                                   *)

Init ==
    /\ provider \in Names
    /\ pc = "get"
    /\ out = << >>
    /\ wanted = << >>

\* No answer, a status other than 200, or a body that cannot be decoded.
Refuse ==
    /\ pc = "get"
    /\ pc' = "failed"
    /\ UNCHANGED <<provider, out, wanted>>

Decode ==
    /\ pc = "get"
    /\ pc' = "loop"
    /\ UNCHANGED <<provider, out, wanted>>

Listing(trip, raw) ==
    /\ pc = "loop"
    /\ Len(wanted) < MaxFlights /\ Len(out) < MaxFlights
    /\ wanted' = IF Answers(trip) /\ raw.dep.form \in Writes[provider]
                 THEN Append(wanted, Flown(trip)) ELSE wanted

\* A flight that cannot be read, does not validate or does not match.
Drop(trip, raw) ==
    /\ Listing(trip, raw)
    /\ ~Kept(provider, raw)
    /\ UNCHANGED <<provider, pc, out>>

Keep(trip, raw) ==
    /\ Listing(trip, raw)
    /\ Kept(provider, raw)
    /\ out' = Append(out, Normalized(provider, raw))
    /\ UNCHANGED <<provider, pc>>

Return ==
    /\ pc = "loop"
    /\ pc' = "done"
    /\ UNCHANGED <<provider, out, wanted>>

Next ==
    \/ Refuse
    \/ Decode
    \/ \E trip \in Trips : \E raw \in Listings(provider, trip) :
           Drop(trip, raw) \/ Keep(trip, raw)
    \/ Return

Spec == Init /\ [][Next]_vars

-----------------------------------------------------------------------------

\* What is returned has passed Validate.
TypeOK ==
    /\ provider \in Names
    /\ pc \in {"get", "loop", "done", "failed"}
    /\ out \in Seq(Flight)
    /\ wanted \in Seq(Flight)

\* A flight that Fetch returns is one that is flown and was asked for: its
\* airports, times, duration, stops and cabin are the true ones, in spite of the
\* mistakes in the listing (garuda.go:91-107, lion.go:96-120).
NothingInvented ==
    \A k \in 1 .. Len(out) : \E n \in 1 .. Len(wanted) : out[k] = wanted[n]

\* Every legible listing of a flight that was asked for is returned, in the order
\* of the listings and whatever is dropped before it (garuda.go:72-81 and the
\* loops like it).
NothingMissed ==
    \A n \in 1 .. Len(wanted) : n <= Len(out) /\ out[n] = wanted[n]

\* What README.md:216 says of an airline that names no zone: the table of
\* airports is "a fallback for any provider that doesn't supply a timezone at
\* all", so that its flights leave when they do.
NoZoneIsLookedUp ==
    \A k \in 1 .. Len(out) : \E n \in 1 .. Len(wanted) : out[k].dep = wanted[n].dep
=============================================================================
