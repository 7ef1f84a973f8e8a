--------------------------- MODULE AdaptersProofs ---------------------------
(***************************************************************************)
(* Proofs about Adapters, for every set of trips, every clock of every     *)
(* airport and every mistake but one: a listing that names no zone.        *)
(***************************************************************************)
EXTENDS Adapters, TLAPS

\* The adapters can make up for what is missing: a zone is named, and one that is
\* not known is that of an airport in the table.
Recoverable ==
    /\ "noZone" \notin Faults
    /\ Request.origin \in Listed
    /\ Request.destination \in Listed

LEMMA TripFacts ==
  ASSUME NEW trip \in Trips
  PROVE  /\ trip.via \in Seq(Airports)
         /\ Len(trip.via) \in 2 .. 3
         /\ trip.via[1] \in Airports
         /\ trip.via[2] \in Airports
         /\ trip.via[Len(trip.via)] \in Airports
         /\ trip.dep \in Int /\ trip.arr \in Int /\ trip.price \in Int
         /\ trip.seats \in Nat /\ trip.cabin \in {"untold", "economy", "business"}
<1>1. trip \in Trip /\ Len(trip.via) \in 2 .. 3
  BY AdaptersAssumption
<1>2. trip.via \in Seq(Airports)
  BY <1>1 DEF Trip
<1>3. \A k \in 1 .. Len(trip.via) : trip.via[k] \in Airports
  BY <1>2
<1> QED
  BY <1>1, <1>2, <1>3 DEF Trip

Layout == {"colon", "compact", "naive", "other"}

\* A time that an airport's clock showed is read back as the instant it was,
\* whether its offset is told, named, or looked up.
LEMMA InstantIsTrue ==
  ASSUME NEW p \in Names, NEW a \in Airports, NEW t \in Int, NEW form \in Layout,
         NEW zone \in {"named", "unknown"},
         p # "Lion" => zone = "named",
         zone = "unknown" => a \in Listed
  PROVE  Instant(p, Stamp(a, t, form, zone), a) = t
<1>1. Zone[a] \in Int
  BY AdaptersAssumption DEF Airports
<1>2. CASE p # "Lion"
  BY <1>1, <1>2 DEF Instant, Offset, Stamp
<1>3. CASE p = "Lion" /\ zone = "named"
  BY <1>1, <1>3 DEF Instant, Offset, Stamp
<1>4. CASE p = "Lion" /\ zone = "unknown"
  BY <1>1, <1>4 DEF Instant, Offset, Stamp, Location
<1> QED
  BY <1>2, <1>3, <1>4

\* What a listing holds, and what the adapter makes of its route: the true ends
\* of the trip, with the stamps the airline wrote there, and the true stops.
LEMMA RouteIsTrue ==
  ASSUME NEW p \in Names, NEW trip \in Trips, NEW raw \in Listings(p, trip),
         "noZone" \notin Faults
  PROVE  \E form, zone, minutes :
            /\ form \in Layout
            /\ zone \in {"named", "unknown"}
            /\ p # "Lion" => zone = "named"
            /\ raw.minutes = minutes /\ minutes \in Int
            /\ raw.price = trip.price /\ raw.seats = trip.seats
            /\ raw.cabin = Written(p, trip.cabin)
            /\ raw.dep.form = form
            /\ Route(p, raw).from = trip.via[1]
            /\ Route(p, raw).to = trip.via[Len(trip.via)]
            /\ Route(p, raw).stops = Len(trip.via) - 2
            /\ Route(p, raw).dep = Stamp(trip.via[1], trip.dep, form, zone)
            /\ Route(p, raw).arr = Stamp(trip.via[Len(trip.via)], trip.arr, form, zone)
<1> DEFINE last == Len(trip.via)
<1>0. last \in 2 .. 3 /\ trip.dep \in Int /\ trip.arr \in Int
  BY TripFacts
<1>1. PICK form \in Forms(p), zone \in Zones(p), end \in Ends(p, last),
           stops \in StopsTold(p, last), minutes \in MinutesTold(trip) :
        raw = Entry(p, trip, form, zone, end, stops, minutes)
  BY DEF Listings
<1>2. /\ form \in Layout
      /\ zone \in {"named", "unknown"}
      /\ p # "Lion" => zone = "named"
      /\ minutes \in Int
  BY <1>0 DEF WhenFault, Forms, Zones, MinutesTold, Writes, Names, Layout
<1>3. /\ raw.minutes = minutes /\ raw.price = trip.price /\ raw.seats = trip.seats
      /\ raw.cabin = Written(p, trip.cabin)
      /\ raw.dep.form = form
  BY <1>1 DEF Entry, Stamp
<1>4. /\ Route(p, raw).from = trip.via[1]
      /\ Route(p, raw).to = trip.via[last]
      /\ Route(p, raw).stops = last - 2
      /\ Route(p, raw).dep = Stamp(trip.via[1], trip.dep, form, zone)
      /\ Route(p, raw).arr = Stamp(trip.via[last], trip.arr, form, zone)
  <2>1. CASE p = "Garuda" /\ last = 3
    <3>1. raw.segments = Legs(trip, form) /\ zone = "named"
      BY <1>1, <1>2, <2>1 DEF Entry
    <3>2. Route(p, raw) =
             [from |-> raw.segments[1].from, dep |-> raw.segments[1].dep,
              to |-> raw.segments[2].to, arr |-> raw.segments[2].arr, stops |-> 1]
      BY <2>1, <3>1 DEF Route, GarudaRoute, Legs
    <3> QED
      BY <2>1, <3>1, <3>2 DEF Legs
  <2>2. CASE p = "Garuda" /\ last = 2
    <3>1. raw.segments = << >> /\ end = last /\ stops = 0
      BY <1>1, <2>2 DEF Entry, WhenFault, Ends, StopsTold
    <3> QED
      BY <1>1, <2>2, <3>1 DEF Route, GarudaRoute, Entry
  <2>3. CASE p = "Lion"
    <3>1. end = last /\ (raw.direct <=> last = 2)
      BY <1>1, <2>3 DEF Ends, Entry
    <3>2. last = 3 => stops = 1
      BY <2>3 DEF WhenFault, StopsTold
    <3>3. LionStops(raw) = last - 2
      <4>1. CASE last = 2
        BY <3>1, <4>1 DEF LionStops
      <4>2. CASE last = 3
        BY <1>1, <3>1, <3>2, <4>2 DEF LionStops, Entry
      <4> QED
        BY <1>0, <4>1, <4>2
    <3> QED
      BY <1>1, <2>3, <3>1, <3>3 DEF Route, Entry
  <2>4. CASE p = "Batik"
    <3>1. end = last /\ stops = last - 2
      BY <1>1, <2>4 DEF WhenFault, Ends, StopsTold
    <3> QED
      BY <1>1, <2>4, <3>1 DEF Route, BatikStops, Entry
  <2>5. CASE p = "AirAsia"
    <3>1. end = last /\ (raw.direct <=> last = 2)
      BY <1>1, <2>5 DEF Ends, Entry
    <3>2. last = 3 => stops \in {0, 1}
      BY <2>5 DEF WhenFault, StopsTold
    <3>3. AirAsiaStops(raw) = last - 2
      <4>1. CASE last = 2
        BY <3>1, <4>1 DEF AirAsiaStops
      <4>2. CASE last = 3
        BY <1>1, <3>1, <3>2, <4>2 DEF AirAsiaStops, Entry
      <4> QED
        BY <1>0, <4>1, <4>2
    <3> QED
      BY <1>1, <2>5, <3>1, <3>3 DEF Route, Entry
  <2> QED
    BY <1>0, <2>1, <2>2, <2>3, <2>4, <2>5 DEF Names
<1> HIDE DEF last
<1> QED
  BY <1>2, <1>3, <1>4 DEF last

-----------------------------------------------------------------------------
(* One listing                                                             *)

LEMMA CabinIsTrue ==
  ASSUME NEW p \in Names, NEW c \in {"untold", "economy", "business"}
  PROVE  Cabin(p, Written(p, c)) = c
<1>1. CASE p = "Batik" /\ c = "economy"
  BY <1>1 DEF Cabin, Written, NormalizeCabin
<1>2. CASE p = "Batik" /\ c = "business"
  BY <1>2 DEF Cabin, Written, NormalizeCabin
<1>3. CASE p = "Batik" /\ c = "untold"
  BY <1>3 DEF Cabin, Written, NormalizeCabin
<1>4. CASE p # "Batik"
  BY <1>4 DEF Cabin, Written, NormalizeCabin
<1> QED
  BY <1>1, <1>2, <1>3, <1>4

\* All of a normalized listing but its times is true whoever listed the trip, and
\* the times are if the zones at its ends can be recovered.
LEMMA NormalizedIsTrue ==
  ASSUME NEW p \in Names, NEW trip \in Trips, NEW raw \in Listings(p, trip),
         "noZone" \notin Faults
  PROVE  LET f == Normalized(p, raw)  g == Flown(trip) IN
         /\ f.from = g.from /\ f.to = g.to /\ f.date = g.date /\ f.stops = g.stops
         /\ f.price = g.price /\ f.seats = g.seats /\ f.cabin = g.cabin
         /\ g.from \in Listed /\ g.to \in Listed =>
                /\ f.dep = g.dep
                /\ f.arr = g.arr
                /\ g.dep < g.arr => f = g
         /\ Readable(p, raw) <=> raw.dep.form \in Writes[p]
<1> DEFINE from == trip.via[1]
           to == trip.via[Len(trip.via)]
           r == Route(p, raw)
<1>1. PICK form, zone, minutes :
        /\ form \in Layout
        /\ zone \in {"named", "unknown"}
        /\ p # "Lion" => zone = "named"
        /\ raw.minutes = minutes /\ minutes \in Int
        /\ raw.price = trip.price /\ raw.seats = trip.seats
        /\ raw.cabin = Written(p, trip.cabin)
        /\ raw.dep.form = form
        /\ r.from = from
        /\ r.to = to
        /\ r.stops = Len(trip.via) - 2
        /\ r.dep = Stamp(from, trip.dep, form, zone)
        /\ r.arr = Stamp(to, trip.arr, form, zone)
  BY RouteIsTrue
<1>2. /\ from \in Airports /\ to \in Airports
      /\ trip.dep \in Int /\ trip.arr \in Int
      /\ trip.cabin \in {"untold", "economy", "business"}
  BY TripFacts
<1> HIDE DEF from, to, r
<1> DEFINE takeoff == Instant(p, r.dep, r.from)
           landing == Instant(p, r.arr, r.to)
<1>3. Normalized(p, raw) =
        [from |-> r.from, to |-> r.to, dep |-> takeoff, arr |-> landing,
         date |-> r.dep.clock \div DayLength,
         minutes |-> Minutes(raw.minutes, landing - takeoff), stops |-> r.stops,
         price |-> raw.price, seats |-> raw.seats, cabin |-> Cabin(p, raw.cabin)]
  BY DEF Normalized, r
<1>4. Flown(trip) =
        [from |-> from, to |-> to, dep |-> trip.dep, arr |-> trip.arr,
         date |-> (trip.dep + Zone[from]) \div DayLength,
         minutes |-> trip.arr - trip.dep, stops |-> Len(trip.via) - 2,
         price |-> trip.price, seats |-> trip.seats, cabin |-> trip.cabin]
  BY DEF Flown, from, to
<1>5. r.dep.clock = trip.dep + Zone[from]
  BY <1>1 DEF Stamp
<1>6. Cabin(p, raw.cabin) = trip.cabin
  BY <1>1, <1>2, CabinIsTrue
<1>7. ASSUME from \in Listed, to \in Listed
      PROVE  takeoff = trip.dep /\ landing = trip.arr
  <2>1. /\ takeoff = Instant(p, Stamp(from, trip.dep, form, zone), from)
        /\ landing = Instant(p, Stamp(to, trip.arr, form, zone), to)
    BY <1>1
  <2> QED
    BY <1>1, <1>2, <1>7, <2>1, InstantIsTrue
<1> HIDE DEF takeoff, landing
<1>8. ASSUME from \in Listed, to \in Listed, trip.dep < trip.arr
      PROVE  Minutes(raw.minutes, landing - takeoff) = trip.arr - trip.dep
  <2>1. takeoff = trip.dep /\ landing = trip.arr /\ landing - takeoff > 0
    BY <1>2, <1>7, <1>8
  <2> QED
    BY <2>1 DEF Minutes
<1>9. Readable(p, raw) <=> raw.dep.form \in Writes[p]
  <2>1. Layouts[p] = Writes[p]
    BY DEF Layouts, Writes, Names
  <2>2. r.dep.form = form /\ r.arr.form = form
    BY <1>1 DEF Stamp
  <2> QED
    BY <1>1, <2>1, <2>2 DEF Readable, r
<1>10. ASSUME from \in Listed, to \in Listed
       PROVE  /\ Normalized(p, raw).dep = Flown(trip).dep
              /\ Normalized(p, raw).arr = Flown(trip).arr
              /\ Flown(trip).dep < Flown(trip).arr => Normalized(p, raw) = Flown(trip)
  BY <1>1, <1>3, <1>4, <1>5, <1>6, <1>7, <1>8, <1>10
<1>11. /\ Normalized(p, raw).from = Flown(trip).from
       /\ Normalized(p, raw).to = Flown(trip).to
       /\ Normalized(p, raw).date = Flown(trip).date
       /\ Normalized(p, raw).stops = Flown(trip).stops
       /\ Normalized(p, raw).price = Flown(trip).price
       /\ Normalized(p, raw).seats = Flown(trip).seats
       /\ Normalized(p, raw).cabin = Flown(trip).cabin
  BY <1>1, <1>3, <1>4, <1>5, <1>6
<1> QED
  BY <1>4, <1>9, <1>10, <1>11

\* A trip that can be true and answers the request is a flight that validates.
LEMMA FlownIsFlight ==
  ASSUME NEW trip \in Trips, Answers(trip)
  PROVE  Flown(trip) \in Flight
<1> DEFINE from == trip.via[1]
           to == trip.via[Len(trip.via)]
<1>1. /\ from \in Airports /\ to \in Airports
      /\ Len(trip.via) \in 2 .. 3
      /\ trip.dep \in Int /\ trip.arr \in Int /\ trip.price \in Int
      /\ trip.seats \in Nat /\ trip.cabin \in {"untold", "economy", "business"}
  BY TripFacts
<1>2. Zone[from] \in Int /\ DayLength \in Nat \ {0}
  BY <1>1, AdaptersAssumption DEF Airports
<1>3. trip.dep < trip.arr /\ trip.price > 0
  BY DEF Answers, Flown
<1>4. (trip.dep + Zone[from]) \div DayLength \in Int
  <2>1. trip.dep + Zone[from] \in Int
    BY <1>1, <1>2
  <2> HIDE DEF from
  <2> QED
    BY <1>2, <2>1
<1>5. /\ trip.arr - trip.dep \in Nat \ {0}
      /\ Len(trip.via) - 2 \in Nat
      /\ trip.price \in Nat \ {0}
  <2>1. Len(trip.via) \in 2 .. 3
    BY TripFacts
  <2>2. Len(trip.via) - 2 \in Nat
    <3>1. ASSUME NEW n \in 2 .. 3 PROVE n - 2 \in Nat
      OBVIOUS
    <3> QED
      BY <2>1, <3>1, Zenon
  <2>3. trip.arr - trip.dep \in Nat \ {0} /\ trip.price \in Nat \ {0}
    BY <1>1, <1>3
  <2> QED
    BY <2>2, <2>3
<1> QED
  BY <1>1, <1>4, <1>5 DEF Flown, Flight

\* What the adapter keeps is what was asked for, and it is kept as it is flown.
LEMMA KeptIsAnswer ==
  ASSUME Recoverable,
         NEW p \in Names, NEW trip \in Trips, NEW raw \in Listings(p, trip)
  PROVE  /\ Kept(p, raw) <=> Answers(trip) /\ raw.dep.form \in Writes[p]
         /\ Kept(p, raw) => Normalized(p, raw) = Flown(trip)
<1> DEFINE f == Normalized(p, raw)
           g == Flown(trip)
<1>1. /\ f.from = g.from /\ f.to = g.to /\ f.date = g.date
      /\ g.from \in Listed /\ g.to \in Listed =>
             /\ f.dep = g.dep
             /\ f.arr = g.arr
             /\ g.dep < g.arr => f = g
      /\ Readable(p, raw) <=> raw.dep.form \in Writes[p]
  BY NormalizedIsTrue DEF Recoverable
<1>2. /\ g.dep \in Int /\ g.arr \in Int /\ g.seats \in Nat
      /\ Request.passengers \in Nat \ {0}
  BY TripFacts, AdaptersAssumption DEF Flown
<1>3. Kept(p, raw) => f = g
  <2> SUFFICES ASSUME Kept(p, raw) PROVE f = g
    OBVIOUS
  <2>1. g.from \in Listed /\ g.to \in Listed
    BY <1>1 DEF Kept, FlightMatches, Recoverable
  <2>2. f.dep = g.dep /\ f.arr = g.arr /\ f.arr > f.dep
    BY <1>1, <2>1 DEF Kept, Validates
  <2>3. g.dep < g.arr
    BY <1>2, <2>2
  <2> QED
    BY <1>1, <2>1, <2>3
<1>4. Answers(trip) => f = g
  <2> SUFFICES ASSUME Answers(trip) PROVE f = g
    OBVIOUS
  <2>1. g.from = Request.origin /\ g.to = Request.destination /\ g.dep < g.arr
    BY DEF Answers
  <2> QED
    BY <1>1, <2>1 DEF Recoverable
<1>5. g.seats \notin 1 .. Request.passengers - 1
        <=> (g.seats > 0 => g.seats >= Request.passengers)
  BY <1>2
<1>6. ASSUME Validates(g), FlightMatches(g)
      PROVE  Answers(trip)
  <2>1. g.dep < g.arr
    BY <1>2, <1>6 DEF Validates
  <2> QED
    BY <1>5, <1>6, <2>1 DEF Validates, FlightMatches, Answers
<1>7. ASSUME Answers(trip)
      PROVE  Validates(g) /\ FlightMatches(g)
  <2>1. g \in Flight
    BY <1>7, FlownIsFlight
  <2>2. g.minutes > 0 /\ g.stops >= 0 /\ g.arr > g.dep
    <3>1. g.minutes \in Nat \ {0} /\ g.stops \in Nat
      BY <2>1 DEF Flight
    <3>2. g.dep < g.arr
      BY <1>7 DEF Answers
    <3> QED
      BY <1>2, <3>1, <3>2
  <2>3. Validates(g)
    BY <1>7, <2>2 DEF Answers, Validates
  <2>4. FlightMatches(g)
    BY <1>5, <1>7 DEF Answers, FlightMatches
  <2> QED
    BY <2>3, <2>4
<1> HIDE DEF f, g
<1>8. Kept(p, raw) <=> Readable(p, raw) /\ Validates(f) /\ FlightMatches(f)
  BY DEF Kept, f
<1> QED
  BY <1>1, <1>3, <1>4, <1>6, <1>7, <1>8 DEF f, g

-----------------------------------------------------------------------------
(* Fetch                                                                   *)

\* The flights kept are the trips wanted, one by one.
Inv ==
    /\ TypeOK
    /\ out = wanted

LEMMA InvInit == Init => Inv
BY DEF Init, Inv, TypeOK

LEMMA InvStep == Recoverable /\ Inv /\ [Next]_vars => Inv'
<1> SUFFICES ASSUME Recoverable, Inv, [Next]_vars PROVE Inv'
  OBVIOUS
<1>1. CASE Refuse
  BY <1>1 DEF Refuse, Inv, TypeOK
<1>2. CASE Decode
  BY <1>2 DEF Decode, Inv, TypeOK
<1>3. ASSUME NEW trip \in Trips, NEW raw \in Listings(provider, trip), Drop(trip, raw)
      PROVE  Inv'
  <2>1. provider \in Names
    BY DEF Inv, TypeOK
  <2>2. ~(Answers(trip) /\ raw.dep.form \in Writes[provider])
    BY <1>3, <2>1, KeptIsAnswer DEF Drop
  <2>3. wanted' = wanted
    BY <1>3, <2>2 DEF Drop, Listing
  <2> QED
    BY <1>3, <2>3 DEF Drop, Inv, TypeOK
<1>4. ASSUME NEW trip \in Trips, NEW raw \in Listings(provider, trip), Keep(trip, raw)
      PROVE  Inv'
  <2>1. provider \in Names
    BY DEF Inv, TypeOK
  <2>2. /\ Answers(trip) /\ raw.dep.form \in Writes[provider]
        /\ Normalized(provider, raw) = Flown(trip)
    BY <1>4, <2>1, KeptIsAnswer DEF Keep
  <2>3. out' = Append(out, Flown(trip)) /\ wanted' = Append(wanted, Flown(trip))
    BY <1>4, <2>2 DEF Keep, Listing
  <2>4. Flown(trip) \in Flight
    BY <2>2, FlownIsFlight
  <2>5. out' \in Seq(Flight) /\ wanted' \in Seq(Flight)
    BY <2>3, <2>4 DEF Inv, TypeOK
  <2> QED
    BY <1>4, <2>3, <2>5 DEF Keep, Inv, TypeOK
<1>5. CASE Return
  BY <1>5 DEF Return, Inv, TypeOK
<1>6. CASE UNCHANGED vars
  BY <1>6 DEF vars, Inv, TypeOK
<1> QED
  BY <1>1, <1>2, <1>3, <1>4, <1>5, <1>6 DEF Next

LEMMA Invariance ==
  ASSUME Recoverable
  PROVE  Spec => []Inv
<1>1. Inv /\ [Next]_vars => Inv'
  BY InvStep
<1> QED
  BY InvInit, <1>1, PTL DEF Spec

\* What Fetch returns validates.
THEOREM TypeCorrect ==
  ASSUME Recoverable
  PROVE  Spec => []TypeOK
<1>1. Inv => TypeOK
  BY DEF Inv
<1> QED
  BY <1>1, Invariance, PTL

\* Whatever the airline gets wrong, but for a zone it does not name, each flight
\* that Fetch returns is one that is flown and was asked for.
THEOREM NothingIsInvented ==
  ASSUME Recoverable
  PROVE  Spec => []NothingInvented
<1>1. Inv => NothingInvented
  BY DEF Inv, NothingInvented
<1> QED
  BY <1>1, Invariance, PTL

\* And no legible listing of a flight that was asked for is missing.
THEOREM NothingIsMissed ==
  ASSUME Recoverable
  PROVE  Spec => []NothingMissed
<1>1. Inv => NothingMissed
  BY DEF Inv, TypeOK, NothingMissed
<1> QED
  BY <1>1, Invariance, PTL
=============================================================================
