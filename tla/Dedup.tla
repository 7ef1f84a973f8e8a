------------------------------- MODULE Dedup -------------------------------
(***************************************************************************)
(* Dedup of internal/pkg/aggregator/merge.go: the loop that collapses the  *)
(* listings of one flight by several providers into the cheapest of them.  *)
(* One step is one pass of the loop.                                       *)
(***************************************************************************)
EXTENDS Integers, Sequences

CONSTANTS
    Providers,      \* providers, numbered in the order they were configured
    Codes,          \* airline IATA codes
    Numbers,        \* flight numbers
    Timestamps,     \* departures, in Unix time
    Offsets,        \* distance of an airport's clock from UTC
    Amounts,        \* prices
    DayLength,      \* 86400 seconds in the code, in the unit of Timestamps
    MaxFlights      \* bound on the input, for model checking

ASSUME DedupAssumption ==
    /\ Providers \subseteq Nat
    /\ Timestamps \subseteq Nat \ {0}
    /\ Offsets \subseteq Int
    /\ Amounts \subseteq Nat \ {0}
    /\ DayLength \in Nat \ {0}
    /\ MaxFlights \in Nat

\* The fields of a flight that Dedup reads, with what tells its listings apart.
Flight == [provider : Providers, code : Codes, number : Numbers,
           timestamp : Timestamps, offset : Offsets, amount : Amounts]

\* The date in Departure.DateTime, which is written in the airport's own time.
LocalDay(f) == (f.timestamp + f.offset) \div DayLength

\* What searchLeg passes: the flights of one provider after those of another,
\* each on the date that was asked for, which flightMatches has compared with
\* the local one, and all from one airport, so on one clock.
Inputs ==
    {s \in UNION {[1 .. n -> Flight] : n \in 0 .. MaxFlights} :
        \A i, j \in DOMAIN s :
            /\ i < j => s[i].provider <= s[j].provider
            /\ s[i].offset = s[j].offset
            /\ LocalDay(s[i]) = LocalDay(s[j])}

VARIABLES
    flights,    \* the argument
    i,          \* the index of the flight the loop looks at next
    best,       \* where in out the flight with a key is
    out         \* the result so far

vars == <<flights, i, best, out>>

Init ==
    /\ flights \in Inputs
    /\ i = 1
    /\ best = << >>
    /\ out = << >>

\* What makes two listings the same flight: the day is that of UTC.
Key(f) == [code |-> f.code, number |-> f.number,
           tsDay |-> f.timestamp \div DayLength]

Looks == i <= Len(flights)
flight == flights[i]
Known == Key(flight) \in DOMAIN best
Cheaper == flight.amount < out[best[Key(flight)]].amount

\* Mutant: a later listing wins a tie.
ReplaceOnTie ==
    /\ Looks
    /\ Known
    /\ flight.amount <= out[best[Key(flight)]].amount
    /\ out' = [out EXCEPT ![best[Key(flight)]] = flight]
    /\ i' = i + 1
    /\ UNCHANGED <<flights, best>>

\* A cheaper listing takes the place of the one that was kept.
Replace ==
    /\ Looks
    /\ Known
    /\ Cheaper
    /\ out' = [out EXCEPT ![best[Key(flight)]] = flight]
    /\ i' = i + 1
    /\ UNCHANGED <<flights, best>>

\* Mutant: a duplicate ends the loop instead of going on with the next flight.
SkipBreaks ==
    /\ Looks
    /\ Known
    /\ ~Cheaper
    /\ i' = Len(flights) + 1
    /\ UNCHANGED <<flights, best, out>>

Skip ==
    /\ Looks
    /\ Known
    /\ ~Cheaper
    /\ i' = i + 1
    /\ UNCHANGED <<flights, best, out>>

\* Mutant: the index is taken after the append, one too high.
KeepOffByOne ==
    /\ Looks
    /\ ~Known
    /\ out' = Append(out, flight)
    /\ best' = [k \in DOMAIN best \cup {Key(flight)} |->
                    IF k = Key(flight) THEN Len(out) + 2 ELSE best[k]]
    /\ i' = i + 1
    /\ UNCHANGED flights

\* The first listing of a flight goes to the end of the result.
Keep ==
    /\ Looks
    /\ ~Known
    /\ out' = Append(out, flight)
    /\ best' = [k \in DOMAIN best \cup {Key(flight)} |->
                    IF k = Key(flight) THEN Len(out) + 1 ELSE best[k]]
    /\ i' = i + 1
    /\ UNCHANGED flights

Returned == i > Len(flights)

Next == Replace \/ Skip \/ Keep

Spec == Init /\ [][Next]_vars

-----------------------------------------------------------------------------

\* The types of the loop's variables, and where the index in best may point.
TypeOK ==
    /\ flights \in Seq(Flight)
    /\ i \in 1 .. Len(flights) + 1
    /\ out \in Seq(Flight)
    /\ best \in [DOMAIN best -> 1 .. Len(out)]

\* Listing n is the first of the cheapest listings of its flight among the
\* first `last` ones.
Cheapest(n, last) ==
    \A m \in 1 .. last :
        Key(flights[m]) = Key(flights[n]) =>
            \/ flights[n].amount < flights[m].amount
            \/ flights[n].amount = flights[m].amount /\ n <= m

\* Listing n is the first of its flight.
FirstSeen(n) ==
    \A m \in 1 .. n - 1 : Key(flights[m]) # Key(flights[n])

\* After any number of passes the result holds, for every flight listed so far,
\* its cheapest listing and no other one: nothing is lost, nothing is listed
\* twice, and the provider configured first wins a tie (merge.go:18-33).
KeepsCheapest ==
    /\ \A j, k \in 1 .. Len(out) : Key(out[j]) = Key(out[k]) => j = k
    /\ \A n \in 1 .. i - 1 : \E j \in 1 .. Len(out) : Key(out[j]) = Key(flights[n])
    /\ \A j \in 1 .. Len(out) :
           \E n \in 1 .. i - 1 : out[j] = flights[n] /\ Cheapest(n, i - 1)

\* The result is in the order in which the flights were first listed, wherever
\* the listing that was kept came from: a replacement does not move a flight.
InOrderOfAppearance ==
    \A m, n \in 1 .. i - 1 :
        m < n /\ FirstSeen(m) /\ FirstSeen(n) =>
            \E j, k \in 1 .. Len(out) :
                /\ j < k
                /\ Key(out[j]) = Key(flights[m])
                /\ Key(out[k]) = Key(flights[n])

=============================================================================
