------------------------------- MODULE Search -------------------------------
(***************************************************************************)
(* What the service promises: requests that are answered one leg after the *)
(* other, each leg at one instant, from a valid entry of the cache or from *)
(* the airlines.  There are no slices and no arrays.  An entry serves all  *)
(* legs with its key, also when they are different searches: see Key.      *)
(***************************************************************************)
EXTENDS SearchLeg

CONSTANT
    Threads     \* the requests

VARIABLES
    body,       \* what each of them asks for
    decided,    \* the responses that its legs will show, as far as they are known
    reply,      \* what was written to the client
    store       \* the valid responses by key, as they were fetched

vars == <<body, decided, reply, store>>

Init ==
    /\ body = [t \in Threads |-> None]
    /\ decided = [t \in Threads |-> << >>]
    /\ reply = [t \in Threads |-> None]
    /\ store = << >>

New(t) == body[t] = None /\ reply[t] = None

\* A body that cannot be decoded, or is not valid.
Refuse(t) ==
    /\ New(t)
    /\ \/ UNCHANGED body
       \/ \E b \in Requests : ~ Validates(b) /\ body' = [body EXCEPT ![t] = b]
    /\ reply' = [reply EXCEPT ![t] = BadRequest]
    /\ UNCHANGED <<decided, store>>

Accept(t) ==
    /\ New(t)
    /\ \E b \in Requests : Validates(b) /\ body' = [body EXCEPT ![t] = WithDefaults(b)]
    /\ UNCHANGED <<decided, reply, store>>

Underway(t) == body[t] # None /\ reply[t] = None

\* The leg to decide, while there is one.
Leg(t) == Legs(body[t])[Len(decided[t]) + 1]

Undecided(t) == Underway(t) /\ Len(decided[t]) < Len(Legs(body[t]))

Decide(t, r) == decided' = [decided EXCEPT ![t] = Append(@, r)]

\* A valid entry under the key of the leg is shown, and marked as cached.
FromCache(t) ==
    /\ Undecided(t)
    /\ Key(Leg(t)) \in DOMAIN store
    /\ Decide(t, [store[Key(Leg(t))] EXCEPT !.hit = TRUE])
    /\ UNCHANGED <<body, reply, store>>

\* A fetch is shown, and stored over what another request may have stored since
\* this one found nothing: requests that look at once do not share one fetch, as
\* cache.go:4 has it.
FromAirlines(t) ==
    /\ Undecided(t)
    /\ \E r \in Fetches(Leg(t)) :
           Decide(t, r) /\ store' = Put(store, Key(Leg(t)), r)
    /\ UNCHANGED <<body, reply>>

\* Every leg is shown as the request wants it, with the metadata of its response.
Answer(t) ==
    /\ Underway(t)
    /\ Len(decided[t]) = Len(Legs(body[t]))
    /\ reply' = [reply EXCEPT ![t] = reply'[t]]
    /\ reply'[t] # None /\ reply'[t].status = 200
    /\ Len(reply'[t].legs) = Len(decided[t])
    /\ \A i \in DOMAIN decided[t] :
           LET g == reply'[t].legs[i]
           IN  /\ g.resp = decided[t][i]
               /\ g.total = Len(g.flights)
               /\ Shows(Legs(body[t])[i], g.resp.fetched, g.flights)
    /\ UNCHANGED <<body, decided, store>>

Expire(k) ==
    /\ store' = [j \in DOMAIN store \ {k} |-> store[j]]
    /\ UNCHANGED <<body, decided, reply>>

Next ==
    \/ \E t \in Threads :
           Refuse(t) \/ Accept(t) \/ FromCache(t) \/ FromAirlines(t) \/ Answer(t)
    \/ \E k \in DOMAIN store : Expire(k)

Spec == Init /\ [][Next]_vars

=============================================================================
