---------------------------- MODULE ExpiringMap ----------------------------
(***************************************************************************)
(* What internal/pkg/cache/cache.go promises: a map whose entries are gone *)
(* TTL after they were stored.  Reclaiming their memory is no part of it.  *)
(***************************************************************************)
EXTENDS Integers

CONSTANTS
    Keys,
    Values,     \* the responses that may be stored
    TTL,
    MaxTime,    \* bound on the clock, for model checking
    NoEntry     \* nothing stored

VARIABLES
    now,
    stored      \* the entry of each key

vars == <<now, stored>>

Entry == [val : Values, exp : Nat]

TypeOK ==
    /\ now \in 0 .. MaxTime
    /\ stored \in [Keys -> Entry \union {NoEntry}]

Init ==
    /\ now = 0
    /\ stored = [k \in Keys |-> NoEntry]

Put(k) ==
    /\ \E v \in Values :
        stored' = [stored EXCEPT ![k] = [val |-> v, exp |-> now + TTL]]
    /\ UNCHANGED now

\* Entries expire with the clock, and in no other way.
Tick ==
    /\ now < MaxTime
    /\ now' = now + 1
    /\ stored' = [k \in Keys |->
            IF stored[k] # NoEntry /\ stored[k].exp < now' THEN NoEntry ELSE stored[k]]

Next == Tick \/ \E k \in Keys : Put(k)

Spec == Init /\ [][Next]_vars

=============================================================================
