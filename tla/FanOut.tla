------------------------------- MODULE FanOut -------------------------------
(***************************************************************************)
(* What Aggregate (internal/pkg/aggregator/aggregator.go) promises its     *)
(* caller: every provider is settled once, in any order, and the slice is  *)
(* handed over when all of them are and is never written again.            *)
(***************************************************************************)
CONSTANTS
    Providers,  \* the configured providers
    Outcomes,   \* what the call of a provider can end with
    Pending     \* the slot of a provider nothing was written to

VARIABLES
    slot,       \* the result slice, one slot per provider
    returned    \* has Aggregate returned

vars == <<slot, returned>>

TypeOK ==
    /\ slot \in [Providers -> Outcomes \union {Pending}]
    /\ returned \in BOOLEAN

Init ==
    /\ slot = [p \in Providers |-> Pending]
    /\ returned = FALSE

Settle(p) ==
    /\ ~returned
    /\ slot[p] = Pending
    /\ \E o \in Outcomes : slot' = [slot EXCEPT ![p] = o]
    /\ UNCHANGED returned

Return ==
    /\ ~returned
    /\ \A p \in Providers : slot[p] # Pending
    /\ returned' = TRUE
    /\ UNCHANGED slot

Next == Return \/ \E p \in Providers : Settle(p)

Spec == Init /\ [][Next]_vars

\* No provider waits for another one, and the caller waits for them only.
FairSpec ==
    /\ Spec
    /\ \A p \in Providers : WF_vars(Settle(p))
    /\ WF_vars(Return)

=============================================================================
