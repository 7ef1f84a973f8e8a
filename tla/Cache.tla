------------------------------- MODULE Cache -------------------------------
(***************************************************************************)
(* The response cache of internal/pkg/cache/cache.go: Get looks an entry   *)
(* up under the read lock and looks at the clock after releasing it, Set   *)
(* is one critical section, and a background goroutine sweeps expired      *)
(* entries at the ticks of a time.Ticker.                                  *)
(***************************************************************************)
EXTENDS Integers

CONSTANTS
    Keys,       \* cache keys
    Values,     \* the responses that may be stored
    Readers,    \* goroutines calling Get
    TTL,        \* c.ttl
    MaxTime,    \* bound on the clock, for model checking
    NoEntry     \* a key that is not in c.items

Entry == [val : Values, exp : Nat]

ASSUME CacheAssumption ==
    /\ TTL \in Nat \ {0}      \* time.NewTicker panics otherwise
    /\ MaxTime \in Nat
    /\ NoEntry \notin Entry

VARIABLES
    now,        \* the monotonic clock
    items,      \* c.items
    tick,       \* the one-element buffer of ticker.C
    sweeping,   \* is the sweeper about to take the lock
    cut,        \* its variable now
    pc,         \* is each reader idle, or in Get with the lock released ("check")
    wanted,     \* the key of its latest Get
    read,       \* the entry it read under the lock
    answer,     \* what that Get returned, NoEntry for a miss
    seen        \* history: what wanted held, NoEntry if nothing valid, since the read

sweeper == <<tick, sweeping, cut>>
readers == <<pc, wanted, read, answer>>
vars == <<now, items, sweeper, readers, seen>>

\* What a lookup of k that takes no time finds.
Valid(k) == items[k] # NoEntry /\ items[k].exp >= now
Current(k) == IF Valid(k) THEN items[k] ELSE NoEntry

TypeOK ==
    /\ now \in 0 .. MaxTime
    /\ items \in [Keys -> Entry \union {NoEntry}]
    /\ tick \in BOOLEAN
    /\ sweeping \in BOOLEAN
    /\ cut \in 0 .. now
    /\ pc \in [Readers -> {"idle", "check"}]
    /\ read \in [Readers -> Entry \union {NoEntry}]
    /\ answer \in [Readers -> Entry \union {NoEntry}]
    /\ wanted \in [Readers -> Keys]
    /\ seen \in [Readers -> SUBSET (Entry \union {NoEntry})]

Init ==
    /\ now = 0
    /\ items = [k \in Keys |-> NoEntry]
    /\ tick = FALSE
    /\ sweeping = FALSE
    /\ cut = 0
    /\ pc = [r \in Readers |-> "idle"]
    /\ read = [r \in Readers |-> NoEntry]
    /\ answer = [r \in Readers |-> NoEntry]
    /\ wanted \in {[r \in Readers |-> k] : k \in Keys}
    /\ seen = [r \in Readers |-> {}]

\* Every Get that has not answered sees what a step leaves under its key.
Watch ==
    seen' = [r \in Readers |->
                IF pc[r] = "check" THEN seen[r] \union {Current(wanted[r])'} ELSE seen[r]]

-----------------------------------------------------------------------------
\* Get up to RUnlock.
GetRead(r, k) ==
    /\ pc[r] = "idle"
    /\ pc' = [pc EXCEPT ![r] = "check"]
    /\ wanted' = [wanted EXCEPT ![r] = k]
    /\ read' = [read EXCEPT ![r] = items[k]]
    /\ answer' = [answer EXCEPT ![r] = NoEntry]
    /\ seen' = [seen EXCEPT ![r] = {Current(k)}]
    /\ UNCHANGED <<now, items, sweeper>>

Respond(r, e) ==
    /\ pc' = [pc EXCEPT ![r] = "idle"]
    /\ answer' = [answer EXCEPT ![r] = e]
    /\ read' = [read EXCEPT ![r] = NoEntry]
    /\ seen' = [seen EXCEPT ![r] = {}]

\* Mutant: the entry is taken for valid because it is still in the map.
GetTrustsTheSweeper(r) ==
    /\ pc[r] = "check"
    /\ Respond(r, read[r])
    /\ UNCHANGED <<now, items, sweeper, wanted>>

\* Mutant: an entry is not valid in the last instant of its life.
GetTooStrict(r) ==
    /\ pc[r] = "check"
    /\ Respond(r, IF read[r] # NoEntry /\ now >= read[r].exp THEN NoEntry ELSE read[r])
    /\ UNCHANGED <<now, items, sweeper, wanted>>

\* Get from there on: the expiry check, with no lock held.
GetCheck(r) ==
    /\ pc[r] = "check"
    /\ Respond(r, IF read[r] # NoEntry /\ now > read[r].exp THEN NoEntry ELSE read[r])
    /\ UNCHANGED <<now, items, sweeper, wanted>>

\* Mutant: exp is left at the zero time, before every clock value.
SetForever(k) ==
    /\ \E v \in Values : items' = [items EXCEPT ![k] = [val |-> v, exp |-> -1]]
    /\ UNCHANGED <<now, sweeper, readers>>
    /\ Watch

\* One critical section, the clock read inside it.
Set(k) ==
    /\ \E v \in Values :
        items' = [items EXCEPT ![k] = [val |-> v, exp |-> now + TTL]]
    /\ UNCHANGED <<now, sweeper, readers>>
    /\ Watch

-----------------------------------------------------------------------------
(* The sweeper                                                             *)

\* Time passes.  A ticker whose buffer is full drops its tick.
Tick ==
    /\ now < MaxTime
    /\ now' = now + 1
    /\ tick' = (tick \/ now' % TTL = 0)
    /\ UNCHANGED <<items, sweeping, cut, readers>>
    /\ Watch

\* The sweeper receives a tick and reads the clock, before it has the lock.
SweepTick ==
    /\ tick
    /\ ~sweeping
    /\ tick' = FALSE
    /\ sweeping' = TRUE
    /\ cut' = now
    /\ UNCHANGED <<now, items, readers, seen>>

\* Mutant: takes the entries that expire right now for expired.
SweepTooMuch ==
    /\ sweeping
    /\ items' = [k \in Keys |->
            IF items[k] # NoEntry /\ cut >= items[k].exp THEN NoEntry ELSE items[k]]
    /\ sweeping' = FALSE
    /\ UNCHANGED <<now, tick, cut, readers>>
    /\ Watch

\* Mutant: stops at the first entry it deletes.
SweepOne ==
    /\ sweeping
    /\ LET dead == {k \in Keys : items[k] # NoEntry /\ cut > items[k].exp}
       IN  items' = [k \in Keys |->
                IF dead # {} /\ k = CHOOSE d \in dead : TRUE THEN NoEntry ELSE items[k]]
    /\ sweeping' = FALSE
    /\ UNCHANGED <<now, tick, cut, readers>>
    /\ Watch

\* The loop over the map under the lock.
Sweep ==
    /\ sweeping
    /\ items' = [k \in Keys |->
            IF items[k] # NoEntry /\ cut > items[k].exp THEN NoEntry ELSE items[k]]
    /\ sweeping' = FALSE
    /\ UNCHANGED <<now, tick, cut, readers>>
    /\ Watch

Next ==
    \/ Tick \/ SweepTick \/ Sweep
    \/ \E k \in Keys : Set(k)
    \/ \E r \in Readers : GetCheck(r) \/ \E k \in Keys : GetRead(r, k)

Spec == Init /\ [][Next]_vars

\* Time passes; the sweeper's goroutine runs, and gets the lock when it waits
\* for it (an RWMutex lets no new reader in before a waiting writer).
FairSpec == Spec /\ WF_vars(Tick) /\ WF_vars(SweepTick) /\ WF_vars(Sweep)

-----------------------------------------------------------------------------
(* Properties                                                              *)

Answers(r) == pc[r] = "check" /\ pc'[r] = "idle"

\* A hit is an entry that was valid under the key asked for at some instant of
\* the Get, although entries are replaced and swept between its read and its
\* look at the clock.
HitWasCurrent ==
    [][\A r \in Readers :
        Answers(r) /\ answer'[r] # NoEntry => answer'[r] \in seen[r]]_vars

\* A miss means that the key had no valid entry at some instant of the Get, or
\* that an entry it had has expired since.  The first is what a map answers; the
\* second is the price of the unlocked check: a key that was refreshed in time,
\* and held a valid entry all along, can still miss.
MissJustified ==
    [][\A r \in Readers :
        Answers(r) /\ answer'[r] = NoEntry =>
            \/ NoEntry \in seen[r]
            \/ \E e \in seen[r] : e # NoEntry /\ e.exp < now]_vars

\* The map a caller can see is an ExpiringMap: the sweeper, which works from a
\* clock value read before it has the lock, never drops a valid entry.
Map == INSTANCE ExpiringMap WITH stored <- [k \in Keys |-> Current(k)]

ImplementsMap == Map!Spec

\* Expired entries do not stay: one that expires while a later tick is still to
\* come within the bound of the clock is deleted, or replaced.
Expired(k) == items[k] # NoEntry /\ items[k].exp < now

ExpiredSwept ==
    \A k \in Keys : Expired(k) /\ items[k].exp + TTL <= MaxTime ~> ~Expired(k)

=============================================================================
