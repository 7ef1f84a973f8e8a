---------------------------- MODULE ServerProofs ----------------------------
(***************************************************************************)
(* Proofs about Server, for any airlines, any connections and any TTL: an  *)
(* exit with success leaves no port and no connection open.                *)
(***************************************************************************)
EXTENDS Server, TLAPS

\* The port is open while Serve has yet to return, and a connection waits in the
\* kernel only for a port that is open.
PortOk ==
    /\ listener = "open" => main \in {"track", "accept"}
    /\ \A c \in Conns : conn[c] = "queued" => listener = "open"

\* Close marks the server before it looks at anything; when it is over nobody
\* accepts any more, and no connection is served.
CloseOk ==
    /\ notifier \in {"listeners", "conns", "closed"} => shutdown
    /\ notifier = "closed" => main # "accept" /\ \A c \in Conns : conn[c] # "active"

\* main returns only when both Serve and Close are over.
ExitOk == exit = "success" => main = "wait" /\ notifier = "closed"

Inv == TypeOK /\ PortOk /\ CloseOk /\ ExitOk

LEMMA InitInv == Init => Inv
BY ServerAssumption
   DEF Init, Inv, TypeOK, PortOk, CloseOk, ExitOk, MainPlaces, NotifierPlaces

\* What a listener that closes does to the connections.
LEMMA ClosingKeeps ==
  ASSUME TypeOK, ListenerCloses
  PROVE  /\ listener' = "closed"
         /\ conn' \in [Conns -> {"none", "queued", "active", "closed"}]
         /\ \A c \in Conns : conn'[c] # "queued" /\ (conn'[c] = "active" => conn[c] = "active")
BY DEF TypeOK, ListenerCloses

LEMMA MainStep ==
  ASSUME Inv, Main
  PROVE  Inv'
<1> USE DEF Inv, TypeOK, PortOk, CloseOk, ExitOk, MainPlaces, NotifierPlaces, Running, process, http
<1>1. CASE \E a \in Airlines : StartMock(a)
  BY <1>1 DEF StartMock
<1>2. CASE StartFails \/ ListenFails
  BY <1>2 DEF StartFails, ListenFails
<1>3. CASE SetUp
  BY <1>3 DEF SetUp
<1>4. CASE Listen
  BY <1>4 DEF Listen
<1>5. CASE Track
  <2>1. CASE shutdown
    <3>1. main = "track" /\ main' = "wait" /\ ListenerCloses /\ exit = "running"
          /\ UNCHANGED <<process, notifier, sig, shutdown, handlers, cut>>
      BY <1>5, <2>1 DEF Track
    <3> QED
      BY <3>1, ClosingKeeps
  <2>2. CASE ~shutdown
    BY <1>5, <2>2 DEF Track
  <2> QED
    BY <2>1, <2>2
<1>6. CASE \E c \in Conns : Accept(c)
  BY <1>6 DEF Accept
<1>7. CASE ServeReturns
  BY <1>7 DEF ServeReturns
<1>8. CASE Exit
  BY <1>8 DEF Exit
<1> QED
  BY <1>1, <1>2, <1>3, <1>4, <1>5, <1>6, <1>7, <1>8 DEF Main

LEMMA NotifierStep ==
  ASSUME Inv, Notifier
  PROVE  Inv'
<1> USE DEF Inv, TypeOK, PortOk, CloseOk, ExitOk, MainPlaces, NotifierPlaces, Running, process, http
<1>1. CASE Register
  BY <1>1 DEF Register
<1>2. CASE Receive
  BY <1>2 DEF Receive
<1>3. CASE Close
  BY <1>3 DEF Close
<1>4. CASE CloseListeners
  <2>1. CASE main = "accept"
    <3>1. notifier' = "conns" /\ ListenerCloses /\ exit = "running" /\ notifier = "listeners"
          /\ UNCHANGED <<process, main, sig, shutdown, handlers, cut>>
      BY <1>4, <2>1 DEF CloseListeners
    <3> QED
      BY <2>1, <3>1, ClosingKeeps
  <2>2. CASE main # "accept"
    BY <1>4, <2>2 DEF CloseListeners
  <2> QED
    BY <2>1, <2>2
<1>5. CASE CloseConns
  BY <1>5 DEF CloseConns
<1> QED
  BY <1>1, <1>2, <1>3, <1>4, <1>5 DEF Notifier

LEMMA OtherStep ==
  ASSUME Inv, Sweep \/ Signal \/ Net \/ Ended \/ UNCHANGED vars
  PROVE  Inv'
<1> USE DEF Inv, TypeOK, PortOk, CloseOk, ExitOk, MainPlaces, NotifierPlaces, Running, process, http
<1>1. CASE Sweep
  BY <1>1 DEF Sweep
<1>2. CASE Signal
  <2>1. /\ exit' \in {"running", "killed"} /\ sig' \in BOOLEAN
        /\ UNCHANGED <<ttl, main, mocks, notifier, sweeper, http>>
    BY <1>2 DEF Signal
  <2> QED
    BY <2>1
<1>3. CASE Net
  <2>1. CASE \E c \in Conns : Connect(c)
    BY <2>1 DEF Connect
  <2>2. CASE \E c \in Conns : Request(c) \/ HandlerReturns(c)
    BY <2>2 DEF Request, HandlerReturns
  <2> QED
    BY <1>3, <2>1, <2>2 DEF Net
<1>4. CASE Ended \/ UNCHANGED vars
  BY <1>4 DEF Ended, vars
<1> QED
  BY <1>1, <1>2, <1>3, <1>4

\* The inductive invariant from which both properties follow.
THEOREM Invariance == Spec => []Inv
<1>1. Init => Inv
  BY InitInv
<1>2. Inv /\ [Next]_vars => Inv'
  BY MainStep, NotifierStep, OtherStep DEF Next
<1> QED
  BY <1>1, <1>2, PTL DEF Spec

-----------------------------------------------------------------------------
(* Theorems                                                                *)

\* The variables have their types, and main passes startAirlineServers only when
\* every airline server is up.
THEOREM TypeCorrect == Spec => []TypeOK
<1>1. Inv => TypeOK
  BY DEF Inv
<1> QED
  BY <1>1, Invariance, PTL

\* Whenever in the life of the server a signal comes, and whatever is being
\* accepted then, main returns only when the port and all connections are closed.
THEOREM ExitIsClean == Spec => []CleanExit
<1>1. Inv => CleanExit
  BY DEF Inv, TypeOK, PortOk, CloseOk, ExitOk, CleanExit
<1> QED
  BY <1>1, Invariance, PTL

=============================================================================
