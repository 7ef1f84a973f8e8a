------------------------------- MODULE Server -------------------------------
(***************************************************************************)
(* The life of the process of cmd/server: main.go starts the mock airline  *)
(* servers of airlines.go, the cache with its sweeper, a goroutine that    *)
(* waits for a signal, and listens; net/http accepts connections and runs  *)
(* a handler for each request on them.  Server.Close and ListenAndServe of *)
(* net/http are modelled step by step, as far as this program uses them.   *)
(***************************************************************************)
EXTENDS Integers, FiniteSets

CONSTANTS
    Airlines,   \* the mock servers, one for each provider
    Conns,      \* connections clients may open
    TTLs        \* values of -cache-ttl

ASSUME ServerAssumption ==
    /\ IsFiniteSet(Airlines)
    /\ TTLs \subseteq Int

VARIABLES
    ttl,        \* -cache-ttl
    exit,       \* how the process ended: an exit status, or "running"
    main,       \* where main is
    mocks,      \* the airline servers that listen
    notifier,   \* where the goroutine that waits for a signal is
    sig,        \* its channel: is a signal in it
    sweeper,    \* where the goroutine of the cache is
    shutdown,   \* srv.inShutdown
    listener,   \* the listener of srv
    conn,       \* the connections, as the server sees them
    handlers,   \* the connections that a handler runs for
    cut         \* history: those that were closed under a handler

vars == <<ttl, exit, main, mocks, notifier, sig, sweeper, shutdown, listener,
          conn, handlers, cut>>
process == <<ttl, exit, mocks, sweeper>>
http == <<shutdown, listener, conn, handlers, cut>>

\* main: "airlines" in startAirlineServers, "setup" before its goroutines start,
\* "listen" and "track" in ListenAndServe, "accept" in its loop, "wait" at
\* <-idleClosed.
MainPlaces == {"airlines", "setup", "listen", "track", "accept", "wait"}
NotifierPlaces == {"none", "register", "receive", "close", "listeners", "conns", "closed"}

Init ==
    /\ ttl \in TTLs
    /\ exit = "running"
    /\ main = "airlines"
    /\ mocks = {}
    /\ notifier = "none"
    /\ sig = FALSE
    /\ sweeper = "none"
    /\ shutdown = FALSE
    /\ listener = "none"
    /\ conn = [c \in Conns |-> "none"]
    /\ handlers = {}
    /\ cut = {}

Running == exit = "running"

-----------------------------------------------------------------------------
(* main                                                                    *)

\* Mutant: main goes on when the first airline server is up.
StartMockOnly(a) ==
    /\ Running
    /\ main = "airlines"
    /\ mocks' = mocks \cup {a}
    /\ main' = "setup"
    /\ UNCHANGED <<ttl, exit, notifier, sig, sweeper, http>>

\* start: one airline server more.
StartMock(a) ==
    /\ Running
    /\ main = "airlines"
    /\ a \notin mocks
    /\ mocks' = mocks \cup {a}
    /\ main' = IF mocks' = Airlines THEN "setup" ELSE main
    /\ UNCHANGED <<ttl, exit, notifier, sig, sweeper, http>>

\* Its data cannot be read, or there is no port for it: log.Fatalf.
StartFails ==
    /\ Running
    /\ main = "airlines"
    /\ exit' = "failure"
    /\ UNCHANGED <<ttl, main, mocks, notifier, sig, sweeper, http>>

\* cache.New starts the sweeper, and main the goroutine for signals.
SetUp ==
    /\ Running
    /\ main = "setup"
    /\ sweeper' = "start"
    /\ notifier' = "register"
    /\ main' = "listen"
    /\ UNCHANGED <<ttl, exit, mocks, sig, http>>

\* ListenAndServe opens a port, unless the server is shut down already.
Listen ==
    /\ Running
    /\ main = "listen"
    /\ IF shutdown
       THEN main' = "wait" /\ UNCHANGED listener
       ELSE main' = "track" /\ listener' = "open"
    /\ UNCHANGED <<process, notifier, sig, shutdown, conn, handlers, cut>>

\* The port is taken: log.Fatalf.
ListenFails ==
    /\ Running
    /\ main = "listen"
    /\ ~shutdown
    /\ exit' = "failure"
    /\ UNCHANGED <<ttl, main, mocks, notifier, sig, sweeper, http>>

\* The listener is closed: the kernel resets the connections it has queued.
ListenerCloses ==
    /\ listener' = "closed"
    /\ conn' = [c \in Conns |-> IF conn[c] = "queued" THEN "closed" ELSE conn[c]]

\* Serve registers the listener, or closes it and returns ErrServerClosed if the
\* server was shut down meanwhile.
Track ==
    /\ Running
    /\ main = "track"
    /\ IF shutdown
       THEN main' = "wait" /\ ListenerCloses
       ELSE main' = "accept" /\ UNCHANGED <<listener, conn>>
    /\ UNCHANGED <<process, notifier, sig, shutdown, handlers, cut>>

\* Serve accepts a connection and starts the goroutine that serves it.
Accept(c) ==
    /\ Running
    /\ main = "accept"
    /\ listener = "open"
    /\ conn[c] = "queued"
    /\ conn' = [conn EXCEPT ![c] = "active"]
    /\ UNCHANGED <<process, main, notifier, sig, shutdown, listener, handlers, cut>>

\* Accept fails on the closed listener: Serve returns ErrServerClosed.
ServeReturns ==
    /\ Running
    /\ main = "accept"
    /\ listener = "closed"
    /\ main' = "wait"
    /\ UNCHANGED <<process, notifier, sig, http>>

\* Mutant: main returns as soon as ListenAndServe has.
ExitAtOnce ==
    /\ Running
    /\ main = "wait"
    /\ exit' = "success"
    /\ UNCHANGED <<ttl, main, mocks, notifier, sig, sweeper, http>>

\* <-idleClosed, and main returns: no goroutine outlives it.
Exit ==
    /\ Running
    /\ main = "wait"
    /\ notifier = "closed"
    /\ exit' = "success"
    /\ UNCHANGED <<ttl, main, mocks, notifier, sig, sweeper, http>>

-----------------------------------------------------------------------------
(* The goroutines of the cache and of the signals                          *)

\* sweep: time.NewTicker panics, and the process with it, if the TTL is not
\* positive.
Sweep ==
    /\ Running
    /\ sweeper = "start"
    /\ sweeper' = "run"
    /\ exit' = IF ttl <= 0 THEN "panic" ELSE exit
    /\ UNCHANGED <<ttl, main, mocks, notifier, sig, http>>

\* signal.Notify.
Register ==
    /\ Running
    /\ notifier = "register"
    /\ notifier' = "receive"
    /\ UNCHANGED <<process, main, sig, http>>

\* SIGINT or SIGTERM: it ends a process that has not asked for it, and is
\* dropped if another one is in the channel.
Signal ==
    /\ Running
    /\ IF notifier \in {"none", "register"}
       THEN exit' = "killed" /\ UNCHANGED sig
       ELSE sig' = TRUE /\ UNCHANGED exit
    /\ UNCHANGED <<ttl, main, mocks, notifier, sweeper, http>>

\* <-sig, and srv.Close: inShutdown first.
Receive ==
    /\ Running
    /\ notifier = "receive"
    /\ sig
    /\ sig' = FALSE
    /\ notifier' = "close"
    /\ UNCHANGED <<process, main, http>>

Close ==
    /\ Running
    /\ notifier = "close"
    /\ shutdown' = TRUE
    /\ notifier' = "listeners"
    /\ UNCHANGED <<process, main, sig, listener, conn, handlers, cut>>

\* Mutant: the listener is left open.
CloseListenersNot ==
    /\ Running
    /\ notifier = "listeners"
    /\ notifier' = "conns"
    /\ UNCHANGED <<process, main, sig, http>>

\* The listener, if Serve has registered it.
CloseListeners ==
    /\ Running
    /\ notifier = "listeners"
    /\ notifier' = "conns"
    /\ IF main = "accept" THEN ListenerCloses ELSE UNCHANGED <<listener, conn>>
    /\ UNCHANGED <<process, main, sig, shutdown, handlers, cut>>

\* When Serve has returned, every connection there is, busy or idle; and
\* close(idleClosed).
CloseConns ==
    /\ Running
    /\ notifier = "conns"
    /\ main # "accept"
    /\ conn' = [c \in Conns |-> IF conn[c] = "active" THEN "closed" ELSE conn[c]]
    /\ cut' = cut \cup {c \in handlers : conn[c] = "active"}
    /\ notifier' = "closed"
    /\ UNCHANGED <<process, main, sig, shutdown, listener, handlers>>

-----------------------------------------------------------------------------
(* Clients and handlers                                                    *)

Connect(c) ==
    /\ Running
    /\ listener = "open"
    /\ conn[c] = "none"
    /\ conn' = [conn EXCEPT ![c] = "queued"]
    /\ UNCHANGED <<process, main, notifier, sig, shutdown, listener, handlers, cut>>

\* A request is read: a handler runs for it.
Request(c) ==
    /\ Running
    /\ conn[c] = "active"
    /\ c \notin handlers
    /\ handlers' = handlers \cup {c}
    /\ UNCHANGED <<process, main, notifier, sig, shutdown, listener, conn, cut>>

\* The handler returns; if its connection was closed its context was cancelled,
\* and what it writes is lost.
HandlerReturns(c) ==
    /\ Running
    /\ c \in handlers
    /\ handlers' = handlers \ {c}
    /\ UNCHANGED <<process, main, notifier, sig, shutdown, listener, conn, cut>>

\* The process is gone.
Ended == ~Running /\ UNCHANGED vars

Main ==
    \/ \E a \in Airlines : StartMock(a)
    \/ StartFails \/ SetUp \/ Listen \/ ListenFails \/ Track
    \/ \E c \in Conns : Accept(c)
    \/ ServeReturns \/ Exit

Notifier == Register \/ Receive \/ Close \/ CloseListeners \/ CloseConns

Net == \E c \in Conns : Connect(c) \/ Request(c) \/ HandlerReturns(c)

Next == Main \/ Notifier \/ Sweep \/ Signal \/ Net \/ Ended

\* The scheduler runs every goroutine of the process that can go on.
Fairness == WF_vars(Main) /\ WF_vars(Notifier) /\ WF_vars(Sweep)

Spec == Init /\ [][Next]_vars /\ Fairness

-----------------------------------------------------------------------------
(* Properties                                                              *)

\* Types; airline servers are up before the first connection is.
TypeOK ==
    /\ ttl \in TTLs
    /\ exit \in {"running", "success", "failure", "panic", "killed"}
    /\ main \in MainPlaces
    /\ mocks \subseteq Airlines
    /\ main # "airlines" => mocks = Airlines
    /\ notifier \in NotifierPlaces
    /\ sig \in BOOLEAN
    /\ sweeper \in {"none", "start", "run"}
    /\ shutdown \in BOOLEAN
    /\ listener \in {"none", "open", "closed"}
    /\ conn \in [Conns -> {"none", "queued", "active", "closed"}]
    /\ handlers \subseteq Conns
    /\ cut \subseteq Conns

\* The process exits with success only when it is done: the shutdown is over,
\* nobody can connect any more, and no connection is left open, whenever in the
\* life of the server the signal came and whatever was being accepted then.
CleanExit ==
    exit = "success" =>
        /\ notifier = "closed"
        /\ listener # "open"
        /\ \A c \in Conns : conn[c] \in {"none", "closed"}

\* A signal ends the process, with the one channel and the one close that stand
\* between main and its end, in whatever order the goroutines get there.
SignalStops == sig ~> exit # "running"

\* README.md:224: in-flight requests finish before the process exits.
InFlightFinish == exit = "success" => cut = {}

=============================================================================
