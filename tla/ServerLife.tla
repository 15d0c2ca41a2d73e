----------------------------- MODULE ServerLife -----------------------------
(***************************************************************************)
(* One server process from bootstrap to exit: connecting, the first and    *)
(* the timed cleanup passes, requests and event streams, and the shutdown  *)
(* that a signal starts.  server.close closes idle connections, waits for  *)
(* the others, and then calls back; a handler whose client has gone holds  *)
(* no connection any more but runs on.                                     *)
(***************************************************************************)
EXTENDS Naturals, FiniteSets

CONSTANTS
    Clients,
    Signals         \* SIGINT, SIGTERM

VARIABLES
    life,           \* where bootstrap or shutdown is
    database,       \* the connection to MongoDB: "down", "up"
    redis,          \* the connection to Redis: "down", "up"
    timers,         \* the intervals that are running
    pending,        \* a cleanup pass is running
    stopped,        \* stopReservationCleanup has been called
    leaving,        \* connections that shutdown still has to close
    link,           \* of each client: "none", "request", "stream"
    handler,        \* clients whose handler is running
    received        \* signals received, whose listener process.once removed

lifeVars == <<life, database, redis, timers, pending, stopped, leaving, link, handler, received>>

Booting  == {"redis", "database", "start"}
Ended    == {"exited", "failed", "killed"}

LifeInit ==
    /\ life = "redis"
    /\ database = "down"
    /\ redis = "down"
    /\ timers = {}
    /\ pending = FALSE
    /\ stopped = FALSE
    /\ leaving = {}
    /\ link = [c \in Clients |-> "none"]
    /\ handler = {}
    /\ received = {}

Die(how) ==
    /\ life' = how
    /\ database' = "down"
    /\ redis' = "down"
    /\ timers' = {}
    /\ pending' = FALSE
    /\ link' = [c \in Clients |-> "none"]
    /\ handler' = {}
    /\ UNCHANGED <<stopped, leaving, received>>

-----------------------------------------------------------------------------
(* bootstrap *)

ConnectRedis ==
    /\ life = "redis"
    /\ redis' = "up"
    /\ life' = "database"
    /\ UNCHANGED <<database, timers, pending, stopped, leaving, link, handler, received>>

ConnectDatabase ==
    /\ life = "database"
    /\ database' = "up"
    /\ life' = "start"
    /\ UNCHANGED <<redis, timers, pending, stopped, leaving, link, handler, received>>

\* The cleanup job with its first pass, the monitor, the server, the signals.
Serve ==
    /\ life = "start"
    /\ life' = "serving"
    /\ timers' = {"cleanup", "monitor"}
    /\ pending' = TRUE
    /\ UNCHANGED <<database, redis, stopped, leaving, link, handler, received>>

\* bootstrap().catch
BootFails == life \in {"redis", "database"} /\ Die("failed")

-----------------------------------------------------------------------------
(* The cleanup job *)

\* run, when the timer fires.
StartPass ==
    /\ "cleanup" \in timers
    /\ ~stopped
    /\ ~pending
    /\ pending' = TRUE
    /\ UNCHANGED <<life, database, redis, timers, stopped, leaving, link, handler, received>>

\* A pass ends, with an error that is logged or without.
EndPass ==
    /\ pending
    /\ pending' = FALSE
    /\ UNCHANGED <<life, database, redis, timers, stopped, leaving, link, handler, received>>

-----------------------------------------------------------------------------
(* Requests *)

Open(c) ==
    /\ life = "serving"
    /\ link[c] = "none"
    /\ c \notin handler
    /\ \E kind \in {"request", "stream"} : link' = [link EXCEPT ![c] = kind]
    /\ handler' = handler \cup {c}
    /\ UNCHANGED <<life, database, redis, timers, pending, stopped, leaving, received>>

\* The handler is done: a request is answered, a stream stays open.
Handled(c) ==
    /\ c \in handler
    /\ handler' = handler \ {c}
    /\ link' = [link EXCEPT ![c] = IF @ = "stream" THEN @ ELSE "none"]
    /\ UNCHANGED <<life, database, redis, timers, pending, stopped, leaving, received>>

\* The client closes its connection; the handler does not notice.
ClientLeaves(c) ==
    /\ link[c] # "none"
    /\ link' = [link EXCEPT ![c] = "none"]
    /\ UNCHANGED <<life, database, redis, timers, pending, stopped, leaving, handler, received>>

-----------------------------------------------------------------------------
(* shutdown *)

\* Before bootstrap has registered its listeners, and for the second signal of one
\* kind, the default action ends the process; shuttingDown ignores the others.
Signal(g) ==
    /\ life \notin Ended
    /\ IF life \in Booting \/ g \in received THEN Die("killed")
       ELSE /\ received' = received \cup {g}
            /\ life' = IF life = "serving" THEN "closing" ELSE life
            /\ timers' = IF life = "serving" THEN timers \ {"monitor"} ELSE timers
            /\ UNCHANGED <<database, redis, pending, stopped, leaving, link, handler>>

\* Mutant: the job is not stopped.
ClosedOnly ==
    /\ life = "closing"
    /\ \A c \in Clients : link[c] = "none"
    /\ life' = "cleanup"
    /\ UNCHANGED <<database, redis, timers, pending, stopped, leaving, link, handler, received>>

\* server.close calls back, and stopReservationCleanup begins.
Closed ==
    /\ life = "closing"
    /\ \A c \in Clients : link[c] = "none"
    /\ life' = "cleanup"
    /\ stopped' = TRUE
    /\ timers' = timers \ {"cleanup"}
    /\ UNCHANGED <<database, redis, pending, leaving, link, handler, received>>

\* Mutant: the pass is not awaited.
CleanupCancelled ==
    /\ life = "cleanup"
    /\ life' = "disconnect"
    /\ leaving' = {"database", "redis"}
    /\ UNCHANGED <<database, redis, timers, pending, stopped, link, handler, received>>

\* The pass that was running is over.
CleanupStopped ==
    /\ life = "cleanup"
    /\ ~pending
    /\ life' = "disconnect"
    /\ leaving' = {"database", "redis"}
    /\ UNCHANGED <<database, redis, timers, pending, stopped, link, handler, received>>

DisconnectDatabase ==
    /\ "database" \in leaving
    /\ database' = "down"
    /\ leaving' = leaving \ {"database"}
    /\ UNCHANGED <<life, redis, timers, pending, stopped, link, handler, received>>

DisconnectRedis ==
    /\ "redis" \in leaving
    /\ redis' = "down"
    /\ leaving' = leaving \ {"redis"}
    /\ UNCHANGED <<life, database, timers, pending, stopped, link, handler, received>>

Exit == life = "disconnect" /\ leaving = {} /\ Die("exited")

\* disconnect throws.
DisconnectFails == life = "disconnect" /\ Die("failed")

\* Redis drops the connection; connectRedis of a later caller connects again.
LoseRedis ==
    /\ life \in {"serving", "closing", "cleanup"}
    /\ redis = "up"
    /\ redis' = "down"
    /\ UNCHANGED <<life, database, timers, pending, stopped, leaving, link, handler, received>>

ReconnectRedis ==
    /\ redis = "down"
    /\ handler # {}
    /\ redis' = "up"
    /\ UNCHANGED <<life, database, timers, pending, stopped, leaving, link, handler, received>>

-----------------------------------------------------------------------------
Shutdown == Closed \/ CleanupStopped \/ DisconnectDatabase \/ DisconnectRedis \/ Exit

LifeNext ==
    \/ ConnectRedis \/ ConnectDatabase \/ Serve \/ BootFails
    \/ StartPass \/ EndPass \/ Shutdown \/ DisconnectFails \/ LoseRedis \/ ReconnectRedis
    \/ \E c \in Clients : Open(c) \/ Handled(c) \/ ClientLeaves(c)
    \/ \E g \in Signals : Signal(g)

\* Handlers, passes and the steps of the shutdown are not held up for ever.  Nothing
\* makes a client leave.
LifeFairness ==
    /\ WF_lifeVars(EndPass)
    /\ WF_lifeVars(Closed) /\ WF_lifeVars(CleanupStopped) /\ WF_lifeVars(Exit)
    /\ WF_lifeVars(DisconnectDatabase) /\ WF_lifeVars(DisconnectRedis)
    /\ \A c \in Clients : WF_lifeVars(Handled(c))

LifeSpec == LifeInit /\ [][LifeNext]_lifeVars /\ LifeFairness

-----------------------------------------------------------------------------
(* Properties *)

\* Work and the database: no cleanup pass runs without a connection, and of the handlers
\* only one whose client has left may, when the server has closed, the job has stopped
\* and shutdown is disconnecting.
WorkHasDatabase ==
    database = "down" =>
        /\ ~pending
        /\ \A c \in handler : link[c] = "none" /\ stopped /\ life = "disconnect"

\* Once begun, a shutdown comes to its end, unless a client keeps its stream open:
\* the timers and the passes they start do not hold it up.
ShutdownEnds ==
    []<>(\A c \in Clients : link[c] # "stream") => (life = "closing" ~> life \in Ended)
=============================================================================
