----------------------------- MODULE Supervisor -----------------------------
(***************************************************************************)
(* Supervision of the Z-Wave driver (src/src/zwave/driver.ts), the         *)
(* zwave-js server that Home Assistant connects to (zwave/server.ts), and  *)
(* the shutdown that stops them (shutdown.ts, index.ts).                   *)
(*                                                                         *)
(* Driver instances are numbered in order of construction, and a server    *)
(* object has the number of the instance whose "driver ready" had it made: *)
(* one server is made per instance at most.  zwave-js and the stick are    *)
(* external: a start ends in "driver ready" or in an error, an error may   *)
(* come at any time after, destroy() takes a while and frees the port.     *)
(***************************************************************************)
EXTENDS Naturals, Functions

CONSTANT MaxInstances   \* bound: driver instances that are followed

ASSUME SupervisorAssumption == MaxInstances \in Nat \ {0}

Ids == 1 .. MaxInstances
NoServer == 0           \* an undefined server; as a restart, the shutdown's

VARIABLES
    stick,     \* whether the controller answers
    loop,      \* where startWithRetry is
    current,   \* the current instance
    link,      \* of the current instance
    dying,     \* replaced instances whose destroy() has not finished
    status,    \* DriverState.status
    started,   \* whether shutdown has a driver to destroy
    ears,      \* others' "driver ready" listeners on the current instance
    chain,     \* where startZwaveJsServer is
    serving,   \* server.ts: started
    server,    \* server.ts: the server object
    port,      \* the server object that listens on the TCP port
    serves,    \* server object -> the instance it was started on
    restarts,  \* server calls under way: id -> [at, target]
    overlap,   \* history: a driver got ready while a server was (re)starting
    refused,   \* history: a restart's destroy() or start() failed, and no
               \* server has listened since
    shutdown   \* the step of the shutdown under way

driverVars == <<loop, current, link, dying, status, started, ears>>
serverVars == <<chain, serving, server, port, serves, restarts, overlap, refused>>
vars == <<stick, driverVars, serverVars, shutdown>>

Up == shutdown \notin {"exited", "killed"}

Init ==
    /\ stick \in {"answers", "silent"}
    /\ loop = "attempt"
    /\ current = 1
    /\ link = "opening"
    /\ dying = {}
    /\ status = "starting"
    /\ started = FALSE
    /\ ears = {"app"}
    /\ chain = "driver"
    /\ serving = FALSE
    /\ server = NoServer
    /\ port = NoServer
    /\ serves = [i \in Ids |-> 0]
    /\ restarts = [i \in {} |-> 0]
    /\ overlap = FALSE
    /\ refused = FALSE
    /\ shutdown = "no"

(* The stick is pulled out, or back in. *)
StickChanges ==
    /\ stick' \in {"answers", "silent"} \ {stick}
    /\ UNCHANGED <<driverVars, serverVars, shutdown>>

-----------------------------------------------------------------------------
(* The server's part of a "driver ready". *)
OnDriverReady ==
    IF chain = "driver"
    THEN /\ chain' = "binding"
         /\ server' = current
         /\ serves' = [serves EXCEPT ![current] = current]
         /\ UNCHANGED <<serving, port, restarts, overlap, refused>>
    ELSE /\ overlap' = (overlap \/ chain = "binding" \/ DOMAIN restarts # {})
         /\ restarts' = IF "server" \in ears /\ serving
                        THEN [i \in DOMAIN restarts \cup {current} |->
                                 IF i = current
                                 THEN [at |-> "stopping", target |-> server]
                                 ELSE restarts[i]]
                        ELSE restarts
         /\ UNCHANGED <<chain, serving, server, port, serves, refused>>

(* startAttempt resolves; startWithRetry goes on to watch the driver. *)
DriverReady ==
    /\ Up
    /\ loop = "attempt"
    /\ stick = "answers"
    /\ dying = {}
    /\ link = "opening"
    /\ link' = "ready"
    /\ status' = "ready"
    /\ started' = TRUE
    /\ loop' = "watch"
    /\ OnDriverReady
    /\ UNCHANGED <<stick, current, dying, ears, shutdown>>

(* The catch of startWithRetry, with replaceInstance. *)
\* Mutant: the failed instance is started again; zwave-js then does nothing.
FailInPlace ==
    /\ current < MaxInstances
    /\ started' = FALSE
    /\ status' = "failed"
    /\ link' = "used"
    /\ loop' = "sleep"
    /\ UNCHANGED <<dying, current, ears>>

Fail ==
    /\ current < MaxInstances
    /\ started' = FALSE
    /\ status' = "failed"
    /\ dying' = dying \cup {current}
    /\ current' = current + 1
    /\ link' = "new"
    /\ loop' = "sleep"
    /\ UNCHANGED ears

(* The port cannot be opened, is still held, or the controller stays silent. *)
StartFails ==
    /\ Up
    /\ loop = "attempt"
    /\ link = "opening"
    /\ stick = "silent" \/ dying # {}
    /\ Fail
    /\ UNCHANGED <<stick, serverVars, shutdown>>

(* untilFailure rejects: the stick drops off, or the driver gives up. *)
DriverLost ==
    /\ Up
    /\ loop = "watch"
    /\ stick = "silent"
    /\ Fail
    /\ UNCHANGED <<stick, serverVars, shutdown>>

(* The retry timer fires. *)
Retry ==
    /\ Up
    /\ loop = "sleep"
    /\ loop' = "attempt"
    /\ status' = "starting"
    /\ link' = IF link = "new" THEN "opening" ELSE link
    /\ UNCHANGED <<stick, current, dying, started, ears, serverVars, shutdown>>

Destroyed(i) ==
    /\ Up
    /\ i \in dying
    /\ dying' = dying \ {i}
    /\ UNCHANGED <<stick, loop, current, link, status, started, ears,
                   serverVars, shutdown>>

-----------------------------------------------------------------------------
(* startZwaveJsServer: the server listens, or the TCP port is taken. *)
ServerListens ==
    /\ Up
    /\ chain = "binding"
    /\ chain' = "serving"
    /\ serving' = TRUE
    /\ port' = server
    /\ ears' = ears \cup {"server"}
    /\ UNCHANGED <<stick, loop, current, link, dying, status, started,
                   server, serves, restarts, overlap, refused, shutdown>>

ServerRefused ==
    /\ Up
    /\ chain = "binding"
    /\ chain' = "failed"
    /\ UNCHANGED <<stick, driverVars, serving, server, port, serves, restarts,
                   overlap, refused, shutdown>>

Freed(id) == IF port = id THEN NoServer ELSE port

Others(i) == Restrict(restarts, DOMAIN restarts \ {i})

(* restartForNewDriver after server.destroy(), which frees the port, or      *)
(* rejects and may leave it held: that is logged, and the restart goes on.   *)
(* start() throws at once when the driver is not ready.                      *)
\* Mutant: the server object of the old driver is started again.
RestartStopsAndKeeps(i) ==
    /\ Up
    /\ i \in DOMAIN restarts \ {NoServer}
    /\ restarts[i].at = "stopping"
    /\ port' \in {port, Freed(restarts[i].target)}
    /\ refused' = (refused \/ port' = restarts[i].target)
    /\ restarts' = IF link = "ready"
                   THEN [restarts EXCEPT ![i] = [at |-> "listening", target |-> server]]
                   ELSE Others(i)
    /\ UNCHANGED <<stick, driverVars, chain, serving, server, serves, overlap, shutdown>>

RestartStops(i) ==
    /\ Up
    /\ i \in DOMAIN restarts \ {NoServer}
    /\ restarts[i].at = "stopping"
    /\ port' \in {port, Freed(restarts[i].target)}
    /\ refused' = (refused \/ port' = restarts[i].target)
    /\ server' = i
    /\ IF link = "ready"
       THEN /\ serves' = [serves EXCEPT ![i] = current]
            /\ restarts' = [restarts EXCEPT ![i] = [at |-> "listening", target |-> i]]
       ELSE /\ restarts' = Others(i)
            /\ UNCHANGED serves
    /\ UNCHANGED <<stick, driverVars, chain, serving, overlap, shutdown>>

(* The new server listens; or start() rejects, because another server holds  *)
(* the port or for a reason of its own.  Nothing tries it again.             *)
RestartListens(i) ==
    /\ Up
    /\ i \in DOMAIN restarts \ {NoServer}
    /\ restarts[i].at = "listening"
    /\ restarts' = Others(i)
    /\ \/ /\ port = NoServer
          /\ port' = restarts[i].target
          /\ refused' = FALSE
       \/ /\ port = NoServer
          /\ refused' = TRUE
          /\ UNCHANGED port
       \/ /\ port # NoServer
          /\ UNCHANGED <<port, refused>>
    /\ UNCHANGED <<stick, driverVars, chain, serving, server, serves, overlap, shutdown>>

-----------------------------------------------------------------------------
(* createShutdown: the steps in order, each waited for, failed or not. *)
Signal ==
    /\ shutdown = "no"
    /\ shutdown' = "clients"
    /\ UNCHANGED <<stick, driverVars, serverVars>>

(* stopDriver; with no driver to destroy the database is closed and the     *)
(* process exits in the same turn.                                          *)
StopDriver ==
    /\ loop' = IF loop \in {"sleep", "watch"} THEN "ended" ELSE loop
    /\ started' = FALSE
    /\ shutdown' = IF started THEN "driver" ELSE "exited"
    /\ UNCHANGED <<current, link, dying, status, ears>>

(* The WebSocket and HTTP servers are closed; stopZwaveJsServer. *)
ClientsClosed ==
    /\ shutdown = "clients"
    /\ IF server # NoServer /\ serving
       THEN /\ serving' = FALSE
            /\ restarts' = [i \in DOMAIN restarts \cup {NoServer} |->
                               IF i = NoServer
                               THEN [at |-> "stopping", target |-> server]
                               ELSE restarts[i]]
            /\ shutdown' = "server"
            /\ UNCHANGED driverVars
       ELSE /\ StopDriver
            /\ UNCHANGED <<serving, restarts>>
    /\ UNCHANGED <<stick, chain, server, port, serves, overlap, refused>>

(* The destroy() of stopZwaveJsServer may reject as well; it is logged.     *)
ServerStopped ==
    /\ shutdown = "server"
    /\ port' \in {port, Freed(restarts[NoServer].target)}
    /\ restarts' = Others(NoServer)
    /\ StopDriver
    /\ UNCHANGED <<stick, chain, serving, server, serves, overlap, refused>>

\* Mutant: the driver destroyed is the one constructed at the start.
FirstDriverStopped ==
    /\ shutdown = "driver"
    /\ link' = IF current = 1 THEN "destroyed" ELSE link
    /\ shutdown' = "exited"
    /\ UNCHANGED <<stick, loop, current, dying, status, started, ears, serverVars>>

DriverStopped ==
    /\ shutdown = "driver"
    /\ link' = "destroyed"
    /\ shutdown' = "exited"
    /\ UNCHANGED <<stick, loop, current, dying, status, started, ears, serverVars>>

(* The hard deadline. *)
Deadline ==
    /\ shutdown \in {"clients", "server", "driver"}
    /\ shutdown' = "killed"
    /\ UNCHANGED <<stick, driverVars, serverVars>>

-----------------------------------------------------------------------------
Driver ==
    \/ DriverReady \/ StartFails \/ DriverLost \/ Retry
    \/ \E i \in Ids : Destroyed(i)

Server ==
    \/ ServerListens \/ ServerRefused
    \/ \E i \in Ids : RestartStops(i) \/ RestartListens(i)

Shutdown ==
    Signal \/ ClientsClosed \/ ServerStopped \/ DriverStopped \/ Deadline

Next == StickChanges \/ Driver \/ Server \/ Shutdown

(* Timers fire and calls to zwave-js and the server return.  Nothing is     *)
(* assumed of the stick, of a signal, or of the steps of a shutdown but     *)
(* that the deadline's timer fires.                                         *)
Fairness ==
    /\ WF_vars(DriverReady)
    /\ WF_vars(StartFails)
    /\ WF_vars(Retry)
    /\ \A i \in Ids : WF_vars(Destroyed(i))
    /\ WF_vars(ServerListens \/ ServerRefused)
    /\ \A i \in Ids : WF_vars(RestartStops(i) \/ RestartListens(i))
    /\ WF_vars(Deadline)

Spec == Init /\ [][Next]_vars /\ Fairness

-----------------------------------------------------------------------------
TypeOK ==
    /\ stick \in {"answers", "silent"}
    /\ loop \in {"attempt", "watch", "sleep", "ended"}
    /\ current \in Ids
    /\ link \in {"new", "opening", "ready", "used", "destroyed"}
    /\ dying \subseteq Ids
    /\ status \in {"starting", "ready", "failed"}
    /\ {started, serving, overlap, refused} \subseteq BOOLEAN
    /\ ears \subseteq {"app", "server"}
    /\ chain \in {"driver", "binding", "serving", "failed"}
    /\ {server, port} \subseteq Ids \cup {NoServer}
    /\ serves \in [Ids -> Ids \cup {0}]
    /\ DOMAIN restarts \subseteq Ids \cup {NoServer}
    /\ shutdown \in {"no", "clients", "server", "driver", "exited", "killed"}

(* Once the driver is ready and no restart is under way, what Home          *)
(* Assistant's integration connects to is a server on the driver of now,    *)
(* not on the dead one of before and not on none: provided each restart     *)
(* ended before the next driver was ready, and unless a destroy() or start()*)
(* failed, which is logged and left until the next driver.  Then a restart  *)
(* that succeeds makes up for the failed ones before it.                    *)
ServesLiveDriver ==
    serving /\ link = "ready" /\ DOMAIN restarts = {} /\ ~overlap /\ ~refused
        => port # NoServer /\ serves[port] = current

(* A stick that answers for good is found and used again, however often and *)
(* however it failed before.                                                *)
ReadyAgain ==
    <>[](stick = "answers" /\ shutdown = "no" /\ current < MaxInstances)
        => <>[](status = "ready" /\ link = "ready")

(* A shutdown that was not cut short by its deadline leaves no driver       *)
(* holding the stick: one that is ready by then has been destroyed.         *)
StickReleased == shutdown = "exited" => link # "ready"
=============================================================================
