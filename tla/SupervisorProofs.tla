-------------------------- MODULE SupervisorProofs --------------------------
(***************************************************************************)
(* Supervision of the driver and of its server, for any number of driver   *)
(* instances: what is released at a shutdown, and which driver is served.  *)
(***************************************************************************)
EXTENDS Supervisor, TLAPS

RestartsType ==
    restarts \in [DOMAIN restarts ->
                     [at : {"stopping", "listening"}, target : Ids \cup {NoServer}]]

(* A driver that is ready is watched, and is the one the shutdown would     *)
(* destroy, until the shutdown takes it.                                    *)
DriverInv ==
    /\ started => loop = "watch"
    /\ link = "ready" /\ shutdown \in {"no", "clients", "server"} => started /\ loop = "watch"
    /\ shutdown = "driver" => loop = "ended"
    /\ shutdown = "exited" => link # "ready"

(* The server that listens may be another's only where drivers got ready    *)
(* faster than it restarted, or where it is being stopped for good ...      *)
Orderly == ~overlap /\ (chain = "serving" => serving)

(* ... and there may be none only where a destroy() or start() failed.      *)
Sound == Orderly /\ ~refused

ChainInv ==
    /\ chain = "serving" => server \in Ids /\ "server" \in ears
    /\ chain # "serving" => ~serving /\ DOMAIN restarts = {} /\ port = NoServer
    /\ chain = "driver" => link # "ready"
    /\ chain = "binding" => server \in Ids
    /\ NoServer \in DOMAIN restarts => chain = "serving" /\ ~serving
    /\ shutdown = "server" => NoServer \in DOMAIN restarts

(* While drivers wait for the server, there is one restart at most, and it  *)
(* is the latest driver's, so that a restart that listens puts right what   *)
(* the ones before it left undone.                                          *)
RestartInv ==
    Orderly =>
        /\ \A i, j \in DOMAIN restarts : i = j
        /\ \A i \in DOMAIN restarts :
              /\ link = "ready" => i = current
              /\ restarts[i].at = "stopping" => restarts[i].target = server
              /\ restarts[i].at = "listening" =>
                    server = i /\ restarts[i].target = i /\ serves[i] = i

PortInv ==
    Sound =>
        /\ port \in {server, NoServer}
        /\ \A i \in DOMAIN restarts : restarts[i].at = "listening" => port = NoServer

ServedInv ==
    Sound /\ link = "ready" =>
        /\ chain = "binding" => serves[server] = current
        /\ chain = "serving" /\ DOMAIN restarts = {} => port # NoServer /\ serves[port] = current

IInv == TypeOK /\ RestartsType /\ DriverInv /\ ChainInv /\ RestartInv /\ PortInv /\ ServedInv

-----------------------------------------------------------------------------
Calls == [at : {"stopping", "listening"}, target : Ids \cup {NoServer}]

LEMMA RestartsParts == RestartsType <=> restarts \in [DOMAIN restarts -> Calls]
BY DEF RestartsType, Calls

LEMMA FirstId == 1 \in Ids /\ NoServer \notin Ids
BY SupervisorAssumption DEF Ids, NoServer

LEMMA OthersAre ==
    ASSUME RestartsType, NEW i
    PROVE  /\ DOMAIN Others(i) = DOMAIN restarts \ {i}
           /\ \A j \in DOMAIN restarts \ {i} : Others(i)[j] = restarts[j]
           /\ Others(i) \in [DOMAIN Others(i) -> Calls]
BY RestartsParts DEF Others, Restrict

LEMMA InitInv == Init => IInv
<1> SUFFICES ASSUME Init PROVE IInv
    OBVIOUS
<1>1. DOMAIN restarts = {} /\ RestartsType
    BY DEF Init, RestartsType
<1>2. TypeOK
    BY <1>1, FirstId DEF Init, TypeOK
<1>3. DriverInv
    BY DEF Init, DriverInv
<1>4. ChainInv /\ RestartInv /\ PortInv /\ ServedInv
    BY <1>1 DEF Init, ChainInv, RestartInv, PortInv, ServedInv
<1> QED BY <1>1, <1>2, <1>3, <1>4 DEF IInv

-----------------------------------------------------------------------------
(* The driver.                                                              *)

LEMMA DriverReadyInv ==
    ASSUME IInv, DriverReady
    PROVE  IInv'
<1>1. /\ Up /\ loop = "attempt" /\ link = "opening"
      /\ link' = "ready" /\ status' = "ready" /\ started' = TRUE /\ loop' = "watch"
      /\ OnDriverReady
      /\ UNCHANGED <<stick, current, dying, ears, shutdown>>
    BY DEF DriverReady
<1>2. shutdown \in {"no", "clients", "server"}
    BY <1>1 DEF IInv, DriverInv, TypeOK, Up
<1>3. DriverInv'
    BY <1>1, <1>2 DEF DriverInv
<1>4. CASE chain = "driver"
  <2>1. /\ chain' = "binding" /\ server' = current
        /\ serves' = [serves EXCEPT ![current] = current]
        /\ UNCHANGED <<serving, port, restarts, overlap, refused>>
      BY <1>1, <1>4 DEF OnDriverReady
  <2>2. /\ DOMAIN restarts = {} /\ ~serving /\ port = NoServer
      BY <1>4 DEF IInv, ChainInv
  <2>3. RestartsType' /\ TypeOK'
      BY <1>1, <2>1 DEF IInv, TypeOK, RestartsType
  <2>4. ChainInv'
      BY <1>1, <1>4, <2>1, <2>2 DEF IInv, ChainInv, TypeOK
  <2>5. RestartInv' /\ PortInv'
      BY <1>1, <2>1, <2>2 DEF RestartInv, PortInv
  <2>6. ServedInv'
      BY <1>1, <2>1 DEF IInv, TypeOK, ServedInv
  <2> QED BY <1>3, <2>3, <2>4, <2>5, <2>6 DEF IInv
<1>5. CASE chain # "driver" /\ "server" \in ears /\ serving
  <2>1. /\ overlap' = (overlap \/ chain = "binding" \/ DOMAIN restarts # {})
        /\ restarts' = [i \in DOMAIN restarts \cup {current} |->
                           IF i = current THEN [at |-> "stopping", target |-> server]
                           ELSE restarts[i]]
        /\ UNCHANGED <<chain, serving, server, port, serves, refused>>
      BY <1>1, <1>5 DEF OnDriverReady
  <2>2. chain = "serving" /\ server \in Ids /\ current \in Ids
      BY <1>5 DEF IInv, ChainInv, TypeOK
  <2>3. /\ DOMAIN restarts' = DOMAIN restarts \cup {current}
        /\ restarts'[current] = [at |-> "stopping", target |-> server]
      BY <2>1
  <2>4. RestartsType'
      BY <2>1, <2>2, <2>3 DEF IInv, RestartsType
  <2>5. overlap' \in BOOLEAN
      BY <2>1 DEF IInv, TypeOK
  <2>6. TypeOK'
      BY <1>1, <2>1, <2>2, <2>3, <2>5 DEF IInv, TypeOK
  <2>7. ChainInv'
      BY <1>1, <2>1, <2>2, <2>3, FirstId DEF IInv, ChainInv
  <2>8. Orderly' => Orderly /\ DOMAIN restarts = {}
      BY <2>1 DEF Orderly
  <2>9. RestartInv' /\ PortInv'
      BY <1>1, <2>1, <2>3, <2>8 DEF IInv, RestartInv, PortInv, Sound
  <2>10. ServedInv'
      BY <2>1, <2>2, <2>3 DEF ServedInv
  <2> QED BY <1>3, <2>4, <2>6, <2>7, <2>9, <2>10 DEF IInv
<1>6. CASE chain # "driver" /\ ~("server" \in ears /\ serving)
  <2>1. /\ overlap' = (overlap \/ chain = "binding" \/ DOMAIN restarts # {})
        /\ UNCHANGED <<chain, serving, server, port, serves, restarts, refused>>
      BY <1>1, <1>6 DEF OnDriverReady
  <2>2. overlap' \in BOOLEAN
      BY <2>1 DEF IInv, TypeOK
  <2>3. TypeOK' /\ RestartsType'
      BY <1>1, <2>1, <2>2 DEF IInv, TypeOK, RestartsType
  <2>4. ChainInv'
      BY <1>1, <1>6, <2>1 DEF IInv, ChainInv
  <2>5. Orderly' => Orderly /\ chain \notin {"binding", "serving"} /\ DOMAIN restarts = {}
      BY <1>6, <2>1 DEF Orderly, IInv, ChainInv
  <2>6. RestartInv' /\ PortInv' /\ ServedInv'
      BY <2>1, <2>5 DEF IInv, RestartInv, PortInv, ServedInv, Sound
  <2> QED BY <1>3, <2>3, <2>4, <2>6 DEF IInv
<1> QED BY <1>4, <1>5, <1>6

(* Where the driver is not ready, nothing is asked of the server. *)
LEMMA NotReadyInv ==
    ASSUME IInv, UNCHANGED serverVars, UNCHANGED ears, UNCHANGED shutdown,
           TypeOK', DriverInv', link' # "ready"
    PROVE  IInv'
<1>1. UNCHANGED <<chain, serving, server, port, serves, restarts, overlap, refused>>
    BY DEF serverVars
<1>2. RestartsType' /\ ChainInv'
    BY <1>1 DEF IInv, RestartsType, ChainInv
<1>3. RestartInv' /\ PortInv'
    BY <1>1 DEF IInv, RestartInv, PortInv, Orderly, Sound
<1>4. ServedInv'
    BY DEF ServedInv
<1> QED BY <1>2, <1>3, <1>4 DEF IInv

LEMMA FailInv ==
    ASSUME IInv, StartFails \/ DriverLost
    PROVE  IInv'
<1>1. Fail /\ Up /\ loop \in {"attempt", "watch"} /\ UNCHANGED <<stick, serverVars, shutdown>>
    BY DEF StartFails, DriverLost
<1>2. current' = current + 1 /\ current < MaxInstances /\ current' \in Ids
  <2>1. current \in Nat /\ MaxInstances \in Nat /\ 1 <= current
      BY SupervisorAssumption DEF IInv, TypeOK, Ids
  <2> QED BY <1>1, <2>1 DEF Fail, Ids
<1>3. TypeOK'
    BY <1>1, <1>2 DEF IInv, TypeOK, Fail, serverVars
<1>4. DriverInv'
    BY <1>1 DEF IInv, DriverInv, Fail
<1> QED BY <1>1, <1>3, <1>4, NotReadyInv DEF Fail

LEMMA RetryInv ==
    ASSUME IInv, Retry
    PROVE  IInv'
<1>1. link # "ready" /\ link' # "ready" /\ loop = "sleep" /\ Up
    BY DEF Retry, IInv, DriverInv, Up, TypeOK
<1>2. TypeOK' /\ DriverInv'
    BY <1>1 DEF Retry, IInv, TypeOK, DriverInv, serverVars
<1> QED BY <1>1, <1>2, NotReadyInv DEF Retry

(* What neither the driver nor the server notices. *)
LEMMA UnnoticedInv ==
    ASSUME IInv, UNCHANGED serverVars,
           UNCHANGED <<loop, current, link, status, started, ears>>,
           TypeOK',
           \/ UNCHANGED shutdown
           \/ shutdown = "no" /\ shutdown' = "clients"
           \/ shutdown' = "killed"
    PROVE  IInv'
<1>1. UNCHANGED <<chain, serving, server, port, serves, restarts, overlap, refused>>
    BY DEF serverVars
<1>2. RestartsType' /\ DriverInv' /\ ChainInv'
    BY <1>1 DEF IInv, RestartsType, DriverInv, ChainInv
<1>3. RestartInv' /\ PortInv' /\ ServedInv'
    BY <1>1 DEF IInv, RestartInv, PortInv, ServedInv, Orderly, Sound
<1> QED BY <1>2, <1>3 DEF IInv

LEMMA OtherInv ==
    ASSUME IInv,
           \/ StickChanges \/ Signal \/ Deadline
           \/ \E i \in Ids : Destroyed(i)
           \/ UNCHANGED vars
    PROVE  IInv'
<1>1. /\ UNCHANGED serverVars /\ UNCHANGED <<loop, current, link, status, started, ears>>
      /\ \/ UNCHANGED shutdown
         \/ shutdown = "no" /\ shutdown' = "clients"
         \/ shutdown' = "killed"
    BY DEF StickChanges, Signal, Deadline, Destroyed, vars, driverVars
<1>2. stick' \in {"answers", "silent"} /\ dying' \subseteq Ids
    BY DEF StickChanges, Signal, Deadline, Destroyed, vars, driverVars, IInv, TypeOK
<1>3. TypeOK'
    BY <1>1, <1>2 DEF IInv, TypeOK, serverVars
<1> QED BY <1>1, <1>3, UnnoticedInv

-----------------------------------------------------------------------------
(* The server.                                                              *)

LEMMA BindingInv ==
    ASSUME IInv, ServerListens \/ ServerRefused
    PROVE  IInv'
<1>1. chain = "binding" /\ server \in Ids /\ DOMAIN restarts = {} /\ ~serving /\ port = NoServer
    BY DEF ServerListens, ServerRefused, IInv, ChainInv
<1>2. /\ UNCHANGED <<stick, loop, current, link, dying, status, started,
                     server, serves, restarts, overlap, refused, shutdown>>
      /\ \/ /\ chain' = "serving" /\ serving' = TRUE /\ port' = server
            /\ ears' = ears \cup {"server"}
         \/ chain' = "failed" /\ UNCHANGED <<serving, port, ears>>
    BY DEF ServerListens, ServerRefused, driverVars
<1>3. TypeOK' /\ RestartsType' /\ DriverInv'
    BY <1>1, <1>2 DEF IInv, TypeOK, RestartsType, DriverInv
<1>4. ChainInv'
    BY <1>1, <1>2, FirstId DEF IInv, ChainInv
<1>5. RestartInv' /\ PortInv'
    BY <1>1, <1>2 DEF RestartInv, PortInv
<1>6. ServedInv'
  <2>1. Sound' => Sound
      BY <1>1, <1>2 DEF Orderly, Sound
  <2> QED BY <1>1, <1>2, <2>1, FirstId DEF IInv, ServedInv
<1> QED BY <1>3, <1>4, <1>5, <1>6 DEF IInv

LEMMA RestartStopsInv ==
    ASSUME IInv, NEW i \in Ids, RestartStops(i)
    PROVE  IInv'
<1>1. /\ i \in DOMAIN restarts /\ restarts[i].at = "stopping"
      /\ port' \in {port, Freed(restarts[i].target)} /\ server' = i
      /\ refused' = (refused \/ port' = restarts[i].target)
      /\ UNCHANGED <<stick, driverVars, chain, serving, overlap, shutdown>>
      /\ UNCHANGED <<loop, current, link, dying, status, started, ears>>
    BY DEF RestartStops, driverVars
<1>2. chain = "serving" /\ "server" \in ears /\ restarts[i] \in Calls /\ restarts[i].target \in Ids \cup {NoServer}
    BY <1>1, RestartsParts DEF IInv, ChainInv, Calls
<1>3. port' \in Ids \cup {NoServer} /\ refused' \in BOOLEAN
    BY <1>1 DEF Freed, IInv, TypeOK
<1>4. DriverInv'
    BY <1>1 DEF IInv, DriverInv
<1>5. /\ Orderly' <=> Orderly
      /\ Sound' => Sound /\ port' # restarts[i].target
    BY <1>1 DEF Orderly, Sound
<1>6. /\ Orderly => /\ DOMAIN restarts = {i} /\ (link = "ready" => i = current)
                    /\ restarts[i].target = server
      /\ Sound' => port' = NoServer
  <2>1. Orderly => /\ DOMAIN restarts = {i} /\ (link = "ready" => i = current)
                   /\ restarts[i].target = server
      BY <1>1 DEF IInv, RestartInv
  <2>2. Sound' => port' = NoServer
      BY <1>1, <1>5, <2>1 DEF IInv, PortInv, Sound, Freed
  <2> QED BY <2>1, <2>2
<1>7. CASE link = "ready"
  <2>1. /\ serves' = [serves EXCEPT ![i] = current]
        /\ restarts' = [restarts EXCEPT ![i] = [at |-> "listening", target |-> i]]
      BY <1>7 DEF RestartStops
  <2>2. /\ DOMAIN restarts' = DOMAIN restarts
        /\ restarts'[i] = [at |-> "listening", target |-> i]
        /\ restarts' \in [DOMAIN restarts' -> Calls]
      BY <1>1, <2>1, RestartsParts DEF IInv, Calls
  <2>3. RestartsType'
      BY <2>2 DEF RestartsType, Calls
  <2>4. serves' \in [Ids -> Ids \cup {0}] /\ serves'[i] = current
      BY <2>1 DEF IInv, TypeOK
  <2>5. TypeOK'
      BY <1>1, <1>3, <2>2, <2>4 DEF IInv, TypeOK
  <2>6. ChainInv'
      BY <1>1, <1>2, <2>2 DEF IInv, ChainInv
  <2>7. RestartInv' /\ PortInv'
      BY <1>1, <1>5, <1>6, <1>7, <2>2, <2>4 DEF RestartInv, PortInv
  <2>8. ServedInv'
      BY <1>1, <1>2, <2>2 DEF ServedInv
  <2> QED BY <1>4, <2>3, <2>5, <2>6, <2>7, <2>8 DEF IInv
<1>8. CASE link # "ready"
  <2>1. restarts' = Others(i) /\ UNCHANGED serves
      BY <1>8 DEF RestartStops
  <2>2. DOMAIN restarts' = DOMAIN restarts \ {i} /\ restarts' \in [DOMAIN restarts' -> Calls]
      BY <2>1, OthersAre DEF IInv
  <2>3. RestartsType'
      BY <2>2 DEF RestartsType, Calls
  <2>4. TypeOK'
      BY <1>1, <1>3, <2>1, <2>2 DEF IInv, TypeOK
  <2>5. ChainInv'
      BY <1>1, <1>2, <2>2, FirstId DEF IInv, ChainInv
  <2>6. RestartInv' /\ PortInv'
      BY <1>5, <1>6, <2>2 DEF RestartInv, PortInv
  <2>7. ServedInv'
      BY <1>1, <1>8 DEF ServedInv
  <2> QED BY <1>4, <2>3, <2>4, <2>5, <2>6, <2>7 DEF IInv
<1> QED BY <1>7, <1>8

LEMMA RestartListensInv ==
    ASSUME IInv, NEW i \in Ids, RestartListens(i)
    PROVE  IInv'
<1>1. /\ i \in DOMAIN restarts /\ restarts[i].at = "listening"
      /\ restarts' = Others(i)
      /\ \/ port = NoServer /\ port' = restarts[i].target /\ refused' = FALSE
         \/ port = NoServer /\ port' = NoServer /\ refused' = TRUE
         \/ port # NoServer /\ UNCHANGED <<port, refused>>
      /\ UNCHANGED <<stick, loop, current, link, dying, status, started, ears,
                     chain, serving, server, serves, overlap, shutdown>>
    BY DEF RestartListens, driverVars
<1>2. chain = "serving" /\ restarts[i] \in Calls
    BY <1>1, RestartsParts DEF IInv, ChainInv
<1>3. /\ DOMAIN restarts' = DOMAIN restarts \ {i} /\ restarts' \in [DOMAIN restarts' -> Calls]
    BY <1>1, OthersAre DEF IInv
<1>4. RestartsType'
    BY <1>3 DEF RestartsType, Calls
<1>5. port' \in Ids \cup {NoServer} /\ refused' \in BOOLEAN
    BY <1>1, <1>2 DEF IInv, TypeOK, Calls
<1>6. TypeOK'
    BY <1>1, <1>3, <1>5 DEF IInv, TypeOK
<1>7. DriverInv' /\ ChainInv'
    BY <1>1, <1>2, <1>3, FirstId DEF IInv, DriverInv, ChainInv
<1>8. Orderly' => /\ DOMAIN restarts' = {} /\ restarts[i].target = i
                  /\ server' = i /\ serves'[i] = i
                  /\ link = "ready" => i = current
    BY <1>1, <1>3 DEF IInv, RestartInv, Orderly
<1>9. Sound' => Orderly' /\ port' = restarts[i].target
  <2>1. ASSUME Sound', port # NoServer PROVE FALSE
    <3>1. Sound
        BY <1>1, <2>1 DEF Sound, Orderly
    <3> QED BY <1>1, <2>1, <3>1 DEF IInv, PortInv
  <2> QED BY <1>1, <2>1 DEF Sound
<1>10. RestartInv' /\ PortInv'
    BY <1>8, <1>9 DEF RestartInv, PortInv
<1>11. ServedInv'
  <2> SUFFICES ASSUME Sound', link' = "ready" PROVE port' # NoServer /\ serves'[port'] = current'
      BY <1>1, <1>2 DEF ServedInv
  <2> QED BY <1>1, <1>8, <1>9, FirstId
<1> QED BY <1>4, <1>6, <1>7, <1>10, <1>11 DEF IInv

-----------------------------------------------------------------------------
(* The shutdown.                                                            *)

(* The driver is given up: a ready one is destroyed before the process ends.*)
LEMMA StopDriverInv ==
    ASSUME IInv, StopDriver, shutdown \in {"clients", "server"}
    PROVE  /\ DriverInv'
           /\ loop' \in {"attempt", "watch", "sleep", "ended"}
           /\ started' = FALSE /\ shutdown' \in {"driver", "exited"}
           /\ UNCHANGED <<current, link, dying, status, ears>>
<1>1. /\ loop' = IF loop \in {"sleep", "watch"} THEN "ended" ELSE loop
      /\ started' = FALSE /\ shutdown' = IF started THEN "driver" ELSE "exited"
      /\ UNCHANGED <<current, link, dying, status, ears>>
    BY DEF StopDriver
<1>2. loop \in {"attempt", "watch", "sleep", "ended"}
    BY DEF IInv, TypeOK
<1>3. DriverInv'
    BY <1>1, <1>2 DEF IInv, DriverInv
<1> QED BY <1>1, <1>2, <1>3

LEMMA ClientsClosedInv ==
    ASSUME IInv, ClientsClosed
    PROVE  IInv'
<1>1. shutdown = "clients" /\ UNCHANGED <<stick, chain, server, port, serves, overlap, refused>>
    BY DEF ClientsClosed
<1>2. CASE server # NoServer /\ serving
  <2>1. /\ serving' = FALSE /\ shutdown' = "server"
        /\ restarts' = [i \in DOMAIN restarts \cup {NoServer} |->
                           IF i = NoServer THEN [at |-> "stopping", target |-> server]
                           ELSE restarts[i]]
        /\ UNCHANGED <<loop, current, link, dying, status, started, ears>>
      BY <1>2 DEF ClientsClosed, driverVars
  <2>2. chain = "serving" /\ server \in Ids
      BY <1>2 DEF IInv, ChainInv
  <2>3. DOMAIN restarts' = DOMAIN restarts \cup {NoServer}
      BY <2>1
  <2>4. RestartsType'
      BY <2>1, <2>2, <2>3 DEF IInv, RestartsType
  <2>5. TypeOK'
      BY <1>1, <2>1, <2>3 DEF IInv, TypeOK
  <2>6. DriverInv' /\ ChainInv'
      BY <1>1, <2>1, <2>2, <2>3 DEF IInv, DriverInv, ChainInv
  <2>7. ~Orderly'
      BY <1>1, <2>1, <2>2 DEF Orderly
  <2> QED BY <2>4, <2>5, <2>6, <2>7 DEF IInv, RestartInv, PortInv, ServedInv, Sound
<1>3. CASE ~(server # NoServer /\ serving)
  <2>1. StopDriver /\ UNCHANGED <<serving, restarts>>
      BY <1>3 DEF ClientsClosed
  <2>2. /\ DriverInv' /\ loop' \in {"attempt", "watch", "sleep", "ended"}
        /\ started' = FALSE /\ shutdown' \in {"driver", "exited"}
        /\ UNCHANGED <<current, link, dying, status, ears>>
      BY <1>1, <2>1, StopDriverInv
  <2>3. TypeOK' /\ RestartsType'
      BY <1>1, <2>1, <2>2 DEF IInv, TypeOK, RestartsType
  <2>4. ChainInv'
      BY <1>1, <2>1, <2>2 DEF IInv, ChainInv
  <2>5. RestartInv' /\ PortInv' /\ ServedInv'
      BY <1>1, <2>1, <2>2 DEF IInv, RestartInv, PortInv, ServedInv, Orderly, Sound
  <2> QED BY <2>2, <2>3, <2>4, <2>5 DEF IInv
<1> QED BY <1>2, <1>3

LEMMA ServerStoppedInv ==
    ASSUME IInv, ServerStopped
    PROVE  IInv'
<1>1. /\ shutdown = "server" /\ StopDriver
      /\ port' \in {port, Freed(restarts[NoServer].target)} /\ restarts' = Others(NoServer)
      /\ UNCHANGED <<stick, chain, serving, server, serves, overlap, refused>>
    BY DEF ServerStopped
<1>2. chain = "serving" /\ ~serving
    BY <1>1 DEF IInv, ChainInv
<1>3. /\ DriverInv' /\ loop' \in {"attempt", "watch", "sleep", "ended"}
      /\ started' = FALSE /\ shutdown' \in {"driver", "exited"}
      /\ UNCHANGED <<current, link, dying, status, ears>>
    BY <1>1, StopDriverInv
<1>4. DOMAIN restarts' = DOMAIN restarts \ {NoServer} /\ restarts' \in [DOMAIN restarts' -> Calls]
    BY <1>1, OthersAre DEF IInv
<1>5. RestartsType'
    BY <1>4 DEF RestartsType, Calls
<1>6. TypeOK'
    BY <1>1, <1>3, <1>4 DEF IInv, TypeOK, Freed
<1>7. ChainInv'
    BY <1>1, <1>2, <1>3, <1>4 DEF IInv, ChainInv
<1>8. ~Orderly'
    BY <1>1, <1>2 DEF Orderly
<1> QED BY <1>3, <1>5, <1>6, <1>7, <1>8 DEF IInv, RestartInv, PortInv, ServedInv, Sound

LEMMA DriverStoppedInv ==
    ASSUME IInv, DriverStopped
    PROVE  IInv'
<1>1. /\ shutdown = "driver" /\ link' = "destroyed" /\ shutdown' = "exited"
      /\ UNCHANGED <<stick, loop, current, dying, status, started, ears>>
      /\ UNCHANGED <<chain, serving, server, port, serves, restarts, overlap, refused>>
    BY DEF DriverStopped, serverVars
<1>2. TypeOK' /\ RestartsType' /\ ChainInv'
    BY <1>1 DEF IInv, TypeOK, RestartsType, ChainInv
<1>3. DriverInv'
    BY <1>1 DEF IInv, DriverInv
<1>4. RestartInv' /\ PortInv' /\ ServedInv'
    BY <1>1 DEF IInv, RestartInv, PortInv, ServedInv, Orderly, Sound
<1> QED BY <1>2, <1>3, <1>4 DEF IInv

-----------------------------------------------------------------------------
LEMMA NextInv == IInv /\ [Next]_vars => IInv'
BY DriverReadyInv, FailInv, RetryInv, OtherInv, BindingInv, RestartStopsInv, RestartListensInv,
   ClientsClosedInv, ServerStoppedInv, DriverStoppedInv
   DEF Next, Driver, Server, Shutdown

LEMMA Invariant == Spec => []IInv
BY InitInv, NextInv, PTL DEF Spec

(* The supervision, its server and the shutdown keep their form. *)
THEOREM TypeCorrect == Spec => []TypeOK
<1>1. IInv => TypeOK
    BY DEF IInv
<1> QED BY <1>1, Invariant, PTL

(* createShutdown and stopDriver: whatever the driver was doing when the    *)
(* signal came, however often it was replaced before, a shutdown that runs  *)
(* to its end leaves no ready driver behind.                                *)
THEOREM ShutdownReleases == Spec => []StickReleased
<1>1. IInv => StickReleased
    BY DEF IInv, DriverInv, StickReleased
<1> QED BY <1>1, Invariant, PTL

(* restartForNewDriver: for any number of replacements, the server that     *)
(* listens is on the ready driver of now, as long as no driver gets ready   *)
(* while a server is still being started or restarted, and unless a         *)
(* destroy() or start() failed and no restart has succeeded since: one that *)
(* succeeds makes up for whatever failed before it.                         *)
THEOREM LiveDriverServed == Spec => []ServesLiveDriver
<1>1. IInv => ServesLiveDriver
    BY DEF IInv, ChainInv, ServedInv, Orderly, Sound, ServesLiveDriver
<1> QED BY <1>1, Invariant, PTL
=============================================================================
