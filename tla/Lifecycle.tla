------------------------------ MODULE Lifecycle ------------------------------
(***************************************************************************)
(* The life of the library in the server's process: InitThread and             *)
(* ShutdownListeners of src/src/rsdwapi.cpp around the REST server of          *)
(* src/src/http/http_server.cpp.  exit runs ShutdownListeners on the game      *)
(* thread, so from then on nobody drains the queue: a REST request or a sweep   *)
(* that waits in RunSync waits for the thread that is waiting for it, and only  *)
(* its timeout parts them.                                                     *)
(*                                                                             *)
(* RconServer, Discord, GameThread and Moderation model the other parts in     *)
(* detail; here RCON's Stop is a step that returns, a sender runs or does not,  *)
(* and a call of RunSync is a wait that the game thread or time ends.          *)
(***************************************************************************)
EXTENDS EngineDiscovery, FiniteSets

CONSTANTS Clients,     \* bound: REST handler threads alive at once
          MaxKicks,    \* bound: players one sweep removes
          None

ASSUME LifecycleAssumption == MaxKicks \in Nat /\ None \notin Clients

VARIABLES
  init,         \* where InitThread is
  kicks,        \* players the sweep still has to kick
  exiter,       \* where the game thread is, in its loop or in exit
  registered,   \* atexit has been told of ShutdownListeners
  g_Shutdown,
  listening,    \* the event listener has been added, with InitThread's locals
  pump,         \* a pump is installed
  running,      \* HttpServer::running
  listener,     \* ListenerLoop: where it is
  client,       \* HandleClient: where each is
  routesMutex,  \* who holds it
  sender        \* the Discord sender

httpVars == <<running, listener, client, routesMutex>>
vars == <<init, kicks, exiter, registered, g_Shutdown, listening, pump, httpVars, sender,
          engineVars>>

ExitPlaces == {"game", "httpStop", "httpJoin", "httpWait", "rconStop", "discordStop",
               "initJoin", "done", "gone"}
Open == {c \in Clients : client[c] # "free"}

TypeOK ==
  /\ EngineTypeOK
  /\ init \in {"listeners", "atexit", "engine", "names", "objects", "check", "retry", "pump",
               "discord", "load", "sleep", "sweep", "sync", "ended"}
  /\ kicks \in 0..MaxKicks
  /\ exiter \in ExitPlaces
  /\ registered \in BOOLEAN /\ g_Shutdown \in BOOLEAN
  /\ listening \in BOOLEAN /\ pump \in BOOLEAN /\ running \in BOOLEAN
  /\ listener \in {"none", "select", "accepted", "exited"}
  /\ client \in [Clients -> {"free", "parse", "lock", "route", "read", "sync", "send"}]
  /\ routesMutex \in Clients \cup {None}
  /\ sender \in {"none", "running", "stopped"}

\* RSDWApiLoad: the library is loaded and starts InitThread.
Init ==
  /\ init = "listeners" /\ kicks = 0
  /\ exiter = "game" /\ registered = FALSE /\ g_Shutdown = FALSE
  /\ listening = FALSE /\ pump = FALSE
  /\ running = FALSE /\ listener = "none"
  /\ client = [c \in Clients |-> "free"] /\ routesMutex = None
  /\ sender = "none"
  /\ EngineInit

-----------------------------------------------------------------------------
(* InitThread.                                                             *)

InitGoes(from, to) == init = from /\ init' = to

\* The config, and StartListeners: HttpServer::Start, unless REST is disabled or
\* the socket cannot be had.
StartListeners ==
  /\ InitGoes("listeners", "atexit")
  /\ \/ running' = TRUE /\ listener' = "select"
     \/ UNCHANGED <<running, listener>>
  /\ UNCHANGED <<kicks, exiter, registered, g_Shutdown, listening, pump, client, routesMutex,
                 sender, engineVars>>

\* atexit; with both listeners disabled InitThread is over.
Register ==
  /\ \/ InitGoes("atexit", "engine")
     \/ InitGoes("atexit", "ended") /\ ~running
  /\ registered' = TRUE
  /\ UNCHANGED <<kicks, exiter, g_Shutdown, listening, pump, httpVars, sender, engineVars>>

-----------------------------------------------------------------------------
(* Engine::Initialize is tried until it succeeds or the process shuts down. *)

EngineGoes(from, to) ==
  /\ InitGoes(from, to)
  /\ UNCHANGED <<kicks, exiter, registered, g_Shutdown, listening, pump, httpVars, sender>>

\* The loop's test, and the wait of one to thirty seconds after an attempt that
\* failed, cut short by g_Shutdown.  ResolveModule asks the loader for the main
\* image, which is always there.
Attempt ==
  /\ \/ EngineGoes("engine", "names") /\ ~g_Shutdown
     \/ EngineGoes("engine", "ended") /\ g_Shutdown
     \/ EngineGoes("retry", "engine")
  /\ UNCHANGED engineVars

EngineInitialize ==
  \/ EngineGoes("names", "objects") /\ Resolve("names", TRUE)
  \/ EngineGoes("names", "retry") /\ Resolve("names", FALSE)
  \/ EngineGoes("objects", "check") /\ Resolve("objects", TRUE)
  \/ EngineGoes("objects", "retry") /\ Resolve("objects", FALSE)
  \/ EngineGoes("check", "retry") /\ CrossCheck(FALSE)
  \/ EngineGoes("check", IF g_Shutdown THEN "ended" ELSE "pump") /\ CrossCheck(TRUE)

-----------------------------------------------------------------------------
(* The rest of InitThread.                                                 *)

\* Initialize or InstallExecPump, and DomChat::Initialize; without a pump
\* InitThread is over.
InstallPump ==
  /\ \/ InitGoes("pump", "discord") /\ pump' = TRUE
     \/ InitGoes("pump", "ended") /\ UNCHANGED pump
  /\ UNCHANGED <<kicks, exiter, registered, g_Shutdown, listening, httpVars, sender, engineVars>>

\* Discord::Start, if it is enabled; g_Shutdown is not looked at.
StartDiscord ==
  /\ InitGoes("discord", "load")
  /\ \/ sender' = "running"
     \/ UNCHANGED sender
  /\ UNCHANGED <<kicks, exiter, registered, g_Shutdown, listening, pump, httpVars, engineVars>>

\* DomBans::Load and AddEventListener.
LoadBans ==
  /\ InitGoes("load", "sleep")
  /\ listening' = TRUE
  /\ UNCHANGED <<kicks, exiter, registered, g_Shutdown, pump, httpVars, sender, engineVars>>

\* The loop: two seconds, cut short by g_Shutdown, then a sweep of players to kick.
Sleep ==
  /\ \/ InitGoes("sleep", "ended") /\ g_Shutdown /\ UNCHANGED kicks
     \/ InitGoes("sleep", "sweep") /\ ~g_Shutdown /\ kicks' \in 0..MaxKicks
  /\ UNCHANGED <<exiter, registered, g_Shutdown, listening, pump, httpVars, sender, engineVars>>

\* EnforceKicks and Enforce go on to the next player without a look at g_Shutdown.
SweepNext ==
  /\ \/ InitGoes("sweep", "sync") /\ kicks > 0 /\ kicks' = kicks - 1
     \/ InitGoes("sweep", "sleep") /\ kicks = 0 /\ UNCHANGED kicks
  /\ UNCHANGED <<exiter, registered, g_Shutdown, listening, pump, httpVars, sender, engineVars>>

SweepGoesOn ==
  /\ InitGoes("sync", "sweep")
  /\ UNCHANGED <<kicks, exiter, registered, g_Shutdown, listening, pump, httpVars, sender,
                 engineVars>>

\* The sweep's RunSync returns because the game thread, in its loop, has run it,
SweepRuns == exiter = "game" /\ SweepGoesOn

\* Faulty variant: RunSync waits as long as the job is queued.
SweepWaits == exiter = "game" /\ SweepGoesOn

\* Faulty variant: InitThread gives up after a sweep that has timed out.
SweepGivesUp ==
  /\ InitGoes("sync", "ended")
  /\ UNCHANGED <<kicks, exiter, registered, g_Shutdown, listening, pump, httpVars, sender,
                 engineVars>>

\* or because ten seconds have passed.
SweepTimesOut == SweepGoesOn

-----------------------------------------------------------------------------
(* The game thread: exit, and ShutdownListeners.                           *)

ExitGoes(from, to) ==
  /\ exiter = from /\ exiter' = to
  /\ UNCHANGED <<init, kicks, registered, listening, pump, engineVars>>

\* exit before atexit: RSDWApiUnload is all that runs, and the process is gone.
ExitEarly ==
  /\ ExitGoes("game", "gone") /\ ~registered
  /\ g_Shutdown' = TRUE
  /\ UNCHANGED <<httpVars, sender>>

Exit ==
  /\ ExitGoes("game", "httpStop") /\ registered
  /\ g_Shutdown' = TRUE
  /\ UNCHANGED <<httpVars, sender>>

\* HttpServer::Stop: it returns if the server does not run; otherwise the
\* listener is told,
HttpStop ==
  /\ IF running THEN ExitGoes("httpStop", "httpJoin") ELSE ExitGoes("httpStop", "rconStop")
  /\ running' = FALSE
  /\ UNCHANGED <<g_Shutdown, listener, client, routesMutex, sender>>

\* Faulty variant: the listener is not joined.
HttpDetach ==
  /\ ExitGoes("httpJoin", "httpWait")
  /\ UNCHANGED <<g_Shutdown, httpVars, sender>>

\* joined,
HttpJoin ==
  /\ ExitGoes("httpJoin", "httpWait") /\ listener = "exited"
  /\ UNCHANGED <<g_Shutdown, httpVars, sender>>

\* and its clients have a second to finish.
HttpWait ==
  /\ ExitGoes("httpWait", "rconStop")
  /\ UNCHANGED <<g_Shutdown, httpVars, sender>>

RconStop ==
  /\ ExitGoes("rconStop", "discordStop")
  /\ UNCHANGED <<g_Shutdown, httpVars, sender>>

\* Discord::Stop stops a sender that runs.
DiscordStop ==
  /\ ExitGoes("discordStop", "initJoin")
  /\ sender' = IF sender = "running" THEN "stopped" ELSE sender
  /\ UNCHANGED <<g_Shutdown, httpVars>>

\* InitThread is joined, and ShutdownListeners returns.
JoinInit ==
  /\ ExitGoes("initJoin", "done") /\ init = "ended"
  /\ UNCHANGED <<g_Shutdown, httpVars, sender>>

-----------------------------------------------------------------------------
(* The REST server.                                                        *)

otherVars == <<init, kicks, exiter, registered, g_Shutdown, listening, pump, running, sender,
               engineVars>>

\* ListenerLoop: accept and the whitelist, the start of a handler, the end.
Accept ==
  /\ listener = "select" /\ running
  /\ listener' = "accepted"
  /\ UNCHANGED <<otherVars, client, routesMutex>>

Spawn(c) ==
  /\ listener = "accepted" /\ client[c] = "free"
  /\ listener' = "select"
  /\ client' = [client EXCEPT ![c] = "parse"]
  /\ UNCHANGED <<otherVars, routesMutex>>

ListenerExit ==
  /\ listener = "select" /\ ~running
  /\ listener' = "exited"
  /\ UNCHANGED <<otherVars, client, routesMutex>>

ClientGoes(c, from, to) ==
  /\ client[c] = from
  /\ client' = [client EXCEPT ![c] = to]
  /\ UNCHANGED <<otherVars, listener>>

\* ParseRequest fails or times out, or the request is answered without a route:
\* OPTIONS, and a wrong token.
Refuse(c) ==
  /\ ClientGoes(c, "parse", "free") \/ ClientGoes(c, "parse", "send")
  /\ UNCHANGED routesMutex

Parsed(c) == ClientGoes(c, "parse", "lock") /\ UNCHANGED routesMutex

Lock(c) == ClientGoes(c, "lock", "route") /\ routesMutex = None /\ routesMutex' = c

\* The route's handler has seen EngineReady and reads the game's objects; kick, ban,
\* give and broadcast of a player who is there then wait in RunSync.  The mutex is
\* held all the while.
RouteReads(c) == ClientGoes(c, "route", "read") /\ initialized /\ UNCHANGED routesMutex
RouteWaits(c) == ClientGoes(c, "read", "sync") /\ pump /\ UNCHANGED routesMutex

\* Faulty variant: a handler that has waited leaves the mutex locked.
RouteEndsLocked(c) ==
  \/ \E from \in {"route", "read"} : ClientGoes(c, from, "send") /\ routesMutex' = None
  \/ ClientGoes(c, "sync", "send") /\ UNCHANGED routesMutex

\* The handler returns or throws, at once or when its RunSync has run or timed
\* out, or there is no such route; the mutex is released.
RouteEnds(c) ==
  /\ \E from \in {"route", "read", "sync"} : ClientGoes(c, from, "send")
  /\ routesMutex' = None

\* SendResponse and close; the thread ends.
Answer(c) == ClientGoes(c, "send", "free") /\ UNCHANGED routesMutex

InitStep ==
  /\ exiter # "gone"
  /\ \/ StartListeners \/ Register \/ Attempt \/ EngineInitialize \/ InstallPump \/ StartDiscord
     \/ LoadBans \/ Sleep \/ SweepNext \/ SweepRuns \/ SweepTimesOut
ShutdownStep ==
  HttpStop \/ HttpJoin \/ HttpWait \/ RconStop \/ DiscordStop \/ JoinInit
ListenerStep ==
  exiter # "gone" /\ (Accept \/ ListenerExit \/ \E c \in Clients : Spawn(c))
ClientStep(c) ==
  /\ exiter # "gone"
  /\ \/ Refuse(c) \/ Parsed(c) \/ Lock(c) \/ RouteReads(c) \/ RouteWaits(c) \/ RouteEnds(c)
     \/ Answer(c)

\* Until it exits the game goes on loading.
GameStep ==
  /\ exiter = "game" /\ GameLoads
  /\ UNCHANGED <<init, kicks, exiter, registered, g_Shutdown, listening, pump, httpVars, sender>>

\* The process is over, or about to be.
Over == (exiter = "gone" \/ (exiter = "done" /\ Open = {})) /\ UNCHANGED vars

Next ==
  \/ InitStep \/ ExitEarly \/ Exit \/ ShutdownStep \/ ListenerStep \/ GameStep \/ Over
  \/ \E c \in Clients : ClientStep(c)

Spec == Init /\ [][Next]_vars

\* Every thread that can go on does: sockets and RunSync have timeouts, select a
\* second.  A process need not exit, and nobody need connect.
FairSpec ==
  /\ Spec
  /\ WF_vars(InitStep) /\ WF_vars(ShutdownStep)
  /\ WF_vars(exiter # "gone" /\ ListenerExit)
  /\ WF_vars(exiter # "gone" /\ \E c \in Clients : Spawn(c))
  /\ \A c \in Clients : WF_vars(ClientStep(c))

-----------------------------------------------------------------------------
(* Properties.                                                             *)

\* Once ShutdownListeners has returned no REST request is taken up, and InitThread
\* touches nothing any more; what is left are the requests that were in RunSync or
\* at their sockets when their second ran out.
QuietAfterShutdown ==
  [][exiter = "done" =>
       /\ {c \in Clients : client'[c] # "free"} \subseteq Open
       /\ UNCHANGED <<init, kicks, pump, sender, listener>>]_vars

\* The event listener refers to variables on InitThread's stack and is never
\* removed: as long as the game thread can dispatch an event to it, InitThread has
\* not returned.
ListenerInScope == listening /\ exiter = "game" => init # "ended"

\* A route that reads the game's objects does so through two tables that an attempt
\* has found, and no later attempt changes them under it: initialized is set after
\* the check, by the attempt after which nobody looks again.
ReadsFixedTables ==
  [][\A c \in Clients : client[c] \in {"read", "sync"} =>
       found' = found /\ \A t \in Tables : found[t] # 0]_vars

\* The engine is found in the end, however many attempts failed, or took something
\* else for its tables, before the game had loaded.
EngineFound == game = "loaded" /\ init = "engine" ~> initialized \/ g_Shutdown

\* exit does not hang: ShutdownListeners returns, though the sweep it joins and
\* the requests it waits for are themselves waiting for the game thread.
ShutdownReturns == exiter \notin {"game", "gone"} ~> exiter = "done"

\* And every request that was open is answered or dropped.
RequestsEnd == exiter \notin {"game", "gone"} ~> Open = {}

-----------------------------------------------------------------------------
(* The inductive invariant of the proofs, in parts.                         *)

\* InitThread looks for the engine before it is found, and never afterwards.
SearchInv ==
  /\ initialized => \A t \in Tables : found[t] # 0
  /\ init \in {"listeners", "atexit", "engine", "names", "objects", "check", "retry"} => ~initialized

\* exit sets g_Shutdown, and ShutdownListeners runs only once it is registered,
\* which is after StartListeners.
ExitInv ==
  /\ g_Shutdown <=> exiter # "game"
  /\ init \in {"listeners", "atexit"} => ~registered
  /\ exiter \notin {"game", "gone"} => registered

\* InitThread leaves its loop only for g_Shutdown, and is joined.
ScopeInv ==
  /\ listening => init \in {"sleep", "sweep", "sync", "ended"}
  /\ listening /\ init = "ended" => g_Shutdown
  /\ exiter = "done" => init = "ended"

\* The listener runs while the server does, up to the join in Stop.
ListenerInv ==
  /\ init = "listeners" => ~running /\ listener = "none"
  /\ exiter \in {"game", "gone", "httpStop"} => listener # "exited" /\ (running <=> listener # "none")
  /\ exiter \notin {"game", "gone", "httpStop"} => ~running
  /\ exiter \in {"httpWait", "rconStop", "discordStop", "initJoin", "done"} =>
       listener \in {"none", "exited"}

\* A route runs under the mutex, and reads the game only through tables that have
\* been found.
RoutesInv ==
  /\ \A c \in Clients : client[c] \in {"route", "read", "sync"} <=> routesMutex = c
  /\ \A c \in Clients : client[c] \in {"read", "sync"} => initialized

LifeInv == TypeOK /\ SearchInv /\ ExitInv /\ ScopeInv /\ ListenerInv /\ RoutesInv

\* Two routes never run at once.
OneRouteOfTheGame ==
  \A c, d \in Clients :
    client[c] \in {"route", "read", "sync"} /\ client[d] \in {"route", "read", "sync"} => c = d
=============================================================================
