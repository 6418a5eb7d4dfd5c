--------------------------- MODULE LifecycleProofs ---------------------------
(***************************************************************************)
(* Proofs about Lifecycle, for any number of clients, kicks and places in      *)
(* memory: a request reads tables that stay as they were found, the event       *)
(* listener is in scope, and nothing moves once ShutdownListeners has returned. *)
(***************************************************************************)
EXTENDS Lifecycle, SequenceLemmas

-----------------------------------------------------------------------------
(* The search for the engine.                                              *)

\* The first place that validates is one that does.
LEMMA FirstValidates ==
  ASSUME NEW t, Validates(t) # {}
  PROVE  Min(Validates(t)) \in Nat /\ Min(Validates(t)) \in 1..Places[t]
<1>1. Validates(t) \in SUBSET Nat
  BY DEF Validates
<1>2. Min(Validates(t)) \in Validates(t)
  BY <1>1, NatMin
<1> QED BY <1>2 DEF Validates

LEMMA ResolveType ==
  ASSUME EngineTypeOK, NEW t \in Tables, NEW ok \in BOOLEAN, Resolve(t, ok)
  PROVE  EngineTypeOK'
<1>1. found' \in [Tables -> Nat] /\ \A u \in Tables : found'[u] <= Places[u]
  <2>1. CASE Validates(t) # {}
    <3>1. Min(Validates(t)) \in Nat /\ Min(Validates(t)) <= Places[t]
      BY <2>1, FirstValidates, DiscoveryAssumption
    <3>2. found' = [found EXCEPT ![t] = Min(Validates(t))]
      BY <2>1, Zenon DEF Resolve
    <3> QED BY <3>1, <3>2 DEF EngineTypeOK
  <2>2. CASE ~(Validates(t) # {})
    <3>1. found' = found
      BY <2>2, Zenon DEF Resolve
    <3> QED BY <3>1 DEF EngineTypeOK
  <2> QED BY <2>1, <2>2
<1> QED BY <1>1 DEF Resolve, EngineTypeOK

\* The game's loading leaves what the library has found alone.
LEMMA GameLoadsFacts ==
  ASSUME EngineTypeOK, GameLoads
  PROVE  EngineTypeOK' /\ UNCHANGED <<found, initialized>>
<1>1. UNCHANGED <<found, initialized>>
  BY DEF GameLoads
<1>2. CASE HasLoaded
  BY <1>1, <1>2 DEF HasLoaded, EngineTypeOK
<1>3. ASSUME NEW t \in Tables, NEW p \in 1..Places[t], NEW w \in {"nothing", "lookalike", "real"},
             at' = [at EXCEPT ![t][p] = w], UNCHANGED game
      PROVE  EngineTypeOK'
  <2>1. DOMAIN at' = Tables
    BY <1>3 DEF EngineTypeOK
  <2>2. ASSUME NEW u \in Tables
        PROVE  at'[u] \in [1..Places[u] -> {"nothing", "lookalike", "real"}]
    BY <1>3 DEF EngineTypeOK
  <2> QED BY <1>1, <1>3, <2>1, <2>2 DEF EngineTypeOK
<1>4. ASSUME NEW t \in Tables, Builds(t)
      PROVE  EngineTypeOK'
  <2>1. Home[t] \in 1..Places[t]
    BY DiscoveryAssumption
  <2> QED BY <1>3, <1>4, <2>1 DEF Builds
<1>5. ASSUME NEW t \in Tables, NEW p \in 1..Places[t], Litters(t, p)
      PROVE  EngineTypeOK'
  BY <1>3, <1>5 DEF Litters
<1> QED BY <1>1, <1>2, <1>4, <1>5 DEF GameLoads

-----------------------------------------------------------------------------
(* The steps, thread by thread.                                            *)

\* InitThread leaves the exiting thread, the requests and, except at the start, the
\* listener alone.
LEMMA SearchStep ==
  ASSUME LifeInv, Attempt \/ EngineInitialize
  PROVE  LifeInv'
<1> USE DEF LifeInv
<1>1. /\ UNCHANGED <<kicks, exiter, registered, g_Shutdown, listening, pump, httpVars, sender>>
      /\ init \in {"engine", "names", "objects", "check", "retry"}
      /\ init' \in {"engine", "names", "objects", "check", "retry", "pump", "ended"}
  BY DEF Attempt, EngineInitialize, EngineGoes, InitGoes
<1>2. EngineTypeOK' /\ UNCHANGED <<at, game>>
  BY ResolveType DEF Attempt, EngineInitialize, CrossCheck, Resolve, EngineTypeOK, TypeOK, engineVars,
                     Tables
<1>3. TypeOK'
  BY <1>1, <1>2 DEF TypeOK, httpVars
<1>4. ~initialized
  BY <1>1 DEF SearchInv
<1>5. initialized' => init' \in {"pump", "ended"} /\ \A t \in Tables : found'[t] # 0
  BY <1>4 DEF Attempt, EngineInitialize, CrossCheck, Resolve, engineVars, NamesCoreUObject, EngineGoes,
              InitGoes
<1>6. SearchInv'
  BY <1>5 DEF SearchInv
<1>7. ~listening
  BY <1>1 DEF ScopeInv
<1>8. ExitInv' /\ ScopeInv' /\ ListenerInv'
  BY <1>1, <1>7 DEF ExitInv, ScopeInv, ListenerInv, httpVars
<1>9. RoutesInv'
  BY <1>1, <1>4 DEF RoutesInv, httpVars
<1> QED BY <1>3, <1>6, <1>8, <1>9

LEMMA InitThreadStep ==
  ASSUME LifeInv,
         Register \/ InstallPump \/ StartDiscord \/ LoadBans \/ Sleep \/ SweepNext \/ SweepGoesOn
  PROVE  LifeInv'
<1> USE DEF LifeInv
<1>1. UNCHANGED <<exiter, g_Shutdown, httpVars, engineVars>>
  BY DEF Register, InstallPump, StartDiscord, LoadBans, Sleep, SweepNext, SweepGoesOn
<1>2. TypeOK'
  <2>1. EngineTypeOK'
    BY <1>1 DEF TypeOK, EngineTypeOK, engineVars
  <2>2. kicks' \in 0..MaxKicks
    BY LifecycleAssumption DEF Register, InstallPump, StartDiscord, LoadBans, Sleep, SweepNext, SweepGoesOn, TypeOK
  <2>3. registered' \in BOOLEAN /\ listening' \in BOOLEAN /\ pump' \in BOOLEAN
    BY DEF Register, InstallPump, StartDiscord, LoadBans, Sleep, SweepNext, SweepGoesOn, TypeOK
  <2>4. sender' \in {"none", "running", "stopped"}
    BY DEF Register, InstallPump, StartDiscord, LoadBans, Sleep, SweepNext, SweepGoesOn, TypeOK
  <2>5. init' \in {"engine", "ended", "discord", "load", "sleep", "sweep", "sync"}
    BY DEF Register, InstallPump, StartDiscord, LoadBans, Sleep, SweepNext, SweepGoesOn, InitGoes
  <2> QED BY <1>1, <2>1, <2>2, <2>3, <2>4, <2>5 DEF TypeOK, httpVars
<1>3. SearchInv'
  BY <1>1 DEF SearchInv, engineVars, InitGoes,
              Register, InstallPump, StartDiscord, LoadBans, Sleep, SweepNext, SweepGoesOn
<1>4. ExitInv'
  BY <1>1 DEF ExitInv, InitGoes, Register, InstallPump, StartDiscord, LoadBans, Sleep, SweepNext,
              SweepGoesOn
<1>5. ScopeInv'
  BY <1>1 DEF ScopeInv, InitGoes, Register, InstallPump, StartDiscord, LoadBans, Sleep, SweepNext,
              SweepGoesOn
<1>6. ListenerInv'
  BY <1>1 DEF ListenerInv, InitGoes, Register, InstallPump, StartDiscord, LoadBans, Sleep, SweepNext,
              SweepGoesOn, httpVars
<1>7. RoutesInv'
  BY <1>1 DEF RoutesInv, httpVars, engineVars
<1> QED BY <1>2, <1>3, <1>4, <1>5, <1>6, <1>7

LEMMA StartListenersStep ==
  ASSUME LifeInv, StartListeners, exiter # "gone"
  PROVE  LifeInv'
<1> USE DEF LifeInv
<1>1. /\ init = "listeners" /\ init' = "atexit"
      /\ UNCHANGED <<kicks, exiter, registered, g_Shutdown, listening, pump, client, routesMutex,
                     sender, engineVars>>
  BY DEF StartListeners, InitGoes
<1>2. exiter = "game" /\ ~running /\ listener = "none"
  BY <1>1 DEF ExitInv, ListenerInv
<1>3. (running' /\ listener' = "select") \/ UNCHANGED <<running, listener>>
  BY DEF StartListeners
<1>4. running' \in BOOLEAN
  BY DEF StartListeners, TypeOK
<1>5. EngineTypeOK'
  BY <1>1 DEF TypeOK, EngineTypeOK, engineVars
<1>6. TypeOK'
  BY <1>1, <1>3, <1>4, <1>5 DEF TypeOK
<1>7. SearchInv' /\ ExitInv' /\ ScopeInv' /\ RoutesInv'
  BY <1>1 DEF SearchInv, engineVars, ExitInv, ScopeInv,
              RoutesInv
<1>8. ListenerInv'
  BY <1>1, <1>2, <1>3 DEF ListenerInv
<1> QED BY <1>6, <1>7, <1>8

LEMMA ExitStep ==
  ASSUME LifeInv, ExitEarly \/ Exit \/ ShutdownStep
  PROVE  LifeInv'
<1> USE DEF LifeInv
<1>1. UNCHANGED <<init, kicks, registered, listening, pump, engineVars, listener, client, routesMutex>>
  BY DEF ExitEarly, Exit, ShutdownStep, HttpStop, HttpJoin, HttpWait, RconStop, DiscordStop, JoinInit,
         ExitGoes, httpVars
<1>2. TypeOK'
  <2>1. EngineTypeOK'
    BY <1>1 DEF TypeOK, EngineTypeOK, engineVars
  <2>2. exiter' \in ExitPlaces
    BY DEF ExitEarly, Exit, ShutdownStep, HttpStop, HttpJoin, HttpWait, RconStop, DiscordStop, JoinInit,
           ExitGoes, ExitPlaces
  <2>3. g_Shutdown' \in BOOLEAN /\ running' \in BOOLEAN
    BY DEF ExitEarly, Exit, ShutdownStep, HttpStop, HttpJoin, HttpWait, RconStop, DiscordStop, JoinInit,
           httpVars, TypeOK
  <2>4. sender' \in {"none", "running", "stopped"}
    BY DEF ExitEarly, Exit, ShutdownStep, HttpStop, HttpJoin, HttpWait, RconStop, DiscordStop, JoinInit,
           TypeOK
  <2> QED BY <1>1, <2>1, <2>2, <2>3, <2>4 DEF TypeOK
<1>3. SearchInv' /\ RoutesInv'
  BY <1>1 DEF SearchInv, engineVars, RoutesInv
<1>4. ExitInv'
  BY <1>1 DEF ExitInv, ExitEarly, Exit, ShutdownStep, HttpStop, HttpJoin, HttpWait, RconStop,
              DiscordStop, JoinInit, ExitGoes
<1>5. ScopeInv'
  BY <1>1 DEF ScopeInv, ExitInv, ExitEarly, Exit, ShutdownStep, HttpStop, HttpJoin, HttpWait, RconStop,
              DiscordStop, JoinInit, ExitGoes
<1>6. ListenerInv'
  BY <1>1 DEF ListenerInv, ExitInv, ExitEarly, Exit, ShutdownStep, HttpStop, HttpJoin, HttpWait, RconStop,
              DiscordStop, JoinInit, ExitGoes, httpVars
<1> QED BY <1>2, <1>3, <1>4, <1>5, <1>6

LEMMA RestStep ==
  ASSUME LifeInv, NEW c \in Clients, Spawn(c) \/ ClientStep(c)
  PROVE  LifeInv'
<1> USE DEF LifeInv
<1>1. UNCHANGED otherVars
  BY DEF Spawn, ClientStep, Refuse, Parsed, Lock, RouteReads, RouteWaits, RouteEnds, Answer, ClientGoes
<1>2. EngineTypeOK'
  BY <1>1 DEF TypeOK, EngineTypeOK, engineVars, otherVars
<1>3. PICK to \in {"free", "parse", "lock", "route", "read", "sync", "send"} :
        client' = [client EXCEPT ![c] = to]
  BY DEF Spawn, ClientStep, Refuse, Parsed, Lock, RouteReads, RouteWaits, RouteEnds, Answer, ClientGoes
<1>4. client'[c] = to /\ \A d \in Clients \ {c} : client'[d] = client[d]
  BY <1>3 DEF TypeOK
<1>5. listener' = listener \/ (listener = "accepted" /\ listener' = "select")
  BY DEF Spawn, ClientStep, Refuse, Parsed, Lock, RouteReads, RouteWaits, RouteEnds, Answer, ClientGoes
<1>6. routesMutex' \in {routesMutex, c, None}
  BY DEF Spawn, ClientStep, Refuse, Parsed, Lock, RouteReads, RouteWaits, RouteEnds, Answer
<1>7. TypeOK'
  BY <1>1, <1>2, <1>3, <1>5, <1>6 DEF TypeOK, otherVars
<1>8. SearchInv' /\ ExitInv' /\ ScopeInv'
  BY <1>1 DEF otherVars, SearchInv, engineVars, ExitInv,
              ScopeInv
<1>9. ListenerInv'
  BY <1>1, <1>5 DEF otherVars, ListenerInv
<1>10. RoutesInv'
  <2>1. initialized' = initialized
    BY <1>1 DEF otherVars, engineVars
  <2>2. CASE Lock(c)
    BY <1>4, <2>1, <2>2, LifecycleAssumption DEF Lock, ClientGoes, RoutesInv, TypeOK
  <2>3. CASE RouteReads(c) \/ RouteWaits(c)
    BY <1>4, <2>1, <2>3 DEF RouteReads, RouteWaits, ClientGoes, RoutesInv, TypeOK
  <2>4. CASE RouteEnds(c)
    BY <1>4, <2>1, <2>4, LifecycleAssumption DEF RouteEnds, ClientGoes, RoutesInv, TypeOK
  <2>5. CASE Spawn(c) \/ Refuse(c) \/ Parsed(c) \/ Answer(c)
    BY <1>4, <2>1, <2>5 DEF Spawn, Refuse, Parsed, Answer, ClientGoes, RoutesInv, TypeOK
  <2> QED BY <2>2, <2>3, <2>4, <2>5 DEF ClientStep
<1> QED BY <1>7, <1>8, <1>9, <1>10

LEMMA OtherStep ==
  ASSUME LifeInv, Accept \/ ListenerExit \/ GameStep \/ UNCHANGED vars
  PROVE  LifeInv'
<1> USE DEF LifeInv
<1>1. CASE Accept \/ ListenerExit
  <2>1. UNCHANGED <<otherVars, client, routesMutex>>
    BY <1>1 DEF Accept, ListenerExit
  <2>2. EngineTypeOK'
    BY <2>1 DEF TypeOK, EngineTypeOK, engineVars, otherVars
  <2>3. TypeOK'
    BY <1>1, <2>1, <2>2 DEF TypeOK, otherVars, Accept, ListenerExit
  <2>4. SearchInv' /\ ExitInv' /\ ScopeInv' /\ RoutesInv'
    BY <2>1 DEF otherVars, SearchInv, engineVars, ExitInv,
                ScopeInv, RoutesInv
  <2>5. ListenerInv'
    BY <1>1, <2>1 DEF otherVars, ListenerInv, Accept, ListenerExit
  <2> QED BY <2>3, <2>4, <2>5
<1>2. CASE GameStep
  <2>1. EngineTypeOK' /\ UNCHANGED <<found, initialized>>
    BY <1>2, GameLoadsFacts DEF GameStep, TypeOK
  <2>2. UNCHANGED <<init, kicks, exiter, registered, g_Shutdown, listening, pump, httpVars, sender>>
    BY <1>2 DEF GameStep
  <2>3. TypeOK'
    BY <2>1, <2>2 DEF TypeOK, httpVars
  <2>5. SearchInv'
    BY <2>1, <2>2 DEF SearchInv
  <2>6. ExitInv' /\ ScopeInv' /\ ListenerInv' /\ RoutesInv'
    BY <2>1, <2>2 DEF ExitInv, ScopeInv, ListenerInv, RoutesInv, httpVars
  <2> QED BY <2>3, <2>5, <2>6
<1>3. CASE UNCHANGED vars
  BY <1>3 DEF vars, httpVars, engineVars, TypeOK, EngineTypeOK, SearchInv, ExitInv, ScopeInv, ListenerInv, RoutesInv
<1> QED BY <1>1, <1>2, <1>3

LEMMA LifeInit == Init => LifeInv
<1> SUFFICES ASSUME Init PROVE LifeInv
  OBVIOUS
<1>1. EngineTypeOK
  <2>1. initialized \in BOOLEAN
    BY Zenon DEF Init, EngineInit
  <2>2. /\ DOMAIN at = Tables
        /\ \A t \in Tables : at[t] \in [1..Places[t] -> {"nothing", "lookalike", "real"}]
    BY DEF Init, EngineInit
  <2>3. /\ found \in [Tables -> Nat] /\ \A t \in Tables : found[t] <= Places[t]
        /\ game \in {"loading", "loaded"}
    BY DiscoveryAssumption DEF Init, EngineInit
  <2> QED BY <2>1, <2>2, <2>3 DEF EngineTypeOK
<1>2. registered \in BOOLEAN /\ g_Shutdown \in BOOLEAN /\ listening \in BOOLEAN /\ pump \in BOOLEAN
      /\ running \in BOOLEAN
  BY Zenon DEF Init
<1>3. TypeOK
  BY <1>1, <1>2, LifecycleAssumption DEF Init, TypeOK, ExitPlaces
<1>4. SearchInv
  BY DEF Init, EngineInit, SearchInv
<1>5. ExitInv /\ ScopeInv /\ ListenerInv
  BY DEF Init, ExitInv, ScopeInv, ListenerInv
<1>6. RoutesInv
  BY LifecycleAssumption DEF Init, RoutesInv
<1> QED BY <1>3, <1>4, <1>5, <1>6 DEF LifeInv

-----------------------------------------------------------------------------
(* The theorems.                                                           *)

\* InitThread, exit on the game thread, the listener, the requests and the game keep
\* the invariant in any interleaving.
THEOREM LifeInvariant == Spec => []LifeInv
<1>1. LifeInv /\ [Next]_vars => LifeInv'
  BY SearchStep, InitThreadStep, StartListenersStep, ExitStep, RestStep, OtherStep
     DEF Next, InitStep, ListenerStep, SweepRuns, SweepTimesOut, Over
<1> QED BY <1>1, LifeInit, PTL DEF Spec

\* A request that reads the game's objects reads them to its end through the tables
\* that the last attempt has found: no attempt is made any more, whatever earlier
\* ones took and however many requests there are.
THEOREM ReadersKeepTheirTables == Spec => ReadsFixedTables
<1>1. ASSUME LifeInv, [Next]_vars, NEW c \in Clients, client[c] \in {"read", "sync"}
      PROVE  found' = found /\ \A t \in Tables : found[t] # 0
  <2>1. initialized
    BY <1>1 DEF LifeInv, RoutesInv
  <2>2. /\ init \notin {"listeners", "atexit", "engine", "names", "objects", "check", "retry"}
        /\ \A t \in Tables : found[t] # 0
    BY <1>1, <2>1 DEF LifeInv, SearchInv
  <2>3. CASE InitStep
    BY <2>2, <2>3 DEF InitStep, StartListeners, Register, Attempt, EngineInitialize, InstallPump,
                StartDiscord, LoadBans, Sleep, SweepNext, SweepRuns, SweepTimesOut, SweepGoesOn,
                EngineGoes, InitGoes, engineVars
  <2>4. CASE ExitEarly \/ Exit \/ ShutdownStep
    BY <2>2, <2>4 DEF ExitEarly, Exit, ShutdownStep, HttpStop, HttpJoin, HttpWait, RconStop, DiscordStop,
                JoinInit, ExitGoes, engineVars
  <2>5. CASE ListenerStep \/ \E d \in Clients : ClientStep(d)
    BY <2>2, <2>5 DEF ListenerStep, Accept, ListenerExit, Spawn, ClientStep, Refuse, Parsed, Lock, RouteReads,
                RouteWaits, RouteEnds, Answer, ClientGoes, otherVars, engineVars
  <2>6. CASE GameStep \/ Over \/ UNCHANGED vars
    BY <2>2, <2>6 DEF GameStep, GameLoads, Over, vars, engineVars
  <2> QED BY <1>1, <2>2, <2>3, <2>4, <2>5, <2>6 DEF Next
<1>2. LifeInv /\ [Next]_vars =>
        [\A c \in Clients : client[c] \in {"read", "sync"} =>
           found' = found /\ \A t \in Tables : found[t] # 0]_vars
  BY <1>1
<1> QED BY <1>2, LifeInvariant, PTL DEF Spec, ReadsFixedTables

\* The event listener's variables are alive as long as events can be dispatched.
THEOREM ListenerIsInScope == Spec => []ListenerInScope
<1>1. LifeInv => ListenerInScope
  BY DEF LifeInv, ScopeInv, ExitInv, ListenerInScope
<1> QED BY <1>1, LifeInvariant, PTL

\* routesMutex is held by the one route that runs.
THEOREM RoutesAreSerial == Spec => []OneRouteOfTheGame
<1>1. LifeInv => OneRouteOfTheGame
  BY DEF LifeInv, RoutesInv, OneRouteOfTheGame
<1> QED BY <1>1, LifeInvariant, PTL

\* After ShutdownListeners nobody connects, and InitThread, the listener and the
\* sender stand still.
THEOREM ShutdownIsQuiet == Spec => QuietAfterShutdown
<1>1. ASSUME LifeInv, [Next]_vars, exiter = "done"
      PROVE  /\ {c \in Clients : client'[c] # "free"} \subseteq Open
             /\ UNCHANGED <<init, kicks, pump, sender, listener>>
  <2>1. init = "ended" /\ listener \in {"none", "exited"}
    BY <1>1 DEF LifeInv, ScopeInv, ListenerInv
  <2>2. CASE UNCHANGED vars
    BY <2>2 DEF vars, httpVars, Open
  <2>3. ~InitStep /\ ~ListenerStep
    BY <2>1 DEF InitStep, StartListeners, Register, Attempt, EngineInitialize, InstallPump, StartDiscord,
                LoadBans, Sleep, SweepNext, SweepRuns, SweepTimesOut, SweepGoesOn, EngineGoes, InitGoes,
                ListenerStep, Accept, ListenerExit, Spawn
  <2>4. ~ExitEarly /\ ~Exit /\ ~ShutdownStep /\ ~GameStep
    BY <1>1 DEF ExitEarly, Exit, ShutdownStep, HttpStop, HttpJoin, HttpWait, RconStop, DiscordStop,
                JoinInit, ExitGoes, GameStep
  <2>5. ASSUME NEW c \in Clients, ClientStep(c)
        PROVE  /\ {d \in Clients : client'[d] # "free"} \subseteq Open
               /\ UNCHANGED <<init, kicks, pump, sender, listener>>
    <3>1. UNCHANGED <<otherVars, listener>> /\ client[c] # "free"
      BY <2>5 DEF ClientStep, Refuse, Parsed, Lock, RouteReads, RouteWaits, RouteEnds, Answer, ClientGoes
    <3>2. \A d \in Clients \ {c} : client'[d] = client[d]
      BY <1>1, <2>5 DEF ClientStep, Refuse, Parsed, Lock, RouteReads, RouteWaits, RouteEnds, Answer,
                        ClientGoes, LifeInv, TypeOK
    <3> QED BY <3>1, <3>2 DEF otherVars, Open
  <2> QED BY <1>1, <2>2, <2>3, <2>4, <2>5 DEF Next, Over
<1> QED BY <1>1, LifeInvariant, PTL DEF Spec, QuietAfterShutdown
=============================================================================
