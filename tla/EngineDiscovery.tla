--------------------------- MODULE EngineDiscovery ---------------------------
(***************************************************************************)
(* How the library finds the game's name pool and object array:               *)
(* Engine::Initialize of src/src/engine/engine_core.cpp, and the reads of      *)
(* src/src/engine/uobject.cpp that rest on what it found.                      *)
(*                                                                             *)
(* The library is loaded before the game has built its tables.  An attempt     *)
(* tries the offset the SDK gives and then every aligned word of the writable  *)
(* segments, in order, and takes the first place that looks like the table.    *)
(* Place 1 is the SDK's offset, the others are the scan's.  At a place          *)
(* there is nothing that validates, the game's table, or memory that passes    *)
(* the validation without being it.                                            *)
(***************************************************************************)
EXTENDS Naturals, FiniteSetsExt

CONSTANTS Places,   \* bound: places that may hold something, for each table
          Home      \* where in this build each table of the game is

Tables == {"names", "objects"}

ASSUME DiscoveryAssumption ==
  /\ Places \in [Tables -> Nat]
  /\ DOMAIN Home = Tables /\ \A t \in Tables : Home[t] \in 1..Places[t]

VARIABLES
  at,           \* what is found at each place
  game,         \* the game is still loading, or has loaded
  found,        \* gNames and gObjects: a place, or 0
  initialized

engineVars == <<at, game, found, initialized>>

EngineTypeOK ==
  /\ DOMAIN at = Tables
  /\ \A t \in Tables : at[t] \in [1..Places[t] -> {"nothing", "lookalike", "real"}]
  /\ game \in {"loading", "loaded"}
  /\ found \in [Tables -> Nat] /\ \A t \in Tables : found[t] <= Places[t]
  /\ initialized \in BOOLEAN

EngineInit ==
  /\ at = [t \in Tables |-> [p \in 1..Places[t] |-> "nothing"]]
  /\ game = "loading"
  /\ found = [t \in Tables |-> 0]
  /\ initialized = FALSE

-----------------------------------------------------------------------------
(* The game.  Its tables are globals: they appear once and do not move.     *)

Builds(t) ==
  /\ at' = [at EXCEPT ![t][Home[t]] = "real"]
  /\ UNCHANGED game

\* While it loads, memory that happens to look like a table comes and goes.
Litters(t, p) ==
  /\ p # Home[t]
  /\ \E w \in {"nothing", "lookalike"} : at' = [at EXCEPT ![t][p] = w]
  /\ UNCHANGED game

\* It has loaded: the tables are there and nothing that looks like one comes
\* before them.
HasLoaded ==
  /\ \A t \in Tables : /\ at[t][Home[t]] = "real"
                       /\ \A p \in 1..(Home[t] - 1) : at[t][p] = "nothing"
  /\ game' = "loaded"
  /\ UNCHANGED at

\* This goes on whether or not the library has found what it looks for.
GameLoads ==
  /\ game = "loading"
  /\ HasLoaded \/ \E t \in Tables : Builds(t) \/ \E p \in 1..Places[t] : Litters(t, p)
  /\ UNCHANGED <<found, initialized>>

-----------------------------------------------------------------------------
(* Engine::Initialize.                                                     *)

\* ValidateNamePool, ValidateObjectArray.
Validates(t) == {p \in 1..Places[t] : at[t][p] # "nothing"}

\* Faulty variant: what an earlier attempt found is not looked for again.
ResolveOnce(t, ok) ==
  /\ ok = (found[t] # 0 \/ Validates(t) # {})
  /\ found' = IF ok /\ found[t] = 0 THEN [found EXCEPT ![t] = Min(Validates(t))] ELSE found
  /\ UNCHANGED <<at, game, initialized>>

\* ResolveNamePool, ResolveObjectArray: the first place that validates; if there
\* is none, what an earlier attempt has found stays.
Resolve(t, ok) ==
  /\ ok = (Validates(t) # {})
  /\ found' = IF ok THEN [found EXCEPT ![t] = Min(Validates(t))] ELSE found
  /\ UNCHANGED <<at, game, initialized>>

\* GetObjectByIndex(0), GetObjectName: whether the name of object 0, read through
\* both tables, contains CoreUObject.  Through the game's it does; through anything
\* else it may happen to.
NamesCoreUObject(ok) ==
  /\ ok => \A t \in Tables : found[t] # 0
  /\ (\A t \in Tables : found[t] # 0 /\ at[t][found[t]] = "real") => ok

\* Faulty variant: the engine is in use before the check.
CrossCheckLate(ok) ==
  /\ NamesCoreUObject(ok)
  /\ initialized' = TRUE
  /\ UNCHANGED <<at, game, found>>

\* The cross-check; initialized is set last.
CrossCheck(ok) ==
  /\ NamesCoreUObject(ok)
  /\ initialized' = ok
  /\ UNCHANGED <<at, game, found>>
=============================================================================
