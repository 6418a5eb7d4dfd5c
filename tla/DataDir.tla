------------------------------- MODULE DataDir -------------------------------
(***************************************************************************)
(* The two files the library keeps in its directory, settings.ini and          *)
(* bans.json, over the starts and ends of one server: InitThread               *)
(* (src/src/rsdwapi.cpp) reads and rewrites the first, starts the listeners,   *)
(* and only then, and only if one of them is enabled, comes to the second.     *)
(***************************************************************************)
EXTENDS BanList, Settings

CONSTANT MaxFaults    \* bound: kinds of loss in a behaviour, beyond which settings.ini
                      \* is not lost and the process does not end

ASSUME DataDirAssumption == MaxFaults \in Nat

dirVars == <<vars, settingsVars>>

DirInit == Init /\ SettingsInit

\* Someone can give a command: over a listener, or in the game's chat.
Reachable == stage = "up" /\ (Listening \/ phase \in {"ready", "loaded"})

\* InitThread's way to the bans goes past the settings.
Initializes == stage = "up" /\ AnyEnabled /\ (EngineFound \/ PumpInstalled \/ Load)

Commands ==
  \E t \in Threads :
    \/ Reachable /\ \E p \in NetIds : Ban(t, p) \/ Unban(t, p)
    \/ SaveFails(t) \/ SaveOpens(t) \/ SaveCloses(t) \/ Kicked(t)

WithinBound == Cardinality(losses') + Cardinality(lossy') <= MaxFaults

DirNext ==
  \/ SettingsNext /\ UNCHANGED vars /\ WithinBound
  \/ (Initializes \/ Commands) /\ UNCHANGED settingsVars
  \/ EndSettings /\ Restart /\ WithinBound

DirSpec == DirInit /\ [][DirNext]_dirVars

-----------------------------------------------------------------------------
TypesOK == TypeOK /\ SettingsTypeOK
=============================================================================
