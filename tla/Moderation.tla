------------------------------ MODULE Moderation ------------------------------
(***************************************************************************)
(* Removing players: KickPlayer, RememberKick and EnforceKicks of              *)
(* src/src/engine/kick.cpp, Enforce of src/src/engine/bans.cpp, and the loop   *)
(* of InitThread (src/src/rsdwapi.cpp) that runs both every two seconds.       *)
(*                                                                             *)
(* The threads are the REST and RCON handlers, the game thread when it runs a  *)
(* chat command, and the init thread.  RunSync is the call of SyncCall: the    *)
(* closure runs in time, not at all, or after its caller has given up.  Players *)
(* are asked for by net id or player id, and looked up as PlayerMatch says, which *)
(* may find another one.  A player may have no net id that can be read.           *)
(* The list of bans is a set here; BanList has its file.  A restart is a new   *)
(* initial state, with whatever Load then reads.                               *)
(***************************************************************************)
EXTENDS Naturals, PlayerMatch

CONSTANTS NetIds,         \* unique net ids of players
          Controllers,    \* addresses of player controllers
          Handlers,       \* REST and RCON handler threads
          Chat,           \* the game thread, as the one that runs chat commands
          Enforcer,       \* the init thread
          MaxSessions,    \* how often the game lets one net id be connected
          MaxLate,        \* bound: closures popped and not yet run; more than one
                          \* only where Drain is nested
          Name,           \* the display names of the players
          None

ASSUME ModerationAssumption ==
  /\ MaxSessions \in Nat /\ MaxLate \in Nat
  /\ Chat \notin Handlers /\ Enforcer \notin Handlers /\ Chat # Enforcer
  /\ None \notin NetIds \cup Controllers \cup {NoText} /\ NetIds \subseteq Texts /\ IsFiniteSet(Controllers)

Ids == NetIds \cup {NoText}       \* uniqueNetId of a PlayerInfo
Operators == Handlers \cup {Chat}
Threads == Operators \cup {Enforcer}

VARIABLES
  phase,     \* how far InitThread is, from the engine being initialised on
  online,    \* whose session a controller belongs to
  spawned,   \* the controllers that possess a pawn
  g_Bans,    \* the net ids banned
  g_Kicked,  \* the kicks remembered
  call,      \* KickPlayer, per thread: where, for whom, the net id, the controller
  late,      \* closures popped from the queue whose caller has given up
  sweep,     \* InitThread's loop: its stage and the snapshots it works on
  orders,    \* history: of each net id, whether an operator has asked to kick it,
             \* or only for a ban that was lifted
  removed,   \* history: of whom a kick command has removed, the net ids
  gaveUp     \* history: of whom a kick command has given up on

gameVars == <<online, spawned>>
listVars == <<g_Bans, g_Kicked>>
historyVars == <<orders, removed, gaveUp>>
modVars == <<phase, gameVars, listVars, call, late, sweep, historyVars>>

Idle == [at |-> "idle", op |-> "none", id |-> None, c |-> None]
Asleep == [at |-> "sleep", todo |-> {}, bans |-> {}]

ModTypeOK ==
  /\ phase \in {"engine", "ready", "nopump", "loaded"}
  /\ online \in [Controllers -> Ids \cup {None}]
  /\ spawned \subseteq {c \in Controllers : online[c] # None}
  /\ g_Bans \subseteq NetIds /\ g_Kicked \subseteq NetIds
  /\ call \in [Threads -> [at : {"idle", "lookup", "queued", "ran", "refused"},
                           op : {"none", "kick", "ban", "sweep"},
                           id : Ids \cup Controllers \cup {None}, c : Controllers \cup {None}]]
  /\ \A t \in Threads : call[t].c # None <=> call[t].at \in {"queued", "ran", "refused"}
  /\ late \subseteq [c : Controllers, id : Ids, op : {"kick", "ban", "sweep"}]
  /\ sweep \in [at : {"sleep", "kicks", "bans"}, todo : SUBSET NetIds, bans : SUBSET NetIds]
  /\ orders \in [NetIds -> {"none", "kick", "lifted"}]
  /\ removed \subseteq NetIds /\ gaveUp \subseteq NetIds

ModInit ==
  /\ phase = "engine"
  /\ online = [c \in Controllers |-> None] /\ spawned = {}
  /\ g_Bans = {} /\ g_Kicked = {}
  /\ call = [t \in Threads |-> Idle]
  /\ late = {}
  /\ sweep = Asleep
  /\ orders = [p \in NetIds |-> "none"]
  /\ removed = {} /\ gaveUp = {}

\* The net id of a player who has one.
Known(id) == {id} \ {NoText}

GameFree == call[Chat] = Idle       \* the game thread is in no chat command
IsReady == phase \in {"ready", "loaded"}                \* GameThread::IsReady()
Sessions(p) == {c \in Controllers : online[c] = p}
Connected == {online[c] : c \in Controllers} \ {None, NoText}

\* GetAllPlayers(): only who has a pawn has a controller.  The player ids are as
\* good as the controllers' addresses here.
Snapshot ==
  {[playerId |-> c, netId |-> online[c], guid |-> NoText, character |-> NoText,
    name |-> Name[online[c]], controller |-> IF c \in spawned THEN c ELSE NoController] :
     c \in {d \in Controllers : online[d] # None}}

-----------------------------------------------------------------------------
(* InitThread up to its loop, and the game's players.                       *)

\* The game thread's pump is installed, or InitThread returns.
PumpInstalled ==
  /\ phase = "engine"
  /\ phase' \in {"ready", "nopump"}
  /\ UNCHANGED <<gameVars, listVars, call, late, sweep, historyVars>>

\* DomBans::Load, of a file with any contents.
Load ==
  /\ phase = "ready"
  /\ g_Bans' \in SUBSET NetIds
  /\ phase' = "loaded"
  /\ UNCHANGED <<gameVars, g_Kicked, call, late, sweep, historyVars>>

Join(p, c) ==
  /\ GameFree
  /\ online[c] = None /\ Cardinality(Sessions(p)) < MaxSessions
  /\ online' = [online EXCEPT ![c] = p]
  /\ UNCHANGED <<phase, spawned, listVars, call, late, sweep, historyVars>>

Spawn(c) ==
  /\ GameFree
  /\ online[c] # None /\ c \notin spawned
  /\ spawned' = spawned \cup {c}
  /\ UNCHANGED <<phase, online, listVars, call, late, sweep, historyVars>>

\* The session of controller c ends.
Ends(c) ==
  /\ online[c] # None
  /\ online' = [online EXCEPT ![c] = None]
  /\ spawned' = spawned \ {c}

Leave(c) ==
  /\ GameFree
  /\ Ends(c)
  /\ UNCHANGED <<phase, listVars, call, late, sweep, historyVars>>

-----------------------------------------------------------------------------
(* The operators' commands, from REST, RCON or chat.                        *)

Calls(t, op, p) ==
  /\ call[t] = Idle
  /\ call' = [call EXCEPT ![t] = [at |-> "lookup", op |-> op, id |-> p, c |-> None]]

Kick(t, who) ==
  /\ Calls(t, "kick", who)
  /\ UNCHANGED <<phase, gameVars, listVars, late, sweep, historyVars>>

\* Ban lists the player and then kicks; one listed already is refused.
Ban(t, p) ==
  /\ p \notin g_Bans
  /\ Calls(t, "ban", p)
  /\ g_Bans' = g_Bans \cup {p}
  /\ orders' = [orders EXCEPT ![p] = IF @ = "lifted" THEN "none" ELSE @]
  /\ UNCHANGED <<phase, gameVars, g_Kicked, late, sweep, removed, gaveUp>>

\* Unban takes the player off the list, and does nothing else.
Unban(t, p) ==
  /\ call[t] = Idle /\ p \in g_Bans
  /\ g_Bans' = g_Bans \ {p}
  /\ orders' = [orders EXCEPT ![p] = IF @ = "none" THEN "lifted" ELSE @]
  /\ UNCHANGED <<phase, gameVars, g_Kicked, call, late, sweep, removed, gaveUp>>

-----------------------------------------------------------------------------
(* KickPlayer.                                                             *)

Goes(t, at) == call' = [call EXCEPT ![t].at = at]
Returns(t) == call' = [call EXCEPT ![t] = Idle]

\* The player found, with a controller, and RunSync for that controller; the net
\* id to be remembered is that player's.  With none, several, or no pump,
\* KickPlayer returns an error.
Lookup(t) ==
  /\ call[t].at = "lookup"
  /\ LET found == KickTarget(Snapshot, call[t].id)
     IN IF IsReady /\ found # {}
        THEN \E p \in found :
               /\ call' = [call EXCEPT ![t] =
                             [at |-> "queued", op |-> @.op, id |-> p.netId, c |-> p.controller]]
               /\ orders' = IF call[t].op = "kick" /\ p.netId # NoText
                            THEN [orders EXCEPT ![p.netId] = "kick"] ELSE orders
        ELSE Returns(t) /\ UNCHANGED orders
  /\ UNCHANGED <<phase, gameVars, listVars, late, sweep, removed, gaveUp>>

\* The game thread runs closures when it is in no chat command of its own; that
\* command's closure it runs inline.
CanRun(t) == t = Chat \/ GameFree

\* A kick command's closure has removed the player it was for.
Removes(k) == removed' = IF k.op = "kick" /\ online[k.c] = k.id
                         THEN removed \cup Known(k.id) ELSE removed

\* The closure runs: the controller it was given loses its session, whoever it
\* belongs to by now.
KickRuns(t) ==
  /\ call[t].at = "queued" /\ CanRun(t)
  /\ Ends(call[t].c)
  /\ Goes(t, "ran")
  /\ Removes(call[t])
  /\ UNCHANGED <<phase, listVars, late, sweep, orders, gaveUp>>

\* The closure runs, and no reason text can be built or the game refuses.
KickRefused(t) ==
  /\ call[t].at = "queued" /\ CanRun(t)
  /\ Goes(t, "refused")
  /\ UNCHANGED <<phase, gameVars, listVars, late, sweep, historyVars>>

\* Faulty variant: the kick is not remembered if the player is back already.
KickWakesLate(t) ==
  /\ call[t].at \in {"ran", "refused"}
  /\ Returns(t)
  /\ g_Kicked' = IF call[t].at = "ran" /\ call[t].id \notin Connected
                 THEN g_Kicked \cup Known(call[t].id) ELSE g_Kicked
  /\ UNCHANGED <<phase, gameVars, g_Bans, late, sweep, historyVars>>

\* RunSync returns true: RememberKick, if the game accepted.  The kick of a player
\* without a net id is not remembered.
KickWakes(t) ==
  /\ call[t].at \in {"ran", "refused"}
  /\ Returns(t)
  /\ g_Kicked' = IF call[t].at = "ran" THEN g_Kicked \cup Known(call[t].id) ELSE g_Kicked
  /\ UNCHANGED <<phase, gameVars, g_Bans, late, sweep, historyVars>>

\* RunSync returns false: the closure is still in the queue and is erased, or it
\* has been popped and is yet to run, or has run but is not marked as done.
KickTimesOut(t) ==
  /\ t # Chat
  /\ call[t].at \in {"queued", "ran", "refused"}
  /\ Returns(t)
  /\ gaveUp' = IF call[t].op = "kick" THEN gaveUp \cup Known(call[t].id) ELSE gaveUp
  /\ \/ UNCHANGED late
     \/ /\ call[t].at = "queued" /\ Cardinality(late) < MaxLate
        /\ late' = late \cup {[c |-> call[t].c, id |-> call[t].id, op |-> call[t].op]}
  /\ UNCHANGED <<phase, gameVars, listVars, sweep, orders, removed>>

\* A closure whose caller is gone runs on what that stack has become: it kicks,
\* or does nothing.
LateKick(k) ==
  /\ GameFree
  /\ late' = late \ {k}
  /\ \/ Ends(k.c) /\ Removes(k)
     \/ UNCHANGED <<gameVars, removed>>
  /\ UNCHANGED <<phase, listVars, call, sweep, orders, gaveUp>>

-----------------------------------------------------------------------------
(* InitThread's loop: EnforceKicks, then DomBans::Enforce.                  *)

EnforcerFree == phase = "loaded" /\ call[Enforcer] = Idle

\* EnforceKicks up to its loop: with no kick remembered the players are not read.
SweepKicks ==
  /\ EnforcerFree /\ sweep.at = "sleep"
  /\ sweep' = [at |-> "kicks", todo |-> IF g_Kicked = {} THEN {} ELSE Connected, bans |-> {}]
  /\ UNCHANGED <<phase, gameVars, listVars, call, late, historyVars>>

\* Faulty variant: with no kick remembered the whole sweep is skipped.
SweepBansSkipped ==
  /\ EnforcerFree /\ sweep.at = "kicks" /\ sweep.todo = {}
  /\ sweep' = [at |-> "bans", todo |-> IF g_Kicked = {} THEN {} ELSE Connected, bans |-> g_Bans]
  /\ UNCHANGED <<phase, gameVars, listVars, call, late, historyVars>>

\* Enforce up to its loop: the bans are copied, then the players.
SweepBans ==
  /\ EnforcerFree /\ sweep.at = "kicks" /\ sweep.todo = {}
  /\ sweep' = [at |-> "bans", todo |-> IF g_Bans = {} THEN {} ELSE Connected, bans |-> g_Bans]
  /\ UNCHANGED <<phase, gameVars, listVars, call, late, historyVars>>

\* The next player of either loop: kicked again if listed, in the kicks as they
\* are now or in the bans as they were copied.
SweepPlayer(p) ==
  /\ EnforcerFree /\ p \in sweep.todo
  /\ sweep' = [sweep EXCEPT !.todo = @ \ {p}]
  /\ IF p \in (IF sweep.at = "kicks" THEN g_Kicked ELSE sweep.bans)
     THEN Calls(Enforcer, "sweep", p) ELSE UNCHANGED call
  /\ UNCHANGED <<phase, gameVars, listVars, late, historyVars>>

SweepEnds ==
  /\ EnforcerFree /\ sweep.at = "bans" /\ sweep.todo = {}
  /\ sweep' = Asleep
  /\ UNCHANGED <<phase, gameVars, listVars, call, late, historyVars>>

-----------------------------------------------------------------------------
Sweep == SweepKicks \/ SweepBans \/ (\E p \in NetIds : SweepPlayer(p)) \/ SweepEnds

ModNext ==
  \/ PumpInstalled \/ Load \/ Sweep
  \/ \E p \in Ids, c \in Controllers : Join(p, c)
  \/ \E c \in Controllers : Spawn(c) \/ Leave(c)
  \/ \E t \in Operators, who \in NetIds \cup Controllers : Kick(t, who)
  \/ \E t \in Operators, p \in NetIds : Ban(t, p) \/ Unban(t, p)
  \/ \E t \in Threads :
       Lookup(t) \/ KickRuns(t) \/ KickRefused(t) \/ KickWakes(t) \/ KickTimesOut(t)
  \/ \E k \in late : LateKick(k)

ModSpec == ModInit /\ [][ModNext]_modVars

\* Threads that can move do, a player who is connected gets a pawn, and a
\* removal the sweep keeps asking for is at some time run and accepted.
ModFairSpec ==
  /\ ModSpec
  /\ WF_modVars(Sweep)
  /\ \A t \in Threads : WF_modVars(Lookup(t)) /\ WF_modVars(KickWakes(t))
  /\ WF_modVars(KickRuns(Chat) \/ KickRefused(Chat))
  /\ []<>(call[Enforcer].at = "queued") => []<><<KickRuns(Enforcer)>>_modVars
  /\ \A c \in Controllers : SF_modVars(Spawn(c))

-----------------------------------------------------------------------------
(* Properties.                                                             *)

NoneInProgress == late = {} /\ \A t \in Threads : call[t] = Idle
Wanted(p) == p \in g_Bans \cup g_Kicked

\* Whoever a kick command has removed, and has a net id, is remembered once the call
\* is over, also if they are back by then, unless the call had timed out.
KickRemembered ==
  \A p \in removed : p \in g_Kicked \cup gaveUp \/ \E t \in Operators : call[t].id = p

\* A ban's kick goes by the net id Ban has listed: it hits the player whose net id
\* that is, and somebody else, whose name it is, only while that player has no
\* controller.
BanKicksListed == (\E t \in Operators : call[t].op = "ban") => BansKickListed

\* While an operator's command is looking for its player: by an identifier that
\* fits one player only, kick, ban, give and player all mean that player.
LookupsAgree == (\E t \in Operators : call[t].at = "lookup") => CommandsAgree

\* README: unban is `Remove a ban'.  A player whose ban was lifted, and whom no
\* operator has asked to kick, is not among those the sweep removes.
UnbanLifts == NoneInProgress => \A p \in g_Kicked : orders[p] # "lifted"

\* README: `They are removed again whenever they reconnect.'  A banned or kicked
\* player who is connected is removed, or leaves.
EnforcementWorks ==
  \A p \in NetIds :
    phase = "loaded" /\ Wanted(p) /\ Sessions(p) # {} ~> ~Wanted(p) \/ Sessions(p) = {}

-----------------------------------------------------------------------------
(* The inductive invariant of the proof.                                    *)

\* A call in progress has found a player or is about to, and only operators' calls
\* are kicks and bans.
CallInv ==
  \A t \in Threads :
    /\ call[t].at # "idle" => call[t].op # "none"
    /\ call[t].at \in {"queued", "ran", "refused"} => call[t].id \in Ids
    /\ call[t].at = "idle" => call[t] = Idle
    /\ t = Enforcer => call[t].op \in {"none", "sweep"}

\* A kick command's closure that outlives its call is one the command gave up on.
LateInv == \A k \in late : k.op = "kick" => Known(k.id) \subseteq gaveUp

\* Whoever was removed is remembered, given up on, or the player of a kick command
\* whose closure has run.
RemovedInv ==
  \A p \in removed :
    \/ p \in g_Kicked \cup gaveUp
    \/ \E t \in Operators : call[t].at = "ran" /\ call[t].op = "kick" /\ call[t].id = p

ModerationInv == ModTypeOK /\ CallInv /\ LateInv /\ RemovedInv
=============================================================================
