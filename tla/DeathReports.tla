----------------------------- MODULE DeathReports -----------------------------
(***************************************************************************)
(* How player deaths are noticed and reported, on two threads: the game        *)
(* thread, in HookedChatProcessEvent and the event listener                    *)
(* (src/src/engine/chat.cpp), and the init thread, which hooks the chat        *)
(* component's vtable in Poll and compares everyone's health with the last      *)
(* sweep (src/src/rsdwapi.cpp).  Both call reportDeath, which reads the clock   *)
(* before it takes deathMutex.                                                  *)
(*                                                                             *)
(* The chat components are of one class and share a vtable.  Time is in         *)
(* seconds; 0 in a map is no entry.                                            *)
(***************************************************************************)
EXTENDS Naturals, Sequences

CONSTANTS Players,
          EventGap,    \* 3: events of a player this close are one
          Forget,      \* 30: older events are dropped from g_RecentEvents
          DeathGap,    \* 10: reports of a key are at least this far apart
          MaxTime      \* bound: the clock

ASSUME DeathAssumption ==
  {EventGap, Forget, DeathGap, MaxTime} \subseteq Nat \ {0} /\ EventGap <= Forget /\ Players # {}

\* A death is keyed by the player's net id, or by playerId where an event has no
\* readable net id and no player matches it.
Keys == Players \X {"netId", "playerId"}

VARIABLES
  now,
  health,           \* of each player: no pawn, alive or dead
  slot,             \* the vtable slot holds HookedChatProcessEvent
  g_HookedVTables,  \* what the slot held is in the map
  g_RecentEvents,   \* per player, the time of the last death event handled
  game,             \* the game thread: where it is, the player, `previous', key and stamp
  init,             \* the init thread: where it is, and what it reports
  wasDead,          \* per player, alive or dead at the last sweep, or none
  seen,             \* GetAllPlayers of the sweep in progress
  todo,             \* players the sweep has still to look at
  deathPosted,      \* per key, the time of the last report
  reports           \* history: per key, the stamps of the reports

eventVars == <<slot, g_HookedVTables, g_RecentEvents, game>>
sweepVars == <<init, wasDead, seen, todo>>
reportVars == <<deathPosted, reports>>
deathsVars == <<now, health, eventVars, sweepVars, reportVars>>

Healths == {"none", "alive", "dead"}
AnyPlayer == CHOOSE p \in Players : TRUE

\* A thread outside reportDeath has no key and no stamp; both have some value.
At(place) == [at |-> place, key |-> <<AnyPlayer, "netId">>, stamp |-> 0]
Calling(place, p, kind, prev) ==
  [at |-> place, player |-> p, kind |-> kind, previous |-> prev,
   key |-> <<p, "netId">>, stamp |-> 0]
NoCall == Calling("idle", AnyPlayer, "other", TRUE)

DeathsTypeOK ==
  /\ now \in 1..MaxTime
  /\ health \in [Players -> Healths] /\ seen \in [Players -> Healths]
  /\ wasDead \in [Players -> Healths]
  /\ slot \in BOOLEAN /\ g_HookedVTables \in BOOLEAN
  /\ g_RecentEvents \in [Players -> 0..MaxTime]
  /\ game \in [at : {"idle", "hook", "event", "stamped", "forward", "dropped"}, player : Players,
               kind : {"death", "other"}, previous : BOOLEAN, key : Keys, stamp : 0..MaxTime]
  /\ init \in [at : {"sleep", "hooked", "sweep", "stamped"}, key : Keys, stamp : 0..MaxTime]
  /\ todo \subseteq Players
  /\ deathPosted \in [Keys -> 0..MaxTime]
  /\ reports \in [Keys -> Seq(1..MaxTime)]

DeathsInit ==
  /\ now = 1
  /\ health = [p \in Players |-> "none"]
  /\ slot = FALSE /\ g_HookedVTables = FALSE
  /\ g_RecentEvents = [p \in Players |-> 0]
  /\ game = NoCall /\ init = At("sleep")
  /\ wasDead = [p \in Players |-> "none"] /\ seen = [p \in Players |-> "none"]
  /\ todo = {}
  /\ deathPosted = [k \in Keys |-> 0]
  /\ reports = [k \in Keys |-> <<>>]

DeathsTick ==
  /\ now < MaxTime
  /\ now' = now + 1
  /\ UNCHANGED <<health, eventVars, sweepVars, reportVars>>

\* The game: players come, die, respawn and go.
Health(p) ==
  /\ \E h \in Healths \ {health[p]} : health' = [health EXCEPT ![p] = h]
  /\ UNCHANGED <<now, eventVars, sweepVars, reportVars>>

-----------------------------------------------------------------------------
(* reportDeath, on either thread.                                          *)

\* Nothing was reported for the key within the gap.
Fresh(k, stamp) == deathPosted[k] = 0 \/ stamp >= deathPosted[k] + DeathGap

\* Faulty variant: a difference of unsigned numbers, large if the other thread's
\* stamp is later.
LockedReportUnsigned(k, stamp) ==
  LET fresh == deathPosted[k] = 0 \/ stamp < deathPosted[k] \/ stamp >= deathPosted[k] + DeathGap
  IN /\ deathPosted' = IF fresh THEN [deathPosted EXCEPT ![k] = stamp] ELSE deathPosted
     /\ reports' = IF fresh THEN [reports EXCEPT ![k] = Append(@, stamp)] ELSE reports

\* The look at deathPosted and its update, under deathMutex.
LockedReport(k, stamp) ==
  /\ deathPosted' = IF Fresh(k, stamp) THEN [deathPosted EXCEPT ![k] = stamp] ELSE deathPosted
  /\ reports' = IF Fresh(k, stamp) THEN [reports EXCEPT ![k] = Append(@, stamp)] ELSE reports

-----------------------------------------------------------------------------
(* The game thread.                                                        *)

\* HookedChatProcessEvent is entered, for a death event or another function of
\* the component, and looks its vtable up.
HookedChatProcessEvent(p, kind) ==
  /\ game.at = "idle" /\ slot
  /\ game' = Calling("hook", p, kind, g_HookedVTables)
  /\ UNCHANGED <<now, health, slot, g_HookedVTables, g_RecentEvents, sweepVars, reportVars>>

\* HandlePlayerEvent: a repeated event is dropped, old ones are forgotten.
HandlePlayerEvent ==
  /\ game.at = "hook" /\ game.kind = "death"
  /\ LET p == game.player
         repeated == g_RecentEvents[p] # 0 /\ now - g_RecentEvents[p] < EventGap
     IN IF repeated
        THEN game' = [game EXCEPT !.at = "forward"] /\ UNCHANGED g_RecentEvents
        ELSE /\ game' = [game EXCEPT !.at = "event"]
             /\ g_RecentEvents' = [q \in Players |->
                  IF q = p THEN now
                  ELSE IF now - g_RecentEvents[q] > Forget THEN 0 ELSE g_RecentEvents[q]]
  /\ UNCHANGED <<now, health, slot, g_HookedVTables, sweepVars, reportVars>>

\* The listener: a key for the player, and reportDeath's look at the clock.
EventStamp ==
  /\ game.at = "event"
  /\ \E by \in {"netId", "playerId"} :
       game' = [game EXCEPT !.at = "stamped", !.key = <<game.player, by>>, !.stamp = now]
  /\ UNCHANGED <<now, health, slot, g_HookedVTables, g_RecentEvents, sweepVars, reportVars>>

EventReport ==
  /\ game.at = "stamped"
  /\ LockedReport(game.key, game.stamp)
  /\ game' = Calling("forward", game.player, game.kind, game.previous)
  /\ UNCHANGED <<now, health, slot, g_HookedVTables, g_RecentEvents, sweepVars>>

\* The call goes on to what the slot held, if that was in the map on entry, and
\* is lost otherwise.
Forward ==
  /\ game.at = "forward" \/ (game.at = "hook" /\ game.kind = "other")
  /\ game' = IF game.previous THEN NoCall ELSE [game EXCEPT !.at = "dropped"]
  /\ UNCHANGED <<now, health, slot, g_HookedVTables, g_RecentEvents, sweepVars, reportVars>>

Dropped ==
  /\ game.at = "dropped"
  /\ game' = NoCall
  /\ UNCHANGED <<now, health, slot, g_HookedVTables, g_RecentEvents, sweepVars, reportVars>>

-----------------------------------------------------------------------------
(* The init thread: Poll, then the sweep.                                  *)

\* GetAllPlayers; players without a net id or health are skipped.
BeginSweep ==
  /\ init' = At("sweep")
  /\ seen' = health
  /\ todo' = {p \in Players : health[p] # "none"}

\* Poll hooks the vtable with HookVTable, which stores the hook,
PollHooks ==
  /\ init.at = "sleep" /\ ~g_HookedVTables /\ ~slot
  /\ slot' = TRUE
  /\ init' = At("hooked")
  /\ UNCHANGED <<now, health, g_HookedVTables, g_RecentEvents, game, wasDead, seen, todo, reportVars>>

\* Faulty variant: what the slot held is not kept.
PollForgets ==
  /\ init.at = "hooked"
  /\ BeginSweep
  /\ UNCHANGED <<now, health, eventVars, wasDead, reportVars>>

\* and only then, under the mutex, in the map.
PollMaps ==
  /\ init.at = "hooked"
  /\ g_HookedVTables' = TRUE
  /\ BeginSweep
  /\ UNCHANGED <<now, health, slot, g_RecentEvents, game, wasDead, reportVars>>

\* There is nothing to hook, it fails, or it is hooked already.
PollSkips ==
  /\ init.at = "sleep"
  /\ BeginSweep
  /\ UNCHANGED <<now, health, eventVars, wasDead, reportVars>>

\* Faulty variant: the player is looked up in nowDead, which has them already.
JustDiedNow(p) == seen[p] = "dead" /\ seen[p] = "alive"

\* Dead, and alive in the last sweep's map.
JustDied(p) == seen[p] = "dead" /\ wasDead[p] = "alive"

\* A player who has just died: reportDeath's look at the clock.
SweepStamp(p) ==
  /\ init.at = "sweep" /\ p \in todo /\ JustDied(p)
  /\ todo' = todo \ {p}
  /\ init' = [at |-> "stamped", key |-> <<p, "netId">>, stamp |-> now]
  /\ UNCHANGED <<now, health, eventVars, wasDead, seen, reportVars>>

SweepSkip(p) ==
  /\ init.at = "sweep" /\ p \in todo /\ ~JustDied(p)
  /\ todo' = todo \ {p}
  /\ UNCHANGED <<now, health, eventVars, init, wasDead, seen, reportVars>>

SweepReport ==
  /\ init.at = "stamped"
  /\ LockedReport(init.key, init.stamp)
  /\ init' = At("sweep")
  /\ UNCHANGED <<now, health, eventVars, wasDead, seen, todo>>

\* wasDead.swap(nowDead).
DeathSweepEnds ==
  /\ init.at = "sweep" /\ todo = {}
  /\ wasDead' = seen
  /\ init' = At("sleep")
  /\ UNCHANGED <<now, health, eventVars, seen, todo, reportVars>>

GameStep == HandlePlayerEvent \/ EventStamp \/ EventReport \/ Forward \/ Dropped
InitStep ==
  \/ PollHooks \/ PollMaps \/ PollSkips \/ SweepReport \/ DeathSweepEnds
  \/ \E p \in Players : SweepStamp(p) \/ SweepSkip(p)

DeathsNext ==
  \/ DeathsTick \/ GameStep \/ InitStep
  \/ \E p \in Players : Health(p) \/ \E kind \in {"death", "other"} : HookedChatProcessEvent(p, kind)

DeathsSpec == DeathsInit /\ [][DeathsNext]_deathsVars

\* Both threads go on.
DeathsFairSpec == DeathsSpec /\ WF_deathsVars(GameStep) /\ WF_deathsVars(InitStep)

-----------------------------------------------------------------------------
(* Properties.                                                             *)

\* The reports of a key are DeathGap apart, whichever threads made them and though
\* each read its clock before it had the mutex: a thread that comes late with an
\* old stamp neither reports nor moves the last report back.
DeathOnce ==
  \A k \in Keys : \A i \in 1..(Len(reports[k]) - 1) :
    reports[k][i + 1] >= reports[k][i] + DeathGap

\* A player whom the last sweep saw alive, who is dead before the next one begins
\* and stays so, is reported; or was, less than the gap before that time t.
DeathsNoticed ==
  \A p \in Players, t \in 1..MaxTime :
    init.at = "sleep" /\ wasDead[p] = "alive" /\ health[p] = "dead" /\ now = t
      ~> \/ health[p] # "dead"
         \/ deathPosted[<<p, "netId">>] # 0 /\ deathPosted[<<p, "netId">>] + DeathGap > t

\* The calls of the game that are lost between the two halves of Poll are the
\* last ones: from some time on every call reaches what the slot held.
LossEnds == <>[](game.at # "dropped")

-----------------------------------------------------------------------------
(* The inductive invariant of the proof.                                    *)

\* A thread about to take the mutex has read the clock.
StampInv ==
  (game.at = "stamped" => game.stamp # 0) /\ (init.at = "stamped" => init.stamp # 0)

\* deathPosted has the last report of each key.
PostedInv ==
  \A k \in Keys : IF reports[k] = <<>> THEN deathPosted[k] = 0
                  ELSE deathPosted[k] = reports[k][Len(reports[k])]

DeathInv == DeathsTypeOK /\ StampInv /\ PostedInv /\ DeathOnce
=============================================================================
