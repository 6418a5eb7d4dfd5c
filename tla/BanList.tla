------------------------------- MODULE BanList -------------------------------
(***************************************************************************)
(* src/src/engine/bans.cpp: the ban list in memory and bans.json, which every *)
(* change rewrites, over restarts of the server and over the phases of         *)
(* InitThread (src/src/rsdwapi.cpp) that decide when Load runs.  Threads are   *)
(* the REST and RCON handlers and the game thread with its chat commands.      *)
(* What Ban's KickPlayer does is in Moderation; here it only takes time.       *)
(***************************************************************************)
EXTENDS SequencesExt

CONSTANTS NetIds,    \* unique net ids of players
          Threads,   \* threads that ban and unban
          None

ASSUME BanListAssumption == None \notin NetIds \cup Threads

VARIABLES
  phase,     \* how far InitThread is
  g_Bans,    \* the list, in order
  disk,      \* the entries bans.json holds
  lock,      \* who holds g_Mutex
  call,      \* where each thread is, and for which net id
  banned,    \* history: net ids banned and not unbanned, over all restarts
  behind,    \* history: the last Load or save of this process did not succeed
  lossy      \* history: the ways in which bans may have been lost

vars == <<phase, g_Bans, disk, lock, call, banned, behind, lossy>>

Idle == [at |-> "idle", op |-> "none", id |-> None]

TypeOK ==
  /\ phase \in {"booting", "engine", "ready", "nopump", "loaded"}
  /\ g_Bans \in Seq(NetIds) /\ IsInjective(g_Bans)
  /\ disk \in Seq(NetIds) /\ IsInjective(disk)
  /\ lock \in Threads \cup {None}
  /\ call \in [Threads -> [at : {"idle", "save", "write", "kick"}, op : {"none", "ban", "unban"},
                           id : NetIds \cup {None}]]
  /\ banned \subseteq NetIds /\ behind \in BOOLEAN
  /\ lossy \subseteq {"early", "failed", "unread", "crash"}

Init ==
  /\ phase = "booting"
  /\ g_Bans = <<>> /\ disk = <<>> /\ lock = None
  /\ call = [t \in Threads |-> Idle]
  /\ banned = {} /\ behind = FALSE /\ lossy = {}

Initialized == phase # "booting"                 \* engine->IsInitialized()

-----------------------------------------------------------------------------
(* InitThread, and the end of the process.                                  *)

EngineFound ==
  /\ phase = "booting"
  /\ phase' = "engine"
  /\ UNCHANGED <<g_Bans, disk, lock, call, banned, behind, lossy>>

\* The game thread's pump is installed, or InitThread returns and never loads.
PumpInstalled ==
  /\ phase = "engine"
  /\ phase' \in {"ready", "nopump"}
  /\ UNCHANGED <<g_Bans, disk, lock, call, banned, behind, lossy>>

\* Load: the list is what the file holds.  One that is there and cannot be opened
\* is taken for one that is not: the list is empty, and the next save overwrites
\* the file.
Load ==
  /\ phase = "ready" /\ lock = None
  /\ phase' = "loaded"
  /\ \/ g_Bans' = disk /\ behind' = FALSE /\ UNCHANGED lossy
     \/ /\ disk # <<>>
        /\ g_Bans' = <<>> /\ behind' = TRUE /\ lossy' = lossy \cup {"unread"}
  /\ UNCHANGED <<disk, lock, call, banned>>

\* The server stops, cleanly or not, and starts again.  Of a file being rewritten
\* the first entries are there.  An unban that did not return counts as given, a
\* ban as not given.
Restart ==
  /\ phase' = "booting"
  /\ g_Bans' = <<>> /\ lock' = None /\ behind' = FALSE
  /\ call' = [t \in Threads |-> Idle]
  /\ IF lock = None
     THEN UNCHANGED <<disk, banned, lossy>>
     ELSE /\ disk' \in IF call[lock].at = "write" THEN Prefixes(g_Bans) ELSE {disk}
          /\ banned' = IF call[lock].op = "unban" THEN banned \ {call[lock].id} ELSE banned
          /\ lossy' = lossy \cup {"crash"}

-----------------------------------------------------------------------------
(* Ban, Unban and SaveLocked.                                              *)

Holds(t, op, p) ==
  /\ lock = None
  /\ lock' = t
  /\ call' = [call EXCEPT ![t] = [at |-> "save", op |-> op, id |-> p]]

\* Ban adds the entry under the lock, which SaveLocked then runs under.  A net id
\* that is listed already is refused.
Ban(t, p) ==
  /\ call[t] = Idle /\ Initialized
  /\ p \notin Range(g_Bans)
  /\ Holds(t, "ban", p)
  /\ g_Bans' = Append(g_Bans, p)
  /\ UNCHANGED <<phase, disk, banned, behind, lossy>>

\* Unban asks for no engine, and saves only if a ban matches.
Unban(t, p) ==
  /\ call[t] = Idle
  /\ p \in Range(g_Bans)
  /\ Holds(t, "unban", p)
  /\ g_Bans' = RemoveFirst(g_Bans, p)
  /\ UNCHANGED <<phase, disk, banned, behind, lossy>>

\* SaveLocked returns and the lock is released; a ban goes on to kick.
Saved(t) ==
  /\ lock' = None
  /\ call' = [call EXCEPT ![t] = IF @.op = "ban" THEN [@ EXCEPT !.at = "kick"] ELSE Idle]
  /\ banned' = IF call[t].op = "ban" THEN banned \cup {call[t].id} ELSE banned \ {call[t].id}

\* The file cannot be opened, which is logged, or takes only the first entries,
\* which nobody looks at; either way the call goes on.
SaveFails(t) ==
  /\ \/ call[t].at = "save" /\ UNCHANGED disk
     \/ call[t].at = "write" /\ disk' \in Prefixes(g_Bans)
  /\ Saved(t)
  /\ behind' = TRUE /\ lossy' = lossy \cup {"failed"}
  /\ UNCHANGED <<phase, g_Bans>>

\* Faulty variant: SaveLocked without the lock of its name; the list is written
\* as it is by then, and another thread may be in the middle of its own.
SaveOpensUnlocked(t) ==
  /\ call[t].at = "save"
  /\ disk' = <<>>
  /\ call' = [call EXCEPT ![t].at = "write"]
  /\ lock' = None
  /\ lossy' = IF phase = "loaded" THEN lossy ELSE lossy \cup {"early"}
  /\ UNCHANGED <<phase, g_Bans, banned, behind>>

\* Opening the file truncates it, whether or not it has been read.
SaveOpens(t) ==
  /\ call[t].at = "save"
  /\ disk' = <<>>
  /\ call' = [call EXCEPT ![t].at = "write"]
  /\ lossy' = IF phase = "loaded" THEN lossy ELSE lossy \cup {"early"}
  /\ UNCHANGED <<phase, g_Bans, lock, banned, behind>>

\* Faulty variant: the new entry is left out of the file.
SaveClosesShort(t) ==
  /\ call[t].at = "write"
  /\ disk' = SelectSeq(g_Bans, LAMBDA q : q # call[t].id)
  /\ Saved(t)
  /\ behind' = FALSE
  /\ UNCHANGED <<phase, g_Bans, lossy>>

\* The entries are in the file.
SaveCloses(t) ==
  /\ call[t].at = "write"
  /\ disk' = g_Bans
  /\ Saved(t)
  /\ behind' = FALSE
  /\ UNCHANGED <<phase, g_Bans, lossy>>

\* Ban's KickPlayer, outside the lock, returns.
Kicked(t) ==
  /\ call[t].at = "kick"
  /\ call' = [call EXCEPT ![t] = Idle]
  /\ UNCHANGED <<phase, g_Bans, disk, lock, banned, behind, lossy>>

Next ==
  \/ EngineFound \/ PumpInstalled \/ Load \/ Restart
  \/ \E t \in Threads :
       \/ \E p \in NetIds : Ban(t, p) \/ Unban(t, p)
       \/ SaveFails(t) \/ SaveOpens(t) \/ SaveCloses(t) \/ Kicked(t)

Spec == Init /\ [][Next]_vars

-----------------------------------------------------------------------------
(* Properties.                                                             *)

Settled == phase = "loaded" /\ lock = None

\* Between saves the file holds the list, in its order, unless the last save or
\* Load did not succeed: no two rewrites mix, none is of an older list, and one
\* that succeeds makes up for all that failed before it.
FileIsList == Settled /\ ~behind => disk = g_Bans

\* Over any number of restarts the list is exactly who was banned and not
\* unbanned, unless a save failed, the server died during one, Load could not
\* open the file, or a ban was given before Load.
BansKept == Settled /\ lossy = {} => Range(g_Bans) = banned

\* README: `Bans are kept in rsdwapi/bans.json beside the config and survive
\* restarts.'  Asked of runs in which the file can be read and written
\* and no crash meets a save, but a ban may be given as soon as the engine is initialised.
BansSurvive == Settled /\ lossy \subseteq {"early"} => banned \subseteq Range(g_Bans)

-----------------------------------------------------------------------------
(* The inductive invariant of the proofs, in parts.                         *)

\* The lock is held from the change of the list to the end of its save.
LockInv ==
  \A t \in Threads :
    /\ call[t].at \in {"save", "write"} <=> lock = t
    /\ lock = t => call[t].op \in {"ban", "unban"} /\ call[t].id \in NetIds

\* A list that is being saved differs from `banned' by the call in progress.
Intended ==
  IF lock = None THEN banned
  ELSE IF call[lock].op = "ban" THEN banned \cup {call[lock].id} ELSE banned \ {call[lock].id}

\* As long as nothing may have been lost, the list is the intended one, the file
\* the one before it, and before Load nothing has been written.
KeptInv ==
  lossy = {} =>
    /\ phase = "loaded" => Range(g_Bans) = Intended
    /\ lock = None => Range(disk) = banned
    /\ phase # "loaded" /\ lock # None => call[lock].at = "save"

BanInv == TypeOK /\ LockInv /\ FileIsList /\ KeptInv
=============================================================================
