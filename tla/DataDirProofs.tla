---------------------------- MODULE DataDirProofs ----------------------------
(***************************************************************************)
(* Proofs about DataDir, for any threads, net ids and bounds: what bans.json   *)
(* and settings.ini hold over any number of restarts, crashes in the middle of *)
(* a rewrite and saves that fail.  The two files have an invariant each,       *)
(* BanInv and SettingsInv; a step of DirNext is looked at from each of them.   *)
(***************************************************************************)
EXTENDS DataDir, SequenceLemmas, FiniteSetTheorems

-----------------------------------------------------------------------------
(* The ban list.                                                           *)

\* A step of the directory is one of the ban list, or leaves it alone.
LEMMA DirImplementsBanList == DirSpec => Spec
<1>1. DirInit => Init
  BY DEF DirInit
<1>2. [DirNext]_dirVars => [Next]_vars
  BY DEF DirNext, dirVars, Initializes, Commands, Next
<1> QED BY <1>1, <1>2, PTL DEF DirSpec, Spec

\* Where a thread is when its call changes the list, and what it holds then.
LEMMA Holding ==
  ASSUME TypeOK, LockInv, NEW t \in Threads, NEW p \in NetIds, NEW op \in {"ban", "unban"},
         Holds(t, op, p), UNCHANGED banned
  PROVE  /\ call' \in [Threads -> [at : {"idle", "save", "write", "kick"},
                                   op : {"none", "ban", "unban"}, id : NetIds \cup {None}]]
         /\ lock' = t /\ call'[t] = [at |-> "save", op |-> op, id |-> p]
         /\ LockInv'
         /\ Intended' = IF op = "ban" THEN banned \cup {p} ELSE banned \ {p}
<1>1. call' = [call EXCEPT ![t] = [at |-> "save", op |-> op, id |-> p]] /\ lock = None /\ lock' = t
  BY DEF Holds
<1>2. /\ call'[t] = [at |-> "save", op |-> op, id |-> p]
      /\ \A u \in Threads \ {t} : call'[u] = call[u]
  BY <1>1 DEF TypeOK
<1>3. LockInv'
  BY <1>1, <1>2, BanListAssumption DEF LockInv
<1>4. Intended' = IF op = "ban" THEN banned \cup {p} ELSE banned \ {p}
  BY <1>1, <1>2, BanListAssumption DEF Intended
<1> QED BY <1>1, <1>2, <1>3, <1>4 DEF TypeOK

LEMMA BanStep ==
  ASSUME BanInv, NEW t \in Threads, NEW p \in NetIds, Ban(t, p)
  PROVE  BanInv'
<1> USE DEF BanInv
<1>1. /\ lock' = t /\ call'[t].at = "save" /\ LockInv'
      /\ call' \in [Threads -> [at : {"idle", "save", "write", "kick"},
                                op : {"none", "ban", "unban"}, id : NetIds \cup {None}]]
      /\ Intended' = banned \cup {p} /\ Intended = banned
  BY Holding DEF Ban, Holds, Intended
<1>2. /\ g_Bans' \in Seq(NetIds) /\ IsInjective(g_Bans')
      /\ Range(g_Bans') = Range(g_Bans) \cup {p}
  BY AppendNew DEF Ban, TypeOK
<1>3. TypeOK'
  BY <1>1, <1>2 DEF Ban, TypeOK
<1>4. FileIsList'
  BY <1>1, BanListAssumption DEF FileIsList, Settled
<1>5. KeptInv'
  BY <1>1, <1>2, BanListAssumption DEF Ban, KeptInv
<1> QED BY <1>1, <1>3, <1>4, <1>5

LEMMA UnbanStep ==
  ASSUME BanInv, NEW t \in Threads, NEW p \in NetIds, Unban(t, p)
  PROVE  BanInv'
<1> USE DEF BanInv
<1>1. /\ lock' = t /\ call'[t].at = "save" /\ LockInv'
      /\ call' \in [Threads -> [at : {"idle", "save", "write", "kick"},
                                op : {"none", "ban", "unban"}, id : NetIds \cup {None}]]
      /\ Intended' = banned \ {p} /\ Intended = banned
  BY Holding DEF Unban, Holds, Intended
<1>2. /\ g_Bans' \in Seq(NetIds) /\ IsInjective(g_Bans')
      /\ Range(g_Bans') = Range(g_Bans) \ {p}
  BY RemoveListed DEF Unban, TypeOK
<1>3. TypeOK'
  BY <1>1, <1>2 DEF Unban, TypeOK
<1>4. FileIsList'
  BY <1>1, BanListAssumption DEF FileIsList, Settled
<1>5. KeptInv'
  BY <1>1, <1>2, BanListAssumption DEF Unban, KeptInv
<1> QED BY <1>1, <1>3, <1>4, <1>5

\* A save that is over: the call in progress is given.
LEMMA Saving ==
  ASSUME TypeOK, LockInv, NEW t \in Threads, call[t].at \in {"save", "write"}, Saved(t)
  PROVE  /\ call' \in [Threads -> [at : {"idle", "save", "write", "kick"},
                                   op : {"none", "ban", "unban"}, id : NetIds \cup {None}]]
         /\ lock = t /\ lock' = None
         /\ LockInv'
         /\ banned' = Intended /\ banned' \subseteq NetIds
<1>1. lock = t /\ lock' = None /\ t # None
  BY BanListAssumption DEF LockInv, Saved
<1>2. call[t].op \in {"ban", "unban"} /\ call[t].id \in NetIds
  BY <1>1 DEF LockInv
<1> DEFINE c == call[t]
           next == IF c.op = "ban" THEN [c EXCEPT !.at = "kick"] ELSE Idle
<1>3. c \in [at : {"idle", "save", "write", "kick"}, op : {"none", "ban", "unban"},
             id : NetIds \cup {None}]
  BY DEF TypeOK
<1>4. call' = [call EXCEPT ![t] = next]
  BY DEF Saved
<1> HIDE DEF c
<1>5. [c EXCEPT !.at = "kick"] = [at |-> "kick", op |-> c.op, id |-> c.id]
  BY <1>3
<1>6. /\ next \in [at : {"idle", "save", "write", "kick"}, op : {"none", "ban", "unban"},
                   id : NetIds \cup {None}]
      /\ next.at \in {"kick", "idle"}
  BY <1>3, <1>5 DEF Idle
<1> HIDE DEF next
<1>7. /\ call' \in [Threads -> [at : {"idle", "save", "write", "kick"},
                                op : {"none", "ban", "unban"}, id : NetIds \cup {None}]]
      /\ call'[t].at \in {"kick", "idle"}
      /\ \A u \in Threads \ {t} : call'[u] = call[u]
  BY <1>4, <1>6 DEF TypeOK
<1>8. LockInv'
  BY <1>1, <1>7, BanListAssumption DEF LockInv
<1>9. banned' = Intended
  BY <1>1, <1>2 DEF Saved, Intended
<1> QED BY <1>1, <1>2, <1>7, <1>8, <1>9 DEF Intended, TypeOK

LEMMA SaveFailsStep ==
  ASSUME BanInv, NEW t \in Threads, SaveFails(t)
  PROVE  BanInv'
<1> USE DEF BanInv
<1>1. LockInv' /\ behind' = TRUE /\ lossy' = lossy \cup {"failed"}
  BY Saving DEF SaveFails
<1>2. disk' \in Seq(NetIds) /\ IsInjective(disk')
  BY PrefixOfList DEF SaveFails, TypeOK
<1>3. TypeOK'
  BY <1>1, <1>2, Saving DEF SaveFails, TypeOK
<1> QED BY <1>1, <1>3 DEF FileIsList, KeptInv

LEMMA SaveOpensStep ==
  ASSUME BanInv, NEW t \in Threads, SaveOpens(t)
  PROVE  BanInv'
<1> USE DEF BanInv
<1>1. lock = t /\ lock' = t /\ t # None
  BY BanListAssumption DEF LockInv, SaveOpens
<1> DEFINE c == call[t]
<1>2. c \in [at : {"idle", "save", "write", "kick"}, op : {"none", "ban", "unban"},
             id : NetIds \cup {None}]
  BY DEF TypeOK
<1>3. call' = [call EXCEPT ![t] = [c EXCEPT !.at = "write"]]
  BY DEF SaveOpens
<1> HIDE DEF c
<1>4. [c EXCEPT !.at = "write"] = [at |-> "write", op |-> c.op, id |-> c.id]
  BY <1>2
<1>5. /\ call' \in [Threads -> [at : {"idle", "save", "write", "kick"},
                                op : {"none", "ban", "unban"}, id : NetIds \cup {None}]]
      /\ call'[t] = [at |-> "write", op |-> c.op, id |-> c.id]
      /\ \A u \in Threads \ {t} : call'[u] = call[u]
  BY <1>2, <1>3, <1>4 DEF TypeOK
<1>6. TypeOK'
  BY <1>5, EmptyList DEF SaveOpens, TypeOK
<1>7. LockInv'
  BY <1>1, <1>5 DEF LockInv, c
<1>8. FileIsList'
  BY <1>1 DEF FileIsList, Settled
<1>9. Intended' = Intended
  BY <1>1, <1>5 DEF Intended, SaveOpens, c
<1>10. KeptInv'
  BY <1>1, <1>9 DEF KeptInv, SaveOpens
<1> QED BY <1>6, <1>7, <1>8, <1>10

LEMMA SaveClosesStep ==
  ASSUME BanInv, NEW t \in Threads, SaveCloses(t)
  PROVE  BanInv'
<1> USE DEF BanInv
<1>1. /\ lock = t /\ t # None /\ lock' = None
      /\ banned' = Intended /\ LockInv'
  BY Saving, BanListAssumption DEF SaveCloses
<1>2. TypeOK'
  BY Saving DEF SaveCloses, TypeOK
<1>3. FileIsList'
  BY DEF SaveCloses, FileIsList
<1>4. call[lock].at = "write"
  BY <1>1 DEF SaveCloses
<1>5. KeptInv'
  BY <1>1, <1>4 DEF KeptInv, Intended, SaveCloses
<1> QED BY <1>1, <1>2, <1>3, <1>5

LEMMA KickedStep ==
  ASSUME BanInv, NEW t \in Threads, Kicked(t)
  PROVE  BanInv'
<1> USE DEF BanInv
<1>1. lock # t
  BY DEF LockInv, Kicked
<1>2. /\ call' \in [Threads -> [at : {"idle", "save", "write", "kick"},
                                op : {"none", "ban", "unban"}, id : NetIds \cup {None}]]
      /\ call'[t] = Idle
      /\ \A u \in Threads \ {t} : call'[u] = call[u]
  BY DEF Kicked, TypeOK, Idle
<1>3. TypeOK' /\ FileIsList'
  BY <1>2 DEF Kicked, TypeOK, FileIsList, Settled
<1>4. LockInv'
  BY <1>1, <1>2 DEF Kicked, LockInv, Idle
<1>5. lock # None => call'[lock] = call[lock]
  BY <1>1, <1>2 DEF TypeOK
<1>6. KeptInv'
  BY <1>5 DEF Kicked, KeptInv, Intended
<1> QED BY <1>3, <1>4, <1>6

\* The end of the process, also in the middle of a rewrite.
LEMMA RestartStep ==
  ASSUME BanInv, Restart
  PROVE  BanInv'
<1> USE DEF BanInv
<1>1. /\ phase' = "booting" /\ g_Bans' = <<>> /\ lock' = None
      /\ call' = [t \in Threads |-> Idle]
  BY DEF Restart
<1>2. disk' \in Seq(NetIds) /\ IsInjective(disk')
  BY PrefixOfList DEF Restart, TypeOK
<1>3. /\ banned' \subseteq NetIds /\ behind' \in BOOLEAN
      /\ lossy' \subseteq {"early", "failed", "unread", "crash"}
  BY DEF Restart, TypeOK
<1>4. call' \in [Threads -> [at : {"idle", "save", "write", "kick"},
                             op : {"none", "ban", "unban"}, id : NetIds \cup {None}]]
  BY <1>1 DEF Idle
<1>5. TypeOK'
  BY <1>1, <1>2, <1>3, <1>4, EmptyList DEF TypeOK
<1>6. LockInv'
  BY <1>1, BanListAssumption DEF LockInv, Idle
<1>7. FileIsList'
  BY <1>1 DEF FileIsList, Settled
<1>8. KeptInv'
  BY <1>1 DEF KeptInv, Restart
<1> QED BY <1>5, <1>6, <1>7, <1>8

\* InitThread: only Load touches the list, and it finds what was kept, or says
\* that it could not.
LEMMA InitThreadStep ==
  ASSUME BanInv, EngineFound \/ PumpInstalled \/ Load
  PROVE  BanInv'
<1> USE DEF BanInv
<1>1. TypeOK'
  BY EmptyList DEF EngineFound, PumpInstalled, Load, TypeOK
<1>2. LockInv'
  BY DEF EngineFound, PumpInstalled, Load, LockInv
<1>3. FileIsList'
  BY DEF EngineFound, PumpInstalled, Load, FileIsList, Settled
<1>4. Intended' = Intended
  BY DEF EngineFound, PumpInstalled, Load, Intended
<1>5. KeptInv'
  <2>1. CASE Load
    BY <1>4, <2>1 DEF Load, KeptInv, Intended
  <2>2. CASE EngineFound \/ PumpInstalled
    BY <1>4, <2>2 DEF EngineFound, PumpInstalled, KeptInv
  <2> QED BY <2>1, <2>2
<1> QED BY <1>1, <1>2, <1>3, <1>5

LEMMA BanInvInit == Init => BanInv
<1> SUFFICES ASSUME Init PROVE BanInv
  OBVIOUS
<1>1. call \in [Threads -> [at : {"idle", "save", "write", "kick"},
                            op : {"none", "ban", "unban"}, id : NetIds \cup {None}]]
  BY DEF Init, Idle
<1>2. TypeOK
  BY <1>1, EmptyList DEF Init, TypeOK
<1>3. LockInv
  BY BanListAssumption DEF Init, LockInv, Idle
<1>4. FileIsList /\ KeptInv
  BY EmptyList DEF Init, FileIsList, KeptInv, Intended, Settled
<1> QED BY <1>2, <1>3, <1>4 DEF BanInv

\* The threads that ban and unban, InitThread and the ends of the process keep the
\* invariant of the list and its file.
THEOREM BanListInvariant == DirSpec => []BanInv
<1>1. ASSUME BanInv, [Next]_vars
      PROVE  BanInv'
  <2>1. CASE UNCHANGED vars
    BY <1>1, <2>1 DEF vars, BanInv, TypeOK, LockInv, FileIsList, KeptInv, Intended, Settled
  <2> QED
    BY <1>1, <2>1, BanStep, UnbanStep, SaveFailsStep, SaveOpensStep, SaveClosesStep, KickedStep,
       RestartStep, InitThreadStep DEF Next
<1>2. Spec => []BanInv
  BY <1>1, BanInvInit, PTL DEF Spec
<1> QED BY <1>2, DirImplementsBanList, PTL

\* Once Load has run and while nobody is saving, bans.json is the list in its
\* order, whatever threads have banned and unbanned before and however often the
\* server has crashed, unless the last Load or save of the process failed.
THEOREM TheFileIsTheList == DirSpec => []FileIsList
<1>1. BanInv => FileIsList
  BY DEF BanInv
<1> QED BY <1>1, BanListInvariant, PTL

\* Bans survive any number of restarts, and unbans do, unless a ban was
\* given before Load, a save failed or was cut off by a crash, or Load could not
\* open the file.
THEOREM BansAreKept == DirSpec => []BansKept
<1>1. BanInv => BansKept
  BY DEF BanInv, KeptInv, BansKept, Settled, Intended
<1> QED BY <1>1, BanListInvariant, PTL

-----------------------------------------------------------------------------
(* settings.ini.                                                           *)

\* Save followed by Load gives the configuration back, empty secrets included.
LEMMA SavedIsParsed ==
  ASSUME SettingsTypeOK
  PROVE  /\ Parsed(FirstLines(Len(Order))) = config
         /\ DOMAIN FirstLines(Len(Order)) = Keys
<1>1. {Order[i] : i \in 1..Len(Order)} = Keys
  <2>1. Len(Order) = 4
    BY DEF Order
  <2>2. Order[1] = "rest" /\ Order[2] = "token" /\ Order[3] = "rcon" /\ Order[4] = "password"
    BY DEF Order
  <2>3. \A i \in 1..4 : i = 1 \/ i = 2 \/ i = 3 \/ i = 4
    OBVIOUS
  <2>4. 1 \in 1..4 /\ 2 \in 1..4 /\ 3 \in 1..4 /\ 4 \in 1..4
    OBVIOUS
  <2> QED BY <2>1, <2>2, <2>3, <2>4, Zenon DEF Keys
<1>2. FirstLines(Len(Order)) = [k \in Keys |-> Written(k)]
  BY <1>1 DEF FirstLines
<1>3. Parsed(FirstLines(Len(Order))) = [k \in Keys |-> Apply(k, Written(k))]
  BY <1>2 DEF Parsed
<1>4. \A k \in Keys : Apply(k, Written(k)) = config[k]
  <2>1. config.rest \in BOOLEAN /\ config.rcon \in BOOLEAN
    BY DEF SettingsTypeOK, Configs
  <2>2. \A b \in BOOLEAN : ParseBool(Bool(b)) = b
    BY DEF ParseBool, Bool
  <2> QED BY <2>1, <2>2 DEF Keys, Apply, Written
<1>5. config = [k \in Keys |-> config[k]]
  BY DEF SettingsTypeOK, Configs, Keys
<1> QED BY <1>2, <1>3, <1>4, <1>5

LEMMA SecretsRange == Empty \in Secrets /\ Own \in Secrets /\ \A n \in 0..MaxRuns : n \in Secrets
  BY SettingsBounds DEF Empty, Own, Secrets

LEMMA DefaultType == Default \in Configs
  BY SecretsRange DEF Default, Configs

\* A file of lines for the settings is there.
LEMMA AFile ==
  ASSUME NEW f, DOMAIN f \subseteq Keys
  PROVE  f # NoFile
<1>1. "missing" \in DOMAIN NoFile
  BY DEF NoFile
<1>2. "missing" \notin Keys
  BY DEF Keys
<1> QED BY <1>1, <1>2

\* What is read from a file is a configuration.
LEMMA ParsedType ==
  ASSUME NEW f, \A k \in DOMAIN f : f[k] \in IF k \in {"rest", "rcon"}
                                             THEN {"1", "yes", "true", "false"} ELSE Secrets
  PROVE  Parsed(f) \in Configs
<1> DEFINE c == Parsed(f)
<1>1. c = [k \in Keys |-> IF k \in DOMAIN f THEN Apply(k, f[k]) ELSE Default[k]]
  BY DEF Parsed
<1>2. \A x : ParseBool(x) \in BOOLEAN
  BY DEF ParseBool
<1>3. Default.rest \in BOOLEAN /\ Default.rcon \in BOOLEAN /\ Default.token \in Secrets
      /\ Default.password \in Secrets
  BY DefaultType DEF Configs
<1> HIDE DEF c
<1>4. c["rest"] \in BOOLEAN /\ c["rcon"] \in BOOLEAN
  BY <1>1, <1>2, <1>3 DEF Keys, Apply
<1>5. c["token"] \in Secrets /\ c["password"] \in Secrets
  BY <1>1, <1>3 DEF Keys, Apply
<1>6. c = [rest |-> c["rest"], token |-> c["token"], rcon |-> c["rcon"], password |-> c["password"]]
  BY <1>1 DEF Keys
<1>7. c \in Configs
  BY <1>4, <1>5, <1>6 DEF Configs
<1> QED BY <1>7 DEF c

\* Whatever Save has written so far is a file, with lines of this configuration.
LEMMA FirstLinesFacts ==
  ASSUME SettingsTypeOK, NEW n \in 0..Len(Order)
  PROVE  LET f == FirstLines(n)
         IN  /\ DOMAIN f \subseteq Keys /\ f # NoFile
             /\ \A k \in DOMAIN f : f[k] \in IF k \in {"rest", "rcon"}
                                             THEN {"1", "yes", "true", "false"} ELSE Secrets
             /\ \A k \in DOMAIN f \cap {"token", "password"} : f[k] = config[k]
<1>1. \A i \in 1..n : Order[i] \in Keys
  BY DEF Order, Keys
<1> DEFINE D == {Order[i] : i \in 1..n}
           f == FirstLines(n)
<1>2. D \subseteq Keys
  BY <1>1
<1>3. f = [k \in D |-> Written(k)]
  BY DEF FirstLines
<1> HIDE DEF D, f
<1>4. \A k \in {"rest", "rcon"} : Written(k) \in {"1", "yes", "true", "false"}
  BY DEF Written, Bool
<1>5. \A k \in {"token", "password"} : Written(k) = config[k] /\ Written(k) \in Secrets
  BY DEF Written, SettingsTypeOK, Configs
<1>6. Keys = {"rest", "rcon"} \cup {"token", "password"}
  BY DEF Keys
<1>7. DOMAIN f = D /\ \A k \in D : f[k] = Written(k)
  BY <1>3
<1>8. f # NoFile
  BY <1>2, <1>7, AFile
<1>9. \A k \in DOMAIN f : f[k] \in IF k \in {"rest", "rcon"}
                                   THEN {"1", "yes", "true", "false"} ELSE Secrets
  BY <1>2, <1>4, <1>5, <1>6, <1>7
<1>10. \A k \in DOMAIN f \cap {"token", "password"} : f[k] = config[k]
  BY <1>5, <1>7
<1> QED BY <1>2, <1>7, <1>8, <1>9, <1>10 DEF f

\* An edit changes one line.
LEMMA EditFacts ==
  ASSUME SettingsTypeOK, NEW k \in Keys, Edit(k)
  PROVE  /\ settings # NoFile /\ settings' # NoFile /\ DOMAIN settings' \subseteq Keys
         /\ \A j \in DOMAIN settings' : IF j = k THEN settings'[j] \in Texts(k)
                                        ELSE j \in DOMAIN settings /\ settings'[j] = settings[j]
         /\ \A j \in DOMAIN settings \ {k} : j \in DOMAIN settings'
<1>1. settings # NoFile /\ DOMAIN settings \subseteq Keys
  BY DEF Edit, SettingsTypeOK
<1>2. ASSUME NEW text \in Texts(k),
             settings' = [j \in DOMAIN settings \cup {k} |-> IF j = k THEN text ELSE settings[j]]
      PROVE  /\ DOMAIN settings' = DOMAIN settings \cup {k}
             /\ \A j \in DOMAIN settings' : IF j = k THEN settings'[j] \in Texts(k)
                                            ELSE j \in DOMAIN settings /\ settings'[j] = settings[j]
  BY <1>2
<1>3. ASSUME settings' = [j \in DOMAIN settings \ {k} |-> settings[j]]
      PROVE  /\ DOMAIN settings' = DOMAIN settings \ {k}
             /\ \A j \in DOMAIN settings' : j # k /\ j \in DOMAIN settings /\ settings'[j] = settings[j]
  BY <1>3
<1>4. DOMAIN settings' \in {DOMAIN settings \cup {k}, DOMAIN settings \ {k}}
      /\ \A j \in DOMAIN settings' : IF j = k THEN settings'[j] \in Texts(k)
                                     ELSE j \in DOMAIN settings /\ settings'[j] = settings[j]
  BY <1>2, <1>3 DEF Edit
<1>5. DOMAIN settings' \subseteq Keys
  BY <1>1, <1>4
<1> QED BY <1>1, <1>4, <1>5, AFile

\* The record GenerateSecrets starts from, with two secrets.
LEMMA WithSecretsFacts ==
  ASSUME NEW t \in Secrets, NEW p \in Secrets
  PROVE  /\ WithSecrets(t, p) \in Configs
         /\ WithSecrets(t, p).token = t /\ WithSecrets(t, p).password = p
  BY DEF WithSecrets, Default, Configs

LEMMA LoadSettingsStep ==
  ASSUME SettingsInv, LoadSettings
  PROVE  SettingsInv'
<1> USE DEF SettingsInv
<1>1. /\ settings # NoFile /\ settings' = settings /\ config' = Parsed(settings) /\ stage = "off"
      /\ stage' = "save" /\ UNCHANGED <<runs, edits, wanted, used, losses>>
  BY DEF LoadSettings
<1>2. SettingsTypeOK'
  BY <1>1, ParsedType DEF SettingsTypeOK, FileOK
<1>3. FileOK'
  BY <1>1 DEF FileOK
<1>4. WantedInv'
  BY <1>1 DEF WantedInv, Parsed
<1>5. \A k \in {"token", "password"} :
        Parsed(settings)[k] = IF k \in DOMAIN settings THEN settings[k] ELSE Empty
  BY DEF Parsed, Apply, Keys, Default
<1>6. Empty \in Current /\ Current' = Current
  BY <1>1 DEF Current
<1>7. SecretsInv'
  BY <1>1, <1>5, <1>6 DEF SecretsInv
<1> QED BY <1>2, <1>3, <1>4, <1>7

LEMMA GenerateSecretsStep ==
  ASSUME SettingsInv, GenerateSecrets
  PROVE  SettingsInv'
<1> USE DEF SettingsInv
<1>1. /\ stage = "off" /\ runs < MaxRuns /\ runs' = runs + 1 /\ stage' = "save"
      /\ config' \in Generated
      /\ wanted' = IF settings = NoFile THEN WithSecrets(runs + 1, runs + 1) ELSE wanted
      /\ UNCHANGED <<settings, edits, used>>
  BY DEF GenerateSecrets, FirstRun
<1>2. losses' = losses \cup (IF settings = NoFile THEN {} ELSE {"unread"})
                  \cup (IF Empty \in {config'.token, config'.password} THEN {"random"} ELSE {})
  BY DEF GenerateSecrets, FirstRun
<1>3. runs + 1 \in 1..MaxRuns /\ runs + 1 \in Secrets /\ Empty \in Secrets
  BY <1>1, SecretsRange, SettingsBounds DEF SettingsTypeOK
<1>4. PICK t, p \in {Empty, runs + 1} : config' = WithSecrets(t, p)
  BY <1>1 DEF Generated
<1>5. config' \in Configs /\ config'.token = t /\ config'.password = p
  BY <1>3, <1>4, WithSecretsFacts
<1>6. wanted' \in Configs
  BY <1>1, <1>3, WithSecretsFacts DEF SettingsTypeOK
<1>7. SettingsTypeOK'
  BY <1>1, <1>2, <1>3, <1>5, <1>6 DEF SettingsTypeOK
<1>8. FileOK'
  BY <1>1 DEF FileOK
<1>9. WantedInv'
  <2> SUFFICES ASSUME losses' = {}
               PROVE  settings = NoFile /\ config' = wanted'
    BY <1>1 DEF WantedInv
  <2>1. settings = NoFile /\ Empty # t /\ Empty # p
    BY <1>2, <1>5
  <2> QED BY <1>1, <1>4, <2>1
<1>10. SecretsInv'
  BY <1>1, <1>2, <1>5 DEF SecretsInv, Current
<1> QED BY <1>7, <1>8, <1>9, <1>10

\* The secrets of the configuration that count as made up are those of the last call.
LEMMA InUse ==
  ASSUME SettingsTypeOK, config.token \in Current, config.password \in Current
  PROVE  {config.token, config.password} \cap 1..MaxRuns \subseteq {runs}
  BY SettingsBounds DEF SettingsTypeOK, Current, Empty, Own

LEMMA SaveSettingsFailsStep ==
  ASSUME SettingsInv, SaveSettingsFails
  PROVE  SettingsInv'
<1> USE DEF SettingsInv
<1>1. /\ stage = "save" /\ stage' = "up"
      /\ used' = used \cup ({config.token, config.password} \cap 1..MaxRuns)
      /\ losses' = IF settings = NoFile THEN losses \cup {"failed"} ELSE losses
      /\ UNCHANGED <<settings, config, runs, edits, wanted>>
  BY DEF SaveSettingsFails, StartListeners
<1>2. SettingsTypeOK'
  BY <1>1 DEF SettingsTypeOK
<1>3. FileOK'
  BY <1>1 DEF FileOK
<1>4. WantedInv'
  BY <1>1 DEF WantedInv, Parsed
<1>5. SecretsInv'
  BY <1>1, InUse DEF SecretsInv, Current
<1> QED BY <1>2, <1>3, <1>4, <1>5

LEMMA SaveSettingsOpensStep ==
  ASSUME SettingsInv, SaveSettingsOpens
  PROVE  SettingsInv'
<1> USE DEF SettingsInv
<1>1. /\ stage = "save" /\ stage' = "write" /\ settings' = FirstLines(0)
      /\ UNCHANGED <<config, runs, edits, wanted, used, losses>>
  BY DEF SaveSettingsOpens, NoLines
<1>2. settings' # NoFile /\ DOMAIN settings' = {}
  <2>1. 0 \in 0..Len(Order)
    BY DEF Order
  <2>2. DOMAIN FirstLines(0) = {}
    BY DEF FirstLines
  <2> QED BY <1>1, <2>1, <2>2, FirstLinesFacts
<1>3. SettingsTypeOK'
  BY <1>1, <1>2 DEF SettingsTypeOK
<1>4. FileOK' /\ WantedInv'
  BY <1>1, <1>2 DEF FileOK, WantedInv
<1>5. SecretsInv'
  BY <1>1, <1>2 DEF SecretsInv, Current
<1> QED BY <1>3, <1>4, <1>5

LEMMA SaveSettingsClosesStep ==
  ASSUME SettingsInv, SaveSettingsCloses
  PROVE  SettingsInv'
<1> USE DEF SettingsInv
<1>1. /\ stage = "write" /\ stage' = "up" /\ settings' = FirstLines(Len(Order))
      /\ used' = used \cup ({config.token, config.password} \cap 1..MaxRuns)
      /\ UNCHANGED <<config, runs, edits, wanted, losses>>
  BY DEF SaveSettingsCloses, StartListeners
<1>2. Len(Order) \in 0..Len(Order)
  BY DEF Order
<1>3. /\ DOMAIN settings' \subseteq Keys /\ settings' # NoFile
      /\ \A k \in DOMAIN settings' : settings'[k] \in IF k \in {"rest", "rcon"}
                                             THEN {"1", "yes", "true", "false"} ELSE Secrets
      /\ \A k \in DOMAIN settings' \cap {"token", "password"} : settings'[k] = config[k]
  BY <1>1, <1>2, FirstLinesFacts
<1>4. SettingsTypeOK'
  BY <1>1, <1>3 DEF SettingsTypeOK
<1>5. FileOK'
  BY <1>3 DEF FileOK
<1>6. Parsed(settings)' = config
  BY <1>1, SavedIsParsed DEF Parsed
<1>7. WantedInv'
  BY <1>1, <1>6 DEF WantedInv
<1>8. SecretsInv'
  <2> SUFFICES ASSUME losses \cap {"unread", "failed"} = {}
               PROVE  /\ \A k \in DOMAIN settings' \cap {"token", "password"} : settings'[k] \in Current
                      /\ config.token \in Current /\ config.password \in Current
                      /\ used' \subseteq {runs}
    BY <1>1, <1>3 DEF SecretsInv, Current
  <2>1. config.token \in Current /\ config.password \in Current /\ used \subseteq {runs}
    BY DEF SecretsInv
  <2>2. used' \subseteq {runs}
    BY <1>1, <2>1, InUse
  <2> QED BY <1>3, <2>1, <2>2
<1> QED BY <1>4, <1>5, <1>7, <1>8

LEMMA EditStep ==
  ASSUME SettingsInv, NEW k \in Keys, Edit(k)
  PROVE  SettingsInv'
<1> USE DEF SettingsInv
<1>1. /\ stage \in {"off", "save"} /\ edits < MaxEdits /\ edits' = edits + 1
      /\ wanted' = [wanted EXCEPT ![k] = Parsed(settings')[k]]
      /\ losses' = IF stage = "save" THEN losses \cup {"raced"} ELSE losses
      /\ UNCHANGED <<config, stage, runs, used>>
  BY DEF Edit
<1>2. /\ settings # NoFile /\ settings' # NoFile /\ DOMAIN settings' \subseteq Keys
      /\ \A j \in DOMAIN settings' : IF j = k THEN settings'[j] \in Texts(k)
                                     ELSE j \in DOMAIN settings /\ settings'[j] = settings[j]
      /\ \A j \in DOMAIN settings \ {k} : j \in DOMAIN settings'
  BY EditFacts
<1>3. \A j \in Keys : IF j \in {"rest", "rcon"} THEN Texts(j) \subseteq {"1", "yes", "true", "false"}
                      ELSE Texts(j) \subseteq Secrets /\ Texts(j) \subseteq Current
  BY SecretsRange DEF Texts, Current
<1>4. FileOK'
  BY <1>2, <1>3 DEF FileOK
<1>5. PICK c \in Configs : c = Parsed(settings')
  BY <1>2, <1>4, ParsedType DEF FileOK
<1>6. wanted' \in Configs
  <2>1. /\ c.rest \in BOOLEAN /\ c.rcon \in BOOLEAN /\ c.token \in Secrets /\ c.password \in Secrets
        /\ wanted = [rest |-> wanted.rest, token |-> wanted.token, rcon |-> wanted.rcon,
                     password |-> wanted.password]
        /\ wanted.rest \in BOOLEAN /\ wanted.rcon \in BOOLEAN
        /\ wanted.token \in Secrets /\ wanted.password \in Secrets
    BY DEF Configs, SettingsTypeOK
  <2>2. wanted' = [wanted EXCEPT ![k] = c[k]]
    BY <1>1, <1>5
  <2>3. CASE k = "rest"
    BY <2>1, <2>2, <2>3 DEF Configs
  <2>4. CASE k = "rcon"
    BY <2>1, <2>2, <2>4 DEF Configs
  <2>5. CASE k = "token"
    BY <2>1, <2>2, <2>5 DEF Configs
  <2>6. CASE k = "password"
    BY <2>1, <2>2, <2>6 DEF Configs
  <2> QED BY <2>3, <2>4, <2>5, <2>6 DEF Keys
<1>7. SettingsTypeOK'
  BY <1>1, <1>2, <1>6, SettingsBounds DEF SettingsTypeOK
<1>8. WantedInv'
  <2> SUFFICES ASSUME losses' = {}
               PROVE  stage = "off" /\ wanted' = Parsed(settings')
    BY <1>1 DEF WantedInv, Parsed
  <2>1. stage = "off" /\ losses = {}
    BY <1>1
  <2>2. wanted = Parsed(settings)
    BY <1>2, <2>1 DEF WantedInv
  <2>3. \A j \in Keys \ {k} : Parsed(settings')[j] = Parsed(settings)[j]
    BY <1>2 DEF Parsed
  <2>4. /\ Parsed(settings) = [j \in Keys |-> Parsed(settings)[j]]
        /\ Parsed(settings') = [j \in Keys |-> Parsed(settings')[j]]
    BY DEF Parsed
  <2>5. wanted' = [Parsed(settings) EXCEPT ![k] = Parsed(settings')[k]]
    BY <1>1, <2>2
  <2> QED BY <2>1, <2>3, <2>4, <2>5
<1>9. SecretsInv'
  <2> SUFFICES ASSUME losses \cap {"unread", "failed"} = {}
               PROVE  \A j \in DOMAIN settings' \cap {"token", "password"} : settings'[j] \in Current
    BY <1>1, <1>2 DEF SecretsInv, Current
  <2> QED BY <1>2, <1>3 DEF SecretsInv
<1> QED BY <1>4, <1>7, <1>8, <1>9

LEMMA EndSettingsStep ==
  ASSUME SettingsInv, EndSettings
  PROVE  SettingsInv'
<1> USE DEF SettingsInv
<1>1. /\ stage' = "off" /\ config' = Default /\ UNCHANGED <<runs, edits, wanted, used>>
  BY DEF EndSettings
<1>2. Current' = Current /\ Default.token \in Current /\ Default.password \in Current
  BY <1>1 DEF Current, Default
<1>3. CASE stage = "write"
  <2>1. PICK n \in 0..Len(Order) : settings' = FirstLines(n)
    BY <1>3 DEF EndSettings
  <2>2. losses' = losses \cup {"crash"}
    BY <1>3 DEF EndSettings
  <2>3. /\ DOMAIN settings' \subseteq Keys /\ settings' # NoFile
        /\ \A k \in DOMAIN settings' : settings'[k] \in IF k \in {"rest", "rcon"}
                                               THEN {"1", "yes", "true", "false"} ELSE Secrets
        /\ \A k \in DOMAIN settings' \cap {"token", "password"} : settings'[k] = config[k]
    BY <2>1, FirstLinesFacts
  <2>4. SettingsTypeOK'
    BY <1>1, <2>2, <2>3, DefaultType DEF SettingsTypeOK
  <2>5. FileOK' /\ WantedInv'
    BY <2>2, <2>3 DEF FileOK, WantedInv
  <2>6. SecretsInv'
    BY <1>1, <1>2, <2>2, <2>3 DEF SecretsInv
  <2> QED BY <2>4, <2>5, <2>6
<1>4. CASE stage # "write"
  <2>1. UNCHANGED <<settings, losses>>
    BY <1>4 DEF EndSettings
  <2>2. SettingsTypeOK'
    BY <1>1, <2>1, DefaultType DEF SettingsTypeOK
  <2>3. FileOK' /\ WantedInv'
    BY <1>1, <1>4, <2>1 DEF FileOK, WantedInv, Parsed
  <2>4. SecretsInv'
    BY <1>1, <1>2, <2>1 DEF SecretsInv
  <2> QED BY <2>2, <2>3, <2>4
<1> QED BY <1>3, <1>4

LEMMA SettingsInvInit == SettingsInit => SettingsInv
<1> SUFFICES ASSUME SettingsInit PROVE SettingsInv
  OBVIOUS
<1>1. SettingsTypeOK
  BY DefaultType, SettingsBounds DEF SettingsInit, SettingsTypeOK
<1>2. FileOK /\ WantedInv
  BY DEF SettingsInit, FileOK, WantedInv
<1>3. SecretsInv
  BY DEF SettingsInit, SecretsInv, Current, Default
<1> QED BY <1>1, <1>2, <1>3 DEF SettingsInv

\* Starts, edits and ends, also in the middle of Save, keep the invariant of the
\* settings and their file.
THEOREM SettingsInvariant == DirSpec => []SettingsInv
<1>1. ASSUME SettingsInv, [DirNext]_dirVars
      PROVE  SettingsInv'
  <2>1. CASE UNCHANGED settingsVars
    BY <1>1, <2>1 DEF settingsVars, SettingsInv, SettingsTypeOK, FileOK, WantedInv, SecretsInv, Parsed,
                      Current
  <2>2. CASE SettingsNext
    BY <1>1, <2>2, LoadSettingsStep, GenerateSecretsStep, SaveSettingsFailsStep,
       SaveSettingsOpensStep, SaveSettingsClosesStep, EditStep DEF SettingsNext
  <2>3. CASE EndSettings
    BY <1>1, <2>3, EndSettingsStep
  <2> QED BY <1>1, <2>1, <2>2, <2>3 DEF DirNext, dirVars
<1>2. DirInit => SettingsInv
  BY SettingsInvInit DEF DirInit
<1> QED BY <1>1, <1>2, PTL DEF DirSpec

\* The listeners run with what was generated at the first start and edited since,
\* over any number of starts, unless one of the losses happens that the model names.
THEOREM SettingsAreKept == DirSpec => []SettingsKept
<1>1. SettingsInv => SettingsKept
  BY DEF SettingsInv, WantedInv, SettingsKept
<1> QED BY <1>1, SettingsInvariant, PTL

\* Secrets the listeners have run with are never replaced by others made up later,
\* however often the server dies in Save, unless the file could not be opened.
THEOREM SecretsAreGeneratedOnce == DirSpec => []NeverRegenerated
<1>1. SettingsInv => NeverRegenerated
  <2> SUFFICES ASSUME SettingsInv, losses \cap {"unread", "failed"} = {}
               PROVE  Cardinality(used) <= 1
    BY DEF NeverRegenerated
  <2>1. used \subseteq {runs}
    BY DEF SettingsInv, SecretsInv
  <2>2. used = {} \/ used = {runs}
    BY <2>1
  <2>3. Cardinality({runs}) = 1 /\ Cardinality({}) = 0
    BY FS_EmptySet, FS_Singleton, Zenon
  <2> QED BY <2>2, <2>3
<1> QED BY <1>1, SettingsInvariant, PTL

\* Both files, and the threads' lock and calls, keep their types; neither the list
\* nor what a crash leaves of its file names a player twice.
THEOREM DataDirTypes == DirSpec => []TypesOK
<1>1. BanInv /\ SettingsInv => TypesOK
  BY DEF BanInv, SettingsInv, TypesOK
<1> QED BY <1>1, BanListInvariant, SettingsInvariant, PTL
=============================================================================
