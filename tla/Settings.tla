------------------------------ MODULE Settings ------------------------------
(***************************************************************************)
(* src/src/config/config.h: settings.ini over restarts.  Every start reads it  *)
(* (Load), makes up the two secrets if it cannot be opened (GenerateSecrets),  *)
(* and then rewrites it in place (Save), all before the listeners start        *)
(* (InitThread and StartListeners of src/src/rsdwapi.cpp).  The administrator  *)
(* edits the file between starts.                                              *)
(*                                                                             *)
(* Of the settings the four are kept that decide who may use the listeners.    *)
(* A secret is a number: 0 is the empty one, n that of the n-th call of        *)
(* GenerateSecrets, and Own what the administrator wrote.                      *)
(***************************************************************************)
EXTENDS Naturals, Sequences, FiniteSets

CONSTANTS MaxRuns,    \* bound: how often GenerateSecrets is called
          MaxEdits    \* bound: how often the administrator edits the file

ASSUME SettingsBounds == MaxRuns \in Nat /\ MaxEdits \in Nat

VARIABLES
  settings,  \* the lines of settings.ini, by key
  config,    \* g_Config
  stage,     \* how far InitThread is with it
  runs,      \* calls of GenerateSecrets
  edits,     \* edits of the administrator
  wanted,    \* history: the settings as generated and edited
  used,      \* history: generated secrets the listeners were started with
  losses     \* history: the ways in which the file may have lost settings

settingsVars == <<settings, config, stage, runs, edits, wanted, used, losses>>

Empty == 0
Own == MaxRuns + 1
Secrets == 0..Own

Order == <<"rest", "token", "rcon", "password">>        \* in which Save writes them
Keys == {"rest", "token", "rcon", "password"}
Configs == [rest : BOOLEAN, token : Secrets, rcon : BOOLEAN, password : Secrets]
Default == [rest |-> TRUE, token |-> Empty, rcon |-> FALSE, password |-> Empty]

\* What a line can say, what Apply makes of it, and what Save writes.
Texts(k) == IF k \in {"rest", "rcon"} THEN {"1", "yes"} ELSE {Empty, Own}
ParseBool(text) == text \in {"true", "1"}
Apply(k, text) == IF k \in {"rest", "rcon"} THEN ParseBool(text) ELSE text
Bool(b) == IF b THEN "true" ELSE "false"
Written(k) == IF k \in {"rest", "rcon"} THEN Bool(config[k]) ELSE config[k]

NoFile == [missing |-> TRUE]      \* settings.ini is not there: different from every file

Parsed(file) == [k \in Keys |-> IF k \in DOMAIN file THEN Apply(k, file[k]) ELSE Default[k]]
FirstLines(n) == [k \in {Order[i] : i \in 1..n} |-> Written(k)]
NoLines == FirstLines(0)

SettingsInit ==
  /\ settings = NoFile /\ config = Default /\ stage = "off"
  /\ runs = 0 /\ edits = 0
  /\ wanted = Default /\ used = {} /\ losses = {}

\* A listener is enabled; without one InitThread returns.
AnyEnabled == config.rest \/ config.rcon
\* A listener that may start: RCON does not with an empty password.
Listening == config.rest \/ (config.rcon /\ config.password # Empty)

-----------------------------------------------------------------------------
(* A start: Load or GenerateSecrets, then Save, then StartListeners.        *)

\* Faulty variant: an empty token is taken for a missing one.
LoadSettingsAnew ==
  /\ stage = "off" /\ settings # NoFile
  /\ config' = [Parsed(settings) EXCEPT !.token = IF @ = Empty THEN Own ELSE @]
  /\ stage' = "save"
  /\ UNCHANGED <<settings, runs, edits, wanted, used, losses>>

\* Load reads the file.  A setting without a line has its default.
LoadSettings ==
  /\ stage = "off" /\ settings # NoFile
  /\ config' = Parsed(settings)
  /\ stage' = "save"
  /\ UNCHANGED <<settings, runs, edits, wanted, used, losses>>

WithSecrets(t, p) ==
  [rest |-> Default.rest, token |-> t, rcon |-> Default.rcon, password |-> p]

\* The fields GenerateSecrets leaves, where each call of GenerateSecureToken may
\* return "" for want of random bytes.
Generated == {WithSecrets(t, p) : t, p \in {Empty, runs + 1}}

FirstRun(next) ==
  /\ stage = "off" /\ runs < MaxRuns
  /\ runs' = runs + 1
  /\ config' \in Generated
  /\ wanted' = IF settings = NoFile THEN WithSecrets(runs + 1, runs + 1) ELSE wanted
  /\ losses' = losses \cup (IF settings = NoFile THEN {} ELSE {"unread"})
                      \cup (IF Empty \in {config'.token, config'.password} THEN {"random"} ELSE {})
  /\ stage' = next
  /\ UNCHANGED <<settings, edits>>

\* Faulty variant: the file is rewritten only if it was there.
GenerateSecretsUnsaved ==
  /\ FirstRun("up")
  /\ used' = used \cup ({config'.token, config'.password} \cap 1..MaxRuns)

\* Load cannot open the file: there is none, or it is there and cannot be read.
GenerateSecrets ==
  /\ FirstRun("save")
  /\ UNCHANGED used

\* StartListeners, with the configuration as it is.
StartListeners ==
  /\ stage' = "up"
  /\ used' = used \cup ({config.token, config.password} \cap 1..MaxRuns)

\* Save cannot open the file, and says nothing.
SaveSettingsFails ==
  /\ stage = "save"
  /\ StartListeners
  /\ losses' = IF settings = NoFile THEN losses \cup {"failed"} ELSE losses
  /\ UNCHANGED <<settings, config, runs, edits, wanted>>

\* Opening the file truncates it.
SaveSettingsOpens ==
  /\ stage = "save"
  /\ settings' = NoLines
  /\ stage' = "write"
  /\ UNCHANGED <<config, runs, edits, wanted, used, losses>>

SaveSettingsCloses ==
  /\ stage = "write"
  /\ settings' = FirstLines(Len(Order))
  /\ StartListeners
  /\ UNCHANGED <<config, runs, edits, wanted, losses>>

\* The process ends.  Of a file being rewritten the first lines are there.
EndSettings ==
  /\ stage # "off"
  /\ settings = NoFile => runs < MaxRuns             \* the bound leaves it a next start
  /\ stage' = "off"
  /\ config' = Default
  /\ IF stage = "write"
     THEN /\ settings' \in {FirstLines(n) : n \in 0..Len(Order)}
          /\ losses' = losses \cup {"crash"}
     ELSE UNCHANGED <<settings, losses>>
  /\ UNCHANGED <<runs, edits, wanted, used>>

\* The administrator changes a line or deletes it.  An edit between Load and Save
\* is overwritten; one of a running server waits for the next start, as if made
\* while it is down.
Edit(k) ==
  /\ stage \in {"off", "save"} /\ settings # NoFile /\ edits < MaxEdits
  /\ edits' = edits + 1
  /\ \/ \E text \in Texts(k) :
          settings' = [j \in DOMAIN settings \cup {k} |-> IF j = k THEN text ELSE settings[j]]
     \/ settings' = [j \in DOMAIN settings \ {k} |-> settings[j]]
  /\ wanted' = [wanted EXCEPT ![k] = Parsed(settings')[k]]
  /\ losses' = IF stage = "save" THEN losses \cup {"raced"} ELSE losses
  /\ UNCHANGED <<config, stage, runs, used>>

SettingsNext ==
  \/ LoadSettings \/ GenerateSecrets
  \/ SaveSettingsFails \/ SaveSettingsOpens \/ SaveSettingsCloses
  \/ \E k \in Keys : Edit(k)

-----------------------------------------------------------------------------
(* Properties.                                                             *)

SettingsTypeOK ==
  /\ stage \in {"off", "save", "write", "up"}
  /\ config \in Configs /\ wanted \in Configs
  /\ settings = NoFile \/ DOMAIN settings \subseteq Keys
  /\ runs \in 0..MaxRuns /\ edits \in 0..MaxEdits
  /\ used \subseteq 1..MaxRuns
  /\ losses \subseteq {"unread", "random", "failed", "raced", "crash"}

\* Save's comments in settings.ini: `an empty value is kept as written, not
\* regenerated'.  Over any number of starts the listeners run with the secrets of
\* the first one and what the administrator changed since, unless the file could
\* not be read or first written, a crash met Save, an edit raced with a start, or
\* there were no random bytes.  So REST is open only if it was meant to be.
SettingsKept == stage = "up" /\ losses = {} => config = wanted

\* README: the secrets are `generated on that first run and never regenerated
\* afterwards'.  Secrets that were in use are not replaced by others made up
\* later, also after a crash in Save, unless the file could not be opened.
NeverRegenerated == losses \cap {"unread", "failed"} = {} => Cardinality(used) <= 1

-----------------------------------------------------------------------------
(* The inductive invariant of the proofs, in parts.                         *)

\* A file has lines of its settings.
FileOK ==
  settings # NoFile =>
    \A k \in DOMAIN settings :
      settings[k] \in IF k \in {"rest", "rcon"} THEN {"1", "yes", "true", "false"} ELSE Secrets

\* As long as nothing may have been lost, the configuration is the wanted one from
\* Load on, and so is the file, except while Save is rewriting it.
WantedInv ==
  losses = {} =>
    /\ stage # "off" => config = wanted
    /\ stage # "write" /\ settings # NoFile => Parsed(settings) = wanted

\* Unless the file could not be opened, the secrets made up in the last call of
\* GenerateSecrets are the only ones there are, and none is used before there is
\* a file that has them.
Current == {Empty, runs, Own}
SecretsInv ==
  losses \cap {"unread", "failed"} = {} =>
    /\ config.token \in Current /\ config.password \in Current
    /\ settings # NoFile => \A k \in DOMAIN settings \cap {"token", "password"} : settings[k] \in Current
    /\ used \subseteq IF settings = NoFile THEN {} ELSE {runs}

SettingsInv == SettingsTypeOK /\ FileOK /\ WantedInv /\ SecretsInv
=============================================================================
