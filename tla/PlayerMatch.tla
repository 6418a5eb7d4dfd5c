----------------------------- MODULE PlayerMatch -----------------------------
(***************************************************************************)
(* Which player an identifier names, in a snapshot of the players as           *)
(* GetAllPlayers reads it: KickPlayer (src/src/engine/kick.cpp) goes from the  *)
(* most stable field to the least and wants a match to be the only one; Ban    *)
(* (bans.cpp), GiveItem (items.cpp) and RCON's player command                  *)
(* (commands_players.cpp) take the first player of whom any field matches,     *)
(* without regard to case.                                                     *)
(*                                                                             *)
(* A text is a model value.  Numbers are the texts that can be a player id and *)
(* SteamIds those that look like a SteamID64, which are too long for a number. *)
(***************************************************************************)
EXTENDS SequencesExt, FiniteSetsExt

CONSTANTS Texts, NoText,   \* texts, and the empty one
          Lower,           \* tolower, on both
          SteamIds, Numbers,
          NoController,    \* of a player without a pawn
          Sample           \* bound: the players of the lists the properties look at

ASSUME PlayerMatchAssumption ==
  /\ NoText \notin Texts /\ SteamIds \cup Numbers \subseteq Texts /\ SteamIds \cap Numbers = {}
  /\ \A s \in Texts \cup {NoText} : Lower[s] = NoText <=> s = NoText
  /\ \A p \in Sample : p.playerId \in Numbers /\ p.netId \notin Numbers

Fields == <<"netId", "guid", "character", "name">>

-----------------------------------------------------------------------------
(* KickPlayer.  Player ids are distinct, so the order of the list is no matter. *)

Found(p) == p.controller # NoController
ById(players, who) == {p \in players : p.playerId = who /\ Found(p)}
Hits(players, f, who) == {p \in players : p[f] # NoText /\ p[f] = who}

\* The fields at which the loop ends: several players match, or one that has a
\* controller.  A match without a controller is passed over, and the next field
\* tried.
Decisive(players, who) ==
  {i \in DOMAIN Fields : LET hits == Hits(players, Fields[i], who)
                         IN Cardinality(hits) > 1 \/ \E p \in hits : Found(p)}

\* Faulty variant: the least stable field is asked first.
KickTargetReversed(players, who) ==
  LET decisive == Decisive(players, who)
      hits == Hits(players, Fields[Max(decisive)], who)
  IN CASE ById(players, who) # {} -> ById(players, who)
       [] OTHER -> IF decisive # {} /\ Cardinality(hits) = 1 THEN hits ELSE {}

\* The player kicked, or none.
KickTarget(players, who) ==
  LET decisive == Decisive(players, who)
      hits == Hits(players, Fields[Min(decisive)], who)
  IN CASE ById(players, who) # {} -> ById(players, who)
       [] OTHER -> IF decisive # {} /\ Cardinality(hits) = 1 THEN hits ELSE {}

-----------------------------------------------------------------------------
(* The others.                                                             *)

Matches(p, who) ==
  p.playerId = who \/ \E i \in DOMAIN Fields : Lower[p[Fields[i]]] = Lower[who]

First(list, hits) == {list[i] : i \in {SelectInSeq(list, LAMBDA p : p \in hits)} \ {0}}
FirstMatch(list, who) == First(list, {p \in Range(list) : Matches(p, who)})

\* Faulty variant: Ban lists what it was given, not the net id it has found.
BanListsGiven(list, who) == IF who \in SteamIds \/ FirstMatch(list, who) # {} THEN who ELSE NoText

\* The net id Ban lists, or none: of somebody who is not there, or is there and
\* has none, a SteamID64 is taken as given.
BanLists(list, who) ==
  LET ids == {p.netId : p \in FirstMatch(list, who)} \ {NoText}
  IN CASE ids # {} -> CHOOSE id \in ids : TRUE
       [] OTHER -> IF who \in SteamIds THEN who ELSE NoText

GiveTarget(list, who) == {p \in FirstMatch(list, who) : Found(p)}

PlayerShown(list, who) ==
  First(list, {p \in Range(list) :
                 \E f \in {"name", "character", "netId"} : Lower[p[f]] = Lower[who]})

-----------------------------------------------------------------------------
(* What is asked of the look-ups, for all lists of up to two players of the sample. *)

Lists == {<<p>> : p \in Sample} \cup {l \in Sample \X Sample : l[1].playerId # l[2].playerId}

\* To the letter, as KickPlayer compares.
Named(p, who) == p.playerId = who \/ \E i \in DOMAIN Fields : p[Fields[i]] = who

\* Ban kicks by the net id it has listed.  Somebody else is hit, one whose name is
\* that net id, only if nobody with that net id has a controller yet.
BansKickListed ==
  \A list \in Lists, who \in Texts :
    LET id == BanLists(list, who)
    IN id # NoText => \A p \in KickTarget(Range(list), id) :
         p.netId = id \/ \A q \in Range(list) : q.netId = id => ~Found(q)

\* Where an identifier fits one player only, all the commands mean that player.
CommandsAgree ==
  \A list \in Lists, who \in Texts :
    LET named == {p \in Range(list) : Matches(p, who)}
    IN \A p \in named :
         named = {p} /\ Found(p) /\ Named(p, who) =>
           /\ KickTarget(Range(list), who) = {p} /\ GiveTarget(list, who) = {p}
           /\ p.netId # NoText => BanLists(list, who) = p.netId
           /\ PlayerShown(list, who) \subseteq {p}
=============================================================================
