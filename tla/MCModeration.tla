----------------------------- MODULE MCModeration -----------------------------
(* Moderation for TLC: one handler thread beside the game thread and the init  *)
(* thread, and one controller, whose address is that of one session after the  *)
(* other, so that a player may be back before a kick is over.  For the         *)
(* look-ups, players whose names may differ only in case, be another's number, *)
(* or be another's net id.                                                     *)
EXTENDS Moderation

CONSTANTS p1, p2,     \* net ids, which look like SteamIDs
          guid, ann, Ann, n1, n2

MCTexts == {p1, p2, guid, ann, Ann, n1, n2}
MCLower == [s \in MCTexts \cup {NoText} |-> IF s = Ann THEN ann ELSE s]
MCSteamIds == {p1, p2}
MCNumbers == {n1, n2}
MCName == [p \in Ids |-> NoText]
MCSample ==
  [playerId : {n1, n2}, netId : {NoText, p1, p2}, guid : {NoText, guid},
   character : {NoText, ann, p1}, name : {Ann, n1, p1}, controller : Controllers \cup {NoController}]
=============================================================================
