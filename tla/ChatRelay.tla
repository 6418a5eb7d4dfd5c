------------------------------ MODULE ChatRelay ------------------------------
(***************************************************************************)
(* SendThunk and HandleCommand of src/src/engine/chat.cpp: what becomes of the *)
(* lines the players write, on top of the pump they depend on.  A line is      *)
(* shown to the others by the game's own thunk, relayed to the listener that   *)
(* InitThread adds for Discord, or taken as a command and answered.  A line is *)
(* a text, begins with a slash, or begins with one of the five commands; it may *)
(* not be readable in the frame, or be empty; its sender may not be among the  *)
(* players that are read, or may be no admin.                                  *)
(***************************************************************************)
EXTENDS PumpSetup

VARIABLES
  listening,   \* g_Listeners holds the listener that posts to Discord
  line,        \* the last line and what became of it
  relays,      \* history: a line has been relayed
  takes        \* history: a command has been taken

chatVars == <<listening, line, relays, takes>>

Kinds == {"text", "slash", "command"}
Lines == [kind : Kinds, readable : BOOLEAN, known : BOOLEAN, shown : BOOLEAN, relayed : BOOLEAN,
          taken : BOOLEAN, answered : BOOLEAN]
NoLine == [kind |-> "text", readable |-> FALSE, known |-> FALSE, shown |-> FALSE,
           relayed |-> FALSE, taken |-> FALSE, answered |-> FALSE]

ChatTypeOK == listening \in BOOLEAN /\ line \in Lines /\ relays \in BOOLEAN /\ takes \in BOOLEAN

ChatInit ==
  /\ Init
  /\ listening = FALSE /\ line = NoLine /\ relays = FALSE /\ takes = FALSE

\* InitThread, with Discord enabled; without it the listener is never added.
AddListener ==
  /\ init = "loop" /\ ~listening
  /\ listening' = TRUE
  /\ UNCHANGED <<vars, line, relays, takes>>

\* The frame's layout is known, its locals can be read, and the body is not empty.
BodyRead(readable) == g_LayoutReady /\ readable

\* HandleCommand takes the five commands, of admins and others; IsAdmin decides
\* what they are answered, if SendToPlayer can.
HandleCommand(kind, readable, known) ==
  /\ BodyRead(readable) /\ known /\ kind = "command"
  /\ ChatCommand \/ (game = "tick" /\ send /\ UNCHANGED vars)
  /\ line' = [kind |-> kind, readable |-> readable, known |-> known, shown |-> FALSE,
              relayed |-> FALSE, taken |-> TRUE, answered |-> HasProcessEvent]
  /\ takes' = TRUE
  /\ UNCHANGED <<listening, relays>>

\* Any other line: delivered if it was read, and passed on.
PassOn(kind, readable, known) ==
  /\ ~(BodyRead(readable) /\ known /\ kind = "command")
  /\ ChatLine
  /\ line' = [kind |-> kind, readable |-> readable, known |-> known, shown |-> g_OriginalSend,
              relayed |-> BodyRead(readable) /\ listening, taken |-> FALSE, answered |-> FALSE]
  /\ relays' = (relays \/ line'.relayed)
  /\ UNCHANGED <<listening, takes>>

SendThunk ==
  \E kind \in Kinds, readable, known \in BOOLEAN :
    HandleCommand(kind, readable, known) \/ PassOn(kind, readable, known)

PumpStep ==
  \/ InitStep \/ HookedProcessEvent \/ ThunkStep \/ Rests
  \/ \E h \in Handlers : Kick(h) \/ Give(h) \/ Broadcast(h) \/ TimesOut(h)

ChatNext ==
  \/ PumpStep /\ UNCHANGED chatVars
  \/ AddListener \/ SendThunk

ChatSpec == ChatInit /\ [][ChatNext]_<<vars, chatVars>>

-----------------------------------------------------------------------------
(* Properties.                                                             *)

\* README: `every chat message is relayed', and a `command line itself is never
\* shown to other players'.  Neither holds before a frame has shown the layout,
\* nor ever with the vtable pump, nor of a line that SendThunk cannot read in its
\* frame; but once either has worked it goes on working, for every line that can
\* be read and, if it is a command, whose sender is among the players read.
ChatStays ==
  /\ relays /\ line.readable /\ ~line.taken => line.relayed
  /\ takes /\ line.readable /\ line.known /\ line.kind = "command" =>
       ~line.shown /\ ~line.relayed

\* The inductive invariant behind it: the last line was seen with less known than
\* there is now, and whatever has worked needed only what stays.
ChatInv ==
  /\ ChatTypeOK
  /\ relays => listening /\ g_LayoutReady
  /\ takes => g_LayoutReady
  /\ ChatStays
=============================================================================
