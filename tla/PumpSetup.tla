------------------------------ MODULE PumpSetup ------------------------------
(***************************************************************************)
(* src/src/engine/process_event.cpp: how the init thread installs the pump,    *)
(* with Initialize and then InstallExecPump, while the game thread may already *)
(* be running through what is installed: HookedProcessEvent, PumpThunk with    *)
(* DeriveProcessEvent and LearnFrameLayout, and the chat commands of SendThunk *)
(* (src/src/engine/chat.cpp), which call RunSync on the game thread.           *)
(*                                                                             *)
(* The globals are plain variables; each assignment another thread can see is  *)
(* a step.  What the symbol table, the object array, a stack or a frame of the *)
(* game hold is a choice.  A handler's kick, give or broadcast checks what is   *)
(* there, queues its closure, and has it run by the pump installed by then.     *)
(***************************************************************************)
CONSTANT Handlers      \* REST and RCON handler threads

VARIABLES
  init,          \* where the init thread is
  game,          \* where the game thread is
  g_ProcessEvent, g_Original, g_VTableIndex,   \* set, or not
  g_PumpOriginal, g_OriginalSend,
  slot,          \* the vtable slot holds HookedProcessEvent
  exec,          \* the pump function's thunk is PumpThunk
  send,          \* the chat function's thunk is SendThunk
  g_Ready,
  g_GameThreadKnown, g_DeriveAttempted, g_LayoutReady,
  job,           \* per handler: its closure in the queue, and what became of the last
  located        \* history: whether the thunk's first pass left ProcessEvent located

pointers == <<g_ProcessEvent, g_Original, g_VTableIndex, g_PumpOriginal, g_OriginalSend>>
hooks == <<slot, exec, send>>
learned == <<g_GameThreadKnown, g_DeriveAttempted, g_LayoutReady>>
vars == <<init, game, pointers, hooks, g_Ready, learned, job, located>>

InitPlaces == {"symbol", "vtable", "original", "slot", "ready",
               "exec", "thunk", "execReady", "chat", "send", "loop", "returned"}
GamePlaces == {"tick", "derive", "derived", "indexed", "learn", "drain", "selfwait", "crash", "skipped"}

TypeOK ==
  /\ init \in InitPlaces /\ game \in GamePlaces
  /\ g_ProcessEvent \in BOOLEAN /\ g_Original \in BOOLEAN
  /\ g_VTableIndex \in BOOLEAN /\ g_PumpOriginal \in BOOLEAN /\ g_OriginalSend \in BOOLEAN
  /\ slot \in BOOLEAN /\ exec \in BOOLEAN /\ send \in BOOLEAN /\ g_Ready \in BOOLEAN
  /\ g_GameThreadKnown \in BOOLEAN /\ g_DeriveAttempted \in BOOLEAN /\ g_LayoutReady \in BOOLEAN
  /\ ~(slot /\ exec)
  /\ job \in [Handlers -> {"none", "kick", "give", "broadcast", "invoked", "refused", "delivered", "undelivered"}]
  /\ located \in {"open", "yes", "no"}

\* InitThread, the engine being initialised.
Init ==
  /\ init = "symbol" /\ game = "tick"
  /\ g_ProcessEvent = FALSE /\ g_Original = FALSE /\ g_VTableIndex = FALSE
  /\ g_PumpOriginal = FALSE /\ g_OriginalSend = FALSE
  /\ slot = FALSE /\ exec = FALSE /\ send = FALSE
  /\ g_Ready = FALSE
  /\ g_GameThreadKnown = FALSE /\ g_DeriveAttempted = FALSE /\ g_LayoutReady = FALSE
  /\ job = [h \in Handlers |-> "none"]
  /\ located = "open"

HasProcessEvent == g_ProcessEvent /\ g_Original

-----------------------------------------------------------------------------
(* Initialize: ProcessEvent by its symbol, and a hook in a vtable.           *)

\* The symbol is found inside the image, or Initialize returns false.
FindSymbol ==
  /\ init = "symbol"
  /\ \/ g_ProcessEvent' = TRUE /\ init' = "vtable"
     \/ UNCHANGED g_ProcessEvent /\ init' = "exec"
  /\ UNCHANGED <<game, g_Original, g_VTableIndex, g_PumpOriginal, g_OriginalSend, hooks, g_Ready, learned, job, located>>

\* The sample object's vtable has it, or Initialize returns false and leaves
\* g_ProcessEvent behind.
FindSlot ==
  /\ init = "vtable"
  /\ \/ g_VTableIndex' = TRUE /\ init' = "original"
     \/ UNCHANGED g_VTableIndex /\ init' = "exec"
  /\ UNCHANGED <<game, g_ProcessEvent, g_Original, g_PumpOriginal, g_OriginalSend, hooks, g_Ready, learned, job, located>>

\* Faulty variant: the slot is overwritten before what it held is kept.
SetOriginalLate ==
  /\ init = "original"
  /\ slot' = TRUE
  /\ init' = "slot"
  /\ UNCHANGED <<game, pointers, exec, send, g_Ready, learned, job, located>>

SetOriginal ==
  /\ init = "original"
  /\ g_Original' = TRUE
  /\ init' = "slot"
  /\ UNCHANGED <<game, g_ProcessEvent, g_VTableIndex, g_PumpOriginal, g_OriginalSend, hooks, g_Ready, learned, job, located>>

\* The page is made writable and the slot overwritten, or Initialize returns false.
HookSlot ==
  /\ init = "slot"
  /\ \/ slot' = TRUE /\ init' = "ready"
     \/ UNCHANGED slot /\ init' = "exec"
  /\ UNCHANGED <<game, pointers, exec, send, g_Ready, learned, job, located>>

SetReady ==
  /\ init = "ready"
  /\ g_Ready' = TRUE
  /\ init' = "chat"
  /\ UNCHANGED <<game, pointers, hooks, learned, job, located>>

-----------------------------------------------------------------------------
(* InstallExecPump: the thunk of a native server RPC is replaced.            *)

\* A candidate is found and its thunk kept; with none InitThread returns.
FindPump ==
  /\ init = "exec"
  /\ \/ g_PumpOriginal' = TRUE /\ init' = "thunk"
     \/ UNCHANGED g_PumpOriginal /\ init' = "returned"
  /\ UNCHANGED <<game, g_ProcessEvent, g_Original, g_VTableIndex, g_OriginalSend, hooks, g_Ready, learned, job, located>>

HookThunk ==
  /\ init = "thunk"
  /\ exec' = TRUE
  /\ init' = "execReady"
  /\ UNCHANGED <<game, pointers, slot, send, g_Ready, learned, job, located>>

SetExecReady ==
  /\ init = "execReady"
  /\ g_Ready' = TRUE
  /\ init' = "chat"
  /\ UNCHANGED <<game, pointers, hooks, learned, job, located>>

\* DomChat::Initialize keeps the chat function's thunk, if the game has one.
FindSend ==
  /\ init = "chat"
  /\ \/ g_OriginalSend' = TRUE /\ init' = "send"
     \/ UNCHANGED g_OriginalSend /\ init' = "loop"
  /\ UNCHANGED <<game, g_ProcessEvent, g_Original, g_VTableIndex, g_PumpOriginal, hooks, g_Ready,
                 learned, job, located>>

HookSend ==
  /\ init = "send"
  /\ send' = TRUE
  /\ init' = "loop"
  /\ UNCHANGED <<game, pointers, slot, exec, g_Ready, learned, job, located>>

-----------------------------------------------------------------------------
(* The game thread.                                                        *)

\* What running its closure makes of a job: NativeCall::Invoke wants the frame
\* layout, SendToPlayer wants ProcessEvent.
Outcome(j) ==
  CASE j \in {"kick", "give"} -> IF g_LayoutReady THEN "invoked" ELSE "refused"
    [] j = "broadcast" -> IF HasProcessEvent THEN "delivered" ELSE "undelivered"
    [] OTHER -> j

Drain == job' = [h \in Handlers |-> Outcome(job[h])]

\* HookedProcessEvent: the queue, and the call through g_Original.
HookedProcessEvent ==
  /\ game = "tick" /\ slot
  /\ Drain
  /\ game' = IF g_Original THEN "tick" ELSE "crash"
  /\ UNCHANGED <<init, pointers, hooks, g_Ready, learned, located>>

\* Faulty variant: DeriveProcessEvent tries again on every pass until it succeeds.
DeriveAgain ==
  /\ game = "derive"
  /\ IF g_ProcessEvent
     THEN game' = "learn" /\ UNCHANGED <<g_ProcessEvent, g_DeriveAttempted>>
     ELSE /\ g_DeriveAttempted' = TRUE
          /\ \/ g_ProcessEvent' = TRUE /\ game' = "derived"
             \/ UNCHANGED g_ProcessEvent /\ game' = "learn"
  /\ UNCHANGED <<init, g_Original, g_VTableIndex, g_PumpOriginal, g_OriginalSend, hooks, g_Ready,
                 g_GameThreadKnown, g_LayoutReady, job, located>>

\* Faulty variant: the game thread is made known only once a job is drained.
PumpThunkForgets ==
  /\ game = "tick" /\ exec
  /\ game' = "derive"
  /\ UNCHANGED <<init, pointers, hooks, g_Ready, learned, job, located>>

\* PumpThunk makes the game thread known.
PumpThunk ==
  /\ game = "tick" /\ exec
  /\ g_GameThreadKnown' = TRUE
  /\ game' = "derive"
  /\ UNCHANGED <<init, pointers, hooks, g_Ready, g_DeriveAttempted, g_LayoutReady, job, located>>

\* DeriveProcessEvent, once and not if Initialize has set g_ProcessEvent: the
\* stack gives a candidate, or none.
DeriveProcessEvent ==
  /\ game = "derive"
  /\ IF g_ProcessEvent \/ g_DeriveAttempted
     THEN game' = "learn" /\ UNCHANGED <<g_ProcessEvent, g_DeriveAttempted>>
     ELSE /\ g_DeriveAttempted' = TRUE
          /\ \/ g_ProcessEvent' = TRUE /\ game' = "derived"
             \/ UNCHANGED g_ProcessEvent /\ game' = "learn"
  /\ UNCHANGED <<init, g_Original, g_VTableIndex, g_PumpOriginal, g_OriginalSend, hooks, g_Ready,
                 g_GameThreadKnown, g_LayoutReady, job, located>>

\* Its two other assignments, in order.
DeriveOriginal ==
  /\ game = "derived"
  /\ g_Original' = TRUE
  /\ game' = "indexed"
  /\ UNCHANGED <<init, g_ProcessEvent, g_VTableIndex, g_PumpOriginal, g_OriginalSend, hooks, g_Ready, learned, job, located>>

DeriveIndex ==
  /\ game = "indexed"
  /\ g_VTableIndex' = TRUE
  /\ game' = "learn"
  /\ UNCHANGED <<init, g_ProcessEvent, g_Original, g_PumpOriginal, g_OriginalSend, hooks, g_Ready, learned, job, located>>

\* Faulty variant: a frame that does not show the layout takes it back.
LearnFrameLayoutAgain ==
  /\ game = "learn"
  /\ g_LayoutReady' \in BOOLEAN
  /\ game' = "drain"
  /\ UNCHANGED <<init, pointers, hooks, g_Ready, g_GameThreadKnown, g_DeriveAttempted, job, located>>

\* LearnFrameLayout: this frame shows the layout, or does not.
LearnFrameLayout ==
  /\ game = "learn"
  /\ g_LayoutReady' \in {TRUE, g_LayoutReady}
  /\ game' = "drain"
  /\ UNCHANGED <<init, pointers, hooks, g_Ready, g_GameThreadKnown, g_DeriveAttempted, job, located>>

\* The queue is drained and the original thunk called, or passed over if it is null.
PumpReturns ==
  /\ game = "drain"
  /\ Drain
  /\ game' = IF g_PumpOriginal THEN "tick" ELSE "skipped"
  /\ located' = IF located # "open" THEN located ELSE IF HasProcessEvent THEN "yes" ELSE "no"
  /\ UNCHANGED <<init, pointers, hooks, g_Ready, learned>>

\* SendThunk, for a chat command: once the layout is known the command's kick is
\* a RunSync on the game thread.  It is inline if the thread is known to be the
\* game's; otherwise it waits for a queue that only this thread drains.
ChatCommand ==
  /\ game = "tick" /\ send /\ g_LayoutReady
  /\ game' = IF g_Ready /\ ~g_GameThreadKnown THEN "selfwait" ELSE "tick"
  /\ UNCHANGED <<init, pointers, hooks, g_Ready, learned, job, located>>

\* SendThunk, for a line that is not taken for a command: it goes on to the
\* original thunk, or nowhere if that is null.
ChatLine ==
  /\ game = "tick" /\ send
  /\ game' = IF g_OriginalSend THEN "tick" ELSE "skipped"
  /\ UNCHANGED <<init, pointers, hooks, g_Ready, learned, job, located>>

-----------------------------------------------------------------------------
(* The handlers.                                                           *)

Waits(h) == job[h] \in {"kick", "give", "broadcast"}

\* KickPlayer asks for the pump only.
Kick(h) ==
  /\ ~Waits(h) /\ g_Ready
  /\ job' = [job EXCEPT ![h] = "kick"]
  /\ UNCHANGED <<init, game, pointers, hooks, g_Ready, learned, located>>

\* GiveItem too, once it has found the item and the player.
Give(h) ==
  /\ ~Waits(h) /\ g_Ready
  /\ job' = [job EXCEPT ![h] = "give"]
  /\ UNCHANGED <<init, game, pointers, hooks, g_Ready, learned, located>>

\* Faulty variant: Broadcast asks for the pump only.
BroadcastUnchecked(h) ==
  /\ ~Waits(h) /\ g_Ready
  /\ job' = [job EXCEPT ![h] = "broadcast"]
  /\ UNCHANGED <<init, game, pointers, hooks, g_Ready, learned, located>>

\* Broadcast asks for the pump and for ProcessEvent.
Broadcast(h) ==
  /\ ~Waits(h) /\ g_Ready /\ HasProcessEvent
  /\ job' = [job EXCEPT ![h] = "broadcast"]
  /\ UNCHANGED <<init, game, pointers, hooks, g_Ready, learned, located>>

\* Ten seconds pass.
TimesOut(h) ==
  /\ Waits(h)
  /\ job' = [job EXCEPT ![h] = "none"]
  /\ UNCHANGED <<init, game, pointers, hooks, g_Ready, learned, located>>

InitStep ==
  \/ FindSymbol \/ FindSlot \/ SetOriginal \/ HookSlot \/ SetReady
  \/ FindPump \/ HookThunk \/ SetExecReady \/ FindSend \/ HookSend
ThunkStep ==
  \/ PumpThunk \/ DeriveProcessEvent \/ DeriveOriginal \/ DeriveIndex
  \/ LearnFrameLayout \/ PumpReturns

\* The game thread between its other work, and InitThread over or in its loop.
Rests ==
  /\ init \in {"loop", "returned"} /\ game = "tick"
  /\ UNCHANGED vars

Next ==
  \/ InitStep \/ HookedProcessEvent \/ ThunkStep \/ ChatCommand \/ ChatLine \/ Rests
  \/ \E h \in Handlers : Kick(h) \/ Give(h) \/ Broadcast(h) \/ TimesOut(h)

Spec == Init /\ [][Next]_vars

-----------------------------------------------------------------------------
(* Properties.                                                             *)

\* No call of the game goes through a pointer that is not there yet, or is swallowed
\* because of it: what a slot or a thunk held is kept before it is overwritten, and
\* the game may come at once.
NeverCallsNull == game \notin {"crash", "skipped"}

\* The game thread never waits for the queue that it alone drains: a chat command
\* is taken only when the layout is learned, which is after the thread is known.
NoSelfWait == game # "selfwait"

\* Broadcast's check holds until its closure runs: what was located stays.
BroadcastDelivers == \A h \in Handlers : job[h] # "undelivered"

\* A kick is only ever carried out by the exec pump: the vtable pump, which is
\* preferred to it, never learns a frame's layout.
KickNeedsThunk == (\E h \in Handlers : job[h] = "invoked") => exec

\* Broadcast's `which has not been located yet': whether ProcessEvent is located is
\* decided when the exec pump has run once.  A failure then is for good, be it that
\* the one attempt found no candidate or that an Initialize which failed half-way
\* had left g_ProcessEvent behind, so that there was no attempt.
LocatedOnce == located # "open" => (HasProcessEvent <=> located = "yes")

\* The inductive invariant.
Order ==
  /\ slot => g_Original /\ init \in {"ready", "chat", "send", "loop"}
  /\ exec => g_PumpOriginal /\ init \in {"execReady", "chat", "send", "loop"}
  /\ send \/ init = "send" => g_OriginalSend
  /\ game \in {"derive", "derived", "indexed", "learn", "drain"} => exec /\ g_GameThreadKnown
  /\ g_LayoutReady => exec /\ g_GameThreadKnown
  /\ init \in {"slot", "ready"} => g_Original
  /\ init \in {"thunk", "execReady"} => g_PumpOriginal
  /\ game \notin {"crash", "skipped", "selfwait"}
  /\ \A h \in Handlers :
       /\ job[h] = "broadcast" => HasProcessEvent
       /\ job[h] # "undelivered"
       /\ job[h] = "invoked" => exec
  /\ located # "open" => exec /\ (g_ProcessEvent \/ g_DeriveAttempted) /\ LocatedOnce
  /\ game \in {"derived", "indexed"} => located = "open" /\ g_ProcessEvent
  /\ game \in {"learn", "drain"} => g_ProcessEvent \/ g_DeriveAttempted
IndInv == TypeOK /\ Order
=============================================================================
