--------------------------- MODULE PumpSetupProofs ---------------------------
(***************************************************************************)
(* PumpSetup's safety for any set of handler threads.  What matters is the     *)
(* order of the assignments, which Order states: a pointer is kept before the  *)
(* hook that uses it is stored, and the game thread is known before the layout *)
(* is.  The relay of chat lines takes no step that the pump's specification     *)
(* does not have, so all this holds with it; and what has worked once for a     *)
(* line works for every later one that can be read.                             *)
(***************************************************************************)
EXTENDS ChatRelay, TLAPS

\* Initially nothing is installed and nobody has asked for anything.
LEMMA OrderInit == Init => IndInv
  BY DEF Init, IndInv, TypeOK, Order, InitPlaces, GamePlaces, LocatedOnce, HasProcessEvent

\* The init thread keeps the order of its assignments, whatever the game thread
\* is in the middle of.
LEMMA InitStepOrder == IndInv /\ InitStep => IndInv'
<1> SUFFICES ASSUME IndInv, InitStep PROVE IndInv'
  OBVIOUS
<1> USE DEF IndInv, TypeOK, Order, InitPlaces, GamePlaces, HasProcessEvent,
            LocatedOnce, pointers, hooks, learned
<1>1. CASE FindSymbol
  BY <1>1, ZenonT(30) DEF FindSymbol
<1>2. CASE FindSlot
  BY <1>2, ZenonT(30) DEF FindSlot
<1>3. CASE SetOriginal
  BY <1>3 DEF SetOriginal
<1>4. CASE HookSlot
  <2>1. CASE slot' = TRUE /\ init' = "ready"
    BY <1>4, <2>1 DEF HookSlot
  <2>2. CASE slot' = slot /\ init' = "exec"
    BY <1>4, <2>2 DEF HookSlot
  <2> QED
    BY <1>4, <2>1, <2>2 DEF HookSlot
<1>5. CASE SetReady
  BY <1>5 DEF SetReady
<1>6. CASE FindPump
  BY <1>6, ZenonT(30) DEF FindPump
<1>7. CASE HookThunk
  BY <1>7 DEF HookThunk
<1>8. CASE SetExecReady
  BY <1>8 DEF SetExecReady
<1>9. CASE FindSend
  <2>1. CASE g_OriginalSend' = TRUE /\ init' = "send"
    BY <1>9, <2>1 DEF FindSend
  <2>2. CASE g_OriginalSend' = g_OriginalSend /\ init' = "loop"
    BY <1>9, <2>2 DEF FindSend
  <2> QED
    BY <1>9, <2>1, <2>2 DEF FindSend
<1>10. CASE HookSend
  BY <1>10 DEF HookSend
<1> QED
  BY <1>1, <1>2, <1>3, <1>4, <1>5, <1>6, <1>7, <1>8, <1>9, <1>10 DEF InitStep

\* The game thread, in a hook or a chat command, keeps it too.
LEMMA GameStepOrder == IndInv /\ (HookedProcessEvent \/ ThunkStep \/ ChatCommand \/ ChatLine) => IndInv'
<1> SUFFICES ASSUME IndInv, HookedProcessEvent \/ ThunkStep \/ ChatCommand \/ ChatLine PROVE IndInv'
  OBVIOUS
<1> USE DEF IndInv, TypeOK, Order, InitPlaces, GamePlaces, HasProcessEvent,
            LocatedOnce, pointers, hooks, learned
<1>1. CASE HookedProcessEvent
  BY <1>1 DEF HookedProcessEvent, Drain, Outcome
<1>2. CASE PumpThunk
  BY <1>2 DEF PumpThunk
<1>3. CASE DeriveProcessEvent
  <2>1. CASE g_ProcessEvent \/ g_DeriveAttempted
    BY <1>3, <2>1 DEF DeriveProcessEvent
  <2>2. CASE ~(g_ProcessEvent \/ g_DeriveAttempted) /\ game' = "derived"
    BY <1>3, <2>2 DEF DeriveProcessEvent
  <2>3. CASE ~(g_ProcessEvent \/ g_DeriveAttempted) /\ game' = "learn"
    BY <1>3, <2>3 DEF DeriveProcessEvent
  <2> QED
    BY <1>3, <2>1, <2>2, <2>3 DEF DeriveProcessEvent
<1>4. CASE DeriveOriginal
  BY <1>4 DEF DeriveOriginal
<1>5. CASE DeriveIndex
  BY <1>5 DEF DeriveIndex
<1>6. CASE LearnFrameLayout
  <2>1. TypeOK'
    BY <1>6, ZenonT(30) DEF LearnFrameLayout
  <2> QED
    BY <1>6, <2>1 DEF LearnFrameLayout
<1>7. CASE PumpReturns
  BY <1>7 DEF PumpReturns, Drain, Outcome
<1>8. CASE ChatCommand
  BY <1>8 DEF ChatCommand
<1>9. CASE ChatLine
  BY <1>9 DEF ChatLine
<1> QED
  BY <1>1, <1>2, <1>3, <1>4, <1>5, <1>6, <1>7, <1>8, <1>9 DEF ThunkStep

\* A handler asks only for what is there, and it stays there.
LEMMA HandlerStepOrder ==
  ASSUME NEW h \in Handlers, IndInv, Kick(h) \/ Give(h) \/ Broadcast(h) \/ TimesOut(h)
  PROVE  IndInv'
<1> USE DEF IndInv, TypeOK, Order, InitPlaces, GamePlaces, HasProcessEvent,
            LocatedOnce, pointers, hooks, learned
<1>1. CASE Kick(h)
  BY <1>1 DEF Kick
<1>2. CASE Broadcast(h)
  BY <1>2 DEF Broadcast
<1>3. CASE TimesOut(h)
  BY <1>3 DEF TimesOut
<1>4. CASE Give(h)
  BY <1>4 DEF Give
<1> QED
  BY <1>1, <1>2, <1>3, <1>4

\* The order holds throughout.
THEOREM OrderInvariant == Spec => []IndInv
<1>1. IndInv /\ [Next]_vars => IndInv'
  <2> SUFFICES ASSUME IndInv, [Next]_vars PROVE IndInv'
    OBVIOUS
  <2>1. CASE UNCHANGED vars
    BY <2>1 DEF IndInv, TypeOK, Order, LocatedOnce, HasProcessEvent, vars, pointers, hooks, learned
  <2>2. CASE Rests
    BY <2>2 DEF Rests, IndInv, TypeOK, Order, LocatedOnce, HasProcessEvent, vars, pointers, hooks, learned
  <2>3. CASE \E h \in Handlers : Kick(h) \/ Give(h) \/ Broadcast(h) \/ TimesOut(h)
    BY <2>3, HandlerStepOrder
  <2> QED
    BY <2>1, <2>2, <2>3, InitStepOrder, GameStepOrder DEF Next
<1> QED
  BY <1>1, OrderInit, PTL DEF Spec

\* No hook of the pump calls through a null pointer.
THEOREM HooksAreSafe == Spec => []NeverCallsNull
<1>1. IndInv => NeverCallsNull
  BY DEF IndInv, Order, NeverCallsNull
<1> QED
  BY <1>1, OrderInvariant, PTL

\* The game thread never waits for itself.
THEOREM GameNeverSelfWaits == Spec => []NoSelfWait
<1>1. IndInv => NoSelfWait
  BY DEF IndInv, Order, NoSelfWait
<1> QED
  BY <1>1, OrderInvariant, PTL

\* A broadcast that was accepted finds ProcessEvent when it runs.
THEOREM BroadcastsDeliver == Spec => []BroadcastDelivers
<1>1. IndInv => BroadcastDelivers
  BY DEF IndInv, Order, BroadcastDelivers
<1> QED
  BY <1>1, OrderInvariant, PTL

\* Whether ProcessEvent is located is settled by the thunk's first pass.
THEOREM LocationIsFinal == Spec => []LocatedOnce
<1>1. IndInv => LocatedOnce
  BY DEF IndInv, Order, LocatedOnce
<1> QED
  BY <1>1, OrderInvariant, PTL

\* Only the exec pump carries out kicks.
THEOREM KicksNeedThunk == Spec => []KickNeedsThunk
<1>1. IndInv => KickNeedsThunk
  BY DEF IndInv, Order, KickNeedsThunk
<1> QED
  BY <1>1, OrderInvariant, PTL

-----------------------------------------------------------------------------
(* ChatRelay.                                                              *)

\* Every step of SendThunk is one of the pump's chat steps, or changes nothing of it.
THEOREM ChatImplementsPump == ChatSpec => Spec
<1>1. ChatInit => Init
  BY DEF ChatInit
<1>2. [ChatNext]_<<vars, chatVars>> => [Next]_vars
  <2> SUFFICES ASSUME [ChatNext]_<<vars, chatVars>> PROVE [Next]_vars
    OBVIOUS
  <2>1. CASE PumpStep
    BY <2>1 DEF PumpStep, Next
  <2>2. CASE AddListener
    BY <2>2 DEF AddListener
  <2>3. CASE SendThunk
    BY <2>3 DEF SendThunk, HandleCommand, PassOn, Next
  <2>4. CASE UNCHANGED <<vars, chatVars>>
    BY <2>4
  <2> QED
    BY <2>1, <2>2, <2>3, <2>4 DEF ChatNext
<1> QED
  BY <1>1, <1>2, PTL DEF ChatSpec, Spec

\* A layout that has been learned is not forgotten.
LEMMA LayoutStays == TypeOK /\ [Next]_vars => (g_LayoutReady => g_LayoutReady')
<1> SUFFICES ASSUME TypeOK, [Next]_vars, g_LayoutReady PROVE g_LayoutReady'
  OBVIOUS
<1> USE DEF TypeOK, learned
<1>1. CASE UNCHANGED vars
  BY <1>1 DEF vars
<1>2. CASE InitStep
  BY <1>2 DEF InitStep, FindSymbol, FindSlot, SetOriginal, HookSlot, SetReady, FindPump,
              HookThunk, SetExecReady, FindSend, HookSend
<1>3. CASE ThunkStep
  BY <1>3 DEF ThunkStep, PumpThunk, DeriveProcessEvent, DeriveOriginal, DeriveIndex,
              LearnFrameLayout, PumpReturns
<1>4. CASE HookedProcessEvent \/ ChatCommand \/ ChatLine \/ Rests
  BY <1>4 DEF HookedProcessEvent, ChatCommand, ChatLine, Rests, vars
<1>5. CASE \E h \in Handlers : Kick(h) \/ Give(h) \/ Broadcast(h) \/ TimesOut(h)
  BY <1>5 DEF Kick, Give, Broadcast, TimesOut
<1> QED
  BY <1>1, <1>2, <1>3, <1>4, <1>5 DEF Next

\* Relaying, and hiding commands, go on once they have worked.
THEOREM ChatGoesOn == ChatSpec => []ChatInv
<1>1. ChatInit => ChatInv
  <2>1. NoLine \in Lines
    BY DEF NoLine, Lines, Kinds
  <2> QED
    BY <2>1 DEF ChatInit, ChatInv, ChatTypeOK, ChatStays
<1>2. ChatInv /\ TypeOK /\ [Next]_vars /\ [ChatNext]_<<vars, chatVars>> => ChatInv'
  <2> SUFFICES ASSUME ChatInv, TypeOK, [Next]_vars, [ChatNext]_<<vars, chatVars>>
               PROVE  ChatInv'
    OBVIOUS
  <2>1. g_LayoutReady => g_LayoutReady'
    BY LayoutStays
  <2> USE DEF ChatInv, ChatTypeOK, ChatStays, Lines, Kinds
  <2>2. CASE UNCHANGED chatVars
    BY <2>1, <2>2 DEF chatVars
  <2>3. CASE AddListener
    BY <2>1, <2>3 DEF AddListener
  <2>4. ASSUME NEW kind \in Kinds, NEW readable \in BOOLEAN, NEW known \in BOOLEAN,
               HandleCommand(kind, readable, known)
        PROVE  ChatInv'
    BY <2>1, <2>4 DEF HandleCommand, BodyRead, HasProcessEvent, TypeOK
  <2>5. ASSUME NEW kind \in Kinds, NEW readable \in BOOLEAN, NEW known \in BOOLEAN,
               PassOn(kind, readable, known)
        PROVE  ChatInv'
    BY <2>1, <2>5 DEF PassOn, BodyRead, TypeOK
  <2> QED
    BY <2>2, <2>3, <2>4, <2>5 DEF ChatNext, SendThunk, chatVars
<1>3. ChatSpec => [][Next]_vars /\ []TypeOK
  <2>1. IndInv => TypeOK
    BY DEF IndInv
  <2> QED
    BY <2>1, ChatImplementsPump, OrderInvariant, PTL DEF Spec
<1> QED
  BY <1>1, <1>2, <1>3, PTL DEF ChatSpec

\* README's `every chat message is relayed' and `never shown to other players', once
\* SendThunk has relayed, or hidden, a line, and of lines it can read; a command's
\* sender must be among the players read.
COROLLARY ChatKeepsWorking == ChatSpec => []ChatStays
<1>1. ChatInv => ChatStays
  BY DEF ChatInv
<1> QED
  BY <1>1, ChatGoesOn, PTL
=============================================================================
