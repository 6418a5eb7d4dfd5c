--------------------------- MODULE GameThreadProofs ---------------------------
(***************************************************************************)
(* Proofs about GameThread, for any set of threads, any stack layout and    *)
(* any bounds.                                                              *)
(***************************************************************************)
EXTENDS GameThread, SequenceLemmas, TLAPS

USE SlotsAssumption, NoneAssumption, MaxCallsAssumption, MaxNestAssumption

\* Every step keeps the variables in their types.
LEMMA TypeStep ==
  ASSUME TypeOK, [Next]_vars
  PROVE  TypeOK'
<1> USE DEF TypeOK, Frames
<1>1. CASE BecomeReady
  BY <1>1 DEF BecomeReady, callerVars
<1>2. ASSUME NEW t \in Threads, RunSyncNotReady(t)
      PROVE  TypeOK'
  <2>1. answer' \in [Threads -> [Calls -> {"none", "true", "false"}]]
    BY <1>2 DEF RunSyncNotReady
  <2>2. calls' \in [Threads -> 0..MaxCalls]
    BY <1>2 DEF RunSyncNotReady, CanCall
  <2> QED BY <1>2, <2>1, <2>2 DEF RunSyncNotReady
<1>3. ASSUME NEW t \in Threads, RunSyncPush(t)
      PROVE  TypeOK'
  BY <1>3 DEF RunSyncPush, CanCall, Jobs
<1>4. ASSUME NEW t \in Threads, WakeDone(t)
      PROVE  TypeOK'
  BY <1>4 DEF WakeDone, Return
<1>5. ASSUME NEW t \in Threads, Timeout(t)
      PROVE  TypeOK'
  <2>1. RemoveFirst(queue, <<t, slot[t]>>) \in Seq(Jobs)
    BY RemoveFirstType
  <2> QED BY <1>5, <2>1 DEF Timeout, Return
<1>6. CASE PumpIdle \/ Dead \/ UNCHANGED vars
  BY <1>6 DEF PumpIdle, Dead, vars
<1>7. CASE EnterDrain
  BY <1>7 DEF EnterDrain, callerVars
<1>8. CASE DrainPop
  BY <1>8 DEF DrainPop, TopAt, SetTop, callerVars
<1>9. CASE DrainReturn
  BY <1>9, FrontFacts DEF DrainReturn, TopAt, callerVars
<1>10. CASE StartWork
  <2> DEFINE j == Top.job
             c == mem[j].call
  <2>1. stack # <<>> /\ Top \in Frames /\ Top.at = "popped"
    BY <1>10 DEF StartWork, TopAt, Top
  <2>2. j \in Jobs
    BY <2>1
  <2>3. [runs EXCEPT ![j[1]][c] = @ + 1] \in [Threads -> [Calls -> Nat]]
    <3> DEFINE u == j[1]
               r == runs[u]
    <3>1. u \in Threads /\ r \in [Calls -> Nat]
      BY <2>2 DEF Jobs
    <3> HIDE DEF u, c, r
    <3>2. [r EXCEPT ![c] = @ + 1] \in [Calls -> Nat]
      <4>1. CASE c \in Calls
        BY <3>1, <4>1
      <4>2. CASE c \notin Calls
        <5>1. \A x \in Calls : [r EXCEPT ![c] = @ + 1][x] = r[x]
          BY <3>1, <4>2
        <5>2. DOMAIN [r EXCEPT ![c] = @ + 1] = Calls
          BY <3>1
        <5> QED BY <3>1, <5>1, <5>2
      <4> QED BY <4>1, <4>2
    <3>3. [runs EXCEPT ![u] = [r EXCEPT ![c] = @ + 1]] \in [Threads -> [Calls -> Nat]]
      BY <3>1, <3>2
    <3> QED BY <3>3 DEF u, r
  <2>4. [stack EXCEPT ![Len(stack)] = [at |-> "running", job |-> j]] \in Seq(Frames)
    BY <2>1, <2>2
  <2> QED BY <1>10, <2>3, <2>4 DEF StartWork, SetTop, callerVars
<1>11. CASE MarkDone
  <2> DEFINE j == Top.job
  <2>1. stack # <<>> /\ Top \in Frames /\ Top.at = "running"
    BY <1>11 DEF MarkDone, TopAt, Top
  <2>2. j \in Jobs
    BY <2>1
  <2>3. [mem EXCEPT ![j].done = TRUE] \in [Jobs -> [call : 0..MaxCalls, done : BOOLEAN]]
    BY <2>2
  <2>4. [stack EXCEPT ![Len(stack)] = [at |-> "drain", job |-> None]] \in Seq(Frames)
    BY <2>1
  <2> QED BY <1>11, <2>3, <2>4 DEF MarkDone, SetTop, callerVars
<1> QED BY <1>1, <1>2, <1>3, <1>4, <1>5, <1>6, <1>7, <1>8, <1>9, <1>10, <1>11
        DEF Next, CallerStep, GameStep

-----------------------------------------------------------------------------
(* What each change of the queue or of the stack does to the pointers to a   *)
(* Job.                                                                      *)

\* RunSync's push_back.
LEMMA PointersPush ==
  ASSUME TypeOK, NEW e \in Jobs, NEW j \in Jobs,
         queue' = Append(queue, e), stack' = stack
  PROVE  /\ Queued(j)' <=> Queued(j) \/ j = e
         /\ Held(j)' <=> Held(j)
         /\ \A a : HeldAt(j, a)' <=> HeldAt(j, a)
         /\ Single(j) /\ (j = e => ~Queued(j) /\ ~Held(j)) => Single(j)'
<1>1. queue \in Seq(Jobs)
  BY DEF TypeOK
<1>2. /\ Len(queue') = Len(queue) + 1 /\ DOMAIN queue' = 1..Len(queue) + 1
      /\ DOMAIN queue = 1..Len(queue) /\ Len(queue) \in Nat
      /\ \A i \in 1..Len(queue) : queue'[i] = queue[i]
      /\ queue'[Len(queue) + 1] = e
  BY <1>1
<1>3. Queued(j)' <=> Queued(j) \/ j = e
  BY <1>2 DEF Queued, Contains
<1>4. /\ Held(j)' <=> Held(j)
      /\ \A a : HeldAt(j, a)' <=> HeldAt(j, a)
  BY DEF Held, HeldAt, Holds
<1>5. Single(j) /\ (j = e => ~Queued(j) /\ ~Held(j)) => Single(j)'
  BY <1>2, <1>3, <1>4 DEF Single, Queued, Contains
<1> QED BY <1>3, <1>4, <1>5

\* The erase of a timeout.
LEMMA PointersErase ==
  ASSUME TypeOK, NEW e \in Jobs, NEW j \in Jobs,
         queue' = RemoveFirst(queue, e), stack' = stack
  PROVE  /\ j # e => (Queued(j)' <=> Queued(j))
         /\ Single(e) => ~Queued(e)'
         /\ Held(j)' <=> Held(j)
         /\ \A a : HeldAt(j, a)' <=> HeldAt(j, a)
         /\ Single(j) => Single(j)'
<1>1. queue \in Seq(Jobs)
  BY DEF TypeOK
<1>2. /\ Held(j)' <=> Held(j)
      /\ \A a : HeldAt(j, a)' <=> HeldAt(j, a)
  BY DEF Held, HeldAt, Holds
<1>3. CASE Queued(e)
  <2>1. PICK p \in 1..Len(queue) : queue[p] = e /\ queue' = RemoveAt(queue, p)
    BY <1>1, <1>3, RemoveFirstFacts DEF Queued, Contains
  <2>2. /\ queue' \in Seq(Jobs) /\ Len(queue') = Len(queue) - 1
        /\ \A k \in 1..Len(queue) - 1 :
             queue'[k] = IF k < p THEN queue[k] ELSE queue[k + 1]
    BY <1>1, <2>1, RemoveAtFacts
  <2>3. /\ Len(queue) \in Nat \ {0} /\ DOMAIN queue = 1..Len(queue)
        /\ DOMAIN queue' = 1..Len(queue) - 1
    BY <1>1, <2>1, <2>2
  <2>4. \A i \in 1..Len(queue) : i # p =>
          \E k \in 1..Len(queue) - 1 : queue'[k] = queue[i]
    <3> TAKE i \in 1..Len(queue)
    <3>1. CASE i < p
      BY <2>2, <2>3, <3>1
    <3>2. CASE i > p
      <4>1. i - 1 \in 1..Len(queue) - 1 /\ ~(i - 1 < p) /\ (i - 1) + 1 = i
        BY <2>3, <3>2
      <4> QED BY <2>2, <4>1
    <3> QED BY <3>1, <3>2
  <2>5. \A k \in 1..Len(queue) - 1 : \E i \in 1..Len(queue) : i # p /\ queue'[k] = queue[i]
    BY <2>2, <2>3
  <2>6. j # e => (Queued(j)' <=> Queued(j))
    BY <2>1, <2>2, <2>3, <2>4, <2>5, ZenonT(30) DEF Queued, Contains
  <2>7. Single(e) => ~Queued(e)'
    BY <2>1, <2>2, <2>3, <2>5 DEF Queued, Contains, Single
  <2>8. Single(j) => Single(j)'
    <3> SUFFICES ASSUME Single(j) PROVE Single(j)'
      OBVIOUS
    <3>1. \A i, k \in DOMAIN queue' : queue'[i] = j /\ queue'[k] = j => i = k
      BY <2>2, <2>3 DEF Single
    <3>2. Queued(j)' => Queued(j)
      BY <2>2, <2>3, <2>5 DEF Queued, Contains
    <3> QED BY <1>2, <3>1, <3>2 DEF Single
  <2> QED BY <1>2, <2>6, <2>7, <2>8
<1>4. CASE ~Queued(e)
  <2>1. queue' = queue
    BY <1>4 DEF Queued, Contains, RemoveFirst
  <2> QED BY <1>2, <1>4, <2>1 DEF Single, Queued, Contains
<1> QED BY <1>3, <1>4

\* Drain is entered, or returns: its frame points to no Job.
LEMMA PointersDrain ==
  ASSUME TypeOK, NEW j \in Jobs, queue' = queue,
         \/ stack' = Append(stack, [at |-> "drain", job |-> None])
         \/ stack # <<>> /\ Top.at = "drain" /\ stack' = Front(stack)
  PROVE  /\ Queued(j)' <=> Queued(j)
         /\ Held(j)' <=> Held(j)
         /\ \A a : HeldAt(j, a)' <=> HeldAt(j, a)
         /\ Single(j) => Single(j)'
<1>1. stack \in Seq(Frames) /\ j # None
  BY DEF TypeOK, Jobs
<1>2. CASE stack' = Append(stack, [at |-> "drain", job |-> None])
  <2>1. /\ Len(stack) \in Nat /\ DOMAIN stack = 1..Len(stack)
        /\ DOMAIN stack' = 1..Len(stack) + 1
        /\ \A i \in 1..Len(stack) : stack'[i] = stack[i]
        /\ stack'[Len(stack) + 1].job = None
    BY <1>1, <1>2
  <2> QED BY <1>1, <2>1 DEF Queued, Held, HeldAt, Holds, Single
<1>3. CASE stack # <<>> /\ Top.at = "drain" /\ stack' = Front(stack)
  <2>1. /\ Len(stack) \in Nat \ {0} /\ DOMAIN stack = 1..Len(stack)
        /\ DOMAIN stack' = 1..Len(stack) - 1
        /\ \A i \in 1..Len(stack) - 1 : stack'[i] = stack[i]
    BY <1>1, <1>3, FrontFacts
  <2> DEFINE n == Len(stack)
  <2>2. stack[n] \in Frames /\ stack[n].at = "drain"
    <3>1. n \in 1..Len(stack)
      <4>1. n \in Nat /\ n # 0 /\ n = Len(stack)
        BY <2>1
      <4> HIDE DEF n
      <4> QED BY <4>1
    <3>2. stack[n] \in Frames
      BY <1>1, <3>1, ElementOfSeq
    <3> QED BY <1>3, <3>2 DEF Top
  <2>3. stack[n].job = None
    BY <2>2 DEF Frames
  <2> HIDE DEF n
  <2>4. /\ n \in Nat \ {0} /\ DOMAIN stack = 1..n
        /\ DOMAIN stack' = 1..n - 1
        /\ \A i \in 1..n - 1 : stack'[i] = stack[i]
    BY <2>1 DEF n
  <2>5. \A i \in DOMAIN stack : Holds(stack[i], j) => i \in DOMAIN stack'
    BY <1>1, <2>3, <2>4 DEF Holds
  <2>6. Queued(j)' <=> Queued(j)
    BY DEF Queued
  <2>7. /\ Held(j)' <=> Held(j)
        /\ \A a : HeldAt(j, a)' <=> HeldAt(j, a)
    BY <2>4, <2>5 DEF Held, HeldAt, Holds
  <2>8. Single(j) => Single(j)'
    BY <2>4, <2>6, <2>7 DEF Single, Holds
  <2> QED BY <2>6, <2>7, <2>8
<1> QED BY <1>2, <1>3

\* The innermost frame changes.
LEMMA StackTop ==
  ASSUME TypeOK, stack # <<>>, NEW f \in Frames, SetTop(f)
  PROVE  /\ Len(stack) \in Nat \ {0} /\ Top \in Frames
         /\ DOMAIN stack = 1..Len(stack) /\ DOMAIN stack' = 1..Len(stack)
         /\ \A i \in 1..Len(stack) - 1 : stack'[i] = stack[i]
         /\ stack'[Len(stack)] = f
  BY DEF TypeOK, SetTop, Top

\* Drain's pop: the front's pointer moves from the queue to the frame.
LEMMA PointersPop ==
  ASSUME TypeOK, NEW j \in Jobs, NEW h, h = Head(queue), DrainPop
  PROVE  /\ h \in Jobs /\ Queued(h)
         /\ j # h => (Queued(j)' <=> Queued(j)) /\ (Held(j)' <=> Held(j))
         /\ Held(h)'
         /\ HeldAt(j, "running")' <=> HeldAt(j, "running")
         /\ Single(j) => Single(j)'
<1>1. /\ queue \in Seq(Jobs) /\ queue # <<>> /\ queue' = Tail(queue)
      /\ stack # <<>> /\ Top.at = "drain" /\ SetTop([at |-> "popped", job |-> h])
  BY DEF TypeOK, DrainPop, TopAt
<1>2. /\ Len(queue) \in Nat \ {0} /\ DOMAIN queue = 1..Len(queue) /\ queue[1] = h /\ h \in Jobs
      /\ Len(queue') = Len(queue) - 1 /\ DOMAIN queue' = 1..Len(queue) - 1
      /\ \A i \in 1..Len(queue) - 1 : queue'[i] = queue[i + 1]
  BY <1>1
<1>3. [at |-> "popped", job |-> h] \in Frames
  BY <1>2 DEF Frames
<1> DEFINE n == Len(stack)
<1>4. /\ n \in Nat \ {0} /\ DOMAIN stack = 1..n /\ DOMAIN stack' = 1..n
      /\ \A i \in 1..n - 1 : stack'[i] = stack[i]
      /\ stack'[n].job = h /\ stack'[n].at = "popped" /\ stack[n].job = None
  BY <1>1, <1>3, StackTop DEF Top, Frames
<1> HIDE DEF n
<1>5. j # None
  BY DEF Jobs
<1>6. Queued(h)
  BY <1>2 DEF Queued, Contains
<1>7. j # h => (Queued(j)' <=> Queued(j))
  <2>1. Queued(j)' => Queued(j)
    BY <1>2 DEF Queued, Contains
  <2>2. ASSUME j # h, Queued(j) PROVE Queued(j)'
    <3>1. PICK i \in 1..Len(queue) : queue[i] = j
      BY <2>2 DEF Queued, Contains
    <3>2. i - 1 \in 1..Len(queue) - 1 /\ (i - 1) + 1 = i
      BY <1>2, <2>2, <3>1
    <3> QED BY <1>2, <3>1, <3>2 DEF Queued, Contains
  <2> QED BY <2>1, <2>2
<1>8. j # h => (Held(j)' <=> Held(j))
  BY <1>4, <1>5 DEF Held, Holds
<1>9. Held(h)'
  BY <1>4 DEF Held, Holds
<1>10. HeldAt(j, "running")' <=> HeldAt(j, "running")
  BY <1>4, <1>5 DEF HeldAt, Holds
<1>11. Single(j) => Single(j)'
  <2> SUFFICES ASSUME Single(j) PROVE Single(j)'
    OBVIOUS
  <2>1. \A i, k \in DOMAIN queue' : queue'[i] = j /\ queue'[k] = j => i = k
    BY <1>2 DEF Single
  <2>2. CASE j # h
    <3>1. \A i, k \in DOMAIN stack' : Holds(stack[i], j)' /\ Holds(stack[k], j)' => i = k
      BY <1>4, <2>2 DEF Single, Holds
    <3> QED BY <1>7, <1>8, <2>1, <2>2, <3>1 DEF Single
  <2>3. CASE j = h
    <3>1. ~Held(j)
      BY <1>6, <2>3 DEF Single
    <3>2. \A i, k \in DOMAIN stack' : Holds(stack[i], j)' /\ Holds(stack[k], j)' => i = k
      BY <1>4, <3>1 DEF Held, Holds
    <3>3. ~Queued(j)'
      BY <1>2, <2>3 DEF Single, Queued, Contains
    <3> QED BY <2>1, <3>2, <3>3 DEF Single
  <2> QED BY <2>2, <2>3
<1> QED BY <1>2, <1>6, <1>7, <1>8, <1>9, <1>10, <1>11

\* The closure starts: the frame's pointer stays.
LEMMA PointersStart ==
  ASSUME TypeOK, NEW j \in Jobs, NEW h, h = Top.job, stack # <<>>, Top.at = "popped",
         SetTop([at |-> "running", job |-> h]), queue' = queue
  PROVE  /\ h \in Jobs /\ Held(h) /\ HeldAt(h, "running")'
         /\ Queued(j)' <=> Queued(j)
         /\ Held(j)' <=> Held(j)
         /\ j # h => (HeldAt(j, "running")' <=> HeldAt(j, "running"))
         /\ Single(h) => ~HeldAt(h, "running")
         /\ Single(j) => Single(j)'
<1> DEFINE n == Len(stack)
<1>1. Top \in Frames /\ n \in Nat \ {0}
  BY DEF TypeOK, Top
<1>2. h \in Jobs
  BY <1>1 DEF Frames
<1>3. [at |-> "running", job |-> h] \in Frames
  BY <1>2 DEF Frames
<1>4. /\ DOMAIN stack = 1..n /\ DOMAIN stack' = 1..n
      /\ \A i \in 1..n - 1 : stack'[i] = stack[i]
      /\ stack'[n].job = h /\ stack'[n].at = "running"
      /\ stack[n].job = h /\ stack[n].at = "popped"
  BY <1>3, StackTop DEF Top
<1> HIDE DEF n
<1>5. \A i \in 1..n : stack'[i].job = stack[i].job
  BY <1>1, <1>4
<1>6. Held(h) /\ HeldAt(h, "running")'
  BY <1>1, <1>4 DEF Held, HeldAt, Holds
<1>7. Queued(j)' <=> Queued(j)
  BY DEF Queued
<1>8. Held(j)' <=> Held(j)
  BY <1>4, <1>5 DEF Held, Holds
<1>9. j # h => (HeldAt(j, "running")' <=> HeldAt(j, "running"))
  BY <1>1, <1>4 DEF HeldAt, Holds
<1>10. Single(h) => ~HeldAt(h, "running")
  BY <1>1, <1>4 DEF Single, HeldAt, Holds
<1>11. Single(j) => Single(j)'
  BY <1>4, <1>5, <1>7, <1>8 DEF Single, Holds
<1> QED BY <1>2, <1>6, <1>7, <1>8, <1>9, <1>10, <1>11

\* The Job is done: the frame's pointer is gone.
LEMMA PointersMark ==
  ASSUME TypeOK, NEW j \in Jobs, NEW h, h = Top.job, stack # <<>>, Top.at = "running",
         SetTop([at |-> "drain", job |-> None]), queue' = queue
  PROVE  /\ h \in Jobs /\ HeldAt(h, "running") /\ Held(h)
         /\ Queued(j)' <=> Queued(j)
         /\ j # h => (Held(j)' <=> Held(j))
         /\ j # h => (HeldAt(j, "running")' <=> HeldAt(j, "running"))
         /\ Single(h) => ~Held(h)'
         /\ Single(j) => Single(j)'
<1> DEFINE n == Len(stack)
<1>1. Top \in Frames /\ n \in Nat \ {0}
  BY DEF TypeOK, Top
<1>2. h \in Jobs /\ j # None /\ h # None
  BY <1>1 DEF Frames, Jobs
<1>3. [at |-> "drain", job |-> None] \in Frames
  BY DEF Frames
<1>4. /\ DOMAIN stack = 1..n /\ DOMAIN stack' = 1..n
      /\ \A i \in 1..n - 1 : stack'[i] = stack[i]
      /\ stack'[n].job = None
      /\ stack[n].job = h /\ stack[n].at = "running"
  BY <1>3, StackTop DEF Top
<1> HIDE DEF n
<1>5. HeldAt(h, "running") /\ Held(h)
  BY <1>1, <1>4 DEF Held, HeldAt, Holds
<1>6. Queued(j)' <=> Queued(j)
  BY DEF Queued
<1>7. Held(j)' => Held(j)
  BY <1>1, <1>2, <1>4 DEF Held, Holds
<1>8. /\ j # h => (Held(j)' <=> Held(j))
      /\ j # h => (HeldAt(j, "running")' <=> HeldAt(j, "running"))
  BY <1>1, <1>2, <1>4 DEF Held, HeldAt, Holds
<1>9. Single(h) => ~Held(h)'
  BY <1>1, <1>2, <1>4 DEF Single, Held, Holds
<1>10. Single(j) => Single(j)'
  BY <1>1, <1>2, <1>4, <1>6, <1>7 DEF Single, Holds
<1> QED BY <1>2, <1>5, <1>6, <1>8, <1>9, <1>10

-----------------------------------------------------------------------------
(* The inductive step.                                                       *)

\* A step that leaves a thread's calls, its Job and the pointers to it alone
\* keeps JobInv.
LEMMA JobFrame ==
  ASSUME NEW t, NEW s, JobInv(t, s),
         slot'[t] = slot[t], calls'[t] = calls[t], runs'[t] = runs[t],
         mem'[<<t, s>>] = mem[<<t, s>>],
         Queued(<<t, s>>)' <=> Queued(<<t, s>>), Held(<<t, s>>)' <=> Held(<<t, s>>),
         HeldAt(<<t, s>>, "running")' <=> HeldAt(<<t, s>>, "running"),
         Single(<<t, s>>) => Single(<<t, s>>)'
  PROVE  JobInv(t, s)'
  BY DEF JobInv

\* What CallInv says of a call depends on its thread's own variables only.
LEMMA CallFrame ==
  ASSUME NEW t, NEW c, CallInv(t, c),
         slot'[t] = slot[t], calls'[t] = calls[t], runs'[t] = runs[t], answer'[t] = answer[t]
  PROVE  CallInv(t, c)'
  BY DEF CallInv

\* The part of IndInv about one thread.
ThreadInv(t) == (\A s \in Slots : JobInv(t, s)) /\ (\A c \in Calls : CallInv(t, c))

\* A call begins, is answered or times out.
LEMMA CallerStepInv ==
  ASSUME IndInv, NEW t \in Threads, CallerStep(t), NEW u \in Threads \ lost'
  PROVE  ThreadInv(u)'
<1>1. TypeOK /\ u \notin lost /\ ThreadInv(u)
  BY DEF IndInv, ThreadInv, CallerStep, RunSyncNotReady, RunSyncPush, WakeDone, Timeout
<1>2. CASE RunSyncNotReady(t)
  <2>1. /\ slot[t] = None /\ slot' = slot /\ runs' = runs /\ mem' = mem /\ queue' = queue /\ stack' = stack
        /\ calls[t] < MaxCalls /\ calls' = [calls EXCEPT ![t] = @ + 1]
        /\ answer' = [answer EXCEPT ![t][calls[t] + 1] = "false"]
    BY <1>2 DEF RunSyncNotReady, CanCall
  <2>2. ASSUME NEW s \in Slots PROVE JobInv(u, s)'
    <3>1. JobInv(u, s) /\ (slot[u] = s => calls'[u] = calls[u])
      BY <1>1, <2>1 DEF ThreadInv, TypeOK
    <3>2. /\ Queued(<<u, s>>)' = Queued(<<u, s>>) /\ Held(<<u, s>>)' = Held(<<u, s>>)
          /\ HeldAt(<<u, s>>, "running")' = HeldAt(<<u, s>>, "running")
          /\ Single(<<u, s>>)' = Single(<<u, s>>)
      BY <2>1 DEF Queued, Held, HeldAt, Holds, Single
    <3> QED BY <2>1, <3>1, <3>2 DEF JobInv
  <2>3. ASSUME NEW c \in Calls PROVE CallInv(u, c)'
    <3>1. CASE u # t
      BY <1>1, <2>1, <3>1, CallFrame DEF TypeOK, ThreadInv
    <3>2. CASE u = t
      BY <1>1, <2>1, <3>2 DEF TypeOK, ThreadInv, CallInv, Calls
    <3> QED BY <3>1, <3>2
  <2> QED BY <2>2, <2>3 DEF ThreadInv
<1>3. CASE RunSyncPush(t)
  <2>1. PICK p \in Slots :
          /\ slot' = [slot EXCEPT ![t] = p]
          /\ mem' = [mem EXCEPT ![<<t, p>>] = [call |-> calls[t] + 1, done |-> FALSE]]
          /\ queue' = Append(queue, <<t, p>>)
    BY <1>3 DEF RunSyncPush
  <2>2. /\ slot[t] = None /\ runs' = runs /\ stack' = stack /\ answer' = answer
        /\ calls[t] < MaxCalls /\ calls' = [calls EXCEPT ![t] = @ + 1]
    BY <1>3 DEF RunSyncPush, CanCall
  <2>3. <<t, p>> \in Jobs
    BY DEF Jobs
  <2>4. ASSUME NEW s \in Slots PROVE JobInv(u, s)'
    <3> DEFINE j == <<u, s>>
    <3>1. j \in Jobs /\ JobInv(u, s)
      BY <1>1 DEF Jobs, ThreadInv
    <3>2. /\ Queued(j)' <=> Queued(j) \/ j = <<t, p>>
          /\ Held(j)' <=> Held(j)
          /\ HeldAt(j, "running")' <=> HeldAt(j, "running")
          /\ Single(j) /\ (j = <<t, p>> => ~Queued(j) /\ ~Held(j)) => Single(j)'
      BY <1>1, <2>1, <2>2, <2>3, <3>1, PointersPush
    <3>3. CASE u # t
      <4>1. j # <<t, p>>
        BY <3>3
      <4>2. slot'[u] = slot[u] /\ calls'[u] = calls[u] /\ mem'[j] = mem[j]
        BY <1>1, <2>1, <2>2, <3>1, <3>3, <4>1 DEF TypeOK
      <4> QED BY <2>2, <3>1, <3>2, <4>1, <4>2, JobFrame
    <3>4. CASE u = t
      <4>1. ~Queued(j) /\ ~Held(j) /\ Single(j)
        BY <2>2, <3>1, <3>4 DEF JobInv
      <4>2. ~HeldAt(j, "running")
        BY <4>1 DEF Held, HeldAt
      <4>3. Single(j)' /\ ~Held(j)' /\ ~HeldAt(j, "running")' /\ (Queued(j)' <=> s = p)
        BY <3>2, <3>4, <4>1, <4>2
      <4>4. /\ slot'[u] = p /\ calls'[u] = calls[u] + 1 /\ calls'[u] \in Calls
            /\ mem'[<<u, p>>] = [call |-> calls[u] + 1, done |-> FALSE]
        BY <1>1, <2>1, <2>2, <2>3, <3>4 DEF TypeOK, Calls
      <4>5. runs'[u][calls'[u]] = 0
        BY <1>1, <2>2, <4>4 DEF ThreadInv, CallInv, TypeOK
      <4> QED BY <4>3, <4>4, <4>5 DEF JobInv
    <3> QED BY <3>3, <3>4
  <2>5. ASSUME NEW c \in Calls PROVE CallInv(u, c)'
    <3>1. CASE u # t
      BY <1>1, <2>1, <2>2, <3>1, CallFrame DEF TypeOK, ThreadInv
    <3>2. CASE u = t
      <4>1. slot'[u] # None /\ calls'[u] = calls[u] + 1 /\ calls[u] \in Nat
        BY <1>1, <2>1, <2>2, <3>2 DEF TypeOK
      <4> QED BY <1>1, <2>2, <3>2, <4>1 DEF ThreadInv, CallInv, Calls
    <3> QED BY <3>1, <3>2
  <2> QED BY <2>4, <2>5 DEF ThreadInv
<1>4. CASE WakeDone(t)
  <2>1. /\ slot[t] # None /\ mem[<<t, slot[t]>>].done /\ queue' = queue /\ stack' = stack
        /\ slot' = [slot EXCEPT ![t] = None] /\ mem' = mem /\ calls' = calls /\ runs' = runs
        /\ answer' = [answer EXCEPT ![t][calls[t]] = "true"]
    BY <1>4 DEF WakeDone, Return, Waiting
  <2>2. ASSUME NEW s \in Slots PROVE JobInv(u, s)'
    <3>1. JobInv(u, s)
      BY <1>1 DEF ThreadInv
    <3>2. /\ Queued(<<u, s>>)' = Queued(<<u, s>>) /\ Held(<<u, s>>)' = Held(<<u, s>>)
          /\ HeldAt(<<u, s>>, "running")' = HeldAt(<<u, s>>, "running")
          /\ Single(<<u, s>>)' = Single(<<u, s>>)
      BY <2>1 DEF Queued, Held, HeldAt, Holds, Single
    <3>3. CASE u # t
      BY <1>1, <2>1, <3>1, <3>2, <3>3, JobFrame DEF TypeOK
    <3>4. CASE u = t
      <4>1. slot'[u] = None
        BY <1>1, <2>1, <3>4 DEF TypeOK
      <4> QED BY <2>1, <3>1, <3>2, <3>4, <4>1 DEF JobInv
    <3> QED BY <3>3, <3>4
  <2>3. ASSUME NEW c \in Calls PROVE CallInv(u, c)'
    <3>1. CASE u # t
      BY <1>1, <2>1, <3>1, CallFrame DEF TypeOK, ThreadInv
    <3>2. CASE u = t
      <4>1. /\ slot'[u] = None /\ calls[u] \in Calls /\ runs[u][calls[u]] = 1
        BY <1>1, <2>1, <3>2 DEF TypeOK, ThreadInv, JobInv
      <4>2. answer'[u][c] = IF c = calls[u] THEN "true" ELSE answer[u][c]
        BY <1>1, <2>1, <3>2, <4>1 DEF TypeOK
      <4> QED BY <1>1, <2>1, <3>2, <4>1, <4>2 DEF ThreadInv, CallInv, TypeOK
    <3> QED BY <3>1, <3>2
  <2> QED BY <2>2, <2>3 DEF ThreadInv
<1>5. CASE Timeout(t)
  <2>1. /\ slot[t] # None /\ ~mem[<<t, slot[t]>>].done /\ stack' = stack
        /\ queue' = RemoveFirst(queue, <<t, slot[t]>>)
        /\ slot' = [slot EXCEPT ![t] = None] /\ mem' = mem /\ calls' = calls /\ runs' = runs
        /\ answer' = [answer EXCEPT ![t][calls[t]] = "false"]
        /\ u = t => ~Held(<<t, slot[t]>>)
    BY <1>5 DEF Timeout, Return, Waiting
  <2> DEFINE e == <<t, slot[t]>>
  <2>2. slot[t] \in Slots /\ e \in Jobs
    BY <1>1, <2>1 DEF TypeOK, Jobs
  <2>3. ASSUME NEW s \in Slots PROVE JobInv(u, s)'
    <3> DEFINE j == <<u, s>>
    <3>1. j \in Jobs /\ JobInv(u, s)
      BY <1>1 DEF Jobs, ThreadInv
    <3>a. PICK d : d = e
      OBVIOUS
    <3>2. /\ j # d => (Queued(j)' <=> Queued(j))
          /\ Single(d) => ~Queued(d)'
          /\ Held(j)' <=> Held(j)
          /\ HeldAt(j, "running")' <=> HeldAt(j, "running")
          /\ Single(j) => Single(j)'
      BY <1>1, <2>1, <2>2, <3>1, <3>a, PointersErase
    <3>3. CASE u # t
      <4>1. j # d /\ slot'[u] = slot[u]
        BY <1>1, <2>1, <3>3, <3>a DEF TypeOK
      <4> QED BY <2>1, <3>1, <3>2, <4>1, JobFrame
    <3>4. CASE u = t
      <4>1. slot'[u] = None
        BY <1>1, <2>1, <3>4 DEF TypeOK
      <4>2. ~Queued(j)' /\ ~Held(j)'
        <5>1. CASE slot[t] = s
          BY <2>1, <3>1, <3>2, <3>a, <3>4, <5>1 DEF JobInv
        <5>2. CASE slot[t] # s
          BY <3>1, <3>2, <3>a, <3>4, <5>2 DEF JobInv
        <5> QED BY <5>1, <5>2
      <4> QED BY <3>1, <3>2, <4>1, <4>2 DEF JobInv
    <3> QED BY <3>3, <3>4
  <2>4. ASSUME NEW c \in Calls PROVE CallInv(u, c)'
    <3>1. CASE u # t
      BY <1>1, <2>1, <3>1, CallFrame DEF TypeOK, ThreadInv
    <3>2. CASE u = t
      <4>1. /\ slot'[u] = None /\ calls[u] \in Calls /\ JobInv(u, slot[u])
        BY <1>1, <2>1, <2>2, <3>2 DEF TypeOK, ThreadInv, JobInv
      <4>2. ~HeldAt(e, "running")
        BY <2>1, <3>2 DEF Held, HeldAt
      <4>3. runs[u][calls[u]] = 0
        BY <2>1, <3>2, <4>1, <4>2 DEF JobInv
      <4>4. answer'[u][c] = IF c = calls[u] THEN "false" ELSE answer[u][c]
        BY <1>1, <2>1, <3>2, <4>1 DEF TypeOK
      <4> QED BY <1>1, <2>1, <3>2, <4>1, <4>3, <4>4 DEF ThreadInv, CallInv, TypeOK
    <3> QED BY <3>1, <3>2
  <2> QED BY <2>3, <2>4 DEF ThreadInv
<1> QED BY <1>2, <1>3, <1>4, <1>5 DEF CallerStep

\* A step of the game thread.
LEMMA GameStepInv ==
  ASSUME IndInv, GameStep, NEW u \in Threads \ lost'
  PROVE  ThreadInv(u)'
<1>1. /\ TypeOK /\ u \notin lost /\ ThreadInv(u)
      /\ slot' = slot /\ calls' = calls /\ answer' = answer
  BY DEF IndInv, ThreadInv, GameStep, EnterDrain, DrainPop, DrainReturn, StartWork, MarkDone,
     callerVars
<1>2. ASSUME NEW s \in Slots PROVE <<u, s>> \in Jobs /\ JobInv(u, s)
  BY <1>1 DEF Jobs, ThreadInv
<1>3. CASE EnterDrain \/ DrainReturn
  <2>1. runs' = runs /\ mem' = mem
    BY <1>3 DEF EnterDrain, DrainReturn
  <2>2. ASSUME NEW s \in Slots PROVE JobInv(u, s)'
    <3> DEFINE j == <<u, s>>
    <3>1. /\ Queued(j)' <=> Queued(j)
          /\ Held(j)' <=> Held(j)
          /\ HeldAt(j, "running")' <=> HeldAt(j, "running")
          /\ Single(j) => Single(j)'
      BY <1>1, <1>2, <1>3, PointersDrain DEF EnterDrain, DrainReturn, TopAt
    <3> QED BY <1>1, <1>2, <2>1, <3>1, JobFrame
  <2> QED BY <1>1, <2>1, <2>2, CallFrame DEF ThreadInv
<1>4. CASE DrainPop
  <2>1. runs' = runs /\ mem' = mem
    BY <1>4 DEF DrainPop
  <2>2. PICK h : h = Head(queue)
    OBVIOUS
  <2>3. ASSUME NEW s \in Slots PROVE JobInv(u, s)'
    <3> DEFINE j == <<u, s>>
    <3>1. /\ h \in Jobs /\ Queued(h)
          /\ j # h => (Queued(j)' <=> Queued(j)) /\ (Held(j)' <=> Held(j))
          /\ Held(h)'
          /\ HeldAt(j, "running")' <=> HeldAt(j, "running")
          /\ Single(j) => Single(j)'
      BY <1>1, <1>2, <1>4, <2>2, PointersPop
    <3>2. CASE j # h
      BY <1>1, <1>2, <2>1, <3>1, <3>2, JobFrame
    <3>3. CASE j = h
      BY <1>1, <1>2, <2>1, <3>1, <3>3 DEF JobInv
    <3> QED BY <3>2, <3>3
  <2> QED BY <1>1, <2>1, <2>3, CallFrame DEF ThreadInv
<1>5. CASE StartWork
  <2>1. PICK h : h = Top.job
    OBVIOUS
  <2>2. mem' = mem /\ queue' = queue /\ stack # <<>> /\ Top.at = "popped"
    BY <1>5 DEF StartWork, TopAt
  <2>3. CASE runs' = runs /\ stack' = stack
    <3>1. ASSUME NEW j \in Jobs
          PROVE  /\ Queued(j)' = Queued(j) /\ Held(j)' = Held(j)
                 /\ HeldAt(j, "running")' = HeldAt(j, "running")
                 /\ Single(j)' = Single(j)
      BY <2>2, <2>3 DEF Queued, Held, HeldAt, Holds, Single
    <3>2. ASSUME NEW s \in Slots PROVE JobInv(u, s)'
      BY <1>1, <1>2, <2>2, <2>3, <3>1, JobFrame
    <3> QED BY <1>1, <2>2, <2>3, <3>2, CallFrame DEF ThreadInv
  <2>4. CASE /\ runs' = [runs EXCEPT ![h[1]][mem[h].call] = @ + 1]
             /\ SetTop([at |-> "running", job |-> h])
    <3>1. ASSUME NEW j \in Jobs
          PROVE  /\ h \in Jobs /\ Held(h) /\ HeldAt(h, "running")'
                 /\ Queued(j)' <=> Queued(j)
                 /\ Held(j)' <=> Held(j)
                 /\ j # h => (HeldAt(j, "running")' <=> HeldAt(j, "running"))
                 /\ Single(h) => ~HeldAt(h, "running")
                 /\ Single(j) => Single(j)'
      BY <1>1, <2>1, <2>2, <2>4, PointersStart
    <3>2. h \in Jobs
      <4>1. Top \in Frames
        BY <1>1, <2>2 DEF TypeOK, Top
      <4> QED BY <2>1, <2>2, <4>1 DEF Frames
    <3>3. CASE u # h[1]
      <4>1. runs'[u] = runs[u]
        BY <1>1, <2>4, <3>3 DEF TypeOK
      <4>2. ASSUME NEW s \in Slots PROVE JobInv(u, s)'
        <5>1. <<u, s>> \in Jobs /\ JobInv(u, s) /\ <<u, s>> # h
          BY <1>2, <3>3
        <5> QED BY <1>1, <2>2, <3>1, <4>1, <5>1, JobFrame
      <4> QED BY <1>1, <4>1, <4>2, CallFrame DEF ThreadInv
    <3>4. CASE u = h[1]
      <4>1. PICK p \in Slots : h = <<u, p>>
        BY <3>2, <3>4 DEF Jobs
      <4>2. JobInv(u, p) /\ Held(h)
        BY <1>2, <3>1, <3>2
      <4>3. /\ slot[u] = p /\ mem[h].call = calls[u] /\ calls[u] \in Calls
            /\ ~mem[h].done /\ ~HeldAt(h, "running") /\ runs[u][calls[u]] = 0
        BY <3>1, <3>2, <4>1, <4>2 DEF JobInv
      <4>4. /\ runs'[u][calls[u]] = 1
            /\ \A c \in Calls : c # calls[u] => runs'[u][c] = runs[u][c]
        BY <1>1, <2>4, <3>4, <4>3 DEF TypeOK
      <4>5. ASSUME NEW s \in Slots PROVE JobInv(u, s)'
        <5>1. CASE s = p
          BY <1>1, <1>2, <2>2, <3>1, <3>2, <4>1, <4>2, <4>3, <4>4, <5>1 DEF JobInv
        <5>2. CASE s # p
          BY <1>1, <1>2, <2>2, <3>1, <3>2, <4>1, <4>3, <5>2 DEF JobInv
        <5> QED BY <5>1, <5>2
      <4>6. ASSUME NEW c \in Calls PROVE CallInv(u, c)'
        BY <1>1, <4>3, <4>4 DEF CallInv, ThreadInv, TypeOK, Calls
      <4> QED BY <4>5, <4>6 DEF ThreadInv
    <3> QED BY <3>3, <3>4
  <2> QED BY <1>5, <2>1, <2>3, <2>4 DEF StartWork
<1>6. CASE MarkDone
  <2>1. PICK h : h = Top.job
    OBVIOUS
  <2>2. runs' = runs /\ queue' = queue /\ stack # <<>> /\ Top.at = "running"
    BY <1>6 DEF MarkDone, TopAt
  <2>3. CASE mem' = mem /\ stack' = stack
    <3>1. ASSUME NEW j \in Jobs
          PROVE  /\ Queued(j)' = Queued(j) /\ Held(j)' = Held(j)
                 /\ HeldAt(j, "running")' = HeldAt(j, "running")
                 /\ Single(j)' = Single(j)
      BY <2>2, <2>3 DEF Queued, Held, HeldAt, Holds, Single
    <3>2. ASSUME NEW s \in Slots PROVE JobInv(u, s)'
      BY <1>1, <1>2, <2>2, <2>3, <3>1, JobFrame
    <3> QED BY <1>1, <2>2, <2>3, <3>2, CallFrame DEF ThreadInv
  <2>4. CASE /\ mem' = [mem EXCEPT ![h].done = TRUE]
             /\ SetTop([at |-> "drain", job |-> None])
    <3>1. ASSUME NEW s \in Slots PROVE JobInv(u, s)'
      <4> DEFINE j == <<u, s>>
      <4>1. /\ h \in Jobs /\ HeldAt(h, "running") /\ Held(h)
            /\ Queued(j)' <=> Queued(j)
            /\ j # h => (Held(j)' <=> Held(j))
            /\ j # h => (HeldAt(j, "running")' <=> HeldAt(j, "running"))
            /\ Single(h) => ~Held(h)'
            /\ Single(j) => Single(j)'
        BY <1>1, <1>2, <2>1, <2>2, <2>4, PointersMark
      <4>2. CASE j # h
        <5>1. mem'[j] = mem[j]
          BY <1>1, <1>2, <2>4, <4>1, <4>2 DEF TypeOK
        <5> QED BY <1>1, <1>2, <2>2, <4>1, <4>2, <5>1, JobFrame
      <4>3. CASE j = h
        <5>1. mem'[j].done /\ mem'[j].call = mem[j].call
          BY <1>1, <1>2, <2>4, <4>1, <4>3, ZenonT(30) DEF TypeOK
        <5>2. /\ Single(j) /\ ~Queued(j) /\ slot[u] = s /\ calls[u] \in Calls
              /\ mem[j].call = calls[u] /\ runs[u][calls[u]] = 1
          BY <1>2, <4>1, <4>3 DEF JobInv, Single
        <5>3. Single(j)' /\ ~Queued(j)' /\ ~Held(j)'
          BY <4>1, <4>3, <5>2
        <5> QED BY <1>1, <2>2, <5>1, <5>2, <5>3 DEF JobInv
      <4> QED BY <4>2, <4>3
    <3> QED BY <1>1, <2>2, <3>1, CallFrame DEF ThreadInv
  <2> QED BY <1>6, <2>1, <2>3, <2>4 DEF MarkDone
<1> QED BY <1>3, <1>4, <1>5, <1>6 DEF GameStep

\* The process dies only where a dead Job is touched, and only a lost thread's
\* Job is dead while the game thread holds it.
LEMMA CrashStep ==
  ASSUME IndInv, [Next]_vars
  PROVE  CrashNeedsLostJob'
<1>1. lost \subseteq lost'
  BY DEF Next, CallerStep, GameStep, BecomeReady, RunSyncNotReady, RunSyncPush, WakeDone, Timeout,
     PumpIdle, EnterDrain, DrainPop, DrainReturn, StartWork, MarkDone, Dead, callerVars, vars
<1>2. CASE crashed' = crashed
  BY <1>1, <1>2 DEF IndInv, CrashNeedsLostJob
<1>3. CASE (StartWork \/ MarkDone) /\ crashed' # crashed
  <2>1. stack # <<>> /\ Top.at \in {"popped", "running"} /\ ~Live(Top.job)
    BY <1>3 DEF StartWork, MarkDone, TopAt
  <2> DEFINE n == Len(stack)
             h == Top.job
  <2>2. n \in DOMAIN stack /\ stack[n] \in Frames
    BY <2>1 DEF IndInv, TypeOK
  <2>3. h \in Jobs /\ Held(h)
    BY <2>1, <2>2 DEF Frames, Held, Holds, Top
  <2>4. PICK t \in Threads, s \in Slots : h = <<t, s>>
    BY <2>3 DEF Jobs
  <2>5. t \in lost
    BY <2>1, <2>3, <2>4 DEF IndInv, JobInv, Live
  <2> QED BY <1>1, <2>5 DEF CrashNeedsLostJob
<1>4. crashed' = crashed \/ StartWork \/ MarkDone
  BY DEF Next, CallerStep, GameStep, BecomeReady, RunSyncNotReady, RunSyncPush, WakeDone, Timeout,
     Return, PumpIdle, EnterDrain, DrainPop, DrainReturn, Dead, vars
<1> QED BY <1>2, <1>3, <1>4

\* Every step of the job queue keeps the inductive invariant.
LEMMA IndStep ==
  ASSUME IndInv, [Next]_vars
  PROVE  IndInv'
<1>1. TypeOK'
  BY TypeStep DEF IndInv
<1>2. ASSUME NEW u \in Threads \ lost' PROVE ThreadInv(u)'
  <2>1. CASE \E t \in Threads : CallerStep(t)
    BY <2>1, CallerStepInv
  <2>2. CASE GameStep
    BY <2>2, GameStepInv
  <2>3. CASE BecomeReady \/ PumpIdle \/ Dead \/ UNCHANGED vars
    <3>1. UNCHANGED <<queue, stack, mem, slot, calls, runs, answer, lost>>
      BY <2>3 DEF BecomeReady, PumpIdle, Dead, vars, callerVars
    <3>2. ThreadInv(u)
      BY <3>1 DEF IndInv, ThreadInv
    <3>3. ASSUME NEW s \in Slots PROVE JobInv(u, s)'
      <4> DEFINE j == <<u, s>>
      <4>1. /\ Queued(j)' = Queued(j) /\ Held(j)' = Held(j)
            /\ HeldAt(j, "running")' = HeldAt(j, "running")
            /\ Single(j)' = Single(j)
        BY <3>1 DEF Queued, Held, HeldAt, Holds, Single
      <4> QED BY <3>1, <3>2, <4>1, JobFrame DEF ThreadInv
    <3>4. ASSUME NEW c \in Calls PROVE CallInv(u, c)'
      BY <3>1, <3>2, CallFrame DEF ThreadInv
    <3> QED BY <3>3, <3>4 DEF ThreadInv
  <2> QED BY <2>1, <2>2, <2>3 DEF Next
<1>3. CrashNeedsLostJob'
  BY CrashStep
<1> QED BY <1>1, <1>2, <1>3 DEF IndInv, ThreadInv

\* The empty queue, with no call made, satisfies the inductive invariant.
LEMMA IndInit == Init => IndInv
<1> SUFFICES ASSUME Init PROVE IndInv
  OBVIOUS
<1>1. TypeOK
  <2>1. queue \in Seq(Jobs) /\ stack \in Seq(Frames)
    BY EmptySeq DEF Init
  <2>2. mem \in [Jobs -> [call : 0..MaxCalls, done : BOOLEAN]]
    BY DEF Init
  <2>3. /\ slot \in [Threads -> Slots \cup {None}]
        /\ calls \in [Threads -> 0..MaxCalls]
        /\ runs \in [Threads -> [Calls -> Nat]]
        /\ answer \in [Threads -> [Calls -> {"none", "true", "false"}]]
    BY DEF Init
  <2> QED BY <2>1, <2>2, <2>3 DEF Init, TypeOK
<1>2. ASSUME NEW t \in Threads, NEW s \in Slots PROVE JobInv(t, s)
  BY DEF Init, JobInv, Single, Queued, Contains, Held, HeldAt, Jobs
<1>3. ASSUME NEW t \in Threads, NEW c \in Calls PROVE CallInv(t, c)
  BY DEF Init, CallInv, Calls
<1> QED BY <1>1, <1>2, <1>3 DEF IndInv, Init, CrashNeedsLostJob

\* The inductive invariant of RunSync and Drain holds in every reachable state: for
\* each thread that has lost no Job, a Job is reachable exactly while its caller waits
\* for it, and the closure of each returned call was run as the answer says.
THEOREM Invariance == Spec => []IndInv
  BY IndInit, IndStep, PTL DEF Spec

\* Types hold in every reachable state of the job queue.
THEOREM TypeCorrect == Spec => []TypeOK
<1>1. IndInv => TypeOK
  BY DEF IndInv
<1> QED BY <1>1, Invariance, PTL

\* RunSync's answer tells whether the closure was run, for every thread that has
\* not left a Job with the game thread, whatever the others have left there.
THEOREM AnswersAreTrue == Spec => []AnswerIsTrue
<1>1. IndInv => AnswerIsTrue
  <2> SUFFICES ASSUME IndInv, NEW t \in Threads \ lost, NEW c \in Calls
               PROVE  /\ answer[t][c] = "true" => runs[t][c] = 1
                      /\ answer[t][c] = "false" => runs[t][c] = 0
    BY DEF AnswerIsTrue
  <2>1. CallInv(t, c) /\ calls[t] \in Nat /\ c \in Nat
    BY DEF IndInv, TypeOK, Calls
  <2> QED BY <2>1 DEF CallInv
<1> QED BY <1>1, Invariance, PTL

\* A waiting caller's Job is in the queue or with the game thread, not in both.
THEOREM JobsAreReachable == Spec => []WaitingJobIsReachable
<1>1. IndInv => WaitingJobIsReachable
  BY DEF IndInv, JobInv, Single, Queued, WaitingJobIsReachable
<1> QED BY <1>1, Invariance, PTL

\* No dead frame is dereferenced unless a caller timed out on a Job the game
\* thread held.
THEOREM CrashesNeedLostJobs == Spec => []CrashNeedsLostJob
<1>1. IndInv => CrashNeedsLostJob
  BY DEF IndInv
<1> QED BY <1>1, Invariance, PTL

-----------------------------------------------------------------------------
(* Refinement of SyncCall.                                                   *)

PhaseOf == [t \in Threads |-> Phase(t)]

\* A step maps to a change of the phase of one thread at most.
LEMMA PhaseFrame ==
  ASSUME NEW t \in Threads, NEW p,
         Phase(t)' = p, \A u \in Threads \ {t} : Phase(u)' = Phase(u)
  PROVE  PhaseOf' = [PhaseOf EXCEPT ![t] = p]
  BY DEF PhaseOf

\* A step that changes no thread's phase stutters.
LEMMA PhaseSame ==
  ASSUME \A u \in Threads : Phase(u)' = Phase(u)
  PROVE  PhaseOf' = PhaseOf
  BY DEF PhaseOf

\* The caller's steps map to Refuse, Submit, Answer and GiveUp, and those of a
\* lost thread to LostStep.
LEMMA CallerRefines ==
  ASSUME IndInv, NEW t \in Threads, CallerStep(t)
  PROVE  SC!Refuse(t) \/ SC!Submit(t) \/ SC!Answer(t) \/ SC!GiveUp(t) \/ SC!LostStep(t)
<1>1. TypeOK
  BY DEF IndInv
<1>2. /\ crashed' = crashed /\ runs' = runs
      /\ \A u \in Threads \ {t} :
           /\ slot'[u] = slot[u] /\ calls'[u] = calls[u] /\ answer'[u] = answer[u]
           /\ u \in lost' <=> u \in lost
  BY <1>1 DEF TypeOK, CallerStep, RunSyncNotReady, RunSyncPush, WakeDone, Timeout, Return
<1>3. \A u \in Threads \ {t} : Phase(u)' = Phase(u)
  BY <1>2 DEF Phase
<1>4. CASE t \in lost
  <2>1. t \in lost'
    BY <1>4 DEF CallerStep, RunSyncNotReady, RunSyncPush, WakeDone, Timeout
  <2>2. Phase(t) = "lost" /\ Phase(t)' = "lost"
    BY <1>4, <2>1 DEF Phase
  <2>3. PhaseOf' = PhaseOf
    BY <1>3, <2>2, PhaseSame
  <2> QED BY <1>2, <2>2, <2>3 DEF SC!LostStep, PhaseOf
<1>5. CASE t \notin lost
  <2>1. ThreadInv(t)
    BY <1>5 DEF IndInv, ThreadInv
  <2>2. CASE RunSyncNotReady(t)
    <3>1. Phase(t) = "idle" /\ Phase(t)' = "idle"
      BY <1>5, <2>2 DEF RunSyncNotReady, CanCall, Phase
    <3>2. PhaseOf' = PhaseOf /\ PhaseOf[t] = "idle"
      BY <1>3, <3>1, PhaseSame DEF PhaseOf
    <3> QED BY <1>2, <2>2, <3>2 DEF RunSyncNotReady, CanCall, SC!Refuse, PhaseOf
  <2>3. CASE RunSyncPush(t)
    <3>1. slot[t] = None /\ calls[t] < MaxCalls /\ calls'[t] = calls[t] + 1 /\ slot'[t] # None /\ lost' = lost
          /\ answer' = answer /\ calls' = [calls EXCEPT ![t] = @ + 1]
      BY <1>1, <2>3 DEF RunSyncPush, CanCall, TypeOK
    <3>2. runs'[t][calls'[t]] = 0
      <4>1. calls[t] \in Nat /\ calls[t] + 1 \in Calls
        BY <1>1, <3>1 DEF TypeOK, Calls
      <4>2. CallInv(t, calls[t] + 1)
        BY <2>1, <4>1 DEF ThreadInv
      <4> QED BY <1>2, <3>1, <4>1, <4>2 DEF CallInv
    <3>3. Phase(t) = "idle" /\ Phase(t)' = "pending"
      BY <1>5, <3>1, <3>2 DEF Phase
    <3>4. PhaseOf' = [PhaseOf EXCEPT ![t] = "pending"] /\ PhaseOf[t] = "idle"
      BY <1>3, <3>3, PhaseFrame DEF PhaseOf
    <3> QED BY <1>2, <3>1, <3>4 DEF SC!Submit, PhaseOf
  <2>4. CASE WakeDone(t)
    <3>1. slot[t] \in Slots /\ mem[<<t, slot[t]>>].done /\ slot'[t] = None /\ lost' = lost
          /\ calls' = calls /\ answer' = [answer EXCEPT ![t][calls[t]] = "true"]
      BY <1>1, <2>4 DEF WakeDone, Waiting, Return, TypeOK
    <3>2. runs[t][calls[t]] = 1
      BY <2>1, <3>1 DEF ThreadInv, JobInv
    <3>3. Phase(t) = "ran" /\ Phase(t)' = "idle"
      BY <1>5, <3>1, <3>2 DEF Phase
    <3>4. PhaseOf' = [PhaseOf EXCEPT ![t] = "idle"] /\ PhaseOf[t] = "ran"
      BY <1>3, <3>3, PhaseFrame DEF PhaseOf
    <3> QED BY <1>2, <3>1, <3>4 DEF SC!Answer, PhaseOf
  <2>5. CASE Timeout(t)
    <3>1. slot[t] \in Slots /\ ~mem[<<t, slot[t]>>].done /\ slot'[t] = None
          /\ calls' = calls /\ answer' = [answer EXCEPT ![t][calls[t]] = "false"]
          /\ lost' = IF Held(<<t, slot[t]>>) THEN lost \cup {t} ELSE lost
      BY <1>1, <2>5 DEF Timeout, Waiting, Return, TypeOK
    <3>2. Phase(t) \in {"pending", "ran"}
      BY <1>5, <3>1 DEF Phase
    <3>3. CASE Held(<<t, slot[t]>>)
      <4>1. Phase(t)' = "lost"
        BY <3>1, <3>3 DEF Phase
      <4>2. PhaseOf' = [PhaseOf EXCEPT ![t] = "lost"] /\ PhaseOf[t] \in {"pending", "ran"}
        BY <1>3, <3>2, <4>1, PhaseFrame DEF PhaseOf
      <4> QED BY <1>2, <3>1, <4>2 DEF SC!GiveUp, PhaseOf
    <3>4. CASE ~Held(<<t, slot[t]>>)
      <4>1. ~HeldAt(<<t, slot[t]>>, "running")
        BY <3>4 DEF Held, HeldAt
      <4>2. runs[t][calls[t]] = 0
        BY <2>1, <3>1, <4>1 DEF ThreadInv, JobInv
      <4>3. Phase(t) = "pending" /\ Phase(t)' = "idle"
        BY <1>5, <3>1, <3>4, <4>2 DEF Phase
      <4>4. PhaseOf' = [PhaseOf EXCEPT ![t] = "idle"] /\ PhaseOf[t] = "pending"
        BY <1>3, <4>3, PhaseFrame DEF PhaseOf
      <4> QED BY <1>2, <3>1, <4>4 DEF SC!Answer, PhaseOf
    <3> QED BY <3>3, <3>4
  <2> QED BY <2>2, <2>3, <2>4, <2>5 DEF CallerStep
<1> QED BY <1>4, <1>5

\* The game thread's steps map to Run, to a step of a lost thread, to Crash, or to
\* nothing.
LEMMA GameRefines ==
  ASSUME IndInv, CrashNeedsLostJob', GameStep
  PROVE  SC!Next \/ UNCHANGED SC!vars
<1>1. /\ TypeOK /\ slot' = slot /\ calls' = calls /\ answer' = answer /\ lost' = lost
  BY DEF IndInv, GameStep, EnterDrain, DrainPop, DrainReturn, StartWork, MarkDone, callerVars
<1>2. CASE runs' = runs /\ crashed' = crashed
  <2>1. PhaseOf' = PhaseOf
    BY <1>1, <1>2 DEF Phase, PhaseOf
  <2> QED BY <1>1, <1>2, <2>1 DEF SC!vars, PhaseOf
<1>3. CASE runs' = runs /\ crashed' = TRUE /\ ~crashed
  <2>1. PhaseOf' = PhaseOf
    BY <1>1, <1>3 DEF Phase, PhaseOf
  <2>2. PICK t \in Threads : t \in lost
    BY <1>1, <1>3 DEF CrashNeedsLostJob, TypeOK
  <2>3. PhaseOf[t] = "lost"
    BY <2>2 DEF Phase, PhaseOf
  <2>4. SC!Crash
    BY <1>1, <1>3, <2>1, <2>3 DEF SC!Crash, PhaseOf
  <2> QED BY <2>4 DEF SC!Next
<1>4. CASE StartWork /\ crashed' = crashed /\ runs' # runs
  <2> DEFINE h == Top.job
  <2>1. /\ stack # <<>> /\ Top.at = "popped" /\ runs' = [runs EXCEPT ![h[1]][mem[h].call] = @ + 1]
    BY <1>4 DEF StartWork, TopAt
  <2>2. Top \in Frames /\ Len(stack) \in DOMAIN stack
    BY <1>1, <2>1 DEF TypeOK, Top
  <2>3. h \in Jobs /\ HeldAt(h, "popped") /\ Held(h)
    BY <2>1, <2>2 DEF Frames, HeldAt, Held, Holds, Top
  <2>4. PICK t \in Threads, s \in Slots : h = <<t, s>>
    BY <2>3 DEF Jobs
  <2>5. \A u \in Threads \ {t} : runs'[u] = runs[u] /\ Phase(u)' = Phase(u)
    BY <1>1, <2>1, <2>4 DEF TypeOK, Phase
  <2>6. CASE t \in lost
    <3>1. PhaseOf' = PhaseOf /\ PhaseOf[t] = "lost"
      BY <1>1, <2>5, <2>6 DEF Phase, PhaseOf
    <3>2. SC!LostStep(t)
      BY <1>1, <1>4, <2>5, <3>1 DEF SC!LostStep, PhaseOf
    <3> QED BY <3>2 DEF SC!Next
  <2>7. CASE t \notin lost
    <3>1. JobInv(t, s) /\ calls[t] \in Calls
      BY <2>3, <2>4, <2>7 DEF IndInv, JobInv
    <3>2. ~HeldAt(h, "running")
      BY <2>3, <2>4, <3>1 DEF JobInv, Single, HeldAt, Holds
    <3>3. slot[t] = s /\ mem[h].call = calls[t] /\ runs[t][calls[t]] = 0
      BY <2>3, <2>4, <3>1, <3>2 DEF JobInv
    <3>4. runs' = [runs EXCEPT ![t][calls[t]] = 1] /\ runs'[t][calls[t]] = 1
      <4>1. h[1] = t /\ runs[t][calls[t]] + 1 = 1
        BY <2>4, <3>3
      <4>2. runs' = [runs EXCEPT ![t][calls[t]] = 1]
        BY <2>1, <3>3, <4>1
      <4> QED BY <1>1, <3>1, <4>2 DEF TypeOK
    <3>5. Phase(t) = "pending" /\ Phase(t)' = "ran"
      BY <1>1, <2>7, <3>3, <3>4 DEF Phase
    <3>6. PhaseOf' = [PhaseOf EXCEPT ![t] = "ran"] /\ PhaseOf[t] = "pending"
      BY <2>5, <3>5, PhaseFrame DEF PhaseOf
    <3>7. SC!Run(t)
      BY <1>1, <1>4, <3>4, <3>6 DEF SC!Run, PhaseOf
    <3> QED BY <3>7 DEF SC!Next
  <2> QED BY <2>6, <2>7
<1> QED BY <1>2, <1>3, <1>4 DEF GameStep, EnterDrain, DrainPop, DrainReturn, StartWork, MarkDone, TopAt

\* The queue and its lock implement a synchronous call.
THEOREM Refinement == Spec => ImplementsSyncCall
<1>1. Init => SC!Init
  BY DEF Init, SC!Init, Phase, Calls, SC!Calls
<1>2. IndInv /\ IndInv' /\ [Next]_vars => [SC!Next]_(SC!vars)
  <2> SUFFICES ASSUME IndInv, IndInv', [Next]_vars PROVE SC!Next \/ UNCHANGED SC!vars
    OBVIOUS
  <2>1. CASE \E t \in Threads : CallerStep(t)
    BY <2>1, CallerRefines DEF SC!Next
  <2>2. CASE GameStep
    BY <2>2, GameRefines DEF IndInv
  <2>3. CASE BecomeReady \/ PumpIdle \/ Dead \/ UNCHANGED vars
    BY <2>3 DEF BecomeReady, PumpIdle, Dead, vars, callerVars, SC!vars, Phase
  <2> QED BY <2>1, <2>2, <2>3 DEF Next
<1> QED BY <1>1, <1>2, Invariance, PTL DEF Spec, ImplementsSyncCall, SC!Spec

-----------------------------------------------------------------------------
\* Jobs leave the queue from its front, or one by one with the thread that gives up
\* waiting, and come in at its end: in no interleaving is one overtaken.
THEOREM QueueIsFifo == Spec => QueueFifo
<1>1. ASSUME TypeOK, Next
      PROVE  QueueStep
  <2>1. CASE BecomeReady \/ PumpIdle \/ Dead \/ EnterDrain \/ DrainReturn \/ StartWork \/ MarkDone
    BY <2>1 DEF BecomeReady, PumpIdle, Dead, EnterDrain, DrainReturn, StartWork, MarkDone, vars, QueueStep
  <2>2. CASE DrainPop
    BY <2>2 DEF DrainPop, QueueStep
  <2>3. ASSUME NEW t \in Threads, RunSyncNotReady(t) \/ WakeDone(t)
        PROVE  QueueStep
    BY <2>3 DEF RunSyncNotReady, WakeDone, QueueStep
  <2>4. ASSUME NEW t \in Threads, RunSyncPush(t)
        PROVE  QueueStep
    <3>1. PICK s \in Slots : queue' = Append(queue, <<t, s>>)
      BY <2>4 DEF RunSyncPush
    <3> QED BY <3>1 DEF QueueStep, Jobs
  <2>5. ASSUME NEW t \in Threads, Timeout(t)
        PROVE  QueueStep
    <3>1. queue \in Seq(Jobs) /\ slot \in [Threads -> Slots \cup {None}]
      BY <1>1 DEF TypeOK
    <3>2. PICK j : j = <<t, slot[t]>> /\ j[1] = t
      <4>1. <<t, slot[t]>>[1] = t
        OBVIOUS
      <4> QED BY <4>1, Zenon
    <3>3. queue' = RemoveFirst(queue, j) /\ slot[t] # None /\ slot'[t] = None
      BY <2>5, <3>1, <3>2 DEF Timeout, Return, Waiting
    <3>4. CASE \E i \in 1..Len(queue) : queue[i] = j
      <4>1. PICK i \in 1..Len(queue) : queue[i] = j /\ RemoveFirst(queue, j) = RemoveAt(queue, i)
        BY <3>1, <3>4, RemoveFirstFacts
      <4>2. i \in DOMAIN queue /\ queue[i][1] = t
        BY <3>1, <3>2, <4>1
      <4> QED BY <3>3, <4>1, <4>2 DEF QueueStep
    <3>5. CASE ~\E i \in 1..Len(queue) : queue[i] = j
      BY <3>3, <3>5 DEF RemoveFirst, QueueStep
    <3> QED BY <3>4, <3>5
  <2> QED BY <1>1, <2>1, <2>2, <2>3, <2>4, <2>5 DEF Next, CallerStep, GameStep
<1>2. TypeOK /\ [Next]_vars => [QueueStep]_vars
  BY <1>1
<1> QED BY <1>2, TypeCorrect, PTL DEF Spec, QueueFifo
=============================================================================
