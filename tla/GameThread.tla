------------------------------ MODULE GameThread ------------------------------
(***************************************************************************)
(* The job queue of src/src/engine/process_event.cpp: RunSync, called by   *)
(* the listener, command and enforcement threads, hands a closure to the   *)
(* game thread, which runs it from Drain inside a hooked engine call.      *)
(*                                                                         *)
(* A Job is a local variable of RunSync.  Its identity is an address on    *)
(* the caller's stack, <<t, s>>: a later call of t may put its Job at the  *)
(* same address or at another one, depending on the depth of its frames.   *)
(* Drain drops the queue's lock while it runs a job, so a caller that times *)
(* out then leaves the game thread with a pointer to a dead frame.         *)
(***************************************************************************)
EXTENDS Naturals, Sequences, SequencesExt

CONSTANTS Threads,    \* the threads, other than the game's, that call RunSync
          Slots,      \* where on its stack a thread's Job may lie
          MaxCalls,   \* bound: calls of RunSync per thread
          MaxNest,    \* bound: activations of Drain on the game thread's stack
          None        \* no job, no slot

ASSUME SlotsAssumption == None \notin Slots
ASSUME NoneAssumption == None \notin Threads \X Slots
ASSUME MaxCallsAssumption == MaxCalls \in Nat
ASSUME MaxNestAssumption == MaxNest \in Nat

Jobs == Threads \X Slots
Calls == 1..MaxCalls

VARIABLES
  ready,    \* g_Ready
  queue,    \* g_Queue: addresses of Jobs, in the order they were pushed
  stack,    \* the game thread's activations of Drain, the innermost last
  mem,      \* what lies at each Job address: the call whose Job it is, job.done
  slot,     \* where the Job of the call a thread is waiting in lies, or None
  calls,    \* how many calls of RunSync each thread has made
  runs,     \* history: how often the closure of each call was started
  answer,   \* history: what each call of RunSync returned
  lost,     \* threads that left a Job behind in the game thread's hands
  crashed   \* the process died of a dereference of a dead frame

vars == <<ready, queue, stack, mem, slot, calls, runs, answer, lost, crashed>>
callerVars == <<slot, calls, answer, lost>>

\* An activation of Drain: between jobs, holding a popped Job it has not
\* dereferenced, or inside a Job's closure.
Frames == [at : {"drain"}, job : {None}] \cup [at : {"popped", "running"}, job : Jobs]

TypeOK ==
  /\ ready \in BOOLEAN
  /\ queue \in Seq(Jobs)
  /\ stack \in Seq(Frames)
  /\ mem \in [Jobs -> [call : 0..MaxCalls, done : BOOLEAN]]
  /\ slot \in [Threads -> Slots \cup {None}]
  /\ calls \in [Threads -> 0..MaxCalls]
  /\ runs \in [Threads -> [Calls -> Nat]]
  /\ answer \in [Threads -> [Calls -> {"none", "true", "false"}]]
  /\ lost \in SUBSET Threads
  /\ crashed \in BOOLEAN

Init ==
  /\ ready = FALSE
  /\ queue = <<>>
  /\ stack = <<>>
  /\ mem = [j \in Jobs |-> [call |-> 0, done |-> FALSE]]
  /\ slot = [t \in Threads |-> None]
  /\ calls = [t \in Threads |-> 0]
  /\ runs = [t \in Threads |-> [c \in Calls |-> 0]]
  /\ answer = [t \in Threads |-> [c \in Calls |-> "none"]]
  /\ lost = {}
  /\ crashed = FALSE

\* The Job at j belongs to a call that has not returned.
Live(j) == slot[j[1]] = j[2]

\* The frame of a Job the game thread has popped and not finished with.
Holds(f, j) == f.job = j

Held(j) == \E i \in DOMAIN stack : Holds(stack[i], j)

-----------------------------------------------------------------------------
(* The calling threads.                                                    *)

\* Initialize or InstallExecPump succeeds, on the init thread.
BecomeReady ==
  /\ ~crashed /\ ~ready
  /\ ready' = TRUE
  /\ UNCHANGED <<queue, stack, mem, callerVars, runs, crashed>>

CanCall(t) == ~crashed /\ slot[t] = None /\ calls[t] < MaxCalls

\* RunSync before the pump is installed.
RunSyncNotReady(t) ==
  /\ CanCall(t) /\ ~ready
  /\ calls' = [calls EXCEPT ![t] = @ + 1]
  /\ answer' = [answer EXCEPT ![t][calls[t] + 1] = "false"]
  /\ UNCHANGED <<ready, queue, stack, mem, slot, runs, lost, crashed>>

\* Faulty variant: push_front for push_back.
RunSyncPushFront(t) ==
  /\ CanCall(t) /\ ready
  /\ \E s \in Slots :
       /\ slot' = [slot EXCEPT ![t] = s]
       /\ mem' = [mem EXCEPT ![<<t, s>>] = [call |-> calls[t] + 1, done |-> FALSE]]
       /\ queue' = <<<<t, s>>>> \o queue
  /\ calls' = [calls EXCEPT ![t] = @ + 1]
  /\ UNCHANGED <<ready, stack, runs, answer, lost, crashed>>

\* RunSync up to wait_for: the Job is made on the stack and pushed.
RunSyncPush(t) ==
  /\ CanCall(t) /\ ready
  /\ \E s \in Slots :
       /\ slot' = [slot EXCEPT ![t] = s]
       /\ mem' = [mem EXCEPT ![<<t, s>>] = [call |-> calls[t] + 1, done |-> FALSE]]
       /\ queue' = Append(queue, <<t, s>>)
  /\ calls' = [calls EXCEPT ![t] = @ + 1]
  /\ UNCHANGED <<ready, stack, runs, answer, lost, crashed>>

Waiting(t) == ~crashed /\ slot[t] # None

\* RunSync returns v; its frame, and the Job in it, die.
Return(t, v) ==
  /\ answer' = [answer EXCEPT ![t][calls[t]] = v]
  /\ slot' = [slot EXCEPT ![t] = None]
  /\ UNCHANGED <<ready, stack, mem, calls, runs, crashed>>

\* wait_for finds job.done set.
WakeDone(t) ==
  /\ Waiting(t) /\ mem[<<t, slot[t]>>].done
  /\ Return(t, "true")
  /\ UNCHANGED <<queue, lost>>

\* Faulty variant: the timed-out Job stays in the queue.
TimeoutKeepsEntry(t) ==
  /\ Waiting(t) /\ ~mem[<<t, slot[t]>>].done
  /\ lost' = IF Held(<<t, slot[t]>>) THEN lost \cup {t} ELSE lost
  /\ Return(t, "false")
  /\ UNCHANGED queue

\* wait_for expires with job.done still clear: the first entry of the queue
\* that points to the Job is erased, under the lock wait_for has taken again.
\* Nothing takes it back from a game thread that has already popped it.
Timeout(t) ==
  /\ Waiting(t) /\ ~mem[<<t, slot[t]>>].done
  /\ queue' = RemoveFirst(queue, <<t, slot[t]>>)
  /\ lost' = IF Held(<<t, slot[t]>>) THEN lost \cup {t} ELSE lost
  /\ Return(t, "false")

-----------------------------------------------------------------------------
(* The game thread.  Only its innermost activation of Drain moves.         *)

Top == stack[Len(stack)]

TopAt(a) == ~crashed /\ stack # <<>> /\ Top.at = a

SetTop(f) == stack' = [stack EXCEPT ![Len(stack)] = f]

\* PumpThunk or HookedProcessEvent finds no work and calls the original.
PumpIdle ==
  /\ ~crashed /\ stack = <<>> /\ queue = <<>>
  /\ UNCHANGED vars

\* PumpThunk or HookedProcessEvent finds work.  The engine calls the hooked
\* function from its own tick, or from inside a job's closure: the native
\* function a job invokes may reach it again.
EnterDrain ==
  /\ ~crashed /\ queue # <<>>
  /\ stack # <<>> => Top.at = "running"
  /\ Len(stack) < MaxNest
  /\ stack' = Append(stack, [at |-> "drain", job |-> None])
  /\ UNCHANGED <<ready, queue, mem, callerVars, runs, crashed>>

\* Faulty variant: done is set when the Job is popped.
DrainPopMarks ==
  /\ TopAt("drain") /\ queue # <<>>
  /\ SetTop([at |-> "popped", job |-> Head(queue)])
  /\ queue' = Tail(queue)
  /\ mem' = [mem EXCEPT ![Head(queue)].done = TRUE]
  /\ UNCHANGED <<ready, callerVars, runs, crashed>>

\* The locked block that pops the front of the queue.
DrainPop ==
  /\ TopAt("drain") /\ queue # <<>>
  /\ SetTop([at |-> "popped", job |-> Head(queue)])
  /\ queue' = Tail(queue)
  /\ UNCHANGED <<ready, mem, callerVars, runs, crashed>>

\* The queue is empty: Drain returns.
DrainReturn ==
  /\ TopAt("drain") /\ queue = <<>>
  /\ stack' = Front(stack)
  /\ UNCHANGED <<ready, queue, mem, callerVars, runs, crashed>>

\* (*job->work)() starts.  The bytes at a dead Job's address are whatever the
\* last call to use it left there, or something else.
StartWork ==
  /\ TopAt("popped")
  /\ LET j == Top.job
         c == mem[j].call
     IN \/ /\ runs' = [runs EXCEPT ![j[1]][c] = @ + 1]
           /\ SetTop([at |-> "running", job |-> j])
           /\ UNCHANGED crashed
        \/ /\ ~Live(j)
           /\ crashed' = TRUE
           /\ UNCHANGED <<runs, stack>>
  /\ UNCHANGED <<ready, queue, mem, callerVars>>

\* Faulty variant: done is never set.
MarkNothing ==
  /\ TopAt("running")
  /\ SetTop([at |-> "drain", job |-> None])
  /\ UNCHANGED <<ready, queue, mem, callerVars, runs, crashed>>

\* The closure has ended, by returning or by an exception Drain swallows, and
\* job->done is set, wherever job now points.
MarkDone ==
  /\ TopAt("running")
  /\ LET j == Top.job
     IN \/ /\ mem' = [mem EXCEPT ![j].done = TRUE]
           /\ SetTop([at |-> "drain", job |-> None])
           /\ UNCHANGED crashed
        \/ /\ ~Live(j)
           /\ crashed' = TRUE
           /\ UNCHANGED <<mem, stack>>
  /\ UNCHANGED <<ready, queue, callerVars, runs>>

\* The process is gone.
Dead ==
  /\ crashed
  /\ UNCHANGED vars

CallerStep(t) ==
  RunSyncNotReady(t) \/ RunSyncPush(t) \/ WakeDone(t) \/ Timeout(t)

GameStep == EnterDrain \/ DrainPop \/ DrainReturn \/ StartWork \/ MarkDone

Next ==
  \/ BecomeReady
  \/ \E t \in Threads : CallerStep(t)
  \/ PumpIdle \/ GameStep
  \/ Dead

Spec == Init /\ [][Next]_vars

\* The engine calls the hooked function again and again and a closure ends, so
\* the game thread keeps moving; a caller whose Job is done wakes.  Nothing makes
\* a thread call RunSync, and nothing makes one time out.
FairSpec ==
  /\ Spec
  /\ WF_vars(GameStep)
  /\ \A t \in Threads : WF_vars(WakeDone(t))

-----------------------------------------------------------------------------
(* Properties.                                                             *)

\* Where a thread's call stands, as the abstract specification sees it.
Phase(t) ==
  IF t \in lost THEN "lost"
  ELSE IF slot[t] = None THEN "idle"
  ELSE IF runs[t][calls[t]] = 0 THEN "pending" ELSE "ran"

\* The queue, its lock and the two threads' steps on them implement a
\* synchronous call, for every thread that is not lost.
SC == INSTANCE SyncCall WITH phase <- [t \in Threads |-> Phase(t)]
ImplementsSyncCall == SC!Spec

\* What RunSync's callers build on: a call that returned true had its closure
\* started exactly once, a call that returned false had it started not at all.
\* KickPlayer, GiveItem and Broadcast report, and KickPlayer remembers the
\* kick, by that answer.  It holds for every thread that never timed out while
\* the game thread held its Job, whatever other threads have left behind.
AnswerIsTrue ==
  \A t \in Threads \ lost : \A c \in Calls :
    /\ answer[t][c] = "true" => runs[t][c] = 1
    /\ answer[t][c] = "false" => runs[t][c] = 0

\* The same without the exemption: `the game thread did not run the kick within
\* 10s' (kick.cpp) is what a caller reports on false.
FalseMeansNotRun ==
  \A t \in Threads : \A c \in Calls : answer[t][c] = "false" => runs[t][c] = 0

\* A caller that waits has its Job in the queue or in the game thread's hands,
\* once: no interleaving of push, pop, erase and wake-up strands it until its
\* timeout, and none gives the game thread a second pointer to it.
WaitingJobIsReachable ==
  \A t \in Threads \ lost : \A s \in Slots :
    slot[t] = s /\ ~mem[<<t, s>>].done =>
       \/ Held(<<t, s>>) /\ ~Contains(queue, <<t, s>>)
       \/ ~Held(<<t, s>>) /\ Contains(queue, <<t, s>>)

\* The process dies of a dead frame only after some caller has timed out on a
\* Job the game thread was holding.
CrashNeedsLostJob == crashed => lost # {}

\* Closures start in the order their Jobs were pushed: a step takes from the
\* queue its front, or, on a timeout, one entry of the thread that gives up.
QueueStep ==
  \/ queue' = queue
  \/ \E j \in Jobs : queue' = Append(queue, j)
  \/ queue # <<>> /\ queue' = Tail(queue)
  \/ \E i \in DOMAIN queue : LET t == queue[i][1] IN
       slot[t] # None /\ slot'[t] = None /\ queue' = RemoveAt(queue, i)
QueueFifo == [][QueueStep]_vars

\* Every caller gets its answer from the game thread: none depends on its
\* timeout, so no wake-up is lost between done, the notify and the wait.
CallsReturn == \A t \in Threads : slot[t] # None ~> (slot[t] = None \/ crashed)

-----------------------------------------------------------------------------
(* The inductive invariant behind AnswerIsTrue and WaitingJobIsReachable.   *)

Queued(j) == Contains(queue, j)

HeldAt(j, a) == \E i \in DOMAIN stack : Holds(stack[i], j) /\ stack[i].at = a

\* The queue and the game thread have one pointer to j between them, at most.
Single(j) ==
  /\ \A i, k \in DOMAIN queue : queue[i] = j /\ queue[k] = j => i = k
  /\ \A i, k \in DOMAIN stack : Holds(stack[i], j) /\ Holds(stack[k], j) => i = k
  /\ ~(Queued(j) /\ Held(j))

\* A Job is reachable exactly while its caller waits for it; it carries the
\* caller's current call, whose closure has been started once if the game thread
\* is inside it or done with it, and otherwise not.
JobInv(t, s) == LET j == <<t, s>> IN
  /\ Single(j)
  /\ Queued(j) \/ Held(j) <=> slot[t] = s /\ ~mem[j].done
  /\ slot[t] = s =>
       /\ calls[t] \in Calls
       /\ mem[j].call = calls[t]
       /\ runs[t][calls[t]] = IF mem[j].done \/ HeldAt(j, "running") THEN 1 ELSE 0

\* Calls that have returned were answered by what was run; later ones are new.
CallInv(t, c) ==
  /\ c < calls[t] \/ (c = calls[t] /\ slot[t] = None) =>
       \/ answer[t][c] = "true" /\ runs[t][c] = 1
       \/ answer[t][c] = "false" /\ runs[t][c] = 0
  /\ c = calls[t] /\ slot[t] # None => answer[t][c] = "none"
  /\ c > calls[t] => answer[t][c] = "none" /\ runs[t][c] = 0

IndInv ==
  /\ TypeOK
  /\ \A t \in Threads \ lost :
       (\A s \in Slots : JobInv(t, s)) /\ (\A c \in Calls : CallInv(t, c))
  /\ CrashNeedsLostJob
=============================================================================
