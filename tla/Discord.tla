------------------------------- MODULE Discord -------------------------------
(***************************************************************************)
(* src/src/discord/webhook.cpp: a Sender per channel, with a queue that other *)
(* threads post to and a worker that sends it in batches; Start, which the     *)
(* init thread calls, and Stop, which ShutdownListeners (src/src/rsdwapi.cpp)  *)
(* calls.  A line is its number in the order of posting; a batch takes at most *)
(* BatchLines of them, for the 1900 characters of the code.                    *)
(***************************************************************************)
EXTENDS SequencesExt

CONSTANTS Channels,      \* the senders
          MaxQueue,      \* 200 in the code
          BatchLines,    \* lines that fit a batch
          Pause,         \* ticks of the pause after each round, one second in all
          MaxPosts       \* bound: lines posted to a sender

ASSUME DiscordAssumption ==
  MaxQueue \in Nat \ {0} /\ BatchLines \in Nat \ {0} /\ Pause \in Nat \ {0} /\ MaxPosts \in Nat

VARIABLES
  enabled, running,   \* the flags of each sender
  queue,              \* lines not yet taken
  worker,             \* where the worker is; `none' before Start
  batch,              \* lines taken and not yet sent
  left,               \* ticks left of the pause
  starter,            \* what Start has done so far, per sender
  stopper,            \* where Stop is, per sender
  posted,             \* history: lines posted
  sent,               \* history: the lines of the batches the webhook has taken
  dropped,            \* history: lines pushed out of a full queue
  discarded,          \* history: lines of batches that could not be sent
  since,              \* history: ticks since the last Send, at most Pause
  after               \* history: calls of Send since Stop has told the worker

threads == <<enabled, running, worker, starter, stopper>>
vars == <<threads, queue, batch, left, posted, sent, dropped, discarded, since, after>>

TypeOK ==
  /\ enabled \in [Channels -> BOOLEAN] /\ running \in [Channels -> BOOLEAN]
  /\ queue \in [Channels -> Seq(1..MaxPosts)]
  /\ \A s \in Channels : Len(queue[s]) <= MaxQueue
  /\ worker \in [Channels -> {"none", "loop", "wait", "send", "pause", "ended"}]
  /\ batch \in [Channels -> Seq(1..MaxPosts)]
  /\ left \in [Channels -> 0..Pause]
  /\ starter \in [Channels -> {"idle", "enabled", "running", "created", "stored"}]
  /\ stopper \in [Channels -> {"idle", "joining", "done"}]
  /\ posted \in [Channels -> 0..MaxPosts]
  /\ sent \in [Channels -> Seq(1..MaxPosts)]
  /\ dropped \in [Channels -> SUBSET (1..MaxPosts)]
  /\ discarded \in [Channels -> SUBSET (1..MaxPosts)]
  /\ since \in [Channels -> 0..Pause]
  /\ after \in [Channels -> Nat]

Init ==
  /\ enabled = [s \in Channels |-> FALSE] /\ running = [s \in Channels |-> FALSE]
  /\ queue = [s \in Channels |-> <<>>]
  /\ worker = [s \in Channels |-> "none"]
  /\ batch = [s \in Channels |-> <<>>]
  /\ left = [s \in Channels |-> 0]
  /\ starter = [s \in Channels |-> "idle"]
  /\ stopper = [s \in Channels |-> "idle"]
  /\ posted = [s \in Channels |-> 0]
  /\ sent = [s \in Channels |-> <<>>]
  /\ dropped = [s \in Channels |-> {}]
  /\ discarded = [s \in Channels |-> {}]
  /\ since = [s \in Channels |-> Pause]
  /\ after = [s \in Channels |-> 0]

-----------------------------------------------------------------------------
\* Start of a sender whose URL is set and safe: the two flags, the thread, and
\* the pointer to it, one after the other.  It does not look at whether Stop has
\* been called.
Starts(s, from, to) ==
  /\ starter[s] = from
  /\ starter' = [starter EXCEPT ![s] = to]
  /\ UNCHANGED <<stopper, queue, batch, left, posted, sent, dropped, discarded, since, after>>

Start(s) ==
  \/ /\ Starts(s, "idle", "enabled") /\ ~enabled[s]
     /\ enabled' = [enabled EXCEPT ![s] = TRUE]
     /\ UNCHANGED <<running, worker>>
  \/ /\ Starts(s, "enabled", "running")
     /\ running' = [running EXCEPT ![s] = TRUE]
     /\ UNCHANGED <<enabled, worker>>
  \/ /\ Starts(s, "running", "created")
     /\ worker' = [worker EXCEPT ![s] = "loop"]
     /\ UNCHANGED <<enabled, running>>
  \/ /\ Starts(s, "created", "stored")
     /\ UNCHANGED <<enabled, running, worker>>

\* Stop: a sender that does not run is left alone; otherwise its worker is told,
StopBegins(s) ==
  /\ stopper[s] = "idle"
  /\ running' = [running EXCEPT ![s] = FALSE]
  /\ stopper' = [stopper EXCEPT ![s] = IF running[s] THEN "joining" ELSE "done"]
  /\ UNCHANGED <<enabled, worker, starter, queue, batch, left, posted, sent, dropped, discarded, since,
                 after>>

\* and joined, if there is a pointer to it already.
StopReturns(s) ==
  /\ stopper[s] = "joining" /\ (starter[s] = "stored" => worker[s] = "ended")
  /\ enabled' = [enabled EXCEPT ![s] = FALSE]
  /\ stopper' = [stopper EXCEPT ![s] = "done"]
  /\ UNCHANGED <<running, worker, starter, queue, batch, left, posted, sent, dropped, discarded, since,
                 after>>

\* Post: a full queue loses its oldest line.
Post(s) ==
  /\ enabled[s] /\ posted[s] < MaxPosts
  /\ LET full == Len(queue[s]) >= MaxQueue
     IN /\ queue' = [queue EXCEPT ![s] = Append(IF full THEN Tail(@) ELSE @, posted[s] + 1)]
        /\ dropped' = IF full THEN [dropped EXCEPT ![s] = @ \cup {Head(queue[s])}] ELSE dropped
  /\ posted' = [posted EXCEPT ![s] = @ + 1]
  /\ UNCHANGED <<threads, batch, left, sent, discarded, since, after>>

-----------------------------------------------------------------------------
(* Run, the worker.                                                        *)

\* Faulty variant: for (;;): the flag is only looked at in the wait.
LoopForever(s) ==
  /\ worker[s] = "loop"
  /\ worker' = [worker EXCEPT ![s] = "wait"]
  /\ UNCHANGED <<enabled, running, starter, stopper, queue, batch, left, posted, sent, dropped, discarded,
                 since, after>>

\* Faulty variant: while (running && !queue.empty()).
LoopWhileQueued(s) ==
  /\ worker[s] = "loop"
  /\ worker' = [worker EXCEPT ![s] = IF running[s] /\ queue[s] # <<>> THEN "wait" ELSE "ended"]
  /\ UNCHANGED <<enabled, running, starter, stopper, queue, batch, left, posted, sent, dropped, discarded,
                 since, after>>

\* while (running)
Loop(s) ==
  /\ worker[s] = "loop"
  /\ worker' = [worker EXCEPT ![s] = IF running[s] THEN "wait" ELSE "ended"]
  /\ UNCHANGED <<enabled, running, starter, stopper, queue, batch, left, posted, sent, dropped, discarded,
                 since, after>>

\* Faulty variant: wait, for a line only.
TakeUntimed(s) ==
  /\ worker[s] = "wait" /\ queue[s] # <<>>
  /\ LET n == IF Len(queue[s]) < BatchLines THEN Len(queue[s]) ELSE BatchLines
     IN /\ batch' = [batch EXCEPT ![s] = SubSeq(queue[s], 1, n)]
        /\ queue' = [queue EXCEPT ![s] = SubSeq(@, n + 1, Len(@))]
  /\ worker' = [worker EXCEPT ![s] = "send"]
  /\ UNCHANGED <<enabled, running, starter, stopper, left, posted, sent, dropped, discarded, since, after>>

\* Faulty variant: a line is popped before it is known to fit.
TakePopsFirst(s) ==
  /\ worker[s] = "wait"
  /\ IF ~running[s] /\ queue[s] = <<>>
     THEN worker' = [worker EXCEPT ![s] = "ended"] /\ UNCHANGED <<queue, batch>>
     ELSE LET n == IF Len(queue[s]) < BatchLines THEN Len(queue[s]) ELSE BatchLines
          IN /\ batch' = [batch EXCEPT ![s] = SubSeq(queue[s], 1, n)]
             /\ queue' = [queue EXCEPT ![s] = SubSeq(@, n + 2, Len(@))]
             /\ worker' = [worker EXCEPT ![s] = "send"]
  /\ UNCHANGED <<enabled, running, starter, stopper, left, posted, sent, dropped, discarded, since, after>>

\* wait_for ends, by its predicate or after two seconds, and a batch is taken; or
\* the worker returns.
Take(s) ==
  /\ worker[s] = "wait"
  /\ IF ~running[s] /\ queue[s] = <<>>
     THEN worker' = [worker EXCEPT ![s] = "ended"] /\ UNCHANGED <<queue, batch>>
     ELSE LET n == IF Len(queue[s]) < BatchLines THEN Len(queue[s]) ELSE BatchLines
          IN /\ batch' = [batch EXCEPT ![s] = SubSeq(queue[s], 1, n)]
             /\ queue' = [queue EXCEPT ![s] = SubSeq(@, n + 1, Len(@))]
             /\ worker' = [worker EXCEPT ![s] = "send"]
  /\ UNCHANGED <<enabled, running, starter, stopper, left, posted, sent, dropped, discarded, since, after>>

\* The batch, if there is one, is posted to the webhook.  If curl cannot be run,
\* or the webhook does not take the batch (curl's status is not looked at), it is
\* discarded: nobody tries again.
Posts(s) ==
  IF batch[s] = <<>> THEN UNCHANGED <<sent, discarded, since, after>>
  ELSE /\ \/ sent' = [sent EXCEPT ![s] = @ \o batch[s]] /\ UNCHANGED discarded
          \/ discarded' = [discarded EXCEPT ![s] = @ \cup Range(batch[s])] /\ UNCHANGED sent
       /\ since' = [since EXCEPT ![s] = 0]
       /\ after' = IF running[s] THEN after ELSE [after EXCEPT ![s] = @ + 1]

\* Faulty variant: no pause while lines are waiting.
SendHurried(s) ==
  /\ worker[s] = "send"
  /\ Posts(s)
  /\ batch' = [batch EXCEPT ![s] = <<>>]
  /\ left' = [left EXCEPT ![s] = IF queue[s] = <<>> THEN Pause ELSE 0]
  /\ worker' = [worker EXCEPT ![s] = "pause"]
  /\ UNCHANGED <<enabled, running, starter, stopper, queue, posted, dropped>>

\* Send, if there is a batch; curl gives up after ten seconds.
Send(s) ==
  /\ worker[s] = "send"
  /\ Posts(s)
  /\ batch' = [batch EXCEPT ![s] = <<>>]
  /\ left' = [left EXCEPT ![s] = Pause]
  /\ worker' = [worker EXCEPT ![s] = "pause"]
  /\ UNCHANGED <<enabled, running, starter, stopper, queue, posted, dropped>>

\* The pause is over, or Stop has cut it short.
Resume(s) ==
  /\ worker[s] = "pause" /\ (left[s] = 0 \/ ~running[s])
  /\ worker' = [worker EXCEPT ![s] = "loop"]
  /\ UNCHANGED <<enabled, running, starter, stopper, queue, batch, left, posted, sent, dropped, discarded,
                 since, after>>

\* Time passes for everyone.
Tick ==
  /\ \E s \in Channels : left[s] > 0 \/ since[s] < Pause
  /\ left' = [s \in Channels |-> IF left[s] > 0 THEN left[s] - 1 ELSE 0]
  /\ since' = [s \in Channels |-> IF since[s] < Pause THEN since[s] + 1 ELSE Pause]
  /\ UNCHANGED <<threads, queue, batch, posted, sent, dropped, discarded, after>>

WorkerStep(s) == Loop(s) \/ Take(s) \/ Send(s) \/ Resume(s)

\* Every sender was started and has been stopped.
Quiet ==
  /\ \A s \in Channels : stopper[s] = "done" /\ worker[s] = "ended"
  /\ UNCHANGED vars

Next ==
  \/ Tick \/ Quiet
  \/ \E s \in Channels :
       Start(s) \/ StopBegins(s) \/ StopReturns(s) \/ Post(s) \/ WorkerStep(s)

Spec == Init /\ [][Next]_vars

\* A Start that has begun goes on.
StartGoesOn(s) == starter[s] # "idle" /\ Start(s)

\* The worker's waits and its pause are timed, curl has its ten seconds, and time
\* passes.
FairSpec ==
  /\ Spec
  /\ WF_vars(Tick)
  /\ \A s \in Channels : WF_vars(WorkerStep(s)) /\ WF_vars(StopReturns(s)) /\ WF_vars(StartGoesOn(s))

-----------------------------------------------------------------------------
(* Properties.                                                             *)

\* Where each line posted is that is not gone: sent, in hand or waiting, oldest first.
Alive(s) == sent[s] \o batch[s] \o queue[s]
Gone(s) == dropped[s] \cup discarded[s]
Increasing(lines) == \A i, j \in 1..Len(lines) : i < j => lines[i] < lines[j]
Complete(lines, n, gone) == Increasing(lines) /\ Range(lines) = (1..n) \ gone

\* Lines arrive in the order they were posted, none twice; the only lines that
\* are gone are those a full queue has pushed out and those of a batch whose Send
\* did not succeed.
NothingLost == \A s \in Channels : Complete(Alive(s), posted[s], Gone(s))

\* Once Stop has told the worker, it tries to send at most one more batch, so Stop waits
\* for one curl and not for a queue of them; nor does a worker that Stop came too
\* early to join try more.
OneBatchAfterStop == \A s \in Channels : after[s] <= 1

\* README: `Messages are batched and sent at most once per second', of one sender,
\* whether or not they arrive.
OncePerSecond ==
  [][\A s \in Channels :
       sent'[s] # sent[s] \/ discarded'[s] # discarded[s] => since[s] >= Pause]_vars

\* A line posted to a sender that is not stopped is sent, or pushed out, or
\* discarded with its batch: none waits for ever, however many Sends fail.
LinesArrive ==
  \A s \in Channels : \A m \in 1..MaxPosts :
    posted[s] >= m ~> stopper[s] # "idle" \/ m \in Gone(s) \/ m \in Range(sent[s])

\* Stop returns.
StopEnds == \A s \in Channels : stopper[s] = "joining" ~> stopper[s] = "done"

-----------------------------------------------------------------------------
(* The inductive invariant of the proofs, in parts.                         *)

\* The worker is started once, after `running' was set, and has a batch in hand
\* only to send it.
WorkerInv ==
  \A s \in Channels :
    /\ starter[s] \in {"idle", "enabled", "running"} <=> worker[s] = "none"
    /\ running[s] => starter[s] \notin {"idle", "enabled"}
    /\ worker[s] # "send" => batch[s] = <<>>

\* A worker that has sent a batch since Stop is on its way out.
StoppedInv ==
  \A s \in Channels :
    after[s] = 0 \/ (after[s] = 1 /\ ~running[s] /\ worker[s] \in {"pause", "loop", "ended"})

\* The pause lasts until a second has passed since the last batch, and is cut short
\* only if there will be no other.
PauseInv ==
  \A s \in Channels :
    /\ worker[s] \in {"none", "wait", "send"} => since[s] = Pause
    /\ worker[s] = "loop" => since[s] = Pause \/ ~running[s]
    /\ worker[s] = "pause" => since[s] + left[s] >= Pause

\* Only what was posted is dropped or discarded.
DroppedInv == \A s \in Channels : Gone(s) \subseteq 1..posted[s]

DiscordInv == TypeOK /\ WorkerInv /\ StoppedInv /\ PauseInv /\ DroppedInv /\ NothingLost
=============================================================================
