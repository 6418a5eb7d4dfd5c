------------------------------- MODULE SyncCall -------------------------------
(***************************************************************************)
(* What RunSync promises its callers, without queue, lock or addresses:    *)
(* a call is refused, or its closure is run once and it answers true, or    *)
(* its closure is not run and it answers false.  A caller that gives up     *)
(* while its closure may be running is lost: nothing more is promised about *)
(* that thread's calls, everything still is about the other threads'.       *)
(***************************************************************************)
EXTENDS Naturals

CONSTANTS Threads, MaxCalls

VARIABLES
  phase,    \* of each thread's current call: "idle", "pending", "ran", "lost"
  calls, runs, answer, crashed

vars == <<phase, calls, runs, answer, crashed>>

Calls == 1..MaxCalls

Init ==
  /\ phase = [t \in Threads |-> "idle"]
  /\ calls = [t \in Threads |-> 0]
  /\ runs = [t \in Threads |-> [c \in Calls |-> 0]]
  /\ answer = [t \in Threads |-> [c \in Calls |-> "none"]]
  /\ crashed = FALSE

Refuse(t) ==
  /\ phase[t] = "idle" /\ calls[t] < MaxCalls
  /\ calls' = [calls EXCEPT ![t] = @ + 1]
  /\ answer' = [answer EXCEPT ![t][calls[t] + 1] = "false"]
  /\ UNCHANGED <<phase, runs, crashed>>

Submit(t) ==
  /\ phase[t] = "idle" /\ calls[t] < MaxCalls
  /\ calls' = [calls EXCEPT ![t] = @ + 1]
  /\ phase' = [phase EXCEPT ![t] = "pending"]
  /\ UNCHANGED <<runs, answer, crashed>>

Run(t) ==
  /\ phase[t] = "pending"
  /\ phase' = [phase EXCEPT ![t] = "ran"]
  /\ runs' = [runs EXCEPT ![t][calls[t]] = 1]
  /\ UNCHANGED <<calls, answer, crashed>>

Answer(t) ==
  /\ phase[t] \in {"pending", "ran"}
  /\ answer' = [answer EXCEPT ![t][calls[t]] =
                  IF phase[t] = "ran" THEN "true" ELSE "false"]
  /\ phase' = [phase EXCEPT ![t] = "idle"]
  /\ UNCHANGED <<calls, runs, crashed>>

\* Giving up on a closure the game thread has already taken.
GiveUp(t) ==
  /\ phase[t] \in {"pending", "ran"}
  /\ answer' = [answer EXCEPT ![t][calls[t]] = "false"]
  /\ phase' = [phase EXCEPT ![t] = "lost"]
  /\ UNCHANGED <<calls, runs, crashed>>

\* A step of, or on behalf of, a lost thread touches that thread alone.
LostStep(t) ==
  /\ phase[t] = "lost"
  /\ \A u \in Threads \ {t} :
       calls'[u] = calls[u] /\ runs'[u] = runs[u] /\ answer'[u] = answer[u]
  /\ UNCHANGED <<phase, crashed>>

\* A dead frame is dereferenced.
Crash ==
  /\ \E t \in Threads : phase[t] = "lost"
  /\ ~crashed /\ crashed' = TRUE
  /\ UNCHANGED <<phase, calls, runs, answer>>

Next ==
  \/ \E t \in Threads :
       Refuse(t) \/ Submit(t) \/ Run(t) \/ Answer(t) \/ GiveUp(t) \/ LostStep(t)
  \/ Crash

Spec == Init /\ [][Next]_vars
=============================================================================
