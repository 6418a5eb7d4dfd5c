---------------------------- MODULE AccessControl ----------------------------
(***************************************************************************)
(* RateLimiter and FailureTracker of src/src/net/access_control.cpp, as      *)
(* functions from a bucket or an entry and the time to the next one.         *)
(* Times are whole seconds of the steady clock; 0 is the default time_point. *)
(* Tokens are counted in sixtieths of a command, so that PerMinute of them   *)
(* are refilled each second and the arithmetic is exact (the code computes    *)
(* in doubles).                                                              *)
(***************************************************************************)
EXTENDS Integers

CONSTANTS CommandsPerMinute, CommandBurst,                  \* [RCON] settings
          MaxFailedAuth, FailWindowSeconds, BanSeconds

ASSUME SettingsAssumption ==
  /\ CommandsPerMinute \in Int /\ CommandBurst \in Int
  /\ MaxFailedAuth \in Int /\ FailWindowSeconds \in Int /\ BanSeconds \in Int

-----------------------------------------------------------------------------
(* RateLimiter: a token bucket per address.                                *)

LimiterEnabled == CommandsPerMinute > 0

\* RateLimiter::Configure: an unset burst is a minute's worth, at least one.
Burst ==
  LET b == IF CommandBurst > 0 THEN CommandBurst ELSE CommandsPerMinute
  IN IF b < 1 THEN 1 ELSE b

NoBucket == [tokens |-> 0, last |-> 0]     \* the address is not in m_Buckets
Buckets == [tokens : Nat, last : Nat]

\* The tokens in bucket b at time now, capped at the burst.
Refilled(b, now) ==
  LET t == b.tokens + CommandsPerMinute * (now - b.last)
  IN IF t > 60 * Burst THEN 60 * Burst ELSE t

\* RateLimiter::Allow's answer, and the bucket it leaves.
Grants(b, now) == b = NoBucket \/ Refilled(b, now) >= 60
AfterAllow(b, now) ==
  [tokens |-> IF b = NoBucket THEN 60 * Burst - 60
              ELSE IF Refilled(b, now) >= 60 THEN Refilled(b, now) - 60
              ELSE Refilled(b, now),
   last |-> now]

-----------------------------------------------------------------------------
(* FailureTracker: a fixed window of failures, and a block, per address.    *)

TrackerEnabled == MaxFailedAuth > 0

\* FailureTracker::Configure's defaults.
Window == IF FailWindowSeconds > 0 THEN FailWindowSeconds ELSE 60
Ban == IF BanSeconds > 0 THEN BanSeconds ELSE 300

NoEntry == [failures |-> 0, windowStart |-> 0, blockedUntil |-> 0]
Entries == [failures : Nat, windowStart : Nat, blockedUntil : Nat]

\* FailureTracker::IsBlocked's answer, and the entry it leaves: one whose block
\* has run out is erased.
Blocked(e, now) == TrackerEnabled /\ e.blockedUntil > now
AfterIsBlocked(e, now) ==
  IF TrackerEnabled /\ ~Blocked(e, now) /\ e.blockedUntil # 0 THEN NoEntry ELSE e

\* FailureTracker::RecordFailure.  A block that is in force is not looked at: a
\* failure during it opens a new window.
FailuresAfter(e, now) ==
  IF e.failures = 0 \/ now - e.windowStart > Window THEN 1 ELSE e.failures + 1
AfterFailure(e, now) ==
  IF ~TrackerEnabled THEN e
  ELSE [failures |-> IF FailuresAfter(e, now) < MaxFailedAuth THEN FailuresAfter(e, now) ELSE 0,
        windowStart |-> IF FailuresAfter(e, now) = 1 THEN now ELSE e.windowStart,
        blockedUntil |-> IF FailuresAfter(e, now) < MaxFailedAuth THEN e.blockedUntil
                         ELSE now + Ban]

\* FailureTracker::RecordSuccess forgets the address unless it is blocked.
AfterSuccess(e, now) ==
  IF TrackerEnabled /\ e.blockedUntil <= now THEN NoEntry ELSE e
=============================================================================
