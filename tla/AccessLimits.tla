----------------------------- MODULE AccessLimits -----------------------------
(***************************************************************************)
(* The two per-address records an RCON server keeps, over time: the command  *)
(* limiter, which handler threads ask before every command, and the tracker  *)
(* of failed logins, which the listener asks for every new connection and to  *)
(* which handlers of connections accepted earlier report whenever they get to *)
(* it, also during a block.  Each call is one step under its object's mutex.  *)
(***************************************************************************)
EXTENDS AccessControl, Sequences, FiniteSets

CONSTANTS Addrs,      \* client addresses
          MaxTime,    \* bound: the clock
          MaxFails    \* bound: failures in a row

ASSUME BoundsAssumption == MaxTime \in Nat /\ MaxFails \in Nat

VARIABLES
  now,        \* the steady clock, in seconds
  buckets,    \* m_CommandLimiter's m_Buckets
  granted,    \* history: when each address's commands were granted
  entries,    \* m_AuthFailures' m_Entries
  failed,     \* history: times of the failures counted since the last block,
              \* success or expiry
  blockedAt   \* history: when the last block was set, 0 before

limiterVars == <<buckets, granted>>
trackerVars == <<entries, failed, blockedAt>>
vars == <<now, limiterVars, trackerVars>>

LimiterType ==
  /\ now \in Nat \ {0}
  /\ buckets \in [Addrs -> Buckets]
  /\ granted \in [Addrs -> Seq(Nat)]
TrackerType ==
  /\ now \in Nat \ {0}
  /\ entries \in [Addrs -> Entries]
  /\ failed \in [Addrs -> Seq(Nat)]
  /\ blockedAt \in [Addrs -> Nat]
TypeOK == LimiterType /\ TrackerType

Init ==
  /\ now = 1
  /\ buckets = [a \in Addrs |-> NoBucket]
  /\ granted = [a \in Addrs |-> <<>>]
  /\ entries = [a \in Addrs |-> NoEntry]
  /\ failed = [a \in Addrs |-> <<>>]
  /\ blockedAt = [a \in Addrs |-> 0]

Tick ==
  /\ now < MaxTime
  /\ now' = now + 1
  /\ UNCHANGED <<limiterVars, trackerVars>>

-----------------------------------------------------------------------------
(* The limiter.                                                            *)

\* Faulty variant: a refused command does not move the bucket's time stamp, so
\* the same seconds are refilled twice.
AllowStaleLast(a) ==
  /\ LimiterEnabled
  /\ buckets' = [buckets EXCEPT ![a] =
       [AfterAllow(@, now) EXCEPT !.last = IF Grants(buckets[a], now) THEN now ELSE buckets[a].last]]
  /\ granted' = IF Grants(buckets[a], now)
                THEN [granted EXCEPT ![a] = Append(@, now)] ELSE granted
  /\ UNCHANGED <<now, trackerVars>>

\* Allow; with the limiter disabled it returns true and keeps nothing.
Allow(a) ==
  /\ LimiterEnabled
  /\ buckets' = [buckets EXCEPT ![a] = AfterAllow(@, now)]
  /\ granted' = IF Grants(buckets[a], now)
                THEN [granted EXCEPT ![a] = Append(@, now)] ELSE granted
  /\ UNCHANGED <<now, trackerVars>>

-----------------------------------------------------------------------------
(* The tracker.                                                            *)

\* The history is forgotten where the entry is.
Forgets(a) == entries'[a] = NoEntry

IsBlocked(a) ==
  /\ entries' = [entries EXCEPT ![a] = AfterIsBlocked(@, now)]
  /\ failed' = IF Forgets(a) THEN [failed EXCEPT ![a] = <<>>] ELSE failed
  /\ UNCHANGED <<now, limiterVars, blockedAt>>

Blocks(a) == TrackerEnabled /\ FailuresAfter(entries[a], now) >= MaxFailedAuth

\* Faulty variant: the comparison with MaxFailedAuth is off by one.
RecordFailureLate(a) ==
  /\ Len(failed[a]) < MaxFails
  /\ LET n == FailuresAfter(entries[a], now)
     IN /\ entries' = [entries EXCEPT ![a] =
              [failures |-> IF n <= MaxFailedAuth THEN n ELSE 0,
               windowStart |-> IF n = 1 THEN now ELSE @.windowStart,
               blockedUntil |-> IF n <= MaxFailedAuth THEN @.blockedUntil ELSE now + Ban]]
        /\ failed' = [failed EXCEPT ![a] = IF n <= MaxFailedAuth THEN Append(@, now) ELSE <<>>]
        /\ blockedAt' = IF n <= MaxFailedAuth THEN blockedAt ELSE [blockedAt EXCEPT ![a] = now]
  /\ UNCHANGED <<now, limiterVars>>

\* RecordFailure, and whether it sets a block.
RecordFailure(a) ==
  /\ Len(failed[a]) < MaxFails
  /\ entries' = [entries EXCEPT ![a] = AfterFailure(@, now)]
  /\ failed' = [failed EXCEPT ![a] = IF Blocks(a) THEN <<>> ELSE Append(@, now)]
  /\ blockedAt' = IF Blocks(a) THEN [blockedAt EXCEPT ![a] = now] ELSE blockedAt
  /\ UNCHANGED <<now, limiterVars>>

\* Faulty variant: a success forgets the address also during its block.
RecordSuccessAlways(a) ==
  /\ entries' = [entries EXCEPT ![a] = NoEntry]
  /\ failed' = [failed EXCEPT ![a] = <<>>]
  /\ UNCHANGED <<now, limiterVars, blockedAt>>

RecordSuccess(a) ==
  /\ entries' = [entries EXCEPT ![a] = AfterSuccess(@, now)]
  /\ failed' = IF Forgets(a) THEN [failed EXCEPT ![a] = <<>>] ELSE failed
  /\ UNCHANGED <<now, limiterVars, blockedAt>>

Next ==
  \/ Tick
  \/ \E a \in Addrs : Allow(a) \/ IsBlocked(a) \/ RecordFailure(a) \/ RecordSuccess(a)

Spec == Init /\ [][Next]_vars

-----------------------------------------------------------------------------
(* Properties.                                                             *)

\* What `CommandsPerMinute' and `CommandBurst' promise: over any stretch of time
\* an address is granted at most the burst and the sustained rate.
RateBound ==
  \A a \in Addrs : \A i, k \in DOMAIN granted[a] : i <= k =>
    60 * (k - i + 1) <= 60 * Burst + CommandsPerMinute * (granted[a][k] - granted[a][i])

\* The inductive form: what is left in the bucket counts as granted already.
BucketBound ==
  \A a \in Addrs : LET b == buckets[a] IN
    /\ b = NoBucket <=> granted[a] = <<>>
    /\ b # NoBucket => b.last \in 1..now
    /\ b.tokens <= 60 * Burst
    /\ \A i \in DOMAIN granted[a] :
         /\ granted[a][i] <= b.last
         /\ 60 * (Len(granted[a]) - i + 1) + b.tokens
              <= 60 * Burst + CommandsPerMinute * (b.last - granted[a][i])

\* A block lasts its BanSeconds, whatever the connections accepted before it
\* still do: late failures, a late success, the listener's own look-ups.
BlockLasts ==
  \A a \in Addrs :
    blockedAt[a] # 0 /\ now < blockedAt[a] + Ban => Blocked(entries[a], now)

\* The failures of an address that the tracker has let pass within one window's
\* length of each other.
Recent(a, i) ==
  {k \in DOMAIN failed[a] : k >= i /\ failed[a][k] - failed[a][i] <= Window}

\* The guarantee a fixed window gives: no stretch of FailWindowSeconds sees more
\* than twice MaxFailedAuth - 1 failures without a block.
WindowBound ==
  TrackerEnabled =>
    \A a \in Addrs : \A i \in DOMAIN failed[a] :
      Cardinality(Recent(a, i)) <= 2 * (MaxFailedAuth - 1)

\* The inductive form of BlockLasts: the entry remembers the end of the block.
BlockRemembered ==
  \A a \in Addrs : blockedAt[a] # 0 =>
    /\ TrackerEnabled
    /\ now < blockedAt[a] + Ban => entries[a].blockedUntil >= blockedAt[a] + Ban

\* The inductive form of WindowBound, of an address with failures f and entry e at
\* time t: the failures of earlier windows began no later than this window, those
\* before the last earlier one more than its length ago.
WindowKept(f, e, t) ==
  LET old == Len(f) - e.failures
  IN /\ e.failures < MaxFailedAuth /\ old >= 0 /\ (e.failures = 0 <=> f = <<>>)
     /\ e.windowStart <= t /\ \A i \in DOMAIN f : f[i] <= t
     /\ \A i \in DOMAIN f :
          /\ i <= old => f[i] <= e.windowStart
          /\ i <= old - (MaxFailedAuth - 1) => e.windowStart - f[i] > Window
     /\ \A i, k \in DOMAIN f : k - i >= 2 * (MaxFailedAuth - 1) => f[k] - f[i] > Window

WindowInv == TrackerEnabled => \A a \in Addrs : WindowKept(failed[a], entries[a], now)
=============================================================================
