------------------------- MODULE AccessLimitsProofs -------------------------
(***************************************************************************)
(* The rate bound and the length of a block, for every setting and any number *)
(* of addresses, commands, logins and seconds.  The limiter and the tracker   *)
(* share only the clock, so each has an inductive invariant of its own.       *)
(***************************************************************************)
EXTENDS AccessLimits, SequenceLemmas, FiniteSetTheorems, TLAPS

USE SettingsAssumption, BoundsAssumption

LimiterInv == LimiterType /\ RateBound /\ BucketBound
TrackerInv == TrackerType /\ BlockRemembered

\* The burst is at least one command.
LEMMA BurstType == Burst \in Nat \ {0}
  BY DEF Burst

\* The tokens earned over two stretches of time add up.
LEMMA Distribute ==
  ASSUME NEW p \in Int, NEW x \in Int, NEW y \in Int, NEW z \in Int
  PROVE  p * (x - z) = p * (x - y) + p * (y - z)
  OBVIOUS

\* What a stretch of time earns is a natural number.
LEMMA ProductNat ==
  ASSUME NEW p \in Nat, NEW x \in Nat
  PROVE  p * x \in Nat
  OBVIOUS

\* Refilling adds at most what the elapsed time earns and stays within the burst.
LEMMA RefilledFacts ==
  ASSUME LimiterEnabled, NEW b \in Buckets, NEW t \in Nat, b.last <= t,
         b.tokens <= 60 * Burst
  PROVE  /\ Refilled(b, t) \in Nat
         /\ Refilled(b, t) <= 60 * Burst
         /\ Refilled(b, t) <= b.tokens + CommandsPerMinute * (t - b.last)
<1>1. CommandsPerMinute \in Nat /\ t - b.last \in Nat /\ b.tokens \in Nat
  BY DEF LimiterEnabled, Buckets
<1>2. CommandsPerMinute * (t - b.last) \in Nat
  BY <1>1, ProductNat
<1> QED BY <1>1, <1>2, BurstType DEF Refilled

\* Every step keeps the limiter's invariant.
LEMMA LimiterStep ==
  ASSUME LimiterInv, [Next]_vars
  PROVE  LimiterInv'
<1>1. CASE Tick
  <2>1. LimiterType'
    BY <1>1 DEF LimiterInv, LimiterType, Tick, limiterVars
  <2>2. RateBound' /\ BucketBound'
    BY <1>1 DEF LimiterInv, LimiterType, Tick, limiterVars, RateBound, BucketBound
  <2> QED BY <2>1, <2>2 DEF LimiterInv
<1>2. CASE UNCHANGED <<now, limiterVars>>
  BY <1>2 DEF LimiterInv, LimiterType, RateBound, BucketBound, limiterVars
<1>3. ASSUME NEW a \in Addrs, Allow(a)
      PROVE  LimiterInv'
  <2> DEFINE b == buckets[a]
             c == AfterAllow(b, now)
             g == granted[a]
             g2 == IF Grants(b, now) THEN Append(g, now) ELSE g
             n == Len(g)
  <2>1. /\ LimiterEnabled /\ now' = now
        /\ buckets' = [buckets EXCEPT ![a] = c] /\ granted' = [granted EXCEPT ![a] = g2]
        /\ b \in Buckets /\ g \in Seq(Nat) /\ now \in Nat \ {0}
    BY <1>3 DEF Allow, LimiterInv, LimiterType
  <2>2. /\ b.tokens \in Nat /\ b.last \in Nat /\ b.last <= now /\ b.tokens <= 60 * Burst
        /\ b = NoBucket <=> g = <<>>
        /\ \A i \in 1..n :
             /\ g[i] <= b.last /\ g[i] \in Nat
             /\ 60 * (n - i + 1) + b.tokens
                  <= 60 * Burst + CommandsPerMinute * (b.last - g[i])
    <3>1. b = NoBucket \/ b.last \in 1..now
      BY <2>1 DEF LimiterInv, BucketBound
    <3>2. b.last \in Nat /\ b.last <= now
      BY <2>1, <3>1 DEF Buckets, NoBucket
    <3>3. /\ b.tokens <= 60 * Burst
          /\ b = NoBucket <=> g = <<>>
          /\ \A i \in DOMAIN g :
               /\ g[i] <= b.last
               /\ 60 * (n - i + 1) + b.tokens
                    <= 60 * Burst + CommandsPerMinute * (b.last - g[i])
      BY DEF LimiterInv, BucketBound
    <3>4. b.tokens \in Nat
      BY <2>1 DEF Buckets
    <3>5. DOMAIN g = 1..n /\ \A i \in 1..n : g[i] \in Nat
      BY <2>1
    <3> HIDE DEF b, g, n
    <3> QED BY <3>2, <3>3, <3>4, <3>5
  <2>3. /\ Refilled(b, now) \in Nat /\ Refilled(b, now) <= 60 * Burst
        /\ Refilled(b, now) <= b.tokens + CommandsPerMinute * (now - b.last)
    BY <2>1, <2>2, RefilledFacts
  <2>4. /\ c.last = now /\ c.tokens \in Nat /\ c.tokens <= 60 * Burst /\ c \in Buckets /\ c # NoBucket
        /\ Grants(b, now) => c.tokens + 60 <= 60 * Burst
        /\ b # NoBucket => c.tokens + (IF Grants(b, now) THEN 60 ELSE 0) = Refilled(b, now)
        /\ ~Grants(b, now) => b # NoBucket
    BY <2>1, <2>3, BurstType DEF AfterAllow, Grants, Buckets, NoBucket
  <2>5. /\ n \in Nat /\ DOMAIN g = 1..n /\ g2 \in Seq(Nat)
        /\ Len(g2) = IF Grants(b, now) THEN n + 1 ELSE n
        /\ DOMAIN g2 = 1..Len(g2)
        /\ \A i \in 1..n : g2[i] = g[i]
        /\ Grants(b, now) => g2[n + 1] = now
    BY <2>1
  <2>6. n = 0 <=> g = <<>>
    BY <2>1, <2>5
  <2> HIDE DEF b, c, g, g2, n
  <2>7. ASSUME NEW i \in 1..n
        PROVE  /\ CommandsPerMinute * (now - g[i]) \in Int
               /\ 60 * (n - i + 1) + Refilled(b, now)
                    <= 60 * Burst + CommandsPerMinute * (now - g[i])
    <3> DEFINE p == CommandsPerMinute
    <3>1. g[i] \in Int /\ b.last \in Int /\ now \in Int /\ p \in Int /\ n \in Int
      BY <2>1, <2>2, <2>5
    <3>2. p * (now - g[i]) = p * (now - b.last) + p * (b.last - g[i])
      BY <3>1, Distribute
    <3>3. p * (now - b.last) \in Int /\ p * (b.last - g[i]) \in Int
      BY <3>1
    <3>4. 60 * (n - i + 1) + b.tokens <= 60 * Burst + p * (b.last - g[i])
      BY <2>2
    <3>5. Refilled(b, now) <= b.tokens + p * (now - b.last)
      BY <2>3
    <3> DEFINE u == p * (now - b.last)
               v == p * (b.last - g[i])
    <3>6. u \in Int /\ v \in Int /\ p * (now - g[i]) = u + v
          /\ 60 * (n - i + 1) + b.tokens <= 60 * Burst + v
          /\ Refilled(b, now) <= b.tokens + u
      BY <3>2, <3>3, <3>4, <3>5
    <3> DEFINE w == p * (now - g[i])
               m == n - i + 1
    <3>7. w = u + v /\ m \in Int /\ 60 * m + b.tokens <= 60 * Burst + v
      BY <2>5, <3>6
    <3> HIDE DEF u, v, w, m
    <3>8. w \in Int /\ 60 * m + Refilled(b, now) <= 60 * Burst + w
      BY <2>2, <2>3, <3>6, <3>7, BurstType, SMTT(30)
    <3> QED BY <3>8 DEF w, m
  <2>8. ASSUME NEW i \in 1..Len(g2)
        PROVE  /\ g2[i] <= now
               /\ 60 * (Len(g2) - i + 1) + c.tokens
                    <= 60 * Burst + CommandsPerMinute * (now - g2[i])
    <3>1. CASE i \in 1..n
      <4>1. n # 0 /\ b # NoBucket /\ g2[i] = g[i] /\ g[i] <= now /\ g[i] \in Nat
        <5>1. n # 0 /\ g2[i] = g[i] /\ g[i] <= b.last /\ g[i] \in Nat
          BY <2>2, <2>5, <3>1, SMTT(30)
        <5>2. b # NoBucket
          BY <2>2, <2>6, <5>1
        <5> QED BY <2>1, <2>2, <5>1, <5>2
      <4> DEFINE w == CommandsPerMinute * (now - g[i])
      <4>2. w \in Int /\ 60 * (n - i + 1) + Refilled(b, now) <= 60 * Burst + w
        BY <2>7, <3>1
      <4> HIDE DEF w
      <4>3. 60 * (Len(g2) - i + 1) + c.tokens <= 60 * Burst + w
        BY <2>3, <2>4, <2>5, <3>1, <4>1, <4>2, BurstType, SMTT(30)
      <4> QED BY <4>1, <4>3 DEF w
    <3>2. CASE i \notin 1..n
      <4>1. Grants(b, now) /\ i = n + 1 /\ Len(g2) = n + 1 /\ g2[i] = now
        BY <2>5, <3>2
      <4>2. CommandsPerMinute * (now - now) = 0
        BY <2>1
      <4> QED BY <2>1, <2>4, <2>5, <4>1, <4>2, BurstType
    <3> QED BY <3>1, <3>2
  <2>9. ASSUME NEW i \in 1..Len(g2), NEW k \in 1..Len(g2), i <= k
        PROVE  60 * (k - i + 1) <= 60 * Burst + CommandsPerMinute * (g2[k] - g2[i])
    <3>1. CASE k \in 1..n
      <4>1. i \in 1..n /\ g2[k] = g[k] /\ g2[i] = g[i]
        BY <2>5, <2>9, <3>1
      <4> QED BY <2>5, <2>9, <3>1, <4>1 DEF LimiterInv, RateBound, g
    <3>2. CASE k \notin 1..n
      <4>1. k = n + 1 /\ Len(g2) = n + 1 /\ g2[k] = now
        BY <2>5, <3>2
      <4> DEFINE w == CommandsPerMinute * (now - g2[i])
      <4>2. w \in Int /\ 60 * (Len(g2) - i + 1) + c.tokens <= 60 * Burst + w
        <5>1. g2[i] \in Int
          BY <2>5
        <5> QED BY <2>1, <2>8, <5>1
      <4> HIDE DEF w
      <4>3. 60 * (k - i + 1) <= 60 * Burst + w
        BY <2>4, <2>5, <4>1, <4>2, BurstType
      <4> QED BY <4>1, <4>3 DEF w
    <3> QED BY <3>1, <3>2
  <2>10. g2 # <<>>
    BY <2>2, <2>4, <2>5, <2>6
  <2>11. /\ buckets'[a] = c /\ granted'[a] = g2
         /\ \A x \in Addrs \ {a} : buckets'[x] = buckets[x] /\ granted'[x] = granted[x]
    BY <2>1 DEF LimiterInv, LimiterType
  <2>12. LimiterType'
    BY <2>1, <2>4, <2>5 DEF LimiterInv, LimiterType
  <2>13. RateBound'
    <3> SUFFICES ASSUME NEW x \in Addrs, NEW i \in DOMAIN granted'[x], NEW k \in DOMAIN granted'[x], i <= k
                 PROVE  60 * (k - i + 1)
                          <= 60 * Burst + CommandsPerMinute * (granted'[x][k] - granted'[x][i])
      BY DEF RateBound
    <3>1. CASE x = a
      BY <2>5, <2>9, <2>11, <3>1
    <3>2. CASE x # a
      BY <2>11, <3>2 DEF LimiterInv, RateBound
    <3> QED BY <3>1, <3>2
  <2>14. BucketBound'
    <3>1. ASSUME NEW x \in Addrs, x # a
          PROVE  buckets'[x] = buckets[x] /\ granted'[x] = granted[x] /\ now' = now
      BY <2>1, <2>11, <3>1
    <3>2. /\ c # NoBucket /\ g2 # <<>> /\ c.last \in 1..now /\ c.tokens <= 60 * Burst
          /\ c.last = now
      BY <2>1, <2>4, <2>10
    <3> SUFFICES ASSUME NEW x \in Addrs
                 PROVE  /\ buckets'[x] = NoBucket <=> granted'[x] = <<>>
                        /\ buckets'[x] # NoBucket => buckets'[x].last \in 1..now'
                        /\ buckets'[x].tokens <= 60 * Burst
                        /\ \A i \in DOMAIN granted'[x] :
                             /\ granted'[x][i] <= buckets'[x].last
                             /\ 60 * (Len(granted'[x]) - i + 1) + buckets'[x].tokens
                                  <= 60 * Burst + CommandsPerMinute * (buckets'[x].last - granted'[x][i])
      BY DEF BucketBound
    <3>3. CASE x = a
      BY <2>1, <2>5, <2>8, <2>11, <3>2, <3>3
    <3>4. CASE x # a
      BY <3>1, <3>4 DEF LimiterInv, BucketBound
    <3> QED BY <3>3, <3>4
  <2> QED BY <2>12, <2>13, <2>14 DEF LimiterInv
<1>4. ASSUME NEW a \in Addrs, IsBlocked(a) \/ RecordFailure(a) \/ RecordSuccess(a)
      PROVE  UNCHANGED <<now, limiterVars>>
  BY <1>4 DEF IsBlocked, RecordFailure, RecordSuccess
<1>5. CASE UNCHANGED vars
  BY <1>2, <1>5 DEF vars
<1> QED BY <1>1, <1>2, <1>3, <1>4, <1>5 DEF Next

\* Before anything is granted there is nothing to bound.
LEMMA LimiterInit == Init => LimiterInv
  BY BurstType, EmptySeq DEF Init, LimiterInv, LimiterType, RateBound, BucketBound, Buckets, NoBucket

\* Over any stretch of time an address is granted no more commands than the
\* burst and the sustained rate, whatever the settings.
THEOREM RateIsBounded == Spec => []RateBound
<1>1. LimiterInv => RateBound
  BY DEF LimiterInv
<1> QED BY <1>1, LimiterInit, LimiterStep, PTL DEF Spec

-----------------------------------------------------------------------------
\* Configure leaves a window and a ban of at least a second.
LEMMA DefaultsType == Window \in Nat \ {0} /\ Ban \in Nat \ {0}
  BY DEF Window, Ban

\* The entry a failure leaves, field by field.
LEMMA AfterFailureFacts ==
  ASSUME NEW e \in Entries, NEW t \in Nat \ {0}
  PROVE  /\ AfterFailure(e, t) \in Entries
         /\ TrackerEnabled /\ FailuresAfter(e, t) >= MaxFailedAuth =>
              AfterFailure(e, t).blockedUntil = t + Ban
         /\ ~(TrackerEnabled /\ FailuresAfter(e, t) >= MaxFailedAuth) =>
              AfterFailure(e, t).blockedUntil = e.blockedUntil
<1>1. FailuresAfter(e, t) \in Nat \ {0}
  BY DEF FailuresAfter, Entries
<1> QED BY <1>1, DefaultsType DEF AfterFailure, Entries, TrackerEnabled

\* Every step keeps the end of a block in force.
LEMMA TrackerStep ==
  ASSUME TrackerInv, [Next]_vars
  PROVE  TrackerInv'
<1>1. CASE Tick
  BY <1>1, DefaultsType DEF TrackerInv, TrackerType, Tick, trackerVars, BlockRemembered, Entries
<1>2. CASE UNCHANGED <<now, trackerVars>>
  BY <1>2 DEF TrackerInv, TrackerType, BlockRemembered, trackerVars
<1>3. ASSUME NEW a \in Addrs, IsBlocked(a)
      PROVE  TrackerInv'
  <2>1. TrackerType'
    BY <1>3 DEF TrackerInv, TrackerType, IsBlocked, AfterIsBlocked, NoEntry, Entries
  <2>2. entries[a].blockedUntil > now => entries'[a] = entries[a] \/ ~TrackerEnabled
    BY <1>3 DEF TrackerInv, TrackerType, IsBlocked, AfterIsBlocked, Blocked
  <2>3. BlockRemembered'
    BY <1>3, <2>2, DefaultsType DEF TrackerInv, TrackerType, IsBlocked, BlockRemembered, Entries
  <2> QED BY <2>1, <2>3 DEF TrackerInv
<1>4. ASSUME NEW a \in Addrs, RecordSuccess(a)
      PROVE  TrackerInv'
  <2>1. TrackerType'
    BY <1>4 DEF TrackerInv, TrackerType, RecordSuccess, AfterSuccess, NoEntry, Entries
  <2>2. entries[a].blockedUntil > now => entries'[a] = entries[a]
    BY <1>4 DEF TrackerInv, TrackerType, RecordSuccess, AfterSuccess, Entries
  <2>3. BlockRemembered'
    BY <1>4, <2>2, DefaultsType DEF TrackerInv, TrackerType, RecordSuccess, BlockRemembered, Entries
  <2> QED BY <2>1, <2>3 DEF TrackerInv
<1>5. ASSUME NEW a \in Addrs, RecordFailure(a)
      PROVE  TrackerInv'
  <2>1. /\ entries[a] \in Entries /\ now \in Nat \ {0} /\ now' = now
        /\ entries' = [entries EXCEPT ![a] = AfterFailure(entries[a], now)]
        /\ failed[a] \in Seq(Nat)
    BY <1>5 DEF TrackerInv, TrackerType, RecordFailure
  <2>2. AfterFailure(entries[a], now) \in Entries
    BY <2>1, AfterFailureFacts
  <2>3. /\ entries' \in [Addrs -> Entries]
        /\ failed' \in [Addrs -> Seq(Nat)]
        /\ blockedAt' \in [Addrs -> Nat]
    BY <1>5, <2>1, <2>2 DEF TrackerInv, TrackerType, RecordFailure
  <2>4. ASSUME NEW x \in Addrs, x # a
        PROVE  entries'[x] = entries[x] /\ blockedAt'[x] = blockedAt[x]
    BY <1>5, <2>1, <2>4 DEF TrackerInv, TrackerType, RecordFailure
  <2>5. CASE Blocks(a)
    <3>1. TrackerEnabled /\ blockedAt'[a] = now /\ entries'[a].blockedUntil = now + Ban
      BY <1>5, <2>1, <2>5, AfterFailureFacts DEF TrackerInv, TrackerType, RecordFailure, Blocks
    <3>2. BlockRemembered'
      BY <2>1, <2>4, <3>1, DefaultsType DEF TrackerInv, BlockRemembered
    <3> QED BY <2>1, <2>3, <3>2 DEF TrackerInv, TrackerType
  <2>6. CASE ~Blocks(a)
    <3>1. blockedAt' = blockedAt /\ entries'[a].blockedUntil = entries[a].blockedUntil
      <4>1. blockedAt' = blockedAt
        BY <1>5, <2>6 DEF RecordFailure
      <4>2. AfterFailure(entries[a], now).blockedUntil = entries[a].blockedUntil
        BY <2>1, <2>6, AfterFailureFacts DEF Blocks
      <4>3. entries'[a] = AfterFailure(entries[a], now)
        BY <2>1 DEF TrackerInv, TrackerType
      <4> QED BY <4>1, <4>2, <4>3
    <3>2. BlockRemembered'
      BY <2>1, <2>4, <3>1 DEF TrackerInv, BlockRemembered
    <3> QED BY <2>1, <2>3, <3>2 DEF TrackerInv, TrackerType
  <2> QED BY <2>5, <2>6
<1>6. ASSUME NEW a \in Addrs, Allow(a)
      PROVE  UNCHANGED <<now, trackerVars>>
  BY <1>6 DEF Allow
<1>7. CASE UNCHANGED vars
  BY <1>2, <1>7 DEF vars
<1> QED BY <1>1, <1>2, <1>3, <1>4, <1>5, <1>6, <1>7 DEF Next

\* Nobody is blocked at first.
LEMMA TrackerInit == Init => TrackerInv
  BY DEF Init, TrackerInv, TrackerType, BlockRemembered, Entries, NoEntry

\* A block lasts its BanSeconds, whatever connections accepted before it do.
THEOREM BlocksLast == Spec => []BlockLasts
<1>1. TrackerInv => BlockLasts
  BY DefaultsType DEF TrackerInv, TrackerType, BlockRemembered, BlockLasts, Blocked, Entries
<1> QED BY <1>1, TrackerInit, TrackerStep, PTL DEF Spec

-----------------------------------------------------------------------------
\* What WindowKept says of m failures f, c of them in the window that began at w;
\* with n for MaxFailedAuth - 1 and l for the length of a window.
Kept(f, m, c, w, t, n, l) ==
  /\ c <= n /\ c <= m /\ (c = 0 <=> m = 0) /\ w <= t
  /\ \A i \in 1..m : f[i] <= t
  /\ \A i \in 1..m : i <= m - c => f[i] <= w
  /\ \A i \in 1..m : i <= m - c - n => w - f[i] > l
  /\ \A i, k \in 1..m : k - i >= 2 * n => f[k] - f[i] > l

\* The two are the same.
LEMMA KeptIsWindowKept ==
  ASSUME TrackerEnabled, NEW f \in Seq(Nat), NEW e \in Entries, NEW t \in Nat
  PROVE  WindowKept(f, e, t) <=> Kept(f, Len(f), e.failures, e.windowStart, t, MaxFailedAuth - 1, Window)
<1>1. /\ Len(f) \in Nat /\ DOMAIN f = 1..Len(f) /\ (f = <<>> <=> Len(f) = 0)
      /\ e.failures \in Nat /\ e.windowStart \in Nat /\ MaxFailedAuth \in Nat \ {0}
  BY DEF Entries, TrackerEnabled
<1>2. e.failures < MaxFailedAuth <=> e.failures <= MaxFailedAuth - 1
  BY <1>1
<1>3. Len(f) - e.failures >= 0 <=> e.failures <= Len(f)
  BY <1>1
<1> QED BY <1>1, <1>2, <1>3 DEF WindowKept, Kept

\* The failure at t opens a window.
LEMMA KeptOpens ==
  ASSUME NEW f, NEW g, NEW m \in Nat, NEW c \in Nat, NEW w \in Nat, NEW t \in Nat,
         NEW n \in Nat \ {0}, NEW l \in Nat,
         \A i \in 1..m : f[i] \in Nat /\ g[i] = f[i], g[m + 1] = t,
         Kept(f, m, c, w, t, n, l), c = 0 \/ t - w > l
  PROVE  Kept(g, m + 1, 1, t, t, n, l)
<1>1. \A i \in 1..m : i <= m - n => t - f[i] > l
  BY DEF Kept
<1>2. \A i \in 1..(m + 1) : g[i] <= t
  BY DEF Kept
<1>3. \A i \in 1..(m + 1) : i <= m + 1 - 1 - n => t - g[i] > l
  BY <1>1
<1>4. \A i, k \in 1..(m + 1) : k - i >= 2 * n => g[k] - g[i] > l
  <2> SUFFICES ASSUME NEW i \in 1..(m + 1), NEW k \in 1..(m + 1), k - i >= 2 * n
               PROVE  g[k] - g[i] > l
    OBVIOUS
  <2>1. CASE k \in 1..m
    BY <2>1 DEF Kept
  <2>2. CASE k = m + 1
    BY <1>1, <2>2
  <2> QED BY <2>1, <2>2
<1> QED BY <1>2, <1>3, <1>4 DEF Kept

\* The failure at t is one more of the window.
LEMMA KeptExtends ==
  ASSUME NEW f, NEW g, NEW m \in Nat, NEW c \in Nat, NEW w \in Nat, NEW t \in Nat,
         NEW n \in Nat \ {0}, NEW l \in Nat,
         \A i \in 1..m : f[i] \in Nat /\ g[i] = f[i], g[m + 1] = t,
         Kept(f, m, c, w, t, n, l), c # 0, c + 1 <= n
  PROVE  Kept(g, m + 1, c + 1, w, t, n, l)
<1>1. m + 1 - (c + 1) = m - c
  OBVIOUS
<1>2. \A i \in 1..(m + 1) : g[i] <= t
  BY DEF Kept
<1>3. \A i \in 1..(m + 1) : i <= m - c => g[i] <= w
  BY DEF Kept
<1>4. \A i \in 1..(m + 1) : i <= m - c - n => w - g[i] > l
  BY DEF Kept
<1>5. \A i, k \in 1..(m + 1) : k - i >= 2 * n => g[k] - g[i] > l
  <2> SUFFICES ASSUME NEW i \in 1..(m + 1), NEW k \in 1..(m + 1), k - i >= 2 * n
               PROVE  g[k] - g[i] > l
    OBVIOUS
  <2>1. CASE k \in 1..m
    BY <2>1 DEF Kept
  <2>2. CASE k = m + 1
    <3>1. i \in 1..m /\ i <= m - c - n
      BY <2>2
    <3>2. w - f[i] > l /\ w <= t /\ g[i] = f[i] /\ f[i] \in Nat
      BY <3>1 DEF Kept
    <3> QED BY <2>2, <3>2
  <2> QED BY <2>1, <2>2
<1> QED BY <1>1, <1>2, <1>3, <1>4, <1>5 DEF Kept

\* A failure that sets no block is within a window that has room, or opens one.
LEMMA WindowGrows ==
  ASSUME TrackerEnabled, NEW f \in Seq(Nat), NEW e \in Entries, NEW t \in Nat,
         WindowKept(f, e, t), FailuresAfter(e, t) < MaxFailedAuth
  PROVE  WindowKept(Append(f, t), AfterFailure(e, t), t)
<1>1. PICK m \in Nat, c \in Nat, w \in Nat : m = Len(f) /\ c = e.failures /\ w = e.windowStart
  BY DEF Entries
<1>2. PICK n \in Nat, l \in Nat : n = MaxFailedAuth - 1 /\ l = Window
  BY DefaultsType DEF TrackerEnabled
<1>3. Kept(f, m, c, w, t, n, l)
  BY <1>1, <1>2, KeptIsWindowKept
<1>4. PICK g : g = Append(f, t)
  OBVIOUS
<1>5. g \in Seq(Nat) /\ Len(g) = m + 1 /\ (\A i \in 1..m : f[i] \in Nat /\ g[i] = f[i]) /\ g[m + 1] = t
  BY <1>1, <1>4, AppendProperties
<1>6. FailuresAfter(e, t) = IF c = 0 \/ t - w > l THEN 1 ELSE c + 1
  BY <1>1, <1>2 DEF FailuresAfter
<1>7. AfterFailure(e, t) = [failures |-> FailuresAfter(e, t),
                            windowStart |-> IF FailuresAfter(e, t) = 1 THEN t ELSE w,
                            blockedUntil |-> e.blockedUntil]
  BY <1>1 DEF AfterFailure
<1>8. PICK d \in Entries : d = AfterFailure(e, t)
  BY <1>6, <1>7 DEF Entries
<1>9. Kept(g, m + 1, d.failures, d.windowStart, t, n, l)
  <2>1. CASE c = 0 \/ t - w > l
    <3>1. d.failures = 1 /\ d.windowStart = t /\ n # 0
      BY <1>2, <1>6, <1>7, <1>8, <2>1, SMTT(30)
    <3>2. Kept(g, m + 1, 1, t, t, n, l)
      BY <1>3, <1>5, <2>1, <3>1, KeptOpens
    <3> QED BY <3>1, <3>2
  <2>2. CASE ~(c = 0 \/ t - w > l)
    <3>1. d.failures = c + 1 /\ d.windowStart = w /\ n # 0 /\ c + 1 <= n
      BY <1>2, <1>6, <1>7, <1>8, <2>2, SMTT(30)
    <3>2. Kept(g, m + 1, c + 1, w, t, n, l)
      BY <1>3, <1>5, <2>2, <3>1, KeptExtends
    <3> QED BY <3>1, <3>2
  <2> QED BY <2>1, <2>2
<1>10. WindowKept(g, d, t)
  BY <1>2, <1>5, <1>9, KeptIsWindowKept
<1> QED BY <1>4, <1>8, <1>10

\* An address without failures has kept to every window.
LEMMA NoFailures ==
  ASSUME TrackerEnabled, NEW e \in Entries, NEW t \in Nat, e.failures = 0, e.windowStart <= t
  PROVE  WindowKept(<<>>, e, t)
  BY DEF WindowKept, TrackerEnabled, Entries

\* Time passes.
LEMMA WindowLater ==
  ASSUME NEW f \in Seq(Nat), NEW e \in Entries, NEW t \in Nat, NEW u \in Nat, t <= u,
         WindowKept(f, e, t)
  PROVE  WindowKept(f, e, u)
<1>1. e.windowStart \in Nat /\ \A i \in DOMAIN f : f[i] \in Nat
  BY DEF Entries
<1> QED BY <1>1 DEF WindowKept

\* Every step keeps the windows.
LEMMA WindowStep ==
  ASSUME TrackerType, TrackerType', WindowInv, [Next]_vars, TrackerEnabled, NEW a \in Addrs
  PROVE  WindowKept(failed'[a], entries'[a], now')
<1>1. /\ failed[a] \in Seq(Nat) /\ entries[a] \in Entries /\ entries'[a] \in Entries
      /\ now \in Nat \ {0} /\ WindowKept(failed[a], entries[a], now)
  BY DEF TrackerType, WindowInv
<1>2. CASE failed'[a] = failed[a] /\ entries'[a] = entries[a] /\ now' \in {now, now + 1}
  BY <1>1, <1>2, WindowLater
<1>3. CASE failed'[a] = <<>> /\ entries'[a].failures = 0 /\ entries'[a].windowStart <= now /\ now' = now
  BY <1>1, <1>3, NoFailures
<1>4. ASSUME RecordFailure(a)
      PROVE  WindowKept(failed'[a], entries'[a], now')
  <2>1. entries'[a] = AfterFailure(entries[a], now) /\ now' = now
    BY <1>4 DEF RecordFailure, TrackerType
  <2>2. CASE Blocks(a)
    <3>1. failed'[a] = <<>>
      BY <1>4, <2>2 DEF RecordFailure, TrackerType
    <3>2. entries'[a].failures = 0 /\ entries'[a].windowStart \in {now, entries[a].windowStart}
      <4>1. FailuresAfter(entries[a], now) \in Nat
        BY <1>1 DEF FailuresAfter, Entries
      <4> QED BY <2>1, <2>2, <4>1 DEF AfterFailure, Blocks
    <3>3. entries[a].windowStart <= now
      BY <1>1 DEF WindowKept
    <3> QED BY <1>1, <1>3, <2>1, <3>1, <3>2, <3>3
  <2>3. CASE ~Blocks(a)
    <3>1. failed'[a] = Append(failed[a], now)
      BY <1>4, <2>3 DEF RecordFailure, TrackerType
    <3>2. FailuresAfter(entries[a], now) < MaxFailedAuth
      BY <1>1, <2>3 DEF Blocks, FailuresAfter, Entries
    <3> QED BY <1>1, <2>1, <3>1, <3>2, WindowGrows
  <2> QED BY <2>2, <2>3
<1>5. ASSUME IsBlocked(a) \/ RecordSuccess(a)
      PROVE  WindowKept(failed'[a], entries'[a], now')
  <2>1. now' = now /\ (entries'[a] = NoEntry \/ entries'[a] = entries[a])
    BY <1>5 DEF IsBlocked, RecordSuccess, TrackerType, AfterIsBlocked, AfterSuccess
  <2>2. CASE entries'[a] = NoEntry
    <3>1. failed'[a] = <<>>
      BY <1>5, <2>2 DEF IsBlocked, RecordSuccess, TrackerType, Forgets
    <3> QED BY <1>1, <1>3, <2>1, <2>2, <3>1 DEF NoEntry
  <2>3. CASE entries'[a] # NoEntry
    <3>1. failed'[a] = failed[a]
      BY <1>5, <2>3 DEF IsBlocked, RecordSuccess, TrackerType, Forgets
    <3> QED BY <1>2, <2>1, <2>3, <3>1
  <2> QED BY <2>2, <2>3
<1>6. ASSUME NEW x \in Addrs, x # a, IsBlocked(x) \/ RecordSuccess(x) \/ RecordFailure(x)
      PROVE  WindowKept(failed'[a], entries'[a], now')
  <2>1. failed'[a] = failed[a] /\ entries'[a] = entries[a] /\ now' = now
    BY <1>6 DEF IsBlocked, RecordSuccess, RecordFailure, TrackerType
  <2> QED BY <1>2, <2>1
<1>7. CASE Tick \/ (\E x \in Addrs : Allow(x)) \/ UNCHANGED vars
  BY <1>2, <1>7 DEF Tick, Allow, trackerVars, vars
<1> QED BY <1>4, <1>5, <1>6, <1>7 DEF Next

\* No stretch of FailWindowSeconds, wherever it begins, sees more than twice
\* MaxFailedAuth - 1 failures of an address without a block, for every setting.
THEOREM WindowsAreBounded == Spec => []WindowBound
<1>1. Init => WindowInv
  BY NoFailures DEF Init, WindowInv, NoEntry, Entries
<1>2. ASSUME TrackerInv, TrackerInv', WindowInv, [Next]_vars
      PROVE  WindowInv'
  BY <1>2, WindowStep DEF TrackerInv, WindowInv
<1>3. TrackerInv /\ WindowInv => WindowBound
  <2> SUFFICES ASSUME TrackerInv, WindowInv, TrackerEnabled, NEW a \in Addrs, NEW i \in DOMAIN failed[a]
               PROVE  Cardinality(Recent(a, i)) <= 2 * (MaxFailedAuth - 1)
    BY DEF WindowBound
  <2>1. /\ WindowKept(failed[a], entries[a], now) /\ failed[a] \in Seq(Nat)
        /\ MaxFailedAuth \in Nat \ {0} /\ Window \in Nat /\ i \in Nat
    BY DefaultsType DEF WindowInv, TrackerInv, TrackerType, TrackerEnabled
  <2>d. PICK d \in Int : d = 2 * (MaxFailedAuth - 1)
    BY <2>1
  <2>2. PICK top \in Int : top = i + d - 1
    BY <2>1
  <2>3. Recent(a, i) \subseteq i..top
    <3>1. \A k \in DOMAIN failed[a] :
            k - i >= d => failed[a][k] - failed[a][i] > Window
      BY <2>1, <2>d DEF WindowKept
    <3> SUFFICES ASSUME NEW k \in Recent(a, i) PROVE k \in i..top
      OBVIOUS
    <3>2. k \in DOMAIN failed[a] /\ k >= i /\ failed[a][k] - failed[a][i] <= Window
      BY DEF Recent
    <3>3. k \in Nat /\ failed[a][k] \in Nat /\ failed[a][i] \in Nat
      <4>1. PICK f \in Seq(Nat) : f = failed[a]
        BY <2>1
      <4>2. \A j \in DOMAIN f : j \in Nat /\ f[j] \in Nat
        OBVIOUS
      <4> QED BY <3>2, <4>1, <4>2
    <3>4. i \in Nat /\ Window \in Nat
      BY <2>1
    <3>5. ~(failed[a][k] - failed[a][i] > Window)
      BY <3>2, <3>3, <3>4
    <3>6. ~(k - i >= d)
      BY <3>1, <3>2, <3>5
    <3> QED BY <2>2, <3>2, <3>3, <3>4, <3>6
  <2>4. IsFiniteSet(i..top) /\ Cardinality(i..top) = IF i > top THEN 0 ELSE top - i + 1
    <3>1. i \in Int /\ top \in Int
      BY <2>1, <2>2
    <3> QED BY <3>1, FS_Interval, Zenon
  <2>5. Cardinality(Recent(a, i)) <= Cardinality(i..top)
    BY <2>3, <2>4, FS_Subset
  <2>6. i \in Nat /\ d >= 0
    BY <2>1, <2>d
  <2> QED BY <2>d, <2>2, <2>4, <2>5, <2>6
<1> QED BY <1>1, <1>2, <1>3, TrackerInit, TrackerStep, PTL DEF Spec

\* Both records keep their type.
THEOREM TypeCorrect == Spec => []TypeOK
<1>1. LimiterInv /\ TrackerInv => TypeOK
  BY DEF LimiterInv, TrackerInv, TypeOK
<1> QED BY <1>1, LimiterInit, LimiterStep, TrackerInit, TrackerStep, PTL DEF Spec
=============================================================================
