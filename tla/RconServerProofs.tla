--------------------------- MODULE RconServerProofs ---------------------------
(***************************************************************************)
(* The RCON server's safety, for any number of addresses, connections and      *)
(* handler threads and for every setting; and the whitelist for every width of  *)
(* an address and every list of entries.                                       *)
(***************************************************************************)
EXTENDS RconServer, FiniteSetTheorems, TLAPS

USE SettingsAssumption, IpFilterAssumption, RconAssumption DEF filter

-----------------------------------------------------------------------------
(* The whitelist.                                                          *)

\* A distance below the width is not changed by taking it modulo the width.
LEMMA SmallModulo ==
  ASSUME NEW n \in Nat, NEW w \in Nat \ {0}, n < w
  PROVE  n % w = n
  BY SMT

\* The mask of a prefix length holds exactly the bits of the prefix, also where
\* the shift would be by the full width.
LEMMA MaskIsPrefix ==
  ASSUME NEW bits \in 0..Width
  PROVE  Mask(bits) = Width - bits..Width - 1
<1>1. CASE bits = 0
  BY <1>1 DEF Mask
<1>2. CASE bits # 0
  <2>1. (Width - bits) % Width = Width - bits
    BY <1>2, SmallModulo
  <2> QED BY <1>2, <2>1 DEF Mask, OnesShifted, BitNumbers
<1> QED BY <1>1, <1>2

\* Comparing under the mask is comparing the prefix.
LEMMA MaskedComparison ==
  ASSUME NEW a, NEW b, NEW bits \in 0..Width
  PROVE  a \cap Mask(bits) = b \cap Mask(bits) <=> SamePrefix(a, b, bits)
  BY MaskIsPrefix DEF SamePrefix

\* What Configure and Allows make of a list is the reference: an address is let in
\* exactly if it has the prefix of an entry that can be parsed, or if there is none.
\* A prefix length that is no number is parsed all the same, as 0.
THEOREM FilterIsReference ==
  ASSUME NEW list, NEW addr, Numbered(list)
  PROVE  Allows(Rules(list), addr) <=> Admitted(list, addr)
<1> DEFINE kept == {i \in DOMAIN list : ~Rejected(list[i])}
<1>1. Rules(list) = {Rule(list[i]) : i \in kept}
  BY DEF Rules
<1>2. ASSUME NEW i \in DOMAIN list
      PROVE  /\ ~Rejected(list[i]) <=> Parseable(list[i])
             /\ Bits(list[i]) = PrefixLength(list[i])
  BY DEF Numbered, Rejected, Bits, Atoi, Parseable, PrefixLength
<1>3. kept = {i \in DOMAIN list : Parseable(list[i])}
  BY <1>2
<1>4. ASSUME NEW i \in kept
      PROVE  addr \cap Rule(list[i]).mask = Rule(list[i]).network
               <=> SamePrefix(addr, list[i].address, PrefixLength(list[i]))
  <2>1. Bits(list[i]) \in 0..Width
    BY DEF Rejected
  <2> QED BY <1>2, <2>1, MaskedComparison DEF Rule
<1> HIDE DEF kept
<1> QED BY <1>1, <1>3, <1>4 DEF Allows, Admitted

-----------------------------------------------------------------------------
(* The server.                                                             *)

\* A failure leaves an entry.
LEMMA AfterFailureType ==
  ASSUME NEW e \in Entries, NEW t \in Nat \ {0}
  PROVE  AfterFailure(e, t) \in Entries
<1>1. FailuresAfter(e, t) \in Nat /\ Ban \in Nat
  BY DEF FailuresAfter, Ban, Entries
<1> QED BY <1>1 DEF AfterFailure, Entries

\* A refill is a natural number if time has not gone back.
LEMMA AfterAllowType ==
  ASSUME LimiterEnabled, NEW b \in Buckets, NEW t \in Nat, b.last <= t
  PROVE  AfterAllow(b, t) \in Buckets /\ AfterAllow(b, t).last = t
<1>1. CommandsPerMinute \in Nat /\ t - b.last \in Nat /\ b.tokens \in Nat
  BY DEF LimiterEnabled, Buckets
<1>2. CommandsPerMinute * (t - b.last) \in Nat
  BY <1>1
<1>3. Burst \in Nat \ {0}
  BY DEF Burst
<1>4. Refilled(b, t) \in Nat
  BY <1>1, <1>2, <1>3, SMTT(30) DEF Refilled
<1> QED BY <1>3, <1>4 DEF AfterAllow, Buckets

Places == {"free", "check", "read", "dispatch", "closing"}

\* A handler that goes on keeps its peer and its login.
LEMMA HandlerGoes ==
  ASSUME TypeOK, NEW h \in Handlers, NEW v \in Places, Goes(h, v)
  PROVE  handler' = [handler EXCEPT ![h] = [at |-> v, peer |-> handler[h].peer, auth |-> handler[h].auth]]
<1> DEFINE r == handler[h]
<1>1. r \in [at : Places, peer : Addrs \cup {None}, auth : BOOLEAN]
  BY DEF TypeOK, Places
<1>2. handler' = [handler EXCEPT ![h] = [r EXCEPT !.at = v]]
  BY DEF Goes
<1> HIDE DEF r
<1>3. [r EXCEPT !.at = v] = [at |-> v, peer |-> r.peer, auth |-> r.auth]
  BY <1>1
<1> QED BY <1>2, <1>3 DEF r

\* Where the steps of a handler lead, and what else they change.
LEMMA HandlerSteps ==
  ASSUME TypeOK, NEW h \in Handlers, HandlerStep(h)
  PROVE  /\ UNCHANGED <<now, running, filter, owner, listener>>
         /\ handler[h].at # "free"
         /\ \E v \in Places, auth \in BOOLEAN :
              \/ /\ handler' = [handler EXCEPT ![h] = [at |-> v, peer |-> handler[h].peer, auth |-> auth]]
                 /\ v # "free" /\ UNCHANGED connections
              \/ HandlerEnds(h)
<1> DEFINE To(v, auth) ==
      handler' = [handler EXCEPT ![h] = [at |-> v, peer |-> handler[h].peer, auth |-> auth]]
<1> USE DEF Places
<1>1. handler[h].auth \in BOOLEAN
  BY DEF TypeOK
<1>2. CASE LoopCheck(h)
  <2>1. \E v \in {"read", "closing"} : Goes(h, v)
    BY <1>2 DEF LoopCheck
  <2>2. \E v \in {"read", "closing"} : To(v, handler[h].auth)
    BY <2>1, HandlerGoes
  <2> QED BY <1>1, <1>2, <2>2 DEF LoopCheck
<1>3. CASE ReadFails(h) \/ AuthBad(h) \/ Unauthenticated(h)
  <2>1. Goes(h, "closing")
    BY <1>3 DEF ReadFails, AuthBad, Unauthenticated
  <2>2. To("closing", handler[h].auth)
    BY <2>1, HandlerGoes
  <2> QED BY <1>1, <1>3, <2>2 DEF ReadFails, AuthBad, Unauthenticated
<1>4. CASE Unsupported(h) \/ Dispatched(h)
  <2>1. Goes(h, "check")
    BY <1>4 DEF Unsupported, Dispatched
  <2>2. To("check", handler[h].auth)
    BY <2>1, HandlerGoes
  <2> QED BY <1>1, <1>4, <2>2 DEF Unsupported, Dispatched
<1>5. CASE ExecCommand(h)
  <2>1. \E v \in {"dispatch", "check"} : Goes(h, v)
    BY <1>5 DEF ExecCommand
  <2>2. \E v \in {"dispatch", "check"} : To(v, handler[h].auth)
    BY <2>1, HandlerGoes
  <2> QED BY <1>1, <1>5, <2>2 DEF ExecCommand
<1>6. CASE AuthGood(h)
  BY <1>6 DEF AuthGood
<1>7. CASE HandlerEnds(h)
  BY <1>7 DEF HandlerEnds
<1> QED BY <1>2, <1>3, <1>4, <1>5, <1>6, <1>7 DEF HandlerStep

HandlerType == [at : Places, peer : Addrs \cup {None}, auth : BOOLEAN]
ListenerType == [at : {"select", "accepted", "unblocked", "exited"}, peer : Addrs \cup {None}]

\* Every step of a handler keeps the variables in their types.
LEMMA HandlerTypeStep ==
  ASSUME TypeOK, ClockInv, SlotsInv, NEW h \in Handlers, HandlerStep(h)
  PROVE  TypeOK' /\ ClockInv'
<1> DEFINE a == handler[h].peer
<1>1. /\ UNCHANGED <<now, running, filter, owner, listener>>
      /\ handler[h] \in HandlerType /\ handler[h].at # "free"
  BY HandlerSteps DEF TypeOK, Places, HandlerType
<1>2. handler' \in [Handlers -> HandlerType]
  <2>1. CASE HandlerEnds(h)
    BY <2>1 DEF TypeOK, HandlerEnds, Idle, HandlerType, Places
  <2>2. ASSUME NEW v \in Places, NEW auth \in BOOLEAN,
               handler' = [handler EXCEPT ![h] = [at |-> v, peer |-> a, auth |-> auth]]
        PROVE  handler' \in [Handlers -> HandlerType]
    BY <1>1, <2>2 DEF TypeOK, HandlerType, Places
  <2> QED BY <2>1, <2>2, HandlerSteps
<1>3. a \in Addrs /\ h \in Live
  BY <1>1 DEF SlotsInv, Live
<1>4. connections' \in Nat
  <2>1. CASE HandlerEnds(h)
    <3>1. Cardinality(Live) # 0
      BY <1>3, FS_EmptySet DEF SlotsInv
    <3> QED BY <2>1, <3>1 DEF HandlerEnds, SlotsInv, SlotsAccounted, TypeOK
  <2> QED BY <2>1, HandlerSteps DEF TypeOK
<1>5. late' \in [Handlers -> Nat]
  <2>1. CASE ExecCommand(h)
    BY <2>1 DEF ExecCommand, TypeOK
  <2>2. CASE ~ExecCommand(h)
    BY <2>2 DEF HandlerStep, LoopCheck, ReadFails, AuthGood, AuthBad, Unauthenticated, Unsupported,
                Dispatched, HandlerEnds, TypeOK
  <2> QED BY <2>1, <2>2
<1>6. entries' \in [Addrs -> Entries] /\ tries' \in [Addrs -> Nat]
  <2>1. CASE AuthGood(h)
    BY <1>3, <2>1 DEF AuthGood, AfterSuccess, NoEntry, Entries, TypeOK
  <2>2. CASE AuthBad(h)
    BY <1>3, <2>2, AfterFailureType DEF AuthBad, TypeOK
  <2>3. CASE ~AuthGood(h) /\ ~AuthBad(h)
    BY <2>3 DEF HandlerStep, LoopCheck, ReadFails, Unauthenticated, Unsupported, ExecCommand,
                Dispatched, HandlerEnds, TypeOK, accessVars
  <2> QED BY <2>1, <2>2, <2>3
<1>7. buckets' \in [Addrs -> Buckets] /\ ClockInv'
  <2>1. CASE ExecCommand(h)
    <3>1. LimiterEnabled => AfterAllow(buckets[a], now) \in Buckets /\ AfterAllow(buckets[a], now).last = now
      BY <1>3, AfterAllowType DEF TypeOK, ClockInv
    <3> HIDE DEF a
    <3>2. buckets' = IF LimiterEnabled THEN [buckets EXCEPT ![a] = AfterAllow(buckets[a], now)] ELSE buckets
      BY <2>1 DEF ExecCommand, a
    <3> QED BY <1>1, <1>3, <3>1, <3>2 DEF TypeOK, ClockInv
  <2>2. CASE ~ExecCommand(h)
    BY <1>1, <2>2 DEF HandlerStep, LoopCheck, ReadFails, AuthGood, AuthBad, Unauthenticated, Unsupported,
                Dispatched, HandlerEnds, TypeOK, accessVars, ClockInv
  <2> QED BY <2>1, <2>2
<1> QED
  BY <1>1, <1>2, <1>4, <1>5, <1>6, <1>7 DEF TypeOK, HandlerType, Places

\* Every step keeps the variables in their types.
LEMMA TypeStep ==
  ASSUME TypeOK, ClockInv, Stopping, SlotsInv, [Next]_vars
  PROVE  TypeOK' /\ ClockInv'
<1> USE DEF TypeOK, ClockInv, accessVars
<1>1. CASE Tick
  BY <1>1 DEF Tick, Buckets
<1>2. CASE Start
  BY <1>2 DEF Start
<1>3. CASE StopBegin
  BY <1>3 DEF StopBegin
<1>10. CASE StopJoin
  BY <1>10 DEF StopJoin
<1>11. CASE StopReturn
  BY <1>11 DEF StopReturn
<1>4. ASSUME NEW a \in Addrs, Accept(a)
      PROVE  TypeOK' /\ ClockInv'
  BY <1>4 DEF Accept, ListenerTo
<1>5. CASE CheckBlocked
  <2>1. listener.peer \in Addrs
    BY <1>5 DEF CheckBlocked, Stopping
  <2>2. entries' \in [Addrs -> Entries]
    BY <1>5, <2>1 DEF CheckBlocked, AfterIsBlocked, NoEntry, Entries
  <2>3. listener' \in ListenerType
    BY <1>5, <2>1 DEF CheckBlocked, ListenerTo, ListenerType
  <2>4. tries' \in [Addrs -> Nat]
    BY <1>5, <2>1 DEF CheckBlocked
  <2> QED BY <1>5, <2>2, <2>3, <2>4 DEF CheckBlocked, ListenerType
<1>6. CASE Spawn
  <2>1. listener' \in ListenerType
    BY <1>6 DEF Spawn, ListenerTo, ListenerType
  <2>2. CASE UNCHANGED <<connections, handler, late>>
    BY <1>6, <2>1, <2>2 DEF Spawn, ListenerType
  <2>3. ASSUME NEW h \in Handlers, connections' = connections + 1, late' = [late EXCEPT ![h] = 0],
               handler' = [handler EXCEPT ![h] = [at |-> "check", peer |-> listener.peer, auth |-> FALSE]]
        PROVE  TypeOK' /\ ClockInv'
    <3>1. handler' \in [Handlers -> HandlerType]
      BY <2>3 DEF HandlerType, Places
    <3> QED BY <1>6, <2>1, <2>3, <3>1 DEF Spawn, ListenerType, HandlerType, Places
  <2> QED BY <1>6, <2>2, <2>3 DEF Spawn
<1>7. CASE ListenerExit
  BY <1>7 DEF ListenerExit, ListenerTo
<1>8. ASSUME NEW h \in Handlers, HandlerStep(h)
      PROVE  TypeOK' /\ ClockInv'
  BY <1>8, HandlerTypeStep
<1>9. CASE Terminated \/ UNCHANGED vars
  BY <1>9 DEF Terminated, vars
<1> QED
  BY <1>1, <1>2, <1>3, <1>4, <1>5, <1>6, <1>7, <1>8, <1>9, <1>10, <1>11
  DEF Next, OwnerStep, ListenerStep

\* Every step keeps the order of Stop and the listener.
LEMMA StoppingStep ==
  ASSUME TypeOK, Stopping, [Next]_vars
  PROVE  Stopping'
<1>1. CASE Tick \/ Terminated \/ UNCHANGED vars
  BY <1>1 DEF Tick, Terminated, vars, Stopping, Live
<1>2. CASE OwnerStep
  BY <1>2 DEF OwnerStep, Start, StopBegin, StopJoin, StopReturn, Stopping, Live, TypeOK
<1>3. CASE (\E a \in Addrs : Accept(a)) \/ CheckBlocked \/ ListenerExit
  BY <1>3 DEF Accept, CheckBlocked, ListenerExit, ListenerTo, Stopping, Live, TypeOK
<1>4. CASE Spawn
  BY <1>4 DEF Spawn, ListenerTo, Stopping, TypeOK
<1>5. ASSUME NEW h \in Handlers, HandlerStep(h)
      PROVE  Stopping'
  <2>1. UNCHANGED <<running, owner, listener>> /\ h \in Live
    BY <1>5, HandlerSteps DEF Live
  <2> QED BY <2>1 DEF Stopping
<1> QED BY <1>1, <1>2, <1>3, <1>4, <1>5 DEF Next, ListenerStep

\* Every step keeps the count of commands after Stop.
LEMMA LateStep ==
  ASSUME TypeOK, Stopping, LateInv, [Next]_vars
  PROVE  LateInv'
<1>1. CASE Tick \/ Terminated \/ UNCHANGED vars
  BY <1>1 DEF Tick, Terminated, vars, LateInv, LateCommands
<1>2. CASE OwnerStep
  BY <1>2 DEF OwnerStep, Start, StopBegin, StopJoin, StopReturn, Stopping, LateInv, LateCommands, TypeOK
<1>3. CASE (\E a \in Addrs : Accept(a)) \/ CheckBlocked \/ ListenerExit
  BY <1>3 DEF Accept, CheckBlocked, ListenerExit, LateInv, LateCommands
<1>4. CASE Spawn
  <2>1. CASE UNCHANGED <<connections, handler, late>>
    BY <1>4, <2>1 DEF Spawn, LateInv, LateCommands
  <2>2. ASSUME NEW h \in Handlers, late' = [late EXCEPT ![h] = 0],
               handler' = [handler EXCEPT ![h] = [at |-> "check", peer |-> listener.peer, auth |-> FALSE]]
        PROVE  LateInv'
    BY <1>4, <2>2 DEF Spawn, LateInv, LateCommands, TypeOK
  <2> QED BY <1>4, <2>1, <2>2 DEF Spawn
<1>5. ASSUME NEW h \in Handlers, HandlerStep(h)
      PROVE  LateInv'
  <2>1. /\ UNCHANGED <<running, owner>>
        /\ \A g \in Handlers \ {h} : handler'[g] = handler[g]
    BY <1>5, HandlerSteps DEF TypeOK, HandlerEnds
  <2>2. CASE LoopCheck(h)
    <3>1. ~running => handler'[h].at = "closing"
      BY <2>2 DEF LoopCheck, Goes, TypeOK
    <3>2. late' = late
      BY <2>2 DEF LoopCheck
    <3> QED BY <2>1, <3>1, <3>2 DEF LateInv, LateCommands, Stopping
  <2>3. CASE ExecCommand(h)
    <3>1. handler[h].at = "read" /\ handler'[h].at # "read"
      BY <2>3 DEF ExecCommand, Goes, TypeOK
    <3>2. late[h] = 0
      BY <3>1 DEF LateInv
    <3> DEFINE ok == ~LimiterEnabled \/ Grants(buckets[handler[h].peer], now)
    <3>3. late' = IF ok /\ ~running THEN [late EXCEPT ![h] = @ + 1] ELSE late
      BY <2>3 DEF ExecCommand
    <3> HIDE DEF ok
    <3>4. \A g \in Handlers \ {h} : late'[g] = late[g]
      BY <3>3 DEF TypeOK
    <3>5. late'[h] = 0 \/ (~running /\ late'[h] = 1)
      <4>1. CASE ok /\ ~running
        BY <3>2, <3>3, <4>1 DEF TypeOK
      <4>2. CASE ~(ok /\ ~running)
        BY <3>2, <3>3, <4>2
      <4> QED BY <4>1, <4>2
    <3>6. ~running => owner \notin {"down", "up"} \/ owner = "down"
      BY DEF Stopping, TypeOK
    <3>7. owner # "down"
      BY <3>1 DEF Stopping, Live
    <3> QED BY <2>1, <3>1, <3>4, <3>5, <3>6, <3>7 DEF LateInv, LateCommands
  <2>4. CASE ~LoopCheck(h) /\ ~ExecCommand(h)
    <3>1. late' = late
      BY <1>5, <2>4 DEF HandlerStep, ReadFails, AuthGood, AuthBad, Unauthenticated, Unsupported,
                        Dispatched, HandlerEnds
    <3>2. handler'[h].at # "read"
      BY <1>5, <2>4 DEF HandlerStep, ReadFails, AuthGood, AuthBad, Unauthenticated, Unsupported,
                        Dispatched, HandlerEnds, Goes, Idle, TypeOK
    <3> QED BY <2>1, <3>1, <3>2 DEF LateInv, LateCommands
  <2> QED BY <2>2, <2>3, <2>4
<1> QED BY <1>1, <1>2, <1>3, <1>4, <1>5 DEF Next, ListenerStep

-----------------------------------------------------------------------------
\* Who is alive after a step of a handler: the same, or one fewer.
LEMMA LiveAfter ==
  ASSUME TypeOK, NEW h \in Handlers, HandlerStep(h)
  PROVE  /\ h \in Live
         /\ Live' = IF HandlerEnds(h) THEN Live \ {h} ELSE Live
         /\ \A g \in Handlers \ {h} : handler'[g] = handler[g]
         /\ ~HandlerEnds(h) => handler'[h].peer = handler[h].peer /\ UNCHANGED connections
<1>1. h \in Live
  BY HandlerSteps DEF Live
<1>2. CASE HandlerEnds(h)
  BY <1>1, <1>2 DEF HandlerEnds, Idle, Live, TypeOK
<1>3. ASSUME NEW v \in Places, NEW auth \in BOOLEAN, v # "free", UNCHANGED connections,
             handler' = [handler EXCEPT ![h] = [at |-> v, peer |-> handler[h].peer, auth |-> auth]]
      PROVE  /\ Live' = Live /\ ~HandlerEnds(h) /\ UNCHANGED connections
             /\ \A g \in Handlers \ {h} : handler'[g] = handler[g]
             /\ handler'[h].peer = handler[h].peer
  <2>1. handler'[h].at = v /\ handler'[h].peer = handler[h].peer
        /\ \A g \in Handlers \ {h} : handler'[g] = handler[g]
    BY <1>3 DEF TypeOK
  <2>2. Live' = Live
    BY <1>1, <1>3, <2>1 DEF Live
  <2>3. ~HandlerEnds(h)
    BY <1>3, <2>1 DEF HandlerEnds, Idle, TypeOK
  <2> QED BY <1>3, <2>1, <2>2, <2>3
<1> QED BY <1>1, <1>2, <1>3, HandlerSteps

\* Every step keeps m_Connections the number of handlers, and within its limit.
LEMMA SlotsStep ==
  ASSUME TypeOK, Stopping, SlotsInv, [Next]_vars
  PROVE  SlotsInv'
<1>1. CASE UNCHANGED <<handler, connections>>
  BY <1>1 DEF SlotsInv, SlotsAccounted, Live
<1>2. CASE Spawn
  <2>1. ASSUME NEW h \in Handlers, handler[h].at = "free", connections < MaxConnections,
               connections' = connections + 1,
               handler' = [handler EXCEPT ![h] = [at |-> "check", peer |-> listener.peer, auth |-> FALSE]]
        PROVE  SlotsInv'
    <3>1. Live' = Live \cup {h} /\ h \notin Live
      BY <2>1 DEF Live, TypeOK
    <3>2. IsFiniteSet(Live') /\ Cardinality(Live') = Cardinality(Live) + 1
      BY <3>1, FS_AddElement DEF SlotsInv
    <3>3. listener.peer \in Addrs
      BY <1>2 DEF Spawn, Stopping, TypeOK
    <3>4. \A g \in Live' : handler'[g].peer \in Addrs
      BY <2>1, <3>1, <3>3 DEF SlotsInv, TypeOK, Live
    <3>5. connections' <= MaxConnections
      BY <2>1 DEF TypeOK
    <3> QED BY <2>1, <3>2, <3>4, <3>5 DEF SlotsInv, SlotsAccounted
  <2> QED BY <1>1, <1>2, <2>1 DEF Spawn, TypeOK
<1>3. ASSUME NEW h \in Handlers, HandlerStep(h)
      PROVE  SlotsInv'
  <2>1. CASE HandlerEnds(h)
    <3>1. Live' = Live \ {h} /\ h \in Live
      BY <1>3, <2>1, LiveAfter
    <3>2. IsFiniteSet(Live') /\ Cardinality(Live') = Cardinality(Live) - 1
      BY <3>1, FS_RemoveElement DEF SlotsInv
    <3>3. \A g \in Live' : handler'[g].peer \in Addrs
      BY <1>3, <3>1, LiveAfter DEF SlotsInv, Live
    <3>4. connections' = connections - 1
      BY <2>1 DEF HandlerEnds
    <3> QED BY <3>2, <3>3, <3>4 DEF SlotsInv, SlotsAccounted, TypeOK
  <2>2. CASE ~HandlerEnds(h)
    <3>1. Live' = Live /\ UNCHANGED connections
          /\ \A g \in Live : handler'[g].peer = handler[g].peer
      BY <1>3, <2>2, LiveAfter DEF Live
    <3> QED BY <3>1 DEF SlotsInv, SlotsAccounted
  <2> QED BY <2>1, <2>2
<1>4. ASSUME Tick \/ OwnerStep \/ (\E a \in Addrs : Accept(a)) \/ CheckBlocked \/ ListenerExit
             \/ Terminated \/ UNCHANGED vars
      PROVE  UNCHANGED <<handler, connections>>
  BY <1>4 DEF Tick, OwnerStep, Start, StopBegin, StopJoin, StopReturn, Accept, CheckBlocked,
              ListenerExit, Terminated, vars
<1> QED BY <1>1, <1>2, <1>3, <1>4 DEF Next, ListenerStep

\* Every step keeps the peers within the whitelist.
LEMMA PeersStep ==
  ASSUME TypeOK, Stopping, PeersInv, [Next]_vars
  PROVE  PeersInv'
<1>1. CASE UNCHANGED <<filter, handler, listener>>
  BY <1>1 DEF PeersInv, Live
<1>2. ASSUME NEW a \in Addrs, Accept(a)
      PROVE  PeersInv'
  BY <1>2 DEF Accept, ListenerTo, PeersInv, Live
<1>3. CASE CheckBlocked \/ ListenerExit
  BY <1>3 DEF CheckBlocked, ListenerExit, ListenerTo, PeersInv, Live
<1>4. CASE Spawn
  <2>1. /\ UNCHANGED handler \/ \E h \in Handlers : 
              handler' = [handler EXCEPT ![h] = [at |-> "check", peer |-> listener.peer, auth |-> FALSE]]
        /\ listener'.peer = None /\ listener.peer # None
    BY <1>4 DEF Spawn, ListenerTo, Stopping
  <2>2. Allows(rules, listener.peer)
    BY <2>1 DEF PeersInv
  <2>3. UNCHANGED filter
    BY <1>4 DEF Spawn
  <2>4. \A g \in Handlers : handler'[g] = handler[g] \/ handler'[g].peer = listener.peer
    BY <2>1 DEF TypeOK
  <2> QED BY <2>1, <2>2, <2>3, <2>4 DEF PeersInv, Live
<1>5. ASSUME NEW h \in Handlers, HandlerStep(h)
      PROVE  PeersInv'
  <2>1. /\ UNCHANGED <<filter, listener>> /\ Live' \subseteq Live
        /\ \A g \in Live' : handler'[g].peer = handler[g].peer
    BY <1>5, LiveAfter, HandlerSteps DEF Live
  <2> QED BY <2>1 DEF PeersInv
<1>6. ASSUME Tick \/ StopBegin \/ StopJoin \/ StopReturn \/ Terminated \/ UNCHANGED vars
      PROVE  UNCHANGED <<filter, handler, listener>>
  BY <1>6 DEF Tick, StopBegin, StopJoin, StopReturn, Terminated, vars
<1>7. CASE Start
  <2>1. Live' = {} /\ listener'.peer = None
    BY <1>7 DEF Start, Stopping, Live
  <2> QED BY <2>1 DEF PeersInv
<1> QED BY <1>1, <1>2, <1>3, <1>4, <1>5, <1>6, <1>7 DEF Next, OwnerStep, ListenerStep

-----------------------------------------------------------------------------
(* The failures after a block.                                             *)

\* The pending connections of an address are counted, and all but the listener's
\* are slots.
LEMMA PendingType ==
  ASSUME TypeOK, SlotsInv, NEW a \in Addrs
  PROVE  /\ IsFiniteSet(Active(a)) /\ Cardinality(Active(a)) \in Nat
         /\ Pending(a) \in Nat /\ Pending(a) <= MaxConnections + 1
<1>1. Active(a) \subseteq Live
  BY DEF Active
<1>2. IsFiniteSet(Active(a)) /\ Cardinality(Active(a)) <= Cardinality(Live)
  BY <1>1, FS_Subset DEF SlotsInv
<1>3. Cardinality(Active(a)) \in Nat
  BY <1>2, FS_CardinalityType
<1> QED BY <1>2, <1>3 DEF Pending, SlotsInv, SlotsAccounted, TypeOK

\* A step after which no connection is pending that was not before.
LEMMA PendingShrinks ==
  ASSUME TypeOK, SlotsInv, NEW a \in Addrs, Active(a)' \subseteq Active(a),
         listener'.at = "unblocked" /\ listener'.peer = a => listener.at = "unblocked" /\ listener.peer = a
  PROVE  Pending(a)' \in Nat /\ Pending(a)' <= Pending(a)
<1>1. IsFiniteSet(Active(a)) /\ Cardinality(Active(a)) \in Nat
  BY PendingType
<1>2. IsFiniteSet(Active(a)') /\ Cardinality(Active(a)') <= Cardinality(Active(a))
  BY <1>1, FS_Subset
<1>3. Cardinality(Active(a)') \in Nat
  BY <1>2, FS_CardinalityType
<1> QED BY <1>1, <1>2, <1>3 DEF Pending

\* Such a step keeps the bound if it neither counts a failure nor sets a block.
LEMMA OvershootKept ==
  ASSUME TypeOK, SlotsInv, OvershootInv, NEW a \in Addrs, Active(a)' \subseteq Active(a),
         listener'.at = "unblocked" /\ listener'.peer = a => listener.at = "unblocked" /\ listener.peer = a,
         tries'[a] = tries[a], Blocked(entries'[a], now') => Blocked(entries[a], now),
         tries'[a] > 0 \/ Blocked(entries'[a], now')
  PROVE  tries'[a] + Pending(a)' <= MaxConnections
<1>1. Pending(a)' \in Nat /\ Pending(a)' <= Pending(a) /\ Pending(a) \in Nat
  BY PendingShrinks, PendingType
<1>2. tries[a] \in Nat
  BY DEF TypeOK
<1> QED BY <1>1, <1>2 DEF OvershootInv

\* A failed login uses up a pending connection: it is counted if the address is
\* blocked, and otherwise may set the block.
LEMMA OvershootBad ==
  ASSUME TypeOK, SlotsInv, OvershootInv, NEW h \in Handlers, AuthBad(h)
  PROVE  OvershootInv'
<1>0. handler[h].peer \in Addrs
  BY DEF AuthBad, Live, SlotsInv
<1> PICK a \in Addrs : a = handler[h].peer
  BY <1>0
<1>1. /\ h \in Live /\ UNCHANGED <<now, listener>>
      /\ handler[h].at = "read"
      /\ tries' = IF Blocked(entries[a], now) THEN [tries EXCEPT ![a] = @ + 1] ELSE tries
      /\ entries' = [entries EXCEPT ![a] = AfterFailure(@, now)]
  BY DEF AuthBad, Live, SlotsInv
<1>2. Live' = Live /\ handler'[h].at = "closing" /\ handler'[h].peer = a
      /\ \A g \in Handlers \ {h} : handler'[g] = handler[g]
  <2>1. HandlerStep(h) /\ handler'[h].at = "closing" /\ ~HandlerEnds(h)
    BY <1>1 DEF AuthBad, HandlerStep, Goes, HandlerEnds, TypeOK
  <2> QED BY <2>1, LiveAfter
<1>3. h \in Active(a) /\ Active(a)' = Active(a) \ {h}
  BY <1>1, <1>2 DEF Active, Live
<1>4. /\ IsFiniteSet(Active(a)) /\ Cardinality(Active(a)) \in Nat
      /\ Pending(a) \in Nat /\ Pending(a) <= MaxConnections + 1
  BY PendingType
<1>5. Cardinality(Active(a)') = Cardinality(Active(a)) - 1
  <2>1. Cardinality(Active(a) \ {h}) = Cardinality(Active(a)) - 1
    BY <1>3, <1>4, FS_RemoveElement
  <2> QED BY <1>3, <2>1
<1>6. Pending(a)' = Pending(a) - 1
  BY <1>1, <1>4, <1>5 DEF Pending
<1>7. tries[a] \in Nat
  BY <1>1 DEF TypeOK
<1>8. tries'[a] > 0 \/ Blocked(entries'[a], now') => tries'[a] + Pending(a)' <= MaxConnections
  <2>1. CASE Blocked(entries[a], now)
    <3>1. tries'[a] = tries[a] + 1
      BY <1>1, <2>1 DEF TypeOK
    <3>2. tries[a] + Pending(a) <= MaxConnections
      BY <1>1, <2>1 DEF OvershootInv
    <3> QED BY <1>4, <1>6, <1>7, <3>1, <3>2
  <2>2. CASE ~Blocked(entries[a], now)
    <3>1. tries'[a] = tries[a]
      BY <1>1, <2>2
    <3>2. tries[a] > 0 => tries[a] + Pending(a) <= MaxConnections
      BY <1>1 DEF OvershootInv
    <3> QED BY <1>4, <1>6, <1>7, <3>1, <3>2
  <2> QED BY <2>1, <2>2
<1>9. ASSUME NEW b \in Addrs, b # a
      PROVE  tries'[b] > 0 \/ Blocked(entries'[b], now') => tries'[b] + Pending(b)' <= MaxConnections
  <2>1. tries'[b] = tries[b] /\ entries'[b] = entries[b]
    BY <1>1, <1>9 DEF TypeOK
  <2>2. Active(b)' \subseteq Active(b)
    BY <1>1, <1>2, <1>9 DEF Active, Live
  <2> QED BY <1>1, <2>1, <2>2, OvershootKept
<1> QED BY <1>8, <1>9 DEF OvershootInv

\* Time ends blocks and sets none.
LEMMA BlocksEnd ==
  ASSUME NEW e \in Entries, NEW t \in Nat, NEW u \in Nat, t <= u
  PROVE  Blocked(e, u) => Blocked(e, t)
  BY DEF Blocked, Entries

\* Every step keeps the bound on failures after a block.
LEMMA OvershootStep ==
  ASSUME TypeOK, Stopping, SlotsInv, OvershootInv, [Next]_vars
  PROVE  OvershootInv'
<1>1. CASE /\ UNCHANGED <<handler, entries, tries>> /\ now' \in Nat /\ now <= now'
           /\ listener' = listener \/ listener'.at # "unblocked"
  <2>1. ASSUME NEW a \in Addrs
        PROVE  /\ Active(a)' \subseteq Active(a) /\ tries'[a] = tries[a]
               /\ Blocked(entries'[a], now') => Blocked(entries[a], now)
    <3>1. Active(a)' = Active(a) /\ tries'[a] = tries[a]
      BY <1>1 DEF Active, Live
    <3>2. entries[a] \in Entries /\ now \in Nat /\ now' \in Nat /\ entries'[a] = entries[a]
      BY <1>1 DEF TypeOK
    <3> QED BY <1>1, <3>1, <3>2, BlocksEnd
  <2> QED BY <1>1, <2>1, OvershootKept DEF OvershootInv
<1>2. CASE CheckBlocked
  <2>0. listener.peer \in Addrs
    BY <1>2 DEF CheckBlocked, Stopping, TypeOK
  <2> PICK a \in Addrs : a = listener.peer
    BY <2>0
  <2>1. /\ UNCHANGED <<handler, now>> /\ listener.at = "accepted"
        /\ entries' = [entries EXCEPT ![a] = AfterIsBlocked(@, now)]
        /\ IF Blocked(entries[a], now)
           THEN listener' = [at |-> "select", peer |-> None] /\ tries' = tries
           ELSE listener' = [at |-> "unblocked", peer |-> a] /\ tries' = [tries EXCEPT ![a] = 0]
    BY <1>2 DEF CheckBlocked, Stopping, TypeOK, ListenerTo
  <2>2. \A b \in Addrs : Active(b)' = Active(b)
    BY <2>1 DEF Active, Live
  <2>3. ASSUME NEW b \in Addrs, tries'[b] > 0 \/ Blocked(entries'[b], now')
        PROVE  tries'[b] + Pending(b)' <= MaxConnections
    <3>1. CASE b = a /\ ~Blocked(entries[a], now)
      <4>1. tries'[a] = 0 /\ entries'[a] = AfterIsBlocked(entries[a], now)
        BY <2>1, <3>1 DEF TypeOK
      <4>2. ~Blocked(AfterIsBlocked(entries[a], now), now)
        BY <2>1, <3>1 DEF AfterIsBlocked, Blocked, NoEntry, TypeOK
      <4> QED BY <2>1, <2>3, <3>1, <4>1, <4>2
    <3>2. CASE ~(b = a /\ ~Blocked(entries[a], now))
      <4>1. tries'[b] = tries[b] /\ entries'[b] = entries[b]
        BY <2>1, <3>2 DEF TypeOK, AfterIsBlocked
      <4>2. ~(listener'.at = "unblocked" /\ listener'.peer = b)
        BY <2>1, <3>2
      <4> QED BY <2>1, <2>2, <2>3, <4>1, <4>2, OvershootKept
    <3> QED BY <3>1, <3>2
  <2> QED BY <2>3 DEF OvershootInv
<1>3. CASE Spawn
  <2>1. /\ UNCHANGED <<now, entries, tries>> /\ listener' = [at |-> "select", peer |-> None]
        /\ listener.at = "unblocked" /\ listener.peer \in Addrs
    BY <1>3 DEF Spawn, ListenerTo, accessVars, Stopping, TypeOK
  <2>2. CASE UNCHANGED handler
    BY <1>1, <2>1, <2>2 DEF TypeOK
  <2>3. ASSUME NEW h \in Handlers, handler[h].at = "free",
               handler' = [handler EXCEPT ![h] = [at |-> "check", peer |-> listener.peer, auth |-> FALSE]]
        PROVE  OvershootInv'
    <3> PICK a \in Addrs : a = listener.peer
      BY <2>1
    <3>1. Active(a)' = Active(a) \cup {h} /\ h \notin Active(a)
      BY <2>3 DEF Active, Live, TypeOK
    <3>2. Cardinality(Active(a)') = Cardinality(Active(a)) + 1 /\ Cardinality(Active(a)) \in Nat
      BY <2>1, <3>1, PendingType, FS_AddElement
    <3>3. Pending(a)' = Pending(a)
      BY <2>1, <3>2 DEF Pending
    <3>4. ASSUME NEW b \in Addrs, b # a, tries'[b] > 0 \/ Blocked(entries'[b], now')
          PROVE  tries'[b] + Pending(b)' <= MaxConnections
      <4>1. Active(b)' \subseteq Active(b)
        BY <2>3, <3>4 DEF Active, Live, TypeOK
      <4> QED BY <2>1, <3>4, <4>1, OvershootKept
    <3> QED BY <2>1, <3>3, <3>4 DEF OvershootInv
  <2> QED BY <1>3, <2>2, <2>3 DEF Spawn
<1>4. ASSUME NEW h \in Handlers, HandlerStep(h), ~AuthBad(h)
      PROVE  OvershootInv'
  <2>1. UNCHANGED <<now, listener, tries>>
    BY <1>4, HandlerSteps DEF HandlerStep, LoopCheck, ReadFails, AuthGood, Unauthenticated, Unsupported,
              ExecCommand, Dispatched, HandlerEnds, accessVars
  <2>2. Live' \subseteq Live /\ (\A g \in Handlers \ {h} : handler'[g] = handler[g])
        /\ (h \in Live' => handler'[h].peer = handler[h].peer)
    BY <1>4, LiveAfter
  <2>3. handler[h].at = "closing" => h \notin Live'
    BY <1>4, LiveAfter DEF HandlerStep, LoopCheck, ReadFails, AuthGood, Unauthenticated, Unsupported,
              ExecCommand, Dispatched
  <2>4. \A a \in Addrs : Active(a)' \subseteq Active(a)
    BY <2>2, <2>3 DEF Active, Live
  <2>5. \A a \in Addrs : Blocked(entries'[a], now') => Blocked(entries[a], now)
    <3>1. CASE AuthGood(h)
      <4>1. \A a \in Addrs : entries'[a] = entries[a] \/ entries'[a] = NoEntry
        BY <3>1 DEF AuthGood, AfterSuccess, TypeOK
      <4>2. now \in Nat
        BY DEF TypeOK
      <4>3. ~Blocked(NoEntry, now)
        BY <4>2 DEF Blocked, NoEntry
      <4> QED BY <2>1, <4>1, <4>3
    <3>2. CASE ~AuthGood(h)
      <4>1. entries' = entries
        BY <1>4, <3>2 DEF HandlerStep, LoopCheck, ReadFails, Unauthenticated, Unsupported,
                          ExecCommand, Dispatched, HandlerEnds, accessVars
      <4> QED BY <2>1, <4>1
    <3> QED BY <3>1, <3>2
  <2> QED BY <2>1, <2>4, <2>5, OvershootKept DEF OvershootInv
<1>5. ASSUME NEW h \in Handlers, AuthBad(h)
      PROVE  OvershootInv'
  BY <1>5, OvershootBad
<1>6. CASE Tick \/ Start \/ (\E a \in Addrs : Accept(a)) \/ ListenerExit
  <2>1. /\ UNCHANGED <<handler, entries, tries>>
        /\ listener' = listener \/ listener'.at # "unblocked"
    BY <1>6 DEF Tick, Start, Accept, ListenerExit, ListenerTo, accessVars
  <2>2. now' \in Nat /\ now <= now'
    BY <1>6 DEF Tick, Start, Accept, ListenerExit, TypeOK
  <2> QED BY <1>1, <2>1, <2>2
<1>7. CASE StopBegin \/ StopJoin \/ StopReturn \/ Terminated \/ UNCHANGED vars
  <2>1. UNCHANGED <<now, handler, entries, tries, listener>>
    BY <1>7 DEF StopBegin, StopJoin, StopReturn, Terminated, vars, accessVars
  <2> QED BY <2>1 DEF OvershootInv, Pending, Active, Live
<1> QED
  BY <1>2, <1>3, <1>4, <1>5, <1>6, <1>7 DEF Next, OwnerStep, ListenerStep

-----------------------------------------------------------------------------
(* The theorems.                                                           *)

\* Before Start there is nobody.
LEMMA RconInit == Init => RconInv
<1> SUFFICES ASSUME Init PROVE RconInv
  OBVIOUS
<1>1. TypeOK
  <2>1. entries \in [Addrs -> Entries]
    BY DEF Init, NoEntry, Entries
  <2>2. buckets \in [Addrs -> Buckets]
    BY DEF Init, NoBucket, Buckets
  <2>3. handler \in [Handlers -> [at : {"free", "check", "read", "dispatch", "closing"},
                                  peer : Addrs \cup {None}, auth : BOOLEAN]]
    BY DEF Init, Idle
  <2>4. listener \in [at : {"select", "accepted", "unblocked", "exited"}, peer : Addrs \cup {None}]
    BY DEF Init
  <2>5. tries \in [Addrs -> Nat] /\ late \in [Handlers -> Nat]
    BY DEF Init
  <2>6. now \in Nat \ {0} /\ connections \in Nat
    BY DEF Init
  <2>7. running \in BOOLEAN /\ owner \in {"down", "up", "joining", "waiting", "stopped"}
    BY Zenon DEF Init
  <2>8. whitelist \in Whitelists \cup {<<>>} /\ rules = Rules(whitelist)
    <3>1. DOMAIN <<>> = {}
      OBVIOUS
    <3> QED BY <3>1 DEF Init, Rules
  <2> QED BY <2>1, <2>2, <2>3, <2>4, <2>5, <2>6, <2>7, <2>8 DEF TypeOK
<1>2. ClockInv
  BY DEF Init, ClockInv, NoBucket
<1>3. Live = {}
  BY DEF Init, Live, Idle
<1>4. Stopping /\ LateInv /\ PeersInv
  BY <1>3 DEF Init, Stopping, LateInv, LateCommands, PeersInv, Idle
<1>5. SlotsInv
  BY <1>3, FS_EmptySet DEF Init, SlotsInv, SlotsAccounted
<1>6. OvershootInv
  BY DEF Init, OvershootInv, Blocked, NoEntry
<1> QED BY <1>1, <1>2, <1>4, <1>5, <1>6 DEF RconInv

\* The threads of the server, the listener, the handlers and the one that stops it,
\* keep the invariant whatever order they run in.
THEOREM RconInvariant == Spec => []RconInv
<1>1. RconInv /\ [Next]_vars => RconInv'
  BY TypeStep, StoppingStep, LateStep, SlotsStep, OvershootStep, PeersStep DEF RconInv
<1> QED BY <1>1, RconInit, PTL DEF Spec

\* No path out of HandleClient leaks a slot or gives one back twice, and there are
\* never more handlers than MaxConnections.
THEOREM SlotsAreAccounted == Spec => []SlotsAccounted
<1>1. RconInv => SlotsAccounted
  BY DEF RconInv, SlotsInv
<1> QED BY <1>1, RconInvariant, PTL

\* Once an address is blocked it gets at most MaxConnections further tries, by the
\* connections that the block did not stop, for every MaxFailedAuth and window.
THEOREM OvershootIsBounded == Spec => []BlockOvershoot
<1>1. RconInv => BlockOvershoot
  <2> SUFFICES ASSUME RconInv, NEW a \in Addrs PROVE tries[a] <= MaxConnections
    BY DEF BlockOvershoot
  <2>1. tries[a] \in Nat /\ Pending(a) \in Nat
    BY PendingType DEF RconInv, TypeOK
  <2>2. tries[a] > 0 => tries[a] + Pending(a) <= MaxConnections
    BY DEF RconInv, OvershootInv
  <2> QED BY <2>1, <2>2
<1> QED BY <1>1, RconInvariant, PTL

\* After Stop a connection runs at most the command it was reading.
THEOREM LateCommandsAreFew == Spec => []LateCommands
<1>1. RconInv => LateCommands
  BY DEF RconInv, LateInv
<1> QED BY <1>1, RconInvariant, PTL

\* Whatever list Start is given, if its prefix lengths are numbers, the server lets
\* in exactly the blocks of its entries, at every width, and serves nobody else.
THEOREM OnlyAdmitted == Spec => []FilterIsPrefix
<1>1. RconInv => FilterIsPrefix
  <2> SUFFICES ASSUME RconInv, Numbered(whitelist) PROVE FilterIsPrefix
    BY DEF FilterIsPrefix
  <2>1. \A a : Allows(rules, a) <=> Admitted(whitelist, a)
    BY FilterIsReference DEF RconInv, TypeOK
  <2> QED BY <2>1 DEF RconInv, PeersInv, FilterIsPrefix
<1> QED BY <1>1, RconInvariant, PTL

\* Once Stop has returned no connection is taken up, since the listener was joined.
THEOREM StopIsFinal == Spec => NothingAfterStop
<1>1. RconInv /\ [Next]_vars => [owner = "stopped" => Live' \subseteq Live]_vars
  <2> SUFFICES ASSUME RconInv, Next, owner = "stopped" PROVE Live' \subseteq Live
    BY DEF Live
  <2>1. listener.at = "exited"
    BY DEF RconInv, Stopping
  <2>2. CASE ListenerStep
    BY <2>1, <2>2 DEF ListenerStep, Accept, CheckBlocked, Spawn, ListenerExit
  <2>3. CASE Terminated \/ Tick \/ OwnerStep
    BY <2>3 DEF Terminated, vars, Tick, OwnerStep, Start, StopBegin, StopJoin, StopReturn, Live
  <2>4. ASSUME NEW h \in Handlers, HandlerStep(h)
        PROVE  Live' \subseteq Live
    BY <2>4, LiveAfter DEF RconInv
  <2> QED BY <2>2, <2>3, <2>4 DEF Next
<1> QED BY <1>1, RconInvariant, PTL DEF Spec, NothingAfterStop
=============================================================================
