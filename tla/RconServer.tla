------------------------------ MODULE RconServer ------------------------------
(***************************************************************************)
(* src/src/rcon/rcon_server.cpp: the listener thread, the detached handler    *)
(* threads it starts, and the thread that calls Start and Stop, around the    *)
(* limiter and the tracker of AccessControl.  A command's dispatch is one     *)
(* step that takes its time; a packet is one of the kinds HandleClient tells  *)
(* apart.                                                                     *)
(***************************************************************************)
EXTENDS AccessControl, IpFilter, FiniteSets

CONSTANTS Addrs,           \* client addresses
          Whitelists,      \* what [RCON] IPWhitelist may be, a list of entries
          MaxConnections,  \* [RCON] MaxConnections
          Handlers,        \* bound: handler threads alive at once
          MaxTime,         \* bound: the clock
          None

ASSUME RconAssumption ==
  /\ MaxConnections \in Nat /\ MaxTime \in Nat /\ Addrs \subseteq Addresses /\ None \notin Addrs
  /\ Whitelists \subseteq Seq(EntryTexts)

VARIABLES
  now,          \* the steady clock, in seconds
  running,      \* m_Running
  whitelist,    \* the IPWhitelist that Start was given
  rules,        \* m_Rules of the filter
  owner,        \* where the thread that starts and stops the server is
  listener,     \* ListenerLoop: where it is, and the peer it has accepted
  connections,  \* m_Connections
  handler,      \* HandleClient: where each is, its peer, `authenticated'
  entries,      \* m_AuthFailures
  buckets,      \* m_CommandLimiter
  tries,        \* history: failed logins of an address since it was blocked
  late          \* history: commands each handler has started since Stop

filter == <<whitelist, rules>>
vars == <<now, running, filter, owner, listener, connections, handler, entries, buckets, tries, late>>
accessVars == <<entries, buckets, tries>>

Idle == [at |-> "free", peer |-> None, auth |-> FALSE]

TypeOK ==
  /\ now \in Nat \ {0}
  /\ running \in BOOLEAN
  /\ whitelist \in Whitelists \cup {<<>>} /\ rules = Rules(whitelist)
  /\ owner \in {"down", "up", "joining", "waiting", "stopped"}
  /\ listener \in [at : {"select", "accepted", "unblocked", "exited"}, peer : Addrs \cup {None}]
  /\ connections \in Nat
  /\ handler \in [Handlers -> [at : {"free", "check", "read", "dispatch", "closing"},
                               peer : Addrs \cup {None}, auth : BOOLEAN]]
  /\ entries \in [Addrs -> Entries]
  /\ buckets \in [Addrs -> Buckets]
  /\ tries \in [Addrs -> Nat]
  /\ late \in [Handlers -> Nat]

Init ==
  /\ now = 1
  /\ running = FALSE
  /\ whitelist = <<>> /\ rules = {}
  /\ owner = "down"
  /\ listener = [at |-> "exited", peer |-> None]
  /\ connections = 0
  /\ handler = [h \in Handlers |-> Idle]
  /\ entries = [a \in Addrs |-> NoEntry]
  /\ buckets = [a \in Addrs |-> NoBucket]
  /\ tries = [a \in Addrs |-> 0]
  /\ late = [h \in Handlers |-> 0]

Live == {h \in Handlers : handler[h].at # "free"}

Tick ==
  /\ now < MaxTime
  /\ now' = now + 1
  /\ UNCHANGED <<running, filter, owner, listener, connections, handler, accessVars, late>>

-----------------------------------------------------------------------------
(* Start and Stop.                                                         *)

\* Start, once the socket listens.  On any earlier return nothing has changed
\* but the filters, which only a running server reads.
Start ==
  /\ owner = "down" /\ ~running
  /\ whitelist' \in Whitelists /\ rules' = Rules(whitelist')
  /\ running' = TRUE
  /\ owner' = "up"
  /\ listener' = [at |-> "select", peer |-> None]
  /\ UNCHANGED <<now, connections, handler, accessVars, late>>

StopBegin ==
  /\ owner = "up" /\ running
  /\ running' = FALSE
  /\ owner' = "joining"
  /\ UNCHANGED <<now, filter, listener, connections, handler, accessVars, late>>

\* Faulty variant: Stop does not join the listener.
StopDetach ==
  /\ owner = "joining"
  /\ owner' = "waiting"
  /\ UNCHANGED <<now, running, filter, listener, connections, handler, accessVars, late>>

\* The listener thread is joined.
StopJoin ==
  /\ owner = "joining" /\ listener.at = "exited"
  /\ owner' = "waiting"
  /\ UNCHANGED <<now, running, filter, listener, connections, handler, accessVars, late>>

\* The connections are gone, or have had their second.
StopReturn ==
  /\ owner = "waiting"
  /\ owner' = "stopped"
  /\ UNCHANGED <<now, running, filter, listener, connections, handler, accessVars, late>>

-----------------------------------------------------------------------------
(* ListenerLoop.                                                           *)

ListenerTo(at, a) == listener' = [at |-> at, peer |-> a]

\* accept, and the whitelist: a peer it does not allow is closed.
Accept(a) ==
  /\ listener.at = "select" /\ running
  /\ IF Allows(rules, a) THEN ListenerTo("accepted", a) ELSE UNCHANGED listener
  /\ UNCHANGED <<now, running, filter, owner, connections, handler, accessVars, late>>

\* IsBlocked, under the tracker's mutex.
CheckBlocked ==
  /\ listener.at = "accepted"
  /\ LET a == listener.peer
     IN /\ entries' = [entries EXCEPT ![a] = AfterIsBlocked(@, now)]
        /\ IF Blocked(entries[a], now)
           THEN ListenerTo("select", None) /\ UNCHANGED tries
           ELSE ListenerTo("unblocked", a) /\ tries' = [tries EXCEPT ![a] = 0]
  /\ UNCHANGED <<now, running, filter, owner, connections, handler, buckets, late>>

\* The connection limit, and the start of a handler.  Only the listener adds to
\* m_Connections, so nothing can fill it between the load and the increment.
Spawn ==
  /\ listener.at = "unblocked"
  /\ IF connections >= MaxConnections
     THEN UNCHANGED <<connections, handler, late>>
     ELSE /\ connections' = connections + 1
          /\ \E h \in Handlers :
               /\ handler[h].at = "free"
               /\ handler' = [handler EXCEPT ![h] =
                                [at |-> "check", peer |-> listener.peer, auth |-> FALSE]]
               /\ late' = [late EXCEPT ![h] = 0]
  /\ ListenerTo("select", None)
  /\ UNCHANGED <<now, running, filter, owner, accessVars>>

ListenerExit ==
  /\ listener.at = "select" /\ ~running
  /\ ListenerTo("exited", None)
  /\ UNCHANGED <<now, running, filter, owner, connections, handler, accessVars, late>>

-----------------------------------------------------------------------------
(* HandleClient.                                                           *)

Goes(h, at) == handler' = [handler EXCEPT ![h].at = at]

\* Faulty variant: while (true).
LoopForever(h) ==
  /\ handler[h].at = "check"
  /\ Goes(h, "read")
  /\ UNCHANGED <<now, running, filter, owner, listener, connections, accessVars, late>>

\* while (m_Running): once more round, or out.
LoopCheck(h) ==
  /\ handler[h].at = "check"
  /\ Goes(h, IF running THEN "read" ELSE "closing")
  /\ UNCHANGED <<now, running, filter, owner, listener, connections, accessVars, late>>

\* ReadPacket fails: the peer closes, sends a bad size, or 30 seconds pass.
ReadFails(h) ==
  /\ handler[h].at = "read"
  /\ Goes(h, "closing")
  /\ UNCHANGED <<now, running, filter, owner, listener, connections, accessVars, late>>

AuthGood(h) ==
  /\ handler[h].at = "read"
  /\ handler' = [handler EXCEPT ![h] = [at |-> "check", peer |-> @.peer, auth |-> TRUE]]
  /\ entries' = [entries EXCEPT ![handler[h].peer] = AfterSuccess(@, now)]
  /\ UNCHANGED <<now, running, filter, owner, listener, connections, buckets, tries, late>>

\* Faulty variant: a failed login may be followed by another on the same
\* connection.
AuthBadRetries(h) ==
  /\ handler[h].at = "read"
  /\ Goes(h, "check")
  /\ LET a == handler[h].peer
     IN /\ entries' = [entries EXCEPT ![a] = AfterFailure(@, now)]
        /\ tries' = IF Blocked(entries[a], now) THEN [tries EXCEPT ![a] = @ + 1] ELSE tries
  /\ UNCHANGED <<now, running, filter, owner, listener, connections, buckets, late>>

AuthBad(h) ==
  /\ handler[h].at = "read"
  /\ Goes(h, "closing")
  /\ LET a == handler[h].peer
     IN /\ entries' = [entries EXCEPT ![a] = AfterFailure(@, now)]
        /\ tries' = IF Blocked(entries[a], now) THEN [tries EXCEPT ![a] = @ + 1] ELSE tries
  /\ UNCHANGED <<now, running, filter, owner, listener, connections, buckets, late>>

\* Any other packet before a login.
Unauthenticated(h) ==
  /\ handler[h].at = "read" /\ ~handler[h].auth
  /\ Goes(h, "closing")
  /\ UNCHANGED <<now, running, filter, owner, listener, connections, accessVars, late>>

\* A packet of an unknown type is answered and the loop goes on.
Unsupported(h) ==
  /\ handler[h].at = "read" /\ handler[h].auth
  /\ Goes(h, "check")
  /\ UNCHANGED <<now, running, filter, owner, listener, connections, accessVars, late>>

\* A command: the limiter's answer, then Dispatch.
ExecCommand(h) ==
  /\ handler[h].at = "read" /\ handler[h].auth
  /\ LET a == handler[h].peer
         ok == ~LimiterEnabled \/ Grants(buckets[a], now)
     IN /\ buckets' = IF LimiterEnabled THEN [buckets EXCEPT ![a] = AfterAllow(@, now)] ELSE buckets
        /\ Goes(h, IF ok THEN "dispatch" ELSE "check")
        /\ late' = IF ok /\ ~running THEN [late EXCEPT ![h] = @ + 1] ELSE late
  /\ UNCHANGED <<now, running, filter, owner, listener, connections, entries, tries>>

\* Dispatch returns, at the latest when RunSync times out, and is answered.
Dispatched(h) ==
  /\ handler[h].at = "dispatch"
  /\ Goes(h, "check")
  /\ UNCHANGED <<now, running, filter, owner, listener, connections, accessVars, late>>

\* Faulty variant: a handler that was never let in gives no slot back.
HandlerEndsLeaky(h) ==
  /\ handler[h].at = "closing"
  /\ handler' = [handler EXCEPT ![h] = Idle]
  /\ connections' = IF handler[h].auth THEN connections - 1 ELSE connections
  /\ UNCHANGED <<now, running, filter, owner, listener, accessVars, late>>

\* The socket is closed, the counter goes down and the thread ends.
HandlerEnds(h) ==
  /\ handler[h].at = "closing"
  /\ handler' = [handler EXCEPT ![h] = Idle]
  /\ connections' = connections - 1
  /\ UNCHANGED <<now, running, filter, owner, listener, accessVars, late>>

OwnerStep == Start \/ StopBegin \/ StopJoin \/ StopReturn
ListenerStep == (\E a \in Addrs : Accept(a)) \/ CheckBlocked \/ Spawn \/ ListenerExit
HandlerStep(h) ==
  \/ LoopCheck(h) \/ ReadFails(h) \/ AuthGood(h) \/ AuthBad(h) \/ Unauthenticated(h)
  \/ Unsupported(h) \/ ExecCommand(h) \/ Dispatched(h) \/ HandlerEnds(h)

\* The server is stopped and its threads are gone.
Terminated == owner = "stopped" /\ Live = {} /\ UNCHANGED vars

Next == Terminated \/ Tick \/ OwnerStep \/ ListenerStep \/ \E h \in Handlers : HandlerStep(h)

Spec == Init /\ [][Next]_vars

\* Threads that can move do: the listener comes back from select within a second,
\* a dispatch ends, and Stop goes on.  That a client sends anything is not
\* assumed; that a read ends is, by its 30 second timeout.
FairSpec ==
  /\ Spec
  /\ WF_vars(StopJoin) /\ WF_vars(StopReturn)
  /\ WF_vars(CheckBlocked) /\ WF_vars(Spawn) /\ WF_vars(ListenerExit)
  /\ \A h \in Handlers : WF_vars(HandlerStep(h))

-----------------------------------------------------------------------------
(* Properties.                                                             *)

\* m_Connections is the number of handler threads: no path out of HandleClient
\* leaks or gives back a slot twice, and there are never more than allowed.
SlotsAccounted == connections = Cardinality(Live) /\ connections <= MaxConnections

\* `Refused for BanSeconds, enforced at accept': once an address is blocked, the
\* connections it already has, and one the listener has already let past the
\* check, may fail a login each, and no more follow.
BlockOvershoot == \A a \in Addrs : tries[a] <= MaxConnections

\* After Stop a connection runs at most the one command it was reading.
LateCommands == \A h \in Handlers : late[h] <= 1

\* The masks that Configure has left let in exactly the CIDR blocks of the list,
\* at every prefix length including 0 and the full width, where a shift is not
\* what it seems; and whoever is served, or has been accepted, is in one of them.
\* Of lists whose prefix lengths are numbers: atoi takes any other for 0, and the
\* entry lets in everyone where README has it `logged and ignored'.
FilterIsPrefix ==
  Numbered(whitelist) =>
    /\ \A a \in Addresses : Allows(rules, a) <=> Admitted(whitelist, a)
    /\ \A h \in Live : Admitted(whitelist, handler[h].peer)
    /\ listener.peer # None => Admitted(whitelist, listener.peer)

\* Once Stop has returned no new connection is served.
NothingAfterStop == [][owner = "stopped" => Live' \subseteq Live]_vars

\* Once Stop is called every handler thread ends.
HandlersEnd == owner = "joining" ~> Live = {}

-----------------------------------------------------------------------------
(* The inductive invariant of the proofs, in parts.                         *)

\* Stop and the listener: nobody is accepted before Start, and once Stop has joined
\* the listener it is gone.
Stopping ==
  /\ running <=> owner = "up"
  /\ owner \in {"down", "waiting", "stopped"} => listener.at = "exited"
  /\ owner = "down" => Live = {}
  /\ listener.at \in {"accepted", "unblocked"} <=> listener.peer # None

\* The limiter's stamps are not in the future, so a refill takes nothing away.
ClockInv == \A a \in Addrs : buckets[a].last <= now

\* A handler that reads has run no command since Stop.
LateInv ==
  /\ LateCommands
  /\ \A h \in Handlers : owner \in {"down", "up"} \/ handler[h].at = "read" => late[h] = 0

\* The handlers are those counted, each for an address.
SlotsInv ==
  /\ IsFiniteSet(Live) /\ SlotsAccounted
  /\ \A h \in Live : handler[h].peer \in Addrs

\* The connections of an address that may still fail a login: those of handlers on
\* their way, and the one the listener has let past the check.
Active(a) == {h \in Live : handler[h].peer = a /\ handler[h].at # "closing"}
Pending(a) ==
  Cardinality(Active(a)) + IF listener.at = "unblocked" /\ listener.peer = a THEN 1 ELSE 0

\* From the login that sets a block on there are no more of them than fit: the
\* failure that set it has used one up.
OvershootInv ==
  \A a \in Addrs :
    tries[a] > 0 \/ Blocked(entries[a], now) => tries[a] + Pending(a) <= MaxConnections

\* Peers have passed the filter.
PeersInv ==
  /\ listener.peer # None => Allows(rules, listener.peer)
  /\ \A h \in Live : Allows(rules, handler[h].peer)

RconInv == TypeOK /\ ClockInv /\ Stopping /\ LateInv /\ SlotsInv /\ OvershootInv /\ PeersInv
=============================================================================
