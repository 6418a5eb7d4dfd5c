# RSDWServerAPI: specifications, model checking and proofs

RSDWServerAPI is a shared library that is loaded into a dedicated game server. It
adds a REST API, an RCON server, a ban list, chat commands and Discord messages to
a game it has no source of: it finds the engine's data in memory, hooks one of the
engine's functions, and runs whatever touches the game on the game's own thread.

Most of what is hard about it is concurrency. There is one thread that the library
does not own and must not block (the game's), an init thread that doubles as the
enforcement loop, two listeners with a detached thread per connection, and a worker
per Discord channel. They meet in a job queue with timeouts, in hooks that are
installed while the game runs through them, in two files that are rewritten in
place, in memory that is searched while the game is building it, and in a shutdown that
runs on the game thread and waits for threads that wait for the game thread. This
directory models those parts in TLA+, checks them with TLC, and proves every safety property that the passing runs check, for any constants, with TLAPS.

Paths below are relative to the repository root.

## 1. Inventory

| Component | State | Operations | Hard behaviour | What makes it correct |
|---|---|---|---|---|
| Game-thread queue (`src/engine/process_event.cpp`: `RunSync`, `Drain`) | `g_Queue` of pointers to `Job`s on the callers' stacks, `g_Ready` | push and wait 10 s, erase on timeout; pop, run, set `done`, notify | the timeout races with a pop; `Drain` nests; a `Job`'s address is used again | an answer is true; no waiter is stranded; jobs run in order |
| Pump installation (same file: `Initialize`, `InstallExecPump`, `PumpThunk`, `DeriveProcessEvent`, `LearnFrameLayout`) | about ten plain globals, a vtable slot, a thunk | each assignment is visible at once to the game thread | hooks go live while being installed; two alternative pumps | no call through a missing pointer; the game thread never waits for itself |
| RCON limits (`src/net/access_control.cpp`) | token bucket and failure entry per address | `Allow`; `IsBlocked`, `RecordFailure`, `RecordSuccess` | refill arithmetic; window edges; results of connections that were accepted before a block | rate and burst are respected; a block lasts |
| RCON server (`src/rcon/rcon_server.cpp`) | `m_Running`, `m_Connections`, listener and handler threads | `Start`, `Stop`, accept, authenticate, execute | check at accept against use later; `Stop` against a running handler | slots are accounted for; nothing new after `Stop`; handlers end |
| Ban list (`src/engine/bans.cpp`) | `g_Bans`, `bans.json` | `Load`, `Ban`, `Unban`, `SaveLocked`, `Enforce` | in-place rewrite, failed saves, crash and restart, commands before `Load` | file and list agree; bans survive |
| Kick and enforcement (`src/engine/kick.cpp`, loop in `src/rsdwapi.cpp`) | `g_Kicked` | `KickPlayer`, `RememberKick`, `EnforceKicks` | stale snapshots of players, timeouts, late closures | a kicked or banned player who comes back is removed |
| Discord (`src/discord/webhook.cpp`) | queue, two flags and a worker per channel | `Start`, `Stop`, `Post`, `Run` | overflow while the worker takes; `Stop` at any point; `Start` after `Stop` | order kept, oldest dropped, nothing sent twice, pace kept, `Stop` returns |
| REST server (`src/http/http_server.cpp`) | `running`, listener and client threads, `routesMutex` | `Start`, `Stop`, `HandleClient` | a route waits for the game with the mutex held | routes are never left locked; requests end |
| Lifecycle (`src/rsdwapi.cpp`) | `g_Shutdown`, the init thread | `RSDWApiLoad`, `InitThread`, `ShutdownListeners`, `RSDWApiUnload` | exit on the game thread joins a thread that waits for the game thread | exit returns; afterwards nothing new begins |
| Player events and deaths (`src/engine/chat.cpp`, `src/rsdwapi.cpp`) | `g_HookedVTables`, `g_RecentEvents`, `wasDead`, `deathPosted` | `Poll`, hooked events, `reportDeath`, health sweep | two threads report one death, with clocks read outside the mutex; a hook is live before its original is recorded | one report per key and gap; no death missed |
| Chat (`src/engine/chat.cpp`: `Initialize`, `SendThunk`, `HandleCommand`, `Deliver`, `Broadcast`) | `g_OriginalSend`, the listeners | hook, relay, commands, broadcast | lines pass through a hook whose pump has not learned the frame layout yet | no line swallowed; what is relayed or hidden stays so |
| Identifiers (`kick.cpp`, `bans.cpp`, `items.cpp`, `commands_players.cpp`) | none | `KickPlayer`, `Ban`, `GiveItem` and `player` each look a player up | four look-ups, two rules, players without a controller | the commands mean the same player; a ban kicks whom it lists |
| IP whitelist (`src/net/access_control.cpp`: `IpFilter`) | rules | `Configure`, `Allows` | masks at both ends, malformed entries | exactly the blocks named |
| Configuration (`src/config/config.h`) | `settings.ini`, `g_Config` | `Load`, `GenerateSecrets`, `Save` at every start | in-place rewrite, missing or unreadable file, edits, crash | secrets and edits are kept; REST is open only if it was meant to be |
| Engine discovery (`src/engine/engine_core.cpp`) | `gNames`, `gObjects`, `initialized` | `Initialize`, tried with back-off | the game builds the tables meanwhile; other memory looks like them | a request's tables do not change under it; the game's are found in the end |
| Native calls, items, players, routes, logger | mostly none | reads of game memory, formatting | what they need of the pump | see sections 3 and 8 |

How they interact: handlers (REST, RCON) and the init thread call `RunSync`; the
game thread drains the queue from the hook and runs chat commands, whose `RunSync`
is inline; `Ban` calls `KickPlayer`; the init thread calls `Chat::Poll`,
`EnforceKicks`, `DomBans::Enforce` and the death sweep every two seconds; event
listeners and sweep post to Discord; the chat hook calls `HandleCommand`, hence `KickPlayer`,
`Ban` and `GiveItem`; both listeners ask an `IpFilter`; `exit` calls `ShutdownListeners`.

The hazards found on the way, each at its line, are the `hazards` of
`PROJECT.json`, with the properties that watch them.

## 2. Modules

| Module | Models | Uses |
|---|---|---|
| `SyncCall` | abstract: what a caller of `RunSync` may rely on | |
| `GameThread` | the queue, `RunSync`, `Drain` | `SyncCall` through a refinement mapping |
| `GameThreadProofs`, `SequenceLemmas` | proofs; lemmas on `RemoveFirst`, `Contains`, `Front` and on lists without repetition | |
| `PumpSetup`, `PumpSetupProofs` (also of `ChatRelay`) | installation of the pump and of the chat hook, discovery of `ProcessEvent`; kicks, gives, chat commands and broadcasts as users of it | |
| `ChatRelay` | what becomes of a chat line: command, relay, the game | `PumpSetup`, of which its steps are steps |
| `AccessControl` | `RateLimiter` and `FailureTracker` as functions of an entry and the time | |
| `AccessLimits`, `AccessLimitsProofs` | both under any order of calls | `AccessControl` |
| `IpFilter` | the whitelist as operators, and a reference definition | |
| `RconServer`, `RconServerProofs` (also of `IpFilter`) | listener, handlers, `Start`, `Stop` | `AccessControl`, `IpFilter` |
| `BanList` | `g_Bans` and `bans.json` over restarts | |
| `Settings` | `settings.ini` over restarts | |
| `DataDir`, `DataDirProofs` (also of `BanList` and `Settings`) | both files in one server's life | `BanList`, `Settings` |
| `PlayerMatch` | which player an identifier names, for each command | |
| `Moderation` | kick, ban, unban, enforcement, composed over the answers `RunSync` can give | `PlayerMatch` |
| `EngineDiscovery` | the search for the game's tables | |
| `Discord` | the senders | |
| `Lifecycle`, `LifecycleProofs` (also of `EngineDiscovery`) | init thread, REST server and exit, composed | `EngineDiscovery` |
| `DeathReports` | chat vtable hook, events, death sweep | |
| `InitThreadProofs` | proofs about what the init thread starts or runs in its loop | `Discord`, `DeathReports`, `Moderation` |

Each `MCx` module only extends `x` (`MCPumpSetup` extends `ChatRelay`), and defines the
symmetry sets and the values of structured constants its `.cfg` uses; the other constants
get their values in the `.cfg`. Definitions named as a *faulty variant*
are never part of a specification: they are plausible mistakes (a dropped guard, a
swapped order), kept beside the action they distort so that one can see that the
properties would notice. They are the `mutants` of `PROJECT.json`.

## 3. Correspondence with the code

The `map` of `PROJECT.json` gives the lines of every definition. What needs saying:

**GameThread.** A `Job` is a local variable of `RunSync`; its identity in the queue is
its address. The model therefore names a Job by `<<thread, slot>>`, where the slot is
how deep the frame lies, and lets a later call use the same slot or another. `mem` is
what lies there: whose call, and `done`. Steps are the critical sections of
`g_QueueMutex` and what happens between them: push; pop; start of the closure; the
write of `done`; return with `done` set; timeout with the erase. `stack` holds the
nested activations of `Drain`, since a closure calls the engine, which may call the
hooked function again. If the game thread uses a Job whose caller has left, the
bytes there are whatever the last user of the address left, or anything: the model
takes that Job's last call, or a crash. A thread to which that has happened is in
`lost`.

**SyncCall** has one variable per caller: idle, pending, ran or lost. It says that a
closure is started at most once, between submission and answer, that `true` is
answered only after it and `false` only without it, and that a caller may give up
on a closure only by becoming lost, after which nothing is promised to it.

**PumpSetup.** The globals are booleans (set or not). `Initialize` and
`InstallExecPump` are one step per assignment that the other thread can see; the
symbol search, the vtable search, the stack walk and the frame inspection are
choices of their result. A kick needs `NativeCall::Invoke`, hence the frame layout,
which only `PumpThunk` learns; so does a give. A broadcast needs `g_ProcessEvent` and
`g_Original`. `located` is a history: whether the exec pump's first pass left
`ProcessEvent` located (open, yes or no).

**ChatRelay.** `SendThunk` is one step of the game thread: with the layout learned, a line
of a known player that is one of the five commands is taken by `HandleCommand`; any other
line whose frame can be read is delivered to the listeners and passed on to the game. A line
whose locals cannot be read, or that is empty, is only passed on (`readable`). `relays` and `takes`
remember that a line was relayed, or a command taken, before.

**AccessControl.** Tokens are in sixtieths, so the refill `PerMinute / 60` per second
is exact; the code computes in doubles. Settings at or below zero take the code's
defaults. `AccessLimits` adds histories: when commands were granted, which failures
the tracker has let pass, when an address was last blocked.

**RconServer.** A handler is at its loop test, in a read, in a dispatch or closing.
What a packet contains is reduced to which branch of `HandleClient` it takes. `Start`
takes one of the `Whitelists` and makes `rules` of it, which are asked at accept, as in
the REST server.

**IpFilter.** An address is the set of its bits that are set, so that masking is
intersection; a shift is by a distance modulo the width, as the processor does it. Entries
are what `Split`, `inet_pton` and `atoi` make of a text: an address or none; no length, one
in or out of range, or one that is no number, which `atoi` takes for 0. The reference,
`Admitted`, is written after README.md:108-111 and not after the code: an entry that does not
parse is left out.

**BanList.** `SaveLocked` is two steps, opening (which truncates) and closing, or a
failure: the file is not opened, or takes only a prefix of the entries, of which the code
learns nothing. `Load` reads the file, or cannot open one that is there and leaves the list
empty. A restart may come at any moment and leaves of a file being written a prefix of its
entries. `lossy` remembers in which of four ways something may have been lost: a save before
`Load`, a failed save, an unread file, a crash in a save. `behind` is about the present:
the last save or `Load` of this process did not succeed.

**Settings** keeps the four settings that decide who may use the listeners. A secret is
the number of the call of `GenerateSecrets` that made it up, so a regenerated one is seen
to be another. `Save` truncates, and a crash leaves the first lines, in the order in
which `Save` writes them. `losses` names the ways in which settings may go astray: a file
that is there and cannot be read, one that could not be written at first, no random
bytes, an edit between `Load` and `Save`, a crash in `Save`.

**DataDir** puts the two in the order of `InitThread`: settings, listeners, engine, pump,
bans. A command needs a listener that has been started, or the game's chat.

**Moderation.** Threads are handlers, the game thread in a chat command, and the
enforcer. `KickPlayer` is a look-up in a snapshot, a queued closure, and an answer;
`late` holds closures whose caller gave up. A player may have no net id (`NoText`); such a
one can be kicked by player id, and is not remembered. The game may let a controller be used
by another session in between, and a closure then kicks whoever has it. The look-up is
`KickTarget` of **PlayerMatch**, in which texts are model values and `Lower` is a function
on them; a player without a controller is one whom the code finds and passes over.

**Discord.** `Start` is four steps (flag, flag, thread, pointer to the thread),
because `Stop` may come between any two. Lines are numbers; a batch's 1900
characters are `BatchLines` lines. `Send` ends with the batch taken by the webhook (`sent`) or,
if curl cannot be run or fails, with the batch gone (`discarded`).

**Lifecycle.** RCON's `Stop`, a sender and `RunSync` are reduced to what the modules
above show of them. Once `exiter` has left `game`, no `RunSync` can be answered, and no
event is dispatched to a listener. A request first reads (`EngineReady`, then the game's
objects) and then may wait.

**EngineDiscovery.** A place is the SDK's offset or a spot of the scan, in order. At each
there is nothing that validates, the game's table, or something that validates without
being it. One step per table, and one for the cross-check, since the game goes on loading
between them. The cross-check knows only the name of object 0. Read through the game's two
tables it is right; through anything else that was found it may or may not contain
`CoreUObject`, so an attempt may end with other memory in use.

**DeathReports.** `reportDeath` is two steps, the clock and the locked block, on
either thread. `HookVTable` (the slot) and the entry in `g_HookedVTables` are two
steps, with the game free to call in between.

## 4. Runs

| Run | Result | What it shows |
|---|---|---|
| `GameThread` | pass | Answers are true for every thread that is not lost (`AnswerIsTrue`); first in, first out (`QueueFifo`); `SyncCall` is implemented; callers are answered without their timeout (`CallsReturn`). |
| `GameThreadFalse` | violation | `false` does not mean that the closure was not run. |
| `PumpSetup` | pass | No call through, or swallowed by, a missing pointer; no self-wait; an accepted broadcast finds `ProcessEvent`; whether it is located is decided by the pump's first pass (`LocatedOnce`); once that has worked, every line that can be read goes on being relayed, and every readable command of a known player hidden (`ChatStays`). |
| `AccessLimits` | pass | `RateBound`: over any stretch at most burst + rate x time; `BlockLasts`; `WindowBound`: at most 2(MaxFailedAuth - 1) failures in a window's length without a block. |
| `RconServer` | pass | Slots are accounted for and limited; after a block at most one further try per open connection; after `Stop` at most one command per connection, no new connection, and all handlers end; a whitelist whose prefix lengths are numbers lets in exactly the blocks of its valid entries (`FilterIsPrefix`). |
| `DataDir` | pass | Between saves `bans.json` and list agree, unless the last save or `Load` did not succeed (`FileIsList`); over restarts the list is exactly who is banned, unless one of four losses happened (`BansKept`); the listeners run with the settings of the first start and the edits since, unless one of five happened (`SettingsKept`); secrets in use are not replaced by others, even after a crash in `Save`, unless the file could not be opened (`NeverRegenerated`). |
| `BanListEarly` | violation | A ban before `Load` erases the bans on file. |
| `Moderation` | pass | Whoever a kick command removed is remembered, given a net id to remember, unless it timed out (`KickRemembered`); a banned or kicked player who is connected is removed or leaves; a ban's kick hits the player it lists (`BanKicksListed`); where an identifier fits one player, all commands mean that one (`LookupsAgree`). |
| `ModerationUnban` | violation | A lifted ban leaves the player in the kick memory. |
| `Discord` | pass | Order, nothing sent twice, nothing lost but what a full queue pushes out or a failed `Send` discards (`NothingLost`), one second between a sender's batches, one batch after `Stop`; every other line of a sender that keeps running arrives (`LinesArrive`), `Stop` returns. |
| `Lifecycle` | pass | While a request reads the game's objects no attempt changes the tables it reads them through, and both were found (`ReadsFixedTables`); an attempt succeeds once the game has loaded, whatever earlier ones took for the tables (`EngineFound`); no event is dispatched to a listener whose variables are gone (`ListenerInScope`); after `ShutdownListeners` nothing new begins; `exit` returns, and every request gets `routesMutex` and ends, although all of them may wait for the thread that waits for them. |
| `DeathReports` | pass | Reports of a key are `DeathGap` apart; a death that a sweep can see is reported; calls are lost only while a vtable is being hooked. |

The type invariants and the inductive invariants are not listed in the configurations: the
proofs cover them for every instance. Each of them (`IndInv`, `ChatInv`, `WindowInv`,
`RconInv`, `BanInv`, `SettingsInv`, `LifeInv`, `DiscordInv`, `DeathInv`, `ModerationInv`) is
defined in its component's module, so adding its name to that component's `.cfg` as an
`INVARIANT` checks it on the small instance too.

### Bounds

* `GameThread`: two threads, two slots, two calls each, two nested drains. Two calls
  on two slots are what it takes for a late write to hit a live Job of the same
  thread or miss it; two threads, for an erase in the middle of the queue; nesting
  of two, for an inner drain that runs what the outer one would have run next.
* `AccessLimits`: one address (the maps are per address and nothing relates two),
  a rate that is no multiple of a token (40 a minute), burst 2, window 2, block 3,
  time to 7, so that a window ends, a block ends and a second one begins.
  `MaxFails` is above `WindowBound`'s limit of 4.
* `RconServer`: two handlers and `MaxConnections` 2, so that the limit is met and a
  second connection outlives a block; time to 4 lets a block run out. One client, and five
  whitelists on addresses of three bits, of which one keeps it out: with blocks of length 0, 1, 2 and the full
  width, a missing length, lengths on either side of the range, a malformed address, no entry
  left at all, and a length that is no number. `FilterIsPrefix` compares rules and reference on all eight addresses;
  `FilterIsReference` proves the same for every list of numbered prefixes and every width.
* `PumpSetup`: two handlers, whose closures are drained together.
* `DataDir`: two net ids and two threads, symmetric, since no property names one; two
  starts that find no settings, one edit, one kind of loss (each exemption is thus
  tested alone: with two, the states double and no property distinguishes the pairs).
  Restarts are not bounded.
* `Moderation`: one net id, players without one, one controller, one
  handler, the game thread and the enforcer. The controller serves one session after another, which
  is how a closure with a stale pointer hits a player it was not queued for. `MaxLate` 1 lets a
  closure outlive its call; the proofs hold for any number. The
  look-up properties range over all lists of up to two players whose names may differ in
  case, be a number, or be the other's net id.
* `Discord`: queue of 3, batches of 2, 6 lines: it overflows, also while a batch is in
  hand. One sender; two share no state.
* `Lifecycle`: two requests, one in a route and one waiting for the mutex; two kicks in a
  sweep. The object array is at the SDK's offset, the name pool at a second place behind
  its offset, where other memory can be taken for it first; with the cross-check open, that is
  enough for failed attempts, for one that succeeds on the wrong table, and for one that finds
  what the last did not.
* `DeathReports`: the gaps keep their order (`EventGap` <= `DeathGap` <= `Forget`) and
  are scaled to 1, 2, 2 with time to 4, so two reports of a key fit. One player: keys
  of two do not interact, except that an event of one forgets old events of another.

Deadlock is checked in every run; places where the system may rest (`Dead`,
`Terminated`, `Rests`, `Quiet`, `Over`) are explicit.

### Fairness, and why the code justifies it

* `GameThread`: weak fairness of the game thread: the hooked function is one the engine
  calls all the time, and closures end. Weak fairness of waking, since `done` is set
  under the mutex that `wait_for` uses. None of calling, none of timing out.
* `RconServer`: of every handler's steps together (the socket has a 30 s receive timeout, a
  dispatch ends by `RunSync`'s timeout), of the listener's steps after an accept
  (`select` has one second), of `Stop`'s own steps. Not of `Start`, `Stop` or a client.
* `Moderation`: of every thread's own steps. Two assumptions are about the game: a player
  who keeps connecting at some time gets a pawn (strong fairness of `Spawn`), and among
  infinitely many removals the sweep queues, infinitely many are run and accepted. Without
  the second nothing could remove anyone.
* `Discord`: of the worker and of time, since its waits are timed and curl has ten
  seconds; of a `Start` that has begun; of the join in `Stop`.
* `Lifecycle`: of init thread, shutdown, listener's exit and every request, all of whose
  waits are timed. Nobody has to connect and the process need not exit. `EngineFound`
  asks for nothing until the game has loaded, with nothing that looks like a table before
  the tables; the game need not.
* `DeathReports`: of both threads.
* `AccessLimits`, `DataDir`, `PumpSetup` check safety only and assume none.

## 5. Proofs

Checked by `tlapm`, for every value of the constants that the named assumptions
allow (distinctness of `None`, types of the bounds and settings, finitely many controllers,
what a player id and a net id can look like). Every invariant and every action property of
a passing run is stated by a theorem; the runs show them on an instance and, with the
mutants, that each can be broken.

**GameThreadProofs.** `Invariance` shows `Spec => []IndInv`. The properties are not
inductive: that an answer is true depends on where the Job is at the time. `IndInv`
says, of every thread that is not lost: each of its Jobs has at most one pointer to it
between queue and drains (`Single`); there is such a pointer exactly while the caller
waits and `done` is clear; then the Job holds the caller's current call, whose closure
has been started once if a drain is inside it or it is done, and otherwise not
(`JobInv`); earlier calls were answered by what was run, later ones are untouched
(`CallInv`). The exemption of lost threads makes it inductive: when a thread times out
while the game thread holds its Job it leaves the invariant's scope, and no Job of
another thread shares an address with it. From it follow `TypeCorrect`,
`AnswersAreTrue`, `JobsAreReachable`, `CrashesNeedLostJobs`, and `Refinement`: each
step maps to a step of `SyncCall` or to a stutter. `QueueIsFifo`: a step adds a Job at the
end of the queue, takes the first, or erases one and keeps the order of the others; it needs
only the types. `SequenceLemmas` has what is needed
of `RemoveFirst`, `Contains` and `Front`, proved from their definitions.

**AccessLimitsProofs.** `RateIsBounded`: for any rate, burst and set of addresses. The
invariant counts the tokens left in a bucket as if granted already (`BucketBound`): a
refill then never exceeds the rate's share of the time, and the cap only lowers it.
`BlocksLast`: the entry of an address with a block in force remembers the block's end
(`BlockRemembered`), through late failures, which open a new window, and late
successes, which must leave it alone. `WindowsAreBounded`: a count over the failures of the
last seconds is not inductive. `WindowKept` is: the failures that the entry no longer counts
are no later than the start of the present window, those before the last full count of
them lie more than a window's length before that start, and hence any two failures that are
2(MaxFailedAuth - 1) apart in number are more than a window's length apart in time. That
bounds the cardinality. `TypeCorrect`: tokens and counts are natural numbers.

**PumpSetupProofs.** `OrderInvariant`: which pointers are set when a hook is stored, and
that the game thread is known before the layout is learned, for any number of handlers.
`HooksAreSafe`, `GameNeverSelfWaits`, `BroadcastsDeliver` and `KicksNeedThunk` follow, and
`LocationIsFinal`: whether `ProcessEvent` is located is decided when the exec pump has run once
and never changes afterwards; a failure then is for good, also when a half-failed `Initialize`
left `g_ProcessEvent` behind.

The same module has `ChatRelay`. `ChatImplementsPump`: every step of the chat is a step of
`PumpSetup` or leaves it alone, so `PumpSetup`'s invariants hold of the composition without
new proofs. `ChatKeepsWorking` follows from `ChatGoesOn`, whose invariant says what was known
when a line was relayed or a command taken, and from `LayoutStays`: that is never forgotten.
It speaks of lines that `SendThunk` can read.

**RconServerProofs.** `FilterIsReference`: for every width, list and address, the masks that
`Configure` shifts together let in what the reference says, if the list's prefix lengths are
numbers (`Numbered`). `RconInvariant` shows
`Spec => []RconInv`. `SlotsInv` counts handlers and the connection the listener has in hand.
`OvershootInv` is the strengthening `BlockOvershoot` needs: it counts, besides the tries after
a block, the connections that may still make one (`Pending`), including one that has passed
the listener's check and has no thread yet; a try moves one unit from the second count to
the first. `LateInv` says that a handler in a read has run nothing since `Stop`; `PeersInv`,
that the rules, which are those of the list `Start` was given, let in everyone who is connected. `SlotsAreAccounted`,
`OvershootIsBounded`, `LateCommandsAreFew`, `OnlyAdmitted` and `StopIsFinal` follow.

**DataDirProofs.** `DirImplementsBanList`: the directory's steps are steps of `BanList` or
leave it alone. `BanInv` holds of the list: the lock is held from the change to the end of its
save (`LockInv`), and while nothing was lost the list is the banned players with the call in
progress applied, the file those without it (`KeptInv`), while a save or `Load` that fails is
recorded in `behind` until the next save succeeds, and in `lossy` for good; it holds over any number of restarts
and of crashes in a save, which is why it speaks of `Intended` and not of `banned`.
`SettingsInv` does the same for `settings.ini`: configuration and file are the wanted ones
(`WantedInv`), and of secrets there is one generation, which is used only once it is on file
(`SecretsInv`). From these, `TheFileIsTheList`, `BansAreKept`, `SettingsAreKept` and
`SecretsAreGeneratedOnce`.

**LifecycleProofs.** `LifeInvariant`, for any number of requests, kicks and places: the flag is
set only with both tables found, and the init thread looks for them only while it is not set (`SearchInv`);
`exit` sets `g_Shutdown` and its handler is registered after the listeners are up (`ExitInv`);
the init thread leaves the scope of the listener's variables only after that (`ScopeInv`); the
listener has been joined when `Stop` returns (`ListenerInv`); whoever is in a route holds
`routesMutex` (`RoutesInv`). It gives `ReadersKeepTheirTables` (a
route is among the game's objects only with the flag set, hence after the last attempt),
`ListenerIsInScope`, `RoutesAreSerial` (two routes never run at once) and `ShutdownIsQuiet`.

**InitThreadProofs.** Three components that share no variables, each with its own specification
(`Spec`, `DeathsSpec`, `ModSpec`).
`DiscordInvariant`: `WorkerInv` (the worker starts once, after `running`), `StoppedInv` (one
that sent a batch after `Stop` will send no other), `PauseInv` (the time passed and the time
left make up a second) and `DroppedInv` carry `NoLineIsLost`, `AtMostOneMore` and
`BatchesKeepDistance`; lines are missing only as `dropped` or `discarded`. The lemmas
say what cutting and appending do to increasing lists.
`DeathsAreReportedOnce`: the map has the last report of each key (`PostedInv`), so it does not
matter that the stamps were read before the mutex and come in either order.
`KicksAreRemembered`: whoever was removed and has a net id is remembered, given up on, or the player of a kick
whose closure has run and whose thread has not woken (`RemovedInv`), and closures that outlive
their call belong to a call that gave up (`LateInv`). `BansKickTheListed` and
`CommandsMeanTheSame` rest on lemmas about the four look-ups for lists of players of any length;
they use that a player id is a number and a net id is not.

Only model-checked: liveness under fairness (`CallsReturn`, `HandlersEnd`, `EnforcementWorks`,
`LinesArrive`, `StopEnds`, `ShutdownReturns`, `RequestsEnd`, `EngineFound`, `DeathsNoticed`,
`LossEnds`), which this prover does not reach, and the counterexamples of section 6. The
bounds on time, calls and posts in the guards are constants of the theorems as well: nothing in
the proofs depends on how large they are.

## 6. Disagreements shown by a run

1. `GameThreadFalse`: on timeout `RunSync` returns `false` also for a closure that is
   running or has run; its callers then say that the game did not run it
   (`src/engine/kick.cpp:148`).
2. `BanListEarly`: `Ban` works once the engine is initialised, `Load` comes later or
   never; a ban in between rewrites `bans.json` from an empty list, against README.md:106
   ("survive restarts").
3. `ModerationUnban`: the kick that goes with a ban, or with its enforcement, is remembered
   in `g_Kicked`; `Unban` does not touch that and `ClearKick` has no caller, so a player
   whose ban was removed keeps being removed until the server restarts.

## 7. Known limits that the passing properties state

These have no run of their own: each is the exemption or the bound in a property that
holds.

* A late write of `done` (`src/engine/process_event.cpp:174`) may hit the caller's next
  Job at the same address, whose `RunSync` then answers `true` for a closure that
  was not run. `AnswerIsTrue`, `WaitingJobIsReachable` and the refinement exempt `lost`
  threads for this reason.
* `Initialize` may fail after setting `g_ProcessEvent` (`process_event.cpp:467`);
  `DeriveProcessEvent` then never runs (`:316`), `g_Original` stays null, and broadcasts are
  refused for the whole run.
* README.md:291-292 can be read as a sliding window. The code's window begins at the first
  failure, so up to 2(MaxFailedAuth - 1) failures can fall within one window's length:
  that is `WindowBound`.
* A crash while `bans.json` is rewritten in place (`src/engine/bans.cpp:43`) can lose bans:
  `lossy` in `BansKept`. So can a save that fails, and a `Load` that cannot open the file
  (`:68`): it leaves an empty list, and the next ban writes that over the bans on file.
* A batch whose `Send` fails (`src/discord/webhook.cpp:62-67`) is not tried again:
  `discarded` in `NothingLost` and `LinesArrive`.
* A kick of a player whose net id could not be read is not remembered
  (`src/engine/kick.cpp:186-190`): `removed` in `KickRemembered` holds net ids.
* A death whose event carries the player id and which the sweep sees under the net id
  (`src/rsdwapi.cpp:171-173`) has two keys and may be reported twice: `DeathOnce` is per key.
* The cross-check (`src/engine/engine_core.cpp:219-221`) only asks whether the name of object 0
  contains `CoreUObject`. Other memory that passes it is used for the whole run: nothing looks
  for the tables again. `ReadsFixedTables` says that they stay, not that they are right.
* A kick that times out and still runs is not remembered (`src/engine/kick.cpp:147`), so
  the player may come back, against README.md:192-193: `gaveUp` in `KickRemembered`.
* "At most once per second" (README.md:285-287) holds of a sender; if both channels have
  the same webhook there are two (`src/rsdwapi.cpp:131`).
* A Discord sender that the init thread starts after `Discord::Stop` outlives the shutdown
  (`StartDiscord` does not look at `g_Shutdown`).
* The event listener captures `InitThread`'s local variables by reference
  (`src/rsdwapi.cpp:163`) and is never removed. `ListenerInScope` rests on `exit` being called
  on the game thread, which then dispatches no more events.
* A crash in `Save` (`src/config/config.h:110`) leaves the first lines of `settings.ini`, and the
  next start keeps a missing token as an empty one: REST is then open. So it is without
  random bytes at the first start (`:165`). Both are in `losses`.
* A prefix length that is no number (`10.0.0.0/x`) is 0 to `atoi`
  (`src/net/access_control.cpp:49`), passes the range check, and makes a block of all addresses;
  README.md:108-111 says of an unparseable entry that it is "logged and ignored". The code and
  its documentation disagree here: `FilterIsPrefix` compares the code with a reference that
  ignores the entry, and would be violated on such a list; its premise `Numbered` leaves these lists out.
* A whitelist all of whose entries are rejected lets everyone in, as an empty one does: a
  disjunct of `Admitted`, and README.md:108-111 ("rather than silently locking everyone out").
* `KickPlayer` compares the player id before the net id, against the order of
  README.md:185-186 (a SteamID64 is too long to be a player id, so no kick differs), and
  passes over a match without a controller: the exemption in `BanKicksListed`.
* `Unban` looks for a net id or the name at the time of the ban only.
* "Every chat message is relayed" and the command line "is never shown to other
  players" (README.md, Discord and chat commands) hold from the moment a frame has shown its layout;
  with the vtable pump that never happens. A line whose locals cannot be read
  (`src/engine/chat.cpp:310`), or that is empty (`:313`), is always left to the game. `ChatStays`
  says what is kept.
* `initialized`, `g_Engine` and `worldSource` (`src/engine/dom_engine.h:260`, `uobject.cpp:160`) are plain
  variables that several threads use. The models take assignments in the order of the
  program, as the compiled code has them around its calls; `worldSource` is only shown.
* A request whose body is cut short is handled with what came
  (`src/http/http_server.cpp:185`).

## 8. Not modelled

* Object model and memory reads (`uobject.cpp`, `memory.cpp`) beyond the name of object 0,
  `players.cpp`, `server.cpp`: reads of another program's objects. Their results are inputs;
  `Moderation` has sessions, of which it takes snapshots.
* The search for an item by name (`items.cpp:67-122`): it reads, sorts and compares.
* Parsing, formatting, URL decoding, JSON, routes' wording, logger, runtime counters.
* Of `config.h` the settings that are numbers, addresses or URLs: they are read and written
  as the four that are modelled, and are constants elsewhere.
* Functions without a caller: `RemoveExecPump`, `ClearKick`, `RateLimiter::Forget`.

Liveness, what a recursive definition computes, and `ENABLED` are beyond the prover and
stay with TLC.

## 9. Plan

Done, in this order: the queue with its abstract specification and proofs; the pump;
the limits; the RCON server; bans; moderation; Discord; lifecycle with REST; deaths; then
settings and the two files together; the whitelist; identifiers; the chat hook and its
proofs; engine discovery. Then the proofs of all safety properties, component by component: RCON server
and whitelist, the two files, lifecycle and engine discovery, Discord, deaths, kicks and
look-ups.

Next: an abstract ban list, a set that survives restarts, which `BanList` implements where
`lossy` is empty, with the refinement proved from `BanInv`; an abstract channel that
`Discord` implements, from `DiscordInv`; two controllers in the run of `Moderation` (five million
states and more as it stands; `KicksAreRemembered` covers any number).
