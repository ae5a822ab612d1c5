# TLA+ models of the CMaNGOS WotLK server

This directory holds TLA+ modules of the concurrent and stateful parts of the
server in `src/src`, the TLC configurations that check them on small instances,
and proofs of their main properties that TLAPS checks for all instances. File
names below are relative to `src/src`. `PROJECT.json` maps every definition to
the lines it translates.

The models describe the default build: `BUILD_ELUNA`, `ENABLE_PLAYERBOTS` and
`BUILD_DEPRECATED_PLAYERBOT` are off.

## 1. The system

`mangosd` is one process. `Master::Run` (main thread) opens three databases,
starts the world thread (`WorldRunnable`), the network thread, and console and
remote administration threads, waits for the world thread, and closes
everything. Each database has a delay thread. The world thread runs
`World::Update` every 50 ms or so; inside it, maps are updated by a pool of
workers. The battleground and dungeon queues have threads of their own.

| Component | State it keeps | Operations | Interacts with | Correct when |
| --- | --- | --- | --- | --- |
| Asynchronous database (`shared/Database`) | queue of operations, current transaction of each thread, result queue, connection | `Execute`, `BeginTransaction`, `CommitTransaction`, `AsyncQuery`, `DelayQueryHolder`, `ProcessResultQueue`, `HaltDelayThread` | every thread submits; callbacks run on the world thread | operations run once and in order, transactions are atomic, a query sees what was written before it, nothing is left at shutdown, no lock cycle |
| Map updater (`game/Maps/MapUpdater.cpp`) | workers, request queue, `pending_requests`, tokens | `schedule_update`, `update_finished`, `wait`, `deactivate` | world thread, workers | each map is updated once in a tick by one thread, and the world thread is alone between ticks |
| Maps and transports (`Map.cpp`, `MapManager.cpp`, `Transports.cpp`) | maps, messages, transports of each map | `MapManager::Update`, `CreateMap`, `UnloadAll`, `TeleportTransport` | messages between maps updated in parallel | a transport is in one map, and moves once in a tick unless it can be stopped |
| Trade (`game/Trade`, `Player`) | two `TradeData`, bags, money | the ten trade packets | both players' packets interleave; items also move by other packets | what changes hands is what both accepted; nothing is lost or doubled |
| Sessions (`game/Server`, `CharacterHandler.cpp`, `World.cpp`) | session map, state of each session, socket, character, pending queries | authentication, reconnection, login, logout, kick, `UpdateSessions` | network thread, world thread, database callbacks | at most one character of an account in the world, owned by its session; it leaves when its client is gone |
| Waiting queue of accounts (`World.cpp`) | sessions waiting for a place | `AddQueuedSession`, `RemoveQueuedSession` | `UpdateSessions` | first come, first served; nobody waits while there is room |
| Battleground queue, battlegrounds (`game/BattleGround`) | queued groups, invitations, battlegrounds with free slots; for each battleground its players and who is invited | join, invite, accept, leave, log out, expiry, end | messages between the queue's thread and the world thread | a player goes only where he was invited, and his client, the queue and the battleground agree; invitations expire; whoever accepts finds his battleground |
| Dungeon finder (`game/LFG`) | listed groups, role checks, proposals, boots | list, answer, fail, update | messages as above | a proposal succeeds with everybody's consent or restores everybody |
| Auctions and mail (`game/AuctionHouse`, `game/Mails`) | auctions, mails, bags and purses, and their rows in the database | sell, bid, buy out, cancel, expire, pay; take money, take item | asynchronous transactions, crashes | nobody loses money without the item it was for; no item is in two places; a crash loses no money |
| Groups, loot rolls | members, leader, votes | invite, leave, roll, release | packets of several players, timers | a roll has one winner; an item is given once |
| Grids (`game/Grids`) | state and timers of each grid | load, idle, unload | map update, player movement | no grid with a player in it is unloaded |
| Instance saves | reset times, bindings | bind, reset, scheduler | database, maps | a reset instance has no players bound |
| Guilds and bank, calendar, social, reputation, achievements, tickets | tables in memory and database | packets | one thread | bookkeeping rules |
| Spells, combat, AI, movement, scripts, events | very large | updates | one map's thread | mostly formulas and content |
| Login server (`realmd`) | state of a connection, realm list | challenge, proof, reconnect, realm list | client, database | no realm list without a proof |
| Console, RA, SOAP | command queue | enqueue, process | world thread | commands run on the world thread |
| Framework, network, cryptography, logs, configuration | — | — | — | — |

What is hard in this system: the order between threads (database, map workers,
network), answers that arrive after their asker has changed or gone, objects
that move between maps updated in parallel, protocols of two players with
everything else going on in between, and the shutdown. `PROJECT.json` lists
these hazards at their lines, with the properties that cover them.

## 2. Modules

| Module | Models | Abstract specification |
| --- | --- | --- |
| `SqlDelay` | `SqlDelayThread`, `SqlOperations`, `Database`, the transaction commands of `DatabaseMysql`, start and shutdown in `Master::Run` | `AsyncDb` |
| `MapUpdater` | `MapUpdater`, `ProducerConsumerQueue`, `MapManager::Update`, the frame of `Map::Update`, transports that change maps | `WorldTick` |
| `Trade` | `TradeData`, `TradeHandler.cpp`, `Player::TradeCancel`, `Player::ModifyMoney` | `Barter` |
| `Session` | sockets and sessions of one account: `WorldSession`, `WorldSocket`, login, logout, `UpdateSessions` | `Presence` |
| `BgQueue` | the battleground queue and its thread, the battlegrounds as the queue sees them, the messages between the two | `Matchmaker` |
| `Auction` | auctions and the mails that settle them, with the transactions they write and a crash | `FairDeal`, as an action property |

`MCx` instantiates module `x` for TLC (symmetry sets, constants that are functions); `x.cfg` and its variants
give the constants. Theorems and proofs are in `xProofs` and, for further parts of
the same modules, `AsyncDbProofs` and `AuctionMoneyProofs`. `FooMutant` is `Foo`
with a plausible mistake in it: it is used by nothing, and shows for each
property a change of the code that would break it.

### SqlDelay

A thread is at one control point (`pc`): idle, about to call `Delay`, waiting
for the connection, executing, or, for the delay thread, moving the queue,
taking operations, sleeping or pinging. The three mutexes are not variables:
who holds one is read off the control points, as in the code, where guards are
scoped. Rows are pairs of operation and statement number; the server keeps
committed rows `db`, the rows of an open transaction `tx`, and may be lost at
any time (`ConnectionLost`), after which it never comes back, since the code
does not reconnect. The main thread may execute directly before and after the
server runs; while it runs the world thread does, as in
`DungeonResetScheduler::Update`. The one direct execution of the main thread
just after it has started the world thread (`Master.cpp:149`, on the login
database) is left to the world thread's, which meets the delay thread the same
way. START TRANSACTION, whose result `SqlOperations.cpp:53` ignores, succeeds
whenever the connection is up: an assumption about the server.

Not modelled: escaping, result sets, reconnection (there is none), and a COMMIT
the server has done but whose reply is lost, which the code cannot tell from
one not done. Fairness: every thread goes on (SF for steps that wait for a
mutex, since `std::mutex` lets any waiter in eventually but not in turn), and
the world thread keeps calling `UpdateResultQueue`.

### MapUpdater

World thread and workers with their control points; `queue`, `pending`,
`token`, `shutdown` are the fields of the code. A worker in a map executes the
map's messages, then its transports, then the rest (`EndUpdate`). A transport
at a continent border leaves its map and posts a message to the other. A
transport that cannot be stopped is moved to where the clock says, and not again
in the same tick (`Transports.cpp:487-494`); one in `Stoppable`
(`moTransport.canBeStopped`) adds the length of the tick whenever it is updated
(495-501). Whether a stoppable one moves or stands is open at each update:
`m_stopped` is set at a stop of its path and reset by the scripts that call
`SetGoState`, the AI at the start of `Transport::Update` among them, and a
transport that stands does not change maps. The code does not exclude a
stoppable transport whose path crosses maps (`TransportMgr.cpp:133-141`), so the
model has one. `OnceATick` is about the others; both kinds share lists and
messages, and `OnePlace` is about all. The order in which `i_maps` and the transports of a map are visited is arbitrary. Waits on the
condition variable may end spuriously (never fairly). `pending_requests` is a
natural number: that it does not go below zero is part of the invariant.
Only continents, which exist from the start, are reached by transports, so
`CreateMap` in a worker only finds a map. Packets and objects of a map are one
abstract step. `activated` is chosen at the start and covers
`MapUpdate.Threads = 0`, where the world thread updates the maps itself;
`_workerThreads` is not emptied by `deactivate`, hence it never changes. `DeleteInstance` has no callers and is left out.
Fairness: each thread goes on (WF).

### Trade

`trade[p]` is `m_trade` of player `p` (or `Null`), with partner, offered items
by identifier, money, spell and the accepted flag; `owner` and `purse` are bags
and money. A handler is one action: packets of `PROCESS_THREADUNSAFE` run on
the world thread, one at a time. `ItemLeaves`, `ItemArrives` and `MoneyChanges`
are everything else that happens to bags and purses meanwhile. Left open:
distance, `Item::CanBeTraded`, the result of `Spell::CheckCast`. Bags have a
number of free places (`Room`). The final saves are one transaction of
`SqlDelay`. `Barter` states the promise: a deal is done only from two standing
consents to the same offers; an item that has left its owner's bags since is
not delivered, though its price is paid - the code behaves like that, and the
abstract specification says so.

### Session

One account, some sockets. A session object is named after the socket that
created it (`new WorldSession` in `HandleAuthSession`). `route` is the socket's
`m_session`, `listed` the entry of `m_sessions`, `ses` the fields of each
session. The network thread authenticates a socket in one or two steps: between
`FindSession` and `AddMessage` the world thread may delete the session, in
which case the message goes nowhere. The world thread runs
`UpdateSessions` in stages - add sessions, execute messages and move the
packets aside, handle packets one by one, the switch on the state - so that
sockets close and packets come in between. Login queries are answered in order
between two updates, and find their session by account.

Time is how far a requested logout has come (asked for, due after 20 s, overdue
after 60 s); the 15-minute limits of character selection and of absence may
strike at any time. `PlayerLoading()` is never true where the code tests it,
because both places that set it reset it before they return, on the same
thread: the model leaves it out. Left out too: opcodes other than login,
logout and its cancellation, far teleports in progress, saving, the waiting
queue. A packet for a session that no longer exists is not followed further.

Two constants say what the environment does. `OverlapLogins = FALSE`: no login
is asked for while another is on its way, i.e. the database answers before the
client asks again. `KickAnytime = FALSE`: only sessions that have a character
are kicked, as by the `.kick` command. The passing run assumes both; the two
violation runs drop one each (section 5). Nobody kicks a session twice: each
kick restarts the time-out of a lost client. Fairness: the world thread and the
clock go on (WF); clients, kicks and the shutdown need not happen.

### BgQueue

Two threads and two queues of messages, `toQueue` and `toWorld`
(`Messager::AddMessage`): a handler on one thread posts a closure, the other
runs it later. A message is a record with what the closure captured; the text
of the closure is the action named after what it does (`Accept`, `Expired`,
`SetInvitedCount`, ...). What both sides keep twice is twice in the model: the
player's list of queues (`slot`) and the queue's `queuedPlayers`, the invited
counts of a battleground in `game` and in its entry of `freeSlots`
(`BattleGroundInQueueInfo`), and whether it has an entry at all
(`inFreeSlots` is `m_hasBgFreeSlotQueue`). Counts are `uint32`, modulo `Wrap`.

Left open: which groups that fit are chosen (`FillPlayersToBg` and `NewMatch`
allow all of them, so that priorities and the premade rule are among them), when
a game is decided, and how the party of a join is made up. Statuses of a
battleground are only told apart as `open` and `over`. `HasFreeSlots` is always
true in the code, so `Update` never drops an entry. A battleground that has
closed stays in `game`, since a message may still name it. Random battlegrounds
(`BattleGroundMgr.cpp:427`, `506`), which differ in their content and reward, are left
out, and the status that `Reset` posts to a new battleground is merged with the
one that follows it. A hasty player in two queued groups is counted once, by his
entry of `queuedPlayers`, where the code counts and invites group by group; no
property is about such a player. The reminder event
sends packets only. Behind a loading screen (`far`) a player is not found by
`sObjectMgr.GetPlayer`, hence messages to him do nothing, as in the code.

`Hasty` are players who act again before the server has answered, or change
maps while they wait in the queue; the others are steady. For hasty players the
code promises little, and the properties about players are stated for the steady
ones, whatever the hasty do beside them. What goes wrong for a hasty player is
in section 5. There is no type invariant: `SlotAgrees` and the refinement tell
more of the same variables.

`Matchmaker` is the promise to a player: idle, queued, invited to a game, in
that game, idle again. `ImplementsMatchmaker` maps the battleground's list, the
messages on their way, and the queue, in this order, to that place.

### Auction

`mem` is what the server has in memory and `disk` what the database has: two
tables of the same rows (purses, bags, auctions, mails). A handler computes a
`change` of the table and appends to `queue` the rows that each of its
transactions writes, in the order of the code; `Execute` is the delay thread,
which `SqlDelay` shows to run transactions whole and in order. `Crash` loses
memory and queue; the server starts again from `disk` (`LoadAuctions`).

Each player has an account of his own. The owner of the bot's bids is guid 0
(`Nobody`), whose purse only bounds what it spends. Left out: stacks, COD,
mails between players, expiry of mails, full bags, the auctions the bot lists,
deleted characters, periodic saves (all handlers save what they change).
An item that is listed becomes a clone with a new guid, here the same item.
`LoadAuctions` also removes auctions whose item or house is missing from the
database (`AuctionHouseMgr.cpp:394-403`, `420-447`): the model keeps them; houses
never go, and with one crash no auction is left whose item has no row.
`Lag` allows bids on auctions that are sold, which clients no longer list.

## 3. Runs and bounds

| Run | Instance | States | Shows |
| --- | --- | --- | --- |
| `SqlDelay` | 2 threads and the main and delay threads, 2 operations, transactions of up to 2 statements | 650,000 | safety and refinement of `AsyncDb` |
| `SqlDelayLive` | 1 thread, 2 operations of 1 statement | 56,000 | execution, callbacks, end of the shutdown |
| `MapUpdater` | 2 workers or none in use, 2 continents, 1 instance, 2 transports of which 1 can be stopped, 2 ticks | 307,000 | safety, refinement of `WorldTick`, ticks end, workers are joined |
| `Trade` | 3 players, 2 items, 1 spell, 2 slots, room for 1, money up to 1 | 148,000 | deals and consents, third parties, both limits of money, full bags |
| `TradeUndo` | 2 players, 1 item | - | a violation, section 5 |
| `Session` | 2 sockets, 2 characters, 2 logins, 1 packet waiting | 233,000 | safety, liveness and refinement of `Presence` |
| `SessionTwoLogins`, `SessionKick` | the same, with one assumption dropped | - | violations, section 5 |
| `BgQueue` | a steady and a hasty player of opposite teams, 1 game of 1 against 1, 2 joins of the first and 1 of the second, 1 teleport or logout, requests while at most 1 message waits | 2,970,000 | safety and refinement of `Matchmaker` |
| `BgQueueTwice` | the same, both steady | - | a violation, section 5 |
| `Auction` | a seller, 2 bidders and the bot, 1 item, money 2, 3 mails, 1 crash, requests while at most 1 transaction waits | 674,000 | no money or item lost or doubled |
| `AuctionLag` | the same with late bids, no crash | - | a violation, section 5 |

Why these are enough: two operations show every order between two threads, a
batch boundary between them, and a direct execution beside a queued one; two
statements show a failure in the middle. Two workers and two continents show two
maps at once and a transport in both directions; the instance is a map without
transports that is created and unloaded; two ticks allow a transport to leave
and return, and the stoppable one to be updated by both maps in one tick. Two slots and two items show swaps, double offers and full bags;
the third player shows a trade begun with somebody who trades already. Two
sockets show a client that replaces another, or the same one after a loss; two
characters a login of another character while one is waiting for its client.
A third socket with one character (961,000 states, safety only) adds nothing.
One game against one player shows every crossing of an invitation, an answer,
the expiry, a logout and the end of the game; the second join shows what an
earlier stay leaves behind. Parties are sets in the model but of one player in
the run: with two players in a team there are more than 12 million states. Two
bidders and the bot show outbidding, raising one's own bid and buying out; with
one item, money of 2 and ids that are used again the item is sold repeatedly.

`BgQueue` and `Auction` allow deadlock, where all bounds are used up.

Liveness properties: `EventuallyExecuted`, `CallbacksRun`, `ShutdownCompletes`
(database), `TickEnds`, `ShutdownCompletes` (maps), `LeavesAlone` (sessions).
Deadlock is checked in every other passing run; the state in which the program has ended is a
stuttering step of its own.

## 4. What is proved

Everything here holds for every value of the constants that satisfies the named
assumption of its module.

* `SqlDelayProofs`. `IInv` = types, control points consistent with what each
  thread holds (`ControlInv`), and the queue, the local batches and the
  operation under way are exactly what is submitted and not yet executed, in
  order (`QueueInv`). `Fifo` alone is not inductive: it says nothing of where the
  rest of the operations are. From it `ExecutedInOrder`, `NothingLeftBehind`,
  `DeadlockFreedom`. `Atomicity` adds that the connection has one holder and
  that the open transaction on the server is the holder's (`LockInv`, `TxInv`).
* `MapUpdaterProofs`. `IInv` = types, what each thread works on at each control
  point (`JobInv`), the counter (`CountInv`), no map with two threads or twice
  in the queue (`ShareInv`), and every map of the tick still to visit, queued,
  under way or finished (`CoverInv`). From it `ExactCount`, `Exclusion`,
  `OneThreadPerMap`, `NullNeverExecuted`, and the refinement of `WorldTick`.
* `TradeProofs`. `IInv` = windows have their shape, two sides point at each
  other, and no identifier is in two slots. From it `Pairing`, `OneOffer`, and
  `ConsentIsKept` as an action property. `TypeCorrect` and `Bartering`, the
  refinement of `Barter`, rest on what `moveItems` computes (`MoveItemsSwaps`):
  since `CanStoreItems` was asked for both sides, after n slots exactly the items
  of the first n slots have changed hands (`Halfway`), so there is always room for
  the next and the paths that would send an item back or lose it are not taken.
  `moveItems` is a recursive function; it agrees with `Halfway` because there is
  no least slot where it does not (`Least`, from the library's theorem on
  well-founded relations). That players consent one at a time is the fourth kind
  of step: of all handlers only one raises a flag (`RaisesOne`).
* `SessionProofs`. `TypeCorrect` holds for all constants. The rest is proved for
  `~OverlapLogins` and `~KickAnytime`, the conditions of the run `Session`; the
  two violating runs show that each is needed. `IInv` = types and the sessions
  waiting to be added (`TInv`), what the fields of a session tell of each other
  and that a session not yet listed is untouched (`Settled`), that the session
  a query is read for has no character and no logout behind it (`Awaiting`),
  that one login is under way, as a packet or a query (`OneLogin`), and `Owned`.
  `Owned` alone is not inductive: a session that has just logged out
  (`m_playerRecentlyLogout`) is not unloaded by its destructor, so a character
  must never enter one. From it `WorldIsOwned`, `StateIsTrue`, `OneCharacter`,
  `StopIsComplete`, and, because every step is `Visible` to the world as one of
  `Presence` or not at all, the refinement `Implements`.

* `AsyncDbProofs` (on `SqlDelayProofs`). `AInv` = ids of operations are not used
  twice, wherever the operation is (`FreshInv`), a write that had its turn has
  reported how it ended (`DoneInv`), and an answer, on whichever stage of its way,
  belongs to a query that had its turn and shows the writes kept before it
  (`AnswerInv`). From it `AnswersAreCurrent`: the property speaks only of answers
  in the result queue, but what they show is decided when the query executes, and
  a write and its report are separate steps of a thread. `CallbacksInOrder` counts:
  the callbacks run and the answers on their way are as many as the queries
  executed, and the n-th belongs to the n-th. `Refinement` shows that each step is
  a step of `AsyncDb` or none.
* The transports, in `MapUpdaterProofs`. A transport that sails is on no list
  for a while: taken from its map by one worker, it is in a message that another
  worker may have moved aside. `PlaceInv` says that it has exactly one of all those
  places, and which stages of an update may hold any; from it
  `TransportsInOnePlace`. `OnceATick` needs to know the future: a transport that is
  due is on a map, or in a message to one, whose update has not yet come to the stage
  that would serve it (`WillAdvance` of `HopInv`). From it `AdvancedOnceATick`.
  Stoppable transports are never due in this sense and nothing is claimed of how
  often they move.
* `AuctionProofs`. `TypeCorrect` says that money, which is unsigned in the code,
  never goes below 0 in any row, before a crash and after it: the fee of a
  cancellation, the difference a bidder pays to raise his own bid and the cut of
  a sale are covered by what is there. `IInv` adds, until the first crash, that
  two rows of `mem` never have the same item (`Once`); from it `ItemInOnePlace`.
  Handlers are changes of tables, so the argument is one lemma for all of them:
  a change whose rows have each item once, and only items they had before
  (`Moves`), keeps `Once`; each handler has a lemma that its change is one.
* `AuctionMoneyProofs` (on `AuctionProofs`). `CrashSafe` compares the disk with the
  memory and is not inductive: `Execute` writes one waiting transaction, and the
  disk becomes a table that is neither. `MoneyInv` follows the `Path` of tables
  from the disk through the transactions in `queue` to the memory: each is
  complete, its auctions are in order (`Shape`: sold exactly when the item has gone,
  no bid above the buyout) and it is worth at least the memory. A handler
  lengthens the path by its own transactions, so what is to be shown for each of
  them is that no prefix of its transactions leaves the players less than all of
  them: a letter with money is written before the auction it comes from, and
  a purse together with the auction it pays (`Orderly`). From it
  `CrashLosesNothing`. With it comes the sum that each handler makes, term by term
  (`Deal`, `Gain`), for all players together and for each alone, hence
  `FairDealing`, under `~Lag`, the condition of the run `Auction`; the run
  `AuctionLag` shows what late bids do. Sums over players, auctions and letters
  are the size of a set of pairs (`Sum`), which the facts about finite sets
  reach and a fold would not.

* `BgQueueProofs`. The world and the queue's thread never read each other's
  state, so an invariant of the one's state is one of the messages under way too:
  it says what they will have made of the state once they are taken. A kind of
  message is a set, and all that is said of a sequence of messages is that it
  `Has` one of a kind, has it `Once`, one kind `Before` another, or that it
  `EndsWith` one kind among others; one group of lemmas shows what posting and
  taking do to these four. `EntryInv` = types; the games the queue has numbered and
  the world not created are those with a creation under way, in order, and before
  anyone sent there (`CreateInv`, `SentInv`); and each game has one entry or two
  among those with free slots, as the messages under way and the world's flag say
  (`ListInv`): a game that is over is closed in all of its entries, or the last
  message about it closes it when it has only one. `QueueInv` = everyone in the
  queue is in a group of it, a group is invited to a game that was made. From them
  `EndedNeverOffered`, and `OffersAlwaysStand`: the message "remove free" takes
  the first entry of a game, and it is the second one, that `m_hasBgFreeSlotQueue`
  of the code was meant to prevent (section 5), that keeps the assertion of a
  player's answer from failing.

  What the queue promises each player is of the same kind. All that is said of a
  player is said of the messages to the queue, of those to the world and of his
  `View`: what the world (online, slot, battleground, events) and the queue (his
  group and its invitation) have of him. Group numbers only grow, and tell an
  invitation of this stay in the queue from one of an earlier stay that is still
  under way. `PhaseInv` = every player who waits for answers is in one of seven
  phases: `Resting`, `Asking` (the request to join is under way), `Told` (he is in
  the queue and the world has yet to hear), `Queued`, `Entering`, `Leaving` and
  `Fighting`. A phase says which messages about him there may be, in which order,
  and how his slot follows from them: in `Queued`, an invited player has the
  invitation on its way to him, or its event, or the event's message on its way back.
  A hasty player needs no phase, but the game he is in, the group he is in and the
  numbers of his invitations must not spoil those of the others (`InsideInv`,
  `OwnGroup`, `StampInv`). One lemma per action and per kind of message shows that it
  leads from a phase to a phase and moves the player as the `Matchmaker` may
  (`Goes`), for the world in `WorldStep` and for the queue in `QueueMoves`. `BgStep`
  puts them together; `SlotsAgree` and `InvitationsExpire` read the phases with no
  message left, and `PlayersMatched` reads `Place` as the `Seat` of the phase.

Proving changed the models in a few places: `Sum` as above; `CallbackOrder`
by positions instead of a filtered sequence; a group is added to the queue as a
function over its new domain, as TLC's `:>` has no meaning for the prover; and the
assumptions, which the code meets, that the ids in use are finitely many, that
`None` is no auction and no letter (`NoneIsNoRecord`) and `Null` no terms of a
trade (`NullIsNoTerms`).

Every invariant, action property and refinement that a passing run checks is
stated by a theorem. Only model-checked: liveness (`EventuallyExecuted`,
`CallbacksRun`, `ShutdownCompletes`, `TickEnds`, `LeavesAlone`), as fairness and
ENABLED are out of the prover's reach.

## 5. Findings

* `SessionTwoLogins`: two login packets handled before the first callback both
  become queries, since the guard `PlayerLoading()` is set only by the callback;
  the first character stays in the world without a session. A client that
  disconnects with a login pending, reconnects and logs in gets the same
  result, because the callback finds the new session by account id.
* `SessionKick`: `LogoutPlayer` of a kicked session without a character sets
  `m_playerRecentlyLogout`; a pending login then gives the session a
  character which its destructor does not unload.
* `TradeUndo`: an acceptance refused because an item cannot be traded stays set.
* `BgQueueTwice`: the queue lists a new battleground itself, but the flag of the
  battleground that is to keep it from being listed twice is not set; when the
  first player leaves it is listed again, and each entry has its own counts and
  invites players. What is more, `OffersStand` - the assertion of the handler -
  rests on this second entry: the end of a game takes one entry away, and those
  who were invited still find the other.
* `AuctionLag`: a bid on an auction that is already sold is accepted; the buyer
  keeps the item and gets his money back, the late bidder pays for nothing.

Seen in `BgQueue` with other bounds and not in a run: two entries can together
invite more players than the battleground takes; a player who disconnects before
his join is answered stays in the queue (the comment at `BattleGroundQueue.cpp:1317`
says that he is "correctly removed from queue in another procedure"); one behind
a loading screen when he is invited gets neither the invitation nor the event
that would remove him. In `Auction` a crash between two transactions of one
handler can pay a refund or a sale twice, give an expired or cancelled auction's
item twice, or lose an item that was just sold; `CrashSafe` shows that money is
never lost.

In `MapUpdater` a stoppable transport that sails to a map which is updated later
in the tick is advanced twice: the test that prevents it ("map transition and
update happened in same tick due to MT", `Transports.cpp:491`) is made for the
others only. Whether such a transport exists is a matter of the content database.

Two further races are in the model without a run: a reconnection message sent
to a session that is being deleted is lost, and the second of two sessions of
one account added in the same tick is forgotten with its socket open. The
comment in `WorldSession.cpp:543` speaks of 20 seconds to reconnect; the code
waits 60.

## 6. Not modelled

* The dungeon finder: its thread exchanges messages with the world as the
  battleground queue does, but the compatibility of groups and roles is a large
  search, and proposals, role checks and boots are three protocols more.
* The waiting queue of accounts, groups, loot rolls, grids, guilds, calendar,
  tickets, reputation, achievements: one thread changes them, a packet or timer
  at a time, and no answer of another thread comes in between. Where another
  model needs them they are in it: a party in `BgQueue`, a timer in `Session`.
* Instance saves and resets: state spread over players, groups, maps and the
  database; the next candidate for a module, after the dungeon finder.
* Content (spells, AI, battleground rules), geometry, text, input and output,
  extraction tools, vendored libraries.
* The login server, consoles and remote administration: separate sequential
  protocols that meet the world in one table or one queue of commands.

No proof is open but those of liveness, which the prover cannot do (section 4).
