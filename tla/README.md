# CMaNGOS Classic in TLA+

TLA+ models of the core of the CMaNGOS Classic server (`mangosd`, `src/game`,
`src/shared`), the TLC configurations that check them on small instances, and
proofs checked by TLAPS.  The subject is what tests of a game server hardly
reach: threads that share a queue, a database behind a write-behind log, players
whose gold and items must survive a crash in the right place.

## The system

One process, `mangosd`, runs the world.  Its threads:

| thread | source | what it does |
|---|---|---|
| world | `mangosd/WorldRunnable.cpp`, `game/World/World.cpp` | the tick: messages, sessions (all opcodes that are not thread safe), maps, battlegrounds, callbacks of queries, console commands |
| map workers | `game/Maps/MapUpdater.cpp` | update the maps of a tick in parallel; handle movement and spell opcodes of the players there |
| network | `shared/Network`, `game/Server/WorldSocket.cpp` | read packets, authenticate, put packets into the queues of a session |
| database delay threads | `shared/Database/SqlDelayThread.cpp` | one per database; execute what the others queue |
| LFG queue, battleground queue | `game/LFG/LFGQueue.cpp`, `game/BattleGround/BattleGroundQueue.cpp` | matchmaking; reached by messages only |
| console, RA, SOAP | `mangosd/` | enqueue commands for the world thread |

`realmd` is a second process; it authenticates clients and shares the login
database with `mangosd`.

Components, the state each keeps, how they interact, and what makes them correct:

| component | state | interacts with | correct when | hard because |
|---|---|---|---|---|
| Asynchronous database access (`shared/Database`) | queue of operations, thread-local transactions, result queue | every thread hands in statements; callbacks run on the world thread | order kept, transactions atomic, queries see earlier writes, nothing lost at shutdown | three locks, two threads per database, crash at any point, failing statements |
| Parallel map update (`game/Maps`, `ProducerConsumerQueue`, `Messager`) | request queue, count of pending requests, message vectors | world thread schedules, workers execute, any thread sends messages | each map once per tick, world thread alone otherwise, no message lost | condition variables, shutdown while workers sleep |
| Trading (`game/Trade`, `TradeData`) | the offers of two players, acceptance | inventory, money, spells, database | nothing given without agreement, nothing lost or duplicated | acceptance races with changes of the offer, with spending, logout, crash |
| Sessions and sockets (`game/Server`, `World::UpdateSessions`) | session map, packet queues, session state, socket | network threads, world thread, map workers, character loading | one session per account, one player per session, logout saves once | reconnecting while the old session logs out; handlers on two threads |
| Mail (`game/Mails`) | mails with items, gold, cash on delivery | auction house, delivery at login, database | gold and items conserved, COD paid once | several transactions per handler, offline receivers, expiry |
| Auction house (`game/AuctionHouse`) | auctions, bids | mail, database | the loser is repaid, the winner gets the item, once | bids, buyouts, expiry and cancellation in any order, crash between them |
| Groups (`game/Groups`) | members, leader, invites, instance bindings | LFG, loot, battlegrounds | a leader is a member, members and players agree | invites, disconnects, disbanding |
| Loot (`game/Loot`) | items, who may take them, rolls | groups, inventory | an item is looted once, a roll has one winner | votes, timeouts, players leaving |
| Battlegrounds (`game/BattleGround`) | queues, invitations, instances | queue thread, events of players | invited counts match, nobody in two teams | invitations time out while they are accepted; messages between threads |
| LFG (`game/LFG`) | queued players and groups | queue thread, groups | a player joins one group | messages between threads |
| Guilds, channels, social, GM tickets, accounts | memberships, ranks, owners | database, chat | memory and database agree, one owner | leaving owners, offline members |
| Pools and spawns (`game/Pools`, `game/Maps/Spawn*`) | which member of a pool is spawned | maps, game events | the limits of a pool hold | nested pools, events |
| Game events (`game/GameEvents`) | active events | pools, maps, quests | linked events start and stop in order | time |
| Instances (`MapPersistentStateMgr`) | saved instances, bindings, resets | maps, groups, database | a binding refers to a saved instance | resets while players are inside |
| Movement generators (`game/MotionGenerators`) | stack of generators | AI, spells | a generator is finalised once | changes during updates |
| Threat, combat, duels (`game/Combat`) | threat lists, references | units | both ends of a reference agree | units removed from the world |
| Spells, auras, AI, quests, scripts | | everything | game rules | size; pure rules |
| `realmd` | login handshake | login database | no session without proof | |

## The plan

Most important first; what is done and what is open:

1. **Database, map update, trade** (done): `WriteBehindLog`, `AsyncDatabase`,
   `MapTicks`, `MapUpdater`, `Trade`, with proofs about all three.
2. **Sessions** (done): `WorldSessions` (network threads, world thread, character
   loading over the asynchronous queries, reconnect, logout, queue of a full
   server), on the order of answers that `AsyncDatabase` gives.
3. **Mail and auctions** (done): `CharacterTables`, `Mail`, `AuctionHouse`, with
   `Market` as what players rely on; the death of the process between any two
   transactions, over the order that `WriteBehindLog` promises; with proofs.
4. **Battlegrounds and their queue** (done): `BattleGroundQueue`, `BattleGrounds`, the
   first pair of threads in the code that share nothing but messages.
5. **Groups, instances, loot rolls** (open): who is bound to which saved instance, and
   who may still take what.
6. **LFG queue** (open): the second thread that is reached by messages only; the
   pattern of step 4.
7. **Channels, guilds, pools, motion master** (open): sequential, against reference
   definitions.
8. **Proofs** (done for steps 1 to 4, but for one count): what each component's safety
   rests on; of the battlegrounds, `InvitedCountIsExact` is open.

## The modules

| module | models | of |
|---|---|---|
| `WriteBehindLog` | what callers rely on: accepted operations become durable in order, each entirely or not at all; a crash loses a suffix | (abstract) |
| `AsyncDatabase` | the threads that issue operations, the delay thread, the result queue, death and restart | `shared/Database` |
| `AsyncDatabaseProofs` | types, order, atomicity, the halt, what queries see, refinement, proved | |
| `MapTicks` | what the world relies on: every tick updates each loaded map once, and the world thread is alone otherwise | (abstract) |
| `MapUpdater` | world thread, workers, their queue and condition variables, messages to maps | `game/Maps`, `shared/Util/ProducerConsumerQueue.h`, `shared/Multithreading/Messager.h` |
| `MCMapUpdater` | instances for TLC | |
| `MapUpdaterProofs` | types, the barrier, exclusive requests, messages, refinement, proved | |
| `Trade` | the trade handlers, the exchange, its save, and what else happens to the players | `game/Trade`, `TradeData` |
| `TradeProofs` | pairing of trades, currency of acceptances, conservation of items and gold, gain only as agreed, proved | |
| `Sums` | lemmas about sums over finite sets, for any proof that needs them | |
| `MCTrade` | instances for TLC | |
| `WorldSessions` | connections, sessions, characters coming and going, the queue of a full server | `game/Server`, `game/World`, `CharacterHandler` |
| `MCWorldSessions` | instances for TLC, with symmetry | |
| `WorldSessionsProofs` | types, sockets, the queue of a full server, its limit and its order, where the characters are and when they are saved, proved | |
| `CharacterTables` | the tables that gold, items, mail and auctions are kept in, and the statements that change them | `src/sql/base/characters.sql`, used by the two below |
| `Mail` | the mail handlers, saving and loading, return of old mails, death of the process | `game/Mails`, `Player.cpp`, `ObjectMgr.cpp` |
| `AuctionHouse` | selling, bidding, buying out, cancelling, the end of an auction; extends `Mail` | `game/AuctionHouse` |
| `Market` | what players rely on: every transfer is at once and complete, there are no letters and no saves | (abstract) |
| `MCAuctionHouse` | instances for TLC | |
| `MailProofs` | memory is what the tables will say, nothing is lost wherever the process dies, types, and the refinement: `AuctionHouse` implements `Market`, proved | |
| `BattleGroundQueue` | the data of the queue thread: groups, invitations, free slots, matching | `game/BattleGround/BattleGroundQueue.cpp` |
| `BattleGrounds` | the world thread's side: players and battlegrounds; the messages between the two threads; extends `BattleGroundQueue` | `game/BattleGround` |
| `MCBattleGrounds` | instances for TLC | |
| `BattleGroundsProofs` | types, the entry an invitation leads to, proved | |
| `BattleGroundPlayersProofs` | agreement of the two threads about the players, no invitation taken away, proved | |

Operators named "Faulty variant of ..." are not part of a specification: each is
the named definition with a plausible bug, and shows that a property notices it.

### AsyncDatabase

A variable per member: `sqlQueue`, `running` (`SqlDelayThread`), `txnOpen` and
`txnParts` (the thread-local `m_currentTransaction`), `connMutex` (the lock of
`m_pAsyncConn`), `resultQueue` and `resultMutex` (`SqlResultQueue`); `local`,
`cur`, `pc`, `final`, `wpc` are the places in `ProcessRequests`, `run`, the
destructor and `Update`.  An operation gets a ticket when `Delay` accepts it; `fate`
records what became of it.  Every lock that is held over several steps of the
code is a variable; one that is taken and released within a call is a guard.  What a
statement says is left out: it is its ticket and its index.

A statement may fail at any place.  `Restart` is the death of the process at any
moment: memory is lost, the database server discards the open transaction.

Run: `async_database` (two threads, two operations of up to two statements, one
statement executed directly on the same connection, two incarnations) checks order,
atomicity, what queries see, the halt, the refinement of `WriteBehindLog`, and that
operations are resolved and queries answered.  Two operations are enough for one
in execution or in the copy while another is queued; two incarnations for a crash in
every state of the first one.  What holds for longer queues is proved.

Fairness: the delay thread loops for ever and the world thread drains the result
queue in each tick, so both get weak fairness as a whole.  `Publish` gets
strong fairness: the world thread holds the result mutex again and again, but
between two ticks it is free for milliseconds, and a mutex that is free gets taken.
Nothing else is fair: no thread has to issue anything, nor to stop.

### MapUpdater

`queue` and `shutdown` are the `ProducerConsumerQueue`; `pending` and `cancel` the
members of `MapUpdater`; `maps` is `i_maps`; `mailbox` and `batch` are the two
vectors of `Messager`.  A worker is in `WaitAndPop` (`"pop"`), `"asleep"` on the
condition variable, has `"got"` a request or none, is in `Map::Update` (`"update"`,
`"messages"`) or in `update_finished` (`"finish"`), or has `"returned"`.  The number
of worker threads is chosen at start, zero included: then the world thread updates
the maps itself.  Threads may wake up spuriously.

Run: `map_updater` (none to three workers, two maps, three messages) checks the
refinement of `MapTicks`, which says that no map is updated by two threads and that the
world thread is alone outside the update, that messages are kept, and that ticks,
messages and shutdown end.  More workers than maps means that some find the queue
empty while others update; more maps and workers are covered by the proofs.  The
server stops at the end of a shutdown, so deadlock is not an error; that a tick
or a shutdown never gets stuck is what the liveness properties show.  Fairness: weak,
per thread; a spurious wakeup never has to happen.

### Trade

`partner`, `offer` and `accepted` are the `m_trade` of each player; `has` its gold and
items; `saved` the same in the database, and `pending` the saves on their way there,
which behave as `WriteBehindLog` says: in order, each entirely, a crash loses the
rest.  `seen` remembers for which two offers an acceptance was given.

All trade opcodes run on the world thread, so each handler is one step.  The
in-trade flags and the accept process live only inside one handler.  The handler of
an acceptance is split by outcome, in the order of its checks.  An item that left
the inventory after it was offered is skipped silently (`TradeData::GetItem` looks it
up by guid): an acceptance covers the contents of the offers, not what is still
held.  `ModifyMoney` cuts gold off at the maximum; `capped`
says whether it ever did.  What a spell does to an item is left out; whether it
may be cast is a free choice, as far as the trade is concerned.

Whether the goods fit is asked twice, with different answers.  `CanStoreItems` looks before
anything moves.  It counts the slots of what a player gives away itself as free, yet
compares each good with the limit on its kind (`MaxCount`) as if it came alone, and still counts what is given away
(`TakesEach`); and where it has put a good into the slot of a stack given away,
it takes a later stack of that kind for an addition to that one (`Sharing`; it depends on
the order in the bag, so the model lets the check pass or not).  `moveItems` asks again for every slot,
with what has arrived by then (`Fits`).  If an item does not fit after all, both of the slot go back to
their owners.  Then one that finds no room is lost ("can't take item back", `TradeHandler.cpp:183`), and one whose
owner had room for the other is stored into the places found for both, as a copy
in the first (`StoreItem`, `Player.cpp:9977`).  Both happen in ordinary trades: a player with full bags, who
gives away a stack and gets a sword and another stack of that kind.  So items
are not conserved whatever is traded, and the property says until when they
are: `misfit` records that goods were exchanged which, all together, do not fit into the
slots or the limits of a player.  Until then `ItemsConserved` holds, and no other step loses or
doubles an item; `OnlyAgreedItems` holds with misfits as well.

A stack counts as one item, more than half full, so that no two share a slot: merging a part of a
stack, and what a failure leaves of it, is left out, and so are the items in the
bank, which count for `MaxCount`.  Copies are not followed beyond the exchange they appear in.

Around the trade players spend gold, lose and bind items, are saved, log out and in
(loading waits for their saves, as `AsyncDatabase` shows), and the process dies.

Runs: `trade_goods` (two players, a sword and three potions of which nobody may have more than
two, one inventory of one slot or of three, two traded slots, spells cast with an item), `trade_gold` (three players with one piece each, at most
two, two saves on their way).  The smallest sizes at which space runs out,
gold is cut off, an offer can change between two acceptances, and a player can be
approached by a third.

### WorldSessions

`addQueue`, `sessions` and `waiting` are the containers of `World`
(`m_sessionAddQueue`, `m_sessions`, `m_QueuedSessions`), `adding` the copy
`UpdateSessions` works on.  `session` holds the members of each `WorldSession`:
its state, `m_socket`, `m_requestSocket`, the messages to it (`inbox`),
`m_recvQueue`, `m_inQueue`, `_player`, the time of the logout and of the kick, and the
flags `m_playerSave`, `m_kickSession`, `m_playerRecentlyLogout`.  `sock` is what the
network threads know: whether the socket is open and which session it feeds.
`logins` are the login queries on their way; they are answered in order, as
`AsyncDatabase` shows.  `online` and `dirty` stand for the characters in the world
and whether one has changed since it was last saved.

The world thread follows `World::Update`: take the add queue, add one session after
the other, update each session (messages, then packets one by one, then the switch
over its state), update the maps, run callbacks, run commands.  Between any two of
these steps, connections are opened and closed, packets arrive and timers expire.
A timer is a counter of the thresholds it has passed: a logout is requested, due
after 20 seconds, due for disconnecting after 60.  `CleanupsBeforeStop` may follow
any tick.

`m_playerLoading` is set and cleared within one callback, so it is not a variable;
the check of it in the login handler never refuses anything.  That two logins of an
account may be on their way at once, and what comes of it, is a finding;
`OneLoginAtATime` is the assumption that clients do not do it, under which the
properties of `session_lifecycle` are checked.  Kicks are left out of that run as
well: a kick does not save, by default, and one during a login is another finding.

Runs: `session_lifecycle` (one account, two connections, three packets: enough to log
in, lose the client, come back through the other connection and log in or out again),
`session_queue` (room for one player, three players and a game master, three
connections, one kick: enough for two to wait and a third to leave in any state).
Fairness, in the first: the world thread goes on, its queries are answered,
the timer of a logout expires; clients owe nothing.  Symmetry exchanges connections
and players, where no liveness is checked.  The world stops after
`CleanupsBeforeStop`, so deadlock is not an error.

The race between a network thread and the deletion of the session it uses, which
a NOTE in `World::AddSession_` mentions, is left out: a packet is handled in one
step.  So are opcodes that run on map threads, far teleports during a logout
and a change of the limit at runtime.

### CharacterTables, Mail, AuctionHouse, Market

`has` and `box` are the gold, items and `m_mail` of the players who are online;
`auctions` and `aitems` are `AuctionsMap` and `mAitems`.  `saved` is the database,
`pending` the queue of the delay thread, in which the queries of a login wait as
well, `written` the database as it will be when that queue is executed.  A handler is
one step, as all mail and auction opcodes run on the world thread, but the
transactions it commits are executed one by one, and the process may die between any
two of them: `within` names the kind of handler that is half executed.  `waste` is
no table: it collects what leaves the game on purpose (postage, cuts, deposits, what is
in deleted letters), so that nothing else may disappear.

`Market` is the abstract specification: gold is in a purse or bid on a lot, an item
belongs to a player or is for sale; gifts, sales against COD, bids, the end of an
auction are single steps, and a player may throw away what it has.  A death of the
process is a `Rollback`, of which `Market` says nothing more; what may be lost then is
the question of `NothingLostBetweenHandlers` and `NothingLostByAuctions`.  The
mapping takes `written`: a letter counts as delivered when it is sent, an item sent
COD belongs to its sender until it is paid.

Runs: `mail` (two players, one sword, two pieces of gold each, two letters, one
death, auctions included): memory and tables agree, between two handlers nothing is lost or
doubled, and the whole is a market.  `auction_house` (three players, one sword,
prices 1 and 2, three letters of the house): two bidders can outbid each other and
raise their own bid while the seller cancels or the auction ends, and a death inside
a handler loses nothing.  Auctions write letters first and delete the auction last, so a
death between can double but not lose; the handlers of ordinary mail give no
such promise: sending and returning take several transactions, and a death inside them
loses or doubles.  `NothingLostBetweenHandlers` says exactly what remains true.  What
a restart inside a handler finds is not followed further (`Die` waits for the
boundary).  With nothing left to spend everyone may stop, so deadlock is no error.

What the code does and the model has: a letter marked as read after it was
deleted is revived (`HandleMailMarkAsRead`); a letter that is sent while its
receiver is being loaded may be in none of the answers, and is seen at the next login.
The cost of a letter is a `uint32` (`Cost`): for an amount within the postage of 2^32 the
sum wraps, the check passes, and the letter carries what nobody paid
(`MailHandler.cpp:146`).  The handler bounds the amount by nothing else, nor the COD by anything, and the gold of
a letter is credited as an `int32` (`Signed`).  The model has all this; the runs have amounts
players can pay, and what is said about gold, `ImplementsMarket` included, is said for amounts whose
cost does not wrap (`PlainAmounts` in the theorems).  The cut of an auction wraps as the `uint32`
product of the code does; the division by 100.0f is exact in the model, and in the code only below 2^24.
`ReturnOrDeleteOldMails` reads the tables at once, ahead of the queue
(`ObjectMgr.cpp:6165`), so it may act on a letter the queue is about to change; the
model excludes it (`Untouched`): it runs once a day on letters that expired long ago.

Left out: letters with items made from templates or from the text of a mail, the
delivery delay and the expiry (a free choice of time), the limit of mails, silenced
senders, deletion of characters, taking an item twice from an emptied letter, and the one argument
of `ModifyMoney` whose difference from the maximum wraps (2^31 - 1).  The cap
on gold is there (`ModifyMoney`), but set so that it is never reached; `Trade` shows what happens
when it is.

### BattleGroundQueue, BattleGrounds

Two threads that share nothing.  `queue` is the data of the queue thread (a record:
groups by join, who is in which, the list of free slots, the next instance, whether an
update is scheduled); its handlers are operators that return the next queue with
the messages they send.  The world thread has the players (`where`, `slot`,
`invite`, `at`, `timers`) and the battlegrounds (`bgs`).  `toWorld` and `toQueue` are
the vectors of the two `Messager`s, in order.  `missed` is a history variable: who was
on a loading screen when a message about his present place in the queue came, and
has not heard of it.

Both threads count the invited players of a battleground, each ahead of the other, in
32-bit counters that are decreased without a check; `Width` is their range (8 in the runs).

Runs: `battlegrounds` (a player of each side, three joins, two messages under way before anything
new is begun, one logout or journey): whenever no message is under way the threads
agree, an invitation always leads to a listed battleground, it is not taken away by the
event of an earlier one, it ends unless its player missed it, and, until a battleground is
listed a second time,
the counts are those of the players.  A match takes one of each side, so three joins are
a match and a second one in the battleground that is already there; two messages are enough for
one to overtake what another side has just done.  Either player may log out; the sides
mirror each other, so it is enough that the first one travels (`Travellers`).  `overfull_side` (three players)
is a finding.

Fairness: each thread goes on taking its messages (weak); a client loads the map it
was sent to (`Arrive`, weak); the event of an invitation happens if its player is
in the world again and again (`RemoveEvent`, strong: a player who logs out loses the
event, and with it the place in the queue).  Nobody has to join, answer or leave.

Who is queued may travel.  Nobody finds him while he is on the loading screen, so that
the message about an invitation is dropped (`BattleGroundQueue.cpp:447`): he gets neither
window nor timer, and his invitation holds its place in the battleground until he leaves the queue or logs
out of his own accord.  The same happens when its time has run out and the message of the timer finds
him travelling (`:998`, where the comment takes him for one who logged off).  That is what the
code does, against the comment on the event, which is to "remove player from BG queue after
1 minute 20 seconds from first invitation" (`BattleGroundQueue.h:200`).  `QueuedPlayersKnow`
and `InvitationsEnd` say it as it is: they promise the window and the end to
everybody but those in `missed`, and a player is there only while the place he missed a
message about is still his.

`PatientClients = TRUE` in both runs: clients do not log out, travel or join again while a
click of theirs is under way.  The code has no answer there:
a logout or a journey between `Enter` and the battleground leaks a count or a group; a second join
before the first is answered leaves a group that nobody can remove.  These windows last a
tick of either thread.
`TypeOK` and `InvitationsHaveABattleground` are proved without that assumption;
`StaysUntilItsTime` has been checked without it as well, for two joins, and is proved with it.

Met while modelling, and in the model: the assertion at
`BattleGroundHandler.cpp:448` holds only because of the duplicate entry that
`overfull_side` is about, since the first departure lists a battleground again and the
stale entry is never removed; that entry is still offered after the battleground
was deleted, and who accepts keeps a slot until the next logout.  A player who leaves the
queue by logout, a change of status, or one match of several possible schedules no
update, so others wait for the next event.  `CreateClientVisibleInstanceId` does not
advance its iterator and may give the same number twice; only the client sees it.

Left out: premade matches, invitations in proportion (types other than 0), joins for one
given instance, several types of battleground at a time, announcements, waiting times,
testing mode, the reminder event, deserters (a departure like any other).  Counts of
new battlegrounds that the world thread drops, the message that only schedules an
update and the status that a reset sends are merged with their neighbours;
`RemoveBattleGround`, which goes through the messages of the map, is one step.

## Findings

Each is a run that TLC must find violated, with the line of the source whose
words the code contradicts in `PROJECT.json`.

- `late_login`: nothing refuses a second login while the query of the first is on
  its way.  The second answer replaces the `Player` of the session, and the first
  one stays in the world.
- `kicked_while_loading`: a session that is kicked while its character loads is
  logged out before there is a player and destroyed after there is one, and the
  destructor does nothing because it "has just logged out".
- `overfull_side`: a battleground that the queue has listed itself does not know it
  is listed (`BattleGround.cpp:1193`), so the first departure lists it again
  (`:1340`, "make sure to add only once"), and both entries are filled up.

Seen and not run as checks of their own:

- Of two connections of one account that authenticate in the same tick, the newer
  session is neither added nor deleted (`World.cpp:225`), though the comment at `:233`
  says that it kicks the older one.
- A queued player on a loading screen misses his invitation, and nothing ends it
  (section on `BattleGrounds`).  Without the exception for `missed` both
  `QueuedPlayersKnow` and `InvitationsEnd` are violated.
- Goods that do not fit together pass the check for room, and an item is lost or doubled
  (section on `Trade`), though the comment at `TradeHandler.cpp:174` says that items are returned to their
  owners.  Without the exception for `misfit` `ItemsConserved` is violated.
- The comment of `KickAllLess` (`World.cpp:1945`) says "Kick (and save)", and the
  `KickPlayer()` it calls does not save; a property would only restate it.

Dangers the models do not reach, beside those with a note in `PROJECT.json`:

- `SqlOperations.cpp:103`: a callback that executed a statement directly would take the
  lock of the connection inside that of the result queue, the delay thread takes them
  in the opposite order.  No callback of the default build does.
- `SqlOperations.cpp:53`: the result of START TRANSACTION is ignored.
- `MapPersistentStateMgr.cpp:368`: synchronous queries do not wait for the queue.
- `TradeHandler.cpp:481`: the spells of a trade start after the items have moved; that
  the item such a spell is cast with is still at home is checked by the handler, and
  is no property of its own.
- `World.cpp:1952`: a kick does not save by default.
- `WorldSession.cpp:168`: a request for a new socket that is not consumed makes later
  ones refused.

## What is proved

`AsyncDatabaseProofs`, for every set of threads and all bounds:

- `TypeCorrect`: the types of all variables.
- `Refinement`: `AsyncDatabase` implements `WriteBehindLog`.  What is pending there is
  the operation in execution, the private copy and the queue, one after the other;
  every step maps to a step of the log or leaves it alone.
- `OrderCorrect`: the queue, its copy and the operation in execution hold exactly the
  unresolved operations in order, and the database is in order.
- `Atomic`: every operation takes effect entirely or not at all.
- `ShutdownFlushes`: when the delay thread has ended, all that was accepted is
  resolved.
- `QueriesAreOrdered`: a query sees every write accepted before it and none accepted
  after.

The inductive invariant adds to the properties what the code keeps implicitly: the
connection is locked exactly while an operation executes, so that a direct
statement never meets an open transaction; the statements executed so far are a
prefix of the transaction; the tickets of the pipeline are the numbers after those of
the resolved operations; and nothing in the database has a later ticket.  The halt
rests on what the destructor does after the loop (`FlushInv`: the last flush comes after the
stop, when nobody issues any more, and it takes the whole queue, so that the queue stays
empty until the thread is gone).  For the queries, `QueryInv` says that an operation keeps
the length of the database it saw, that the database only grows until a restart
clears the results, and that all that is added later has a later ticket.

`MapUpdaterProofs`, for any maps and any finite set of workers, none included:

- `TypeCorrect`: the types of all variables.
- `Alone`: no map is updated while the world thread does anything but schedule and wait.
- `Exclusive`: a map has one request at most, and is loaded while it has one.
- `NeverNull`: no worker executes a request it did not get.
- `MessagesAreKept`: a message is executed once or waits, in order, unless its map
  was unloaded with it.
- `Refinement`: `MapUpdater` implements `MapTicks`.  A map is to do while it is not
  scheduled, queued or just popped, and busy while a thread updates it.

The inductive invariant (`UpdaterInv`) says what the barrier rests on:
`pending_requests` is the length of the queue plus the number of workers that hold
a request.  Only with that does the world thread, seeing zero, know that the queue
is empty and all workers are idle; with it, the token of the shutdown is set when
there is no request left that could be dropped without being counted down.
`MailInv` adds, for the messages, that a batch is there only while its map is in
work, so that a second thread cannot take a batch over the first one's, and that all
numbers that wait are different and not above the last one sent.

`TradeProofs`, for any players, items, capacities and limits:

- `Paired`: a trade always has two ends, both online.
- `AcceptanceIsCurrent`: an acceptance that stands was given for these two offers.
- `GoldOnlyAsAgreed`: a player gains gold only from a partner who accepted the two
  offers as they are, and at most what that partner offers.

The second rests on the first: what a change of the offer resets is the acceptance
of the partner, which is the right one because the partner's partner is oneself.  The
third rests on both, and on the bounds of `ModifyMoney`: the exchange first takes
what is given and then adds what is received, and neither cut can turn into a gain.

and, for any finite sets of players and items:

- `ItemsAreConserved`: every item is in exactly one place, in memory and in the
  database, until goods are exchanged that do not fit together.
- `GoldIsConserved`: gold is never created, and none is destroyed while nobody reaches
  the most a player can have.
- `ItemsOnlyAsAgreed`: a player gains an item only from a partner who accepted the two
  offers as they are and who offers it.

A crash shows whatever the database has executed so far, so it is not enough that
memory and the last state of the database are right.  The invariant is about a ledger: a
sequence of pages, one for each pending save, that starts with the database
and in which each page is the one before it with that save executed.  Every page is intact
(each item once, all the gold), and the last page agrees with the memory on what each player
is worth and on which items it had.  That agreement is what lets a save
of one player alone be appended; an exchange, which moves worth between two
players, breaks it unless both are saved in one transaction.  `Sums` has what the proofs
need to know of `SumFunctionOnSet`: that the sum has a solution and only one, that an element can be
split off, that it changes with one or two of its terms.  Those are inductions; they are done over
sets of numbers and of subsets, with no operator as a parameter.

`WorldSessionsProofs`, for any accounts, connections and limit, kicks and double logins
included:

- `SocketsRoute`: the open socket a session holds routes to that session.
- `QueueIsExact`: the queue of a full server holds exactly the sessions that are told to
  wait, each once.
- `LimitHolds`: no more players are admitted than the limit, and nobody waits while there
  is room.
- `FirstComesFirst`: players are admitted in the order in which they came.

The invariant (`Served`) adds where a session can be: on its way to the world thread or registered for its
account, not both, and destroyed ones are in neither; that the session being updated is registered and
not to be updated again in this tick; and that every socket a session holds, is offered or
finds in its messages routes to it while it is open, not only the one it holds now.  The limit
needs one number more than the property says: those who are not in the queue, game
masters included, are at least the limit while somebody waits.

About the characters it builds on that:

- `SessionsAreTyped`: the types of all variables.
- `CharactersHaveSessions`: a character is in the world exactly when the session of its
  account has it.
- `LogoutsSave`: a character leaves the world saved, however its session ended.
- `ShutdownSaves`: when the world has stopped, every character has left it and is saved.

The last three have the two conditions of the run `session_lifecycle` as hypotheses: nobody is
kicked, and no login is asked for while one of the account is on its way.  Both are needed, as
`kicked_while_loading` and `late_login` show, and both may well hold.  The invariant (`Cast`) follows a login
through the three places it can be in (the queue of packets, the batch that is being handled, the
queries on their way): it is in one of them at most, and while it is, the session of the account has
no player and has not just logged out.  The session can be replaced in the meantime, so it also says, of sessions that
are still to be added, that they have no player and that a login in their own queue is the only one of
their account, unless the account has a session now; and that the session a newcomer finds registered for its account
is as new as itself as long as the world thread has not been past it (`Newcomers`), which is why
no session can log in and be destroyed before a duplicate of it has been dropped.

`MailProofs`, for any finite set of players and any items, letters, auctions and deaths:

- `MemoryAgrees`: what a player who is online has and reads is what the tables will say
  once the queue is executed, and so is what a login on its way will bring.
- `ItemsAreExact`: when the process dies between two handlers, each item is in exactly
  one place: in one inventory, in one letter, for sale, or deleted with its letter.
- `AuctionsKeepItems`: wherever it dies within a handler of the auction house, each item
  is somewhere (it may be in a letter and still for sale).
- `NothingIsLost`, `AuctionsLoseNothing`: the same with the gold: it is all there between
  two handlers, and at least all of it within a handler of the auction house.
- `AuctionTypes`: the types of memory and tables.
- `AuctionsAreAMarket`: `AuctionHouse` implements `Market`, with the mapping of the runs
  (`Wealth`, `Belongings`, `ForSale`), if the cost of no letter wraps (`PlainAmounts`).

`NothingIsLost`, `AuctionsLoseNothing` and `AuctionTypes` have a hypothesis, `Roomy`: the
cost of no letter wraps, and there is not more gold in all than one player may have.  Without the
first a letter carries gold nobody paid; without the second `Player::ModifyMoney` cuts off what a letter brings to a rich
player, and the proceeds of a sale, the bid and the deposit, may exceed the bound on
the money of a letter.
Both instances of the runs satisfy it; the other theorems do not need it.

The invariant (`MailInv`) is about a ledger again, now with a page for each pending
transaction, since a handler may commit several.  Every page has well-formed rows, ids in use once
and below the next one, and what the kind of its last transaction allows: where
a handler ends it is settled (each item in one place, all the gold), inside a handler
of the auction house it has enough, and nothing is said of the pages inside a mail
handler, where the code does lose or double things (`MailDraft` commits on its own).
Two facts carry the rest.  A login reads its rows from a settled page, and none of
what it asked for changes between that page and its answer, because nothing that happens to
a character who is away touches its gold and bags, and the letters it did not load are those
inserted later (`Logins`, `Kept`).  And the last page is the one that all memory agrees
with, which is why a handler may decide from memory and write blindly: what
it takes from there it takes from the page as well.  That a lot or a letter
is the only one of its item follows from each item being in one place.

For the refinement each handler is first reduced to its effect on the last page
(`Sends`, `Returns`, `Throws`, `Cashes`, `Takes`, `Sells`, `Raises`, `Buys`, `Finishes`,
`Cancels`: exactly which rows are written, with new letters whose ids nobody has), and each effect
is then shown to be one step of the market: what every purse gains or pays (`Share`, `Credit`), whom every
item belongs to (`OwnerOf`), and which lot changes (`Board`).  The step is not always the one
that its name suggests: a letter returned gives its sender the money, but an item sent COD never
ceased to be the sender's; taking an item or money out of a letter moves nothing, except
that it saves the player and so throws away the letters marked as deleted (`Discard`, and the
`trash` of `Buy`), and loses what `Player::ModifyMoney` cuts off when he cannot carry it all.

`BattleGroundsProofs` and `BattleGroundPlayersProofs`, for any players, teams, parties and sizes,
any number of joins, and any number of messages under way:

- `TypesHold`: the types of players, battlegrounds, groups and entries.
- `InvitationsAreKept`: who is invited finds the battleground among the free slots, as the
  handler that accepts an invitation asserts.
- `PlayersKnowTheirQueue`: whenever no message is under way the two threads agree about the
  players, those aside who missed what concerns their place (`QueuedPlayersKnow`).
- `InvitationsLast`: an invitation whose time has not run out ends by a click or a logout of
  its player only (`StaysUntilItsTime`).

The first two hold for any clients.  Their invariant (`Inv`) has the types of all messages too,
for a handler trusts what it takes from the vector; it bounds the joins given and under
way together, and half of them are an upper bound of the battlegrounds, since a match
uses up a group of each side.  For each battleground, `Listed` follows its entries through
both vectors: there is one from its creation on, and a removal is under way only
behind the addition of a second, or when a second is there already, because only the departure
that makes the addition lets the battleground believe that it is listed.  That is why the one that
`overfull_side` complains of keeps the assertion from failing.

The last two have `PatientClients` as hypothesis, which the section on the modules explains: a player
may travel or log out while he is queued or invited, but not while a click of his is under way.
The invariant of a player (`PlayerInv`) says what may be under way between the threads at a time.
An invitation is one thing (`Token`): the message about it, the timer, the message of the timer
or the question of the world thread whether it is over, only one of them, and none for a group
that is not invited or does not exist yet.  A player asks one thing at a time, and is in the
world and in no battleground until it is answered (`OneAnswer`).  What the queue believes of him
he knows, or a message is on its way that tells him, and in the right order: that he has
joined before what he is invited to, and that he has left before that he has joined again (`Member`, `Asked`,
`Answered`, `Knows`).  An event that fires late names its group, which is why it cannot end
another invitation.  `Place` adds that only who has the battleground takes part in it, and that nobody
is sent into one before the world thread hears that it exists.  Every handler of either
thread is shown to keep these, through what it does to the groups (`Seat`) and which of the messages of
one player it takes or sends (`Taken`, `Sent`).

The proofs assume the ASSUMEs of the modules, beside the hypotheses named above.
`TradeAssumption` says that players and items are finitely many, that every item is in the bag
of one player at first, and that the capacities and the limits on a kind of item are numbers; `MailAssumption` and
`TablesAssumption` say the same of players and items, that amounts are values of a `uint32`,
the gold of a player at first is within the most a player may have, and that twice the most a player may have is
a `uint32` (`MAX_MONEY_AMOUNT` is 2^31 - 2).  Those of the battlegrounds
(`TeamAssumption`, `SizeAssumption`, `PartyAssumption`, `BoundAssumption`) say that players are finitely
many and each on a side, that a match needs somebody and not more than fit, that the counters are wide
enough to count all players, and that a party is not empty, of one
side and no larger than a side.

Only model-checked: liveness (out of reach of the prover), and of the battlegrounds
`InvitedCountIsExact`.

## What is not modelled

The list of components in `PROJECT.json` gives a reason for each.  In short: game
rules (spells, auras, quests, AI scripts), which are large tables of
sequential code; geometry (maps, pathfinding, line of sight); the modules under
`modules/`, vendored code under `dep/`, tools under `contrib/`; and the components of
the open steps of the plan.  These are most of the repository's lines: the core
that keeps state over several steps and threads is small beside the game's content.
