# Verification of the Fire Temple server emulator

This directory holds TLA+ specifications of the server emulator in `src/`, the
TLC configurations that model-check them, and TLAPS proofs. The first part of
this document is the inventory of the system; then come the modules, the runs,
the proofs, what they show, and the plan.

## 1. The system

The emulator is a set of single-threaded processes that talk over RakNet
(reliable, ordered messages per connection) and share a MySQL database.

```
   client ──► auth server ──┐ REQUEST_ZONE_TRANSFER          ┌── world process
                            ├────────► MASTER ◄──────────────┼── world process
   client ──► world process ┘   starts, counts, stops        └── ...
                     │
                     └─────► chat server (players, friends, teams)
```

* The **master** (`dMasterServer`) starts world processes, keeps an `Instance`
  object for each, chooses the world a player goes to and gives out ids.
* A **world process** (`dWorldServer`, `dGame`, `dZoneManager`, ...) runs one
  instance of one map for a bounded number of players.
* The **auth server** (`dAuthServer`) logs clients in and asks the master for
  their first world; worlds ask it for every later one
  (`dNet/ZoneInstanceManager`).
* The **chat server** (`dChatServer`) knows which player is where, and owns
  friends, ignore lists and teams; every world keeps a copy of the teams.

No process has threads that matter here: every handler is atomic. What is hard
is between processes: messages under way, worlds that start, stop, crash or lose
their connection, the master stopping or crashing, and timers.

### Inventory

| Component | State | Operations | Interacts with | What is hard, and what makes it correct |
|---|---|---|---|---|
| Instance manager (`InstanceManager.cpp`) | `m_Instances`, last instance id, shutdown flag; per instance: port, address, readiness, clients, two lists of requests | GetInstance, CreatePrivateInstance, RequestAffirmation, ReadyInstance, AffirmTransfer, RedirectPendingRequests, RemoveInstance, GetFreePort | master's packets; starts processes | A request must always be where somebody will pick it up; ports and (map, id) keys must name one instance; a 16-bit counter wraps; `GetInstance` returns null |
| Master server (`MasterServer.cpp`) | the running/stopping flags, sessions | HandlePacket, the frame's affirmation timer, ShutdownSequence, FinalizeShutdown | all servers | packets that arrive during shutdown; timeouts racing late answers; a restart of the master with its worlds still up |
| Zone transfer requests (`ZoneInstanceManager.cpp`) | the list of requests, `currentRequestID` | RequestZoneTransfer, HandleRequestZoneTransferResponse | master; the callbacks in auth and world | a callback is called at most once, with a world of the zone that was asked for, and in the end |
| Link to the master (`dServer.cpp`, `MasterPackets.cpp`) | `mMasterConnectionActive` | bind, connect, reconnect, lose | master, worlds | losing the link loses messages; SERVER_INFO must let a restarted master recover |
| World life cycle (`WorldServer.cpp`) | ready, lastSignal, idle and master timers | start, become ready, affirm, fall idle, shut down | master | WORLD_READY is sent once in a process's life; SHUTDOWN reaches only who is connected |
| Persistent ids (`PersistentIDManager.cpp`, `ObjectIDManager.cpp`) | the highest id, pending requests | GeneratePersistentID, SaveToDatabase, request, response | master, worlds | no id is used twice, whatever crashes; a name is looked up long before the character is inserted |
| Chat: players and teams (`PlayerContainer.cpp`, `ChatPacketHandler.cpp`) | players, teams, names | insert, remove, invite, answer, leave, kick, promote, disband | worlds, players | a team has a leader as long as it has members, a player is in a second team only by a late answer, every world's copy converges |
| Chat: friends (`ChatPacketHandler.cpp`, `Friends.cpp`) | the lists of the players in game, the table of friendships | load, ask, answer, ask for a best friend, remove | players, database | lists and table agree; a friendship has the consent of both; a lookup that fails gives a shared entry |
| Teams in a world (`TeamManager.cpp`) | copies of teams | TEAM_GET_STATUS, updates | chat server | copies equal the chat server's once messages have arrived |
| Trading (`TradingManager.cpp`) | trades, offers, acceptances | create, set items, accept, cancel | inventories of two players | coins and items are conserved, whatever clients offer, change and use up meanwhile; the verification looks at one entry at a time |
| Activities and lobbies (`ActivityComponent.cpp`) | queue of lobbies, instances | PlayerJoin, PlayerLeave, Update, PlayerReady | players, zone transfers | lobbies share objects they delete; a lobby starts once, with enough players, and in the end |
| Quick builds (`QuickBuildComponent.cpp`) | build state, builder, timers | start, cancel, complete, reset | players, scripts | each state is left; one builder at a time |
| Spawners (`Spawner.cpp`) | nodes, entities, waiting times | Spawn, Update, NotifyOfEntityDeath, Reset | entities | the number of entities stays at, and returns to, the number maintained |
| Missions (`Mission.cpp`, `MissionTask.cpp`, `MissionComponent.cpp`) | state, progress | accept, progress, complete, yield rewards | inventories | rewards once; progress only while active |
| Auth and sessions, entities, users and characters, inventories, behaviors, properties, other components, scripts, slash commands, loot, databases, common code, zones, chat filter, physics | | | | sequential, I/O, parsing or game data; see section 7 |

`PROJECT.json` lists every component with its status, and each hazard at its
line with the properties that cover it.

## 2. The modules

| Module | What it is |
|---|---|
| `ZoneTransfer` | The abstract specification: what a requester is promised of a transfer |
| `MasterServer` | The master, its instance manager, the life cycle of world processes, the links between them and the requesters; properties and refinement mapping included |
| `MCMasterServer` | Its instances for TLC |
| `MasterServer_proofs` | Type correctness, the lemmas about the operators `MasterServer` is made of, and the safety theorems that hold whatever fails; in its second half what holds while nothing fails: requests, affirmations and clients, and the refinement of `ZoneTransfer` |
| `UniqueIds` | The abstract specification of persistent ids: each is used at most once |
| `PersistentIds` | The master's counter, its row in the database, the worlds' requests, and the characters that are created and renamed with the ids; the refinement of `UniqueIds` |
| `PersistentIds_proofs` | Its theorems, the refinement among them |
| `Teams` | The players and teams of the chat server, the commands and notices that change them, and the worlds' copies |
| `Friends` | Friends and best friends: the chat server's lists and the table |
| `Trading` | Trades between players: offers, acceptances, what a completed trade does to coins, stacks and mail |
| `Spawner` | One spawner: its nodes, waiting times and entities, and what scripts do to it |
| `ActivityLobby` | The lobbies of an activity played in another zone: players who wait, countdowns, starts |
| `Teams_proofs`, `Friends_proofs`, `Trading_proofs`, `Spawner_proofs`, `ActivityLobby_proofs` | What is proved of those five |
| `FiniteData` | Lemmas the proofs share: least elements, occurrences in a sequence, removal from one, prefixes, sums and folds over finite sets, loops |
| `MCPersistentIds`, `MCTeams`, `MCFriends`, `MCTrading`, `MCSpawner`, `MCActivityLobby` | Their instances for TLC |

`MasterServer` and `PersistentIds` both model the master: the packet for ids shares nothing
with the instances but the connection, so the two are separate. The chat server's teams and its
friends share the map of players only; `Teams` has the notices of arrival and departure in any
order, `Friends` in the order of the player's moves.

### How `MasterServer` corresponds to the code

**State.** `m_Instances`, `m_LastInstanceID` and the fields of an `Instance`
have the code's names where they say more than one thing. An Instance object is
named by its creation number (its *handle*). The code's vector is only appended
to and erased from, so the order of the vector is the order of the handles and
"the first element with" is the least handle with. The process started for an
Instance has the Instance's number; an Instance that was added back by
`SERVER_INFO` has a number of its own with no process, since its process was
started for an Instance of an earlier master.

`inst[h].addr` is `m_SysAddr`. All processes run on one machine here, so an
address is a port, and `0` is the address of nobody. The code does not initialise
`m_SysAddr` (`InstanceManager.h:86`), so a new Instance has the address of nobody or,
with `ReusedMemory`, that of an Instance that was deleted.

`toMaster[w]` and `toWorld[w]` are the ordered, reliable connections;
`DISCONNECTED` is what RakNet puts at the end of one, and stands for both
`ID_DISCONNECTION_NOTIFICATION` and `ID_CONNECTION_LOST`, whose handlers differ
for the chat and auth servers and not for worlds. `transfers` and `responses` are
sets because each requester has a connection of its own and the messages of one
requester are handled independently. The requesters are separate from the
worlds: a world that dies takes its requests with it, which the model leaves out.

`master` is `running`; `signalled` once `lastSignal` is set (`ShouldShutdown`);
`stopping` in the loop of `ShutdownSequence` (`m_IsShuttingDown`); then `down`.
In the code, the frame in which the signal comes handles at most one more packet;
the model allows more.

**Actions.**

| Action | Code |
|---|---|
| `HandleRequestZoneTransfer`, `HandleRequestPrivateZone`, `HandlePrepZone`, `HandleCreatePrivateZone` | the cases of `HandlePacket` of those names. `HandlePrepZone` also stands for the worlds started at boot, which are started the same way |
| `HandleServerInfo`, `HandleWorldReady`, `HandleAffirmTransferResponse`, `HandlePlayerAdded`, `HandlePlayerRemoved`, `HandleShutdownResponse`, `HandleDisconnected` | the cases of `HandlePacket` for what worlds send |
| `AffirmationTimeout` | the end of the frame: `instanceReadyTimeout` |
| `OnSignal`, `ShutdownSequence`, `FinalizeShutdown` | the functions of those names (`FinalizeShutdown` may come at any time because of the limit of 60 seconds) |
| `MasterRestarts` | a crash of the master, and its start, in one step; a world only notices that its connection is gone |
| `WorldStarts` ... `WorldExits` | `WorldServer.cpp`'s main and `dServer`'s connection to the master |
| `WorldCrashes`, `ConnectionLost` | no code: a process dies, a connection is cut; any prefix of what was sent arrives first |
| `RequestTransfer`, `HandleTransferResponse` | `ZoneInstanceManager` |
| `PlayerJoins`, `PlayerLeaves` | `SESSION_KEY_RESPONSE` and the disconnection of a client, which make a world send PLAYER_ADDED and PLAYER_REMOVED. Two kinds of client are announced and never taken back: one that has disconnected before `SESSION_KEY_RESPONSE`, when it had no user yet (`WorldServer.cpp:729`, `793`), and one that leaves without a last used character, in any world (`796`). `ghosts` is the history of how many there were of each world |

`Dispatch` is `GetInstance` followed by "push to `pendingRequests` if it is not
ready, else `RequestAffirmation`", which the code has in three places: the transfer
request, `RedirectPendingRequests` and the affirmation timer. The last two do it in a
loop over the requests; client counts do not change meanwhile, so each iteration
finds the same instance, and the loop is one step over a sequence.

`GetFreePort` walks the sorted list of used ports; the model says the same without
a list: the k-th used port (from 0) is p when at most k used ports are below p and
more than k are at most p, and the result is the least k-th grid port that is not the
k-th used one.

**Left out of `MasterServer`**: session keys, so a player joins a world by one action when its
`SESSION_KEY_RESPONSE` has been handled; persistent ids; the restart of the auth and
chat servers; the hard cap of an instance (nothing reads it); the `mythranShift` flag
and the character's data in messages; times, so that a timer may fire whenever its
condition holds.

### `PersistentIds`

`CurrentPersistentID` is the master's counter, `lastObjectId` the row of `object_id_tracker`,
`charinfo` the table of characters (an id and the name it was assigned), `Requests` and
`CurrentRequestID` the list and the counter of each world's `ObjectIDManager`.
`handling` is the packet in the master's hands: `REQUEST_PERSISTENT_ID` is handled in three
steps, `GeneratePersistentID`, `SaveToDatabase` and `SendPersistentIDResponse`, so that the
master may die between any two. `toMaster` and `toWorld` are sets, since nothing depends on the
order. An answer names the world's address and the request: a world that ended and started
again at the address has its requests numbered from the start and takes the answer for its own.
A rename looks the name up and writes it in two steps (`RenameCharacter`, `SetCharacterName`); `renaming` is what the
handler holds in between. A world that is inside it does nothing else, but the other worlds do; if another row has got the name by
then, the exception ends the world, as it does for an insert (`InsertTakenName`).
`RequestObjectID` is any request whose callback only uses the id; `CreateCharacter` looks the name up,
requests an id, and `InsertNewCharacter` is its callback. `uses` and `life` are history. Left
out: the wrap of the 32-bit counter, the local and random object ids, the name a player wishes for
(it has to be approved), and the save at shutdown, which writes what is saved already.

### `Teams`

`online`, `zoneOf` and `named` are `m_Players` and its names: `InsertPlayer` appends the name to
what `playerName` holds, so a player that is inserted twice is not found by its name any more.
`teams` is `mTeams`; ids grow, so "the first team that has the player" is the one with the least id.
The operations of `PlayerContainer` are operators from a chat state to a chat state that also collect what is
broadcast; a handler composes them as the code does, and `Handled` makes the outcome the next state.
World to chat is `RELIABLE`, unordered (`WorldServer.cpp:825`, `994`, `1152`,
`ActivityComponent.cpp:515`), so the notices come in any order; chat to world is ordered (`dServer.cpp:163`), so `queue` is a
sequence for each world. `WorldStarts` is a world that connects and knows no team. A restart of
the chat server is not modelled.

A player who is not found is looked up as the entry of the empty id, which all such lookups share. `stray` is the player in it:
none, until a best-friend request writes a friend who is offline there (`HandleFriendRequest` here is that write only; what such
a request does to friendships is in `Friends`). `GetPlayerData` and `FindByName` are those lookups, and `Known` is their result as a
condition: while there is a stray player, everybody is known, so `AddMember` announces, `RemovePlayer` counts out players who are not
there, and an invitation comes from, or gets lost at, the entry. `RemoveNobody` is the departure with the empty id that
worlds send (`WorldServer.cpp:821-825`, `987-994`); it erases the entry.

### `Friends`

`m_Players` has an entry for each player and one for `LWOOBJID_EMPTY`: the lookup of a player that
is not found gives a reference to that entry. `rows` is the table; `best` is
`best_friend`, with one bit for each of the two. Commands come from clients that have been sent their list.
`Logout` is `RemovePlayer` for any key, the empty id included: that departure erases the shared entry.
`HandleFriendRequest` of the code is two actions, one for each value of its `isBestFriendRequest`.
`AsksOffline` says whether clients ask players who are not in game.

### `Trading`

A trade has for each side the offer, the coins and the acceptance. The trades are in an
`unordered_map`, so `GetPlayerTrade` gives any trade of the player. An item is a stack of a lot; `itemId`, `itemLot` and
`itemCount` of an offer are what the client wrote, and nothing compares them with the inventory when the offer is made: `Offers` is
any set of offers. `Complete` is the function of that name with its checks in their order. It verifies the
entries of an offer one by one, then hands them over one by one: `HandOver` takes a count from the item, in the arithmetic of
`uint32_t` (`CountRange`), if the item is still there, and adds that many of the lot named to the other side.
`AddItem` fills the smallest stack (one of them, the map of items being ordered by random ids), then slots, and sends to the mail
what does not fit. Between the steps of trades, players spend coins and use up items
(`SpendCoin`, `UseItem`, bounded by `MaxLosses`), and leave and return.
Changing an offer resets nothing (`SetItems`, `SetCoins`) and leaving a world does not cancel a trade.

`Overlooked` says what the verification cannot see: entries that take from one stack more than it has, together, and an entry of
another lot than the item's. A trade completed with such an offer adds items that nobody lost, or leaves a count that has wrapped.
The variable `careless` is history: there has been such a trade. The
properties that it breaks say so, and hold until then.

### `Spawner`

The record `spawner` has the fields of the object; `waitTimes` is in ticks, one for each
`Update`. An operation gives the set of records it may lead to, since a node is drawn at random.
Three oddities of the code are kept: the loop over waiting times erases within the loop and skips the next
one; the number to spawn at a start is an unsigned difference that wraps (`Start`; in the model
that is as many calls as there is room for); and `DestroyAllEntities` walks a vector that the deaths it causes erase
from (`Walk`), so of a node with three entities or more some stay behind: `crowded` records that this has happened, and
`NodesAgree` speaks of the time before. `goal` is the number of entities that the last start has
reached, lowered when scripts lower the number to maintain. The nodes are numbered in the order of the code's vector, and each
loop is a recursive function of its rounds (`SpawnTimes`, `Passes`, `KillAll`, `DestroyAllEntities`).

### `ActivityLobby`

`m_Queue` is the vector of lobbies; a lobby points to `LobbyPlayer`s, which have an address (`lobbyPlayer` is what
is in memory there), since `PlayerJoinLobby` puts the same object into every lobby that has a slot and
`PlayerLeave` deletes it when it leaves the first of them. What is read of it afterwards is undefined: it
is left as it was, or belongs to nobody, or is the next `LobbyPlayer` that is allocated there. Deleting it again ends the
process (`crashed`). Time is in updates; `Update` is the function of that name for a whole
frame, with its early return at a player who has left the world: what it has started by then stays in the
queue, and starts and is paid for again. `gap` is set when one of the two has happened, and `StartsAsPromised` speaks of the
time before; the other two properties hold throughout. `StartDelay` is assumed positive: with 0 a
single player who is ready would start a lobby for two (it is game data, not in the repository).
The instance's transfer is that of `MasterServer`, the team it makes `CreateTeamServer` of `Teams`.

## 3. The properties

* `TypeOK` – types; the client count never goes below zero; an instance id stays in 16 bits.
* `PendingMatchesReadiness` – no request waits for the readiness of a ready instance,
  nor for the affirmation of one that is not ready.
* `DistinctPorts` – no two Instances have the same port.
* `NoNullInstance` – the null that `GetInstance` returns while the master stops is
  never dereferenced.
* `NoNewWorkWhenShuttingDown` – no step gives an instance that shuts down another
  request or player.
* `InstanceKeysUnique` – a map and an instance id name one Instance.
* `ClientsCounted` – the client count is the number of players in the world, up to the
  messages under way, and those the world announced and never took back (`ghosts`): exactly, in every world.
* `AffirmationsUnderWay` – the affirmations awaited and those under way are the same,
  one for one and id for id.
* `NoRequestLost` – while a requester waits, its request is somewhere.
* `TransfersKeepPromise` – `MasterServer` implements `ZoneTransfer`: a callback is
  called at most once, with a world process of the zone that was asked for that has
  finished loading.
* `EveryTransferAnswered`, `ShutdownReachesWorlds` – liveness. A world that is still starting when the master stops
  was removed from the list and adds itself back with `SERVER_INFO`: it ends when the master gives up after its 60 seconds.

`PersistentIds`:

* `IdsUsedOnce` – no id is used twice, also when the master dies between counting and saving.
* `TrackerCoversIds` – the saved row is never behind an id that has left the master.
* `NamesUnique` – no two characters have one name, though names are checked long before.
* `ImplementsUniqueIds` – the refinement of `UniqueIds`.
* `RequestsAnswered` – liveness: while nothing fails, a request is answered.

`Teams`:

* `CopiesFollow` – a world that has read everything has no team that is disbanded, and the right members of
  those it has, up to the ones `AddMember` did not announce.
* `LootOwnerExists` – `GetNextLootOwner` never indexes an empty list of members.
* `NobodyUncounted` – the number of players is never less than the players known, until somebody was written into the shared entry.
* `LeadershipPassesOn` – when the leader leaves, a member who stays leads.
* `SecondTeamByInviteOnly` – the only way into a second team is an invitation answered late.

`Friends`: `OneRowPerFriendship`, `ListsCoverTable` (the list of a player has everyone the table
has, whatever interleaves), `BestFriendsByConsent`, `FriendsByConsent`.

`Trading`: `WealthConserved` (coins always, and the items of each lot until a trade was careless, up to what is spent outside of trades),
`AcceptedTradesAreSettled` (a trade both accepted is gone),
`WealthMovesInTradesOnly` (somebody's wealth changes only in a step that settles a trade of its own which one side had confirmed).

`Spawner`: `NodesAgree` (entities, nodes and the living agree), `MissingAreAwaited` (each entity
missing from the goal has its waiting time, whatever calls refuse), `Replenished` – liveness: left alone, an active spawner comes back to its goal.

`ActivityLobby`: `StartsAsPromised` (a lobby starts with enough players, once, and nobody pays twice), `LobbiesStart` –
liveness: who waits with enough others does not wait for ever, whatever became of the memory.

Each module also has its `TypeOK`. Those of `Trading`, `Teams` and `ActivityLobby` hold the limits of stacks (until a trade was careless),
inventories and lobbies, and that a team has a member, and each once.

## 4. The runs

Deadlock is not checked: requests, players, commands and faults are bounded, and a server
that has handled all of them, or has been stopped, has nothing left to do.

| Run | Instance | Shows |
|---|---|---|
| `transfers` | two requesters whose request ids coincide; two maps, one of them character select; soft cap 1; 4 Instances; one timeout, one idle world, one command; no faults; symmetric in the requesters | `TypeOK`, `InstanceKeysUnique`, `ClientsCounted`, `AffirmationsUnderWay`, `NoRequestLost`, and the refinement `TransfersKeepPromise` |
| `faults` | one requester, one map; 3 Instances; a world that crashes, a connection that is lost, a master that restarts, a timeout, two commands; memory is reused | `PendingMatchesReadiness`, `DistinctPorts` |
| `shutdown` | one requester, two maps, one password; 4 Instances; a timeout, an idle world, a command, and the master may be told to stop; fair | `NoNullInstance`, `NoNewWorkWhenShuttingDown`, `EveryTransferAnswered`, `ShutdownReachesWorlds` |
| `private_stays`, `adds_back` | the smallest instances that show the findings below | a violation each |
| `persistent_ids` | two worlds, two names; requests, faults (master, worlds, links) at any point; fair | the safety properties, the refinement and `RequestsAnswered` |
| `teams` | three players, one world, two teams of up to three, activities for two, one arrival or departure, one player written into the shared entry, one invitation under way, one broadcast behind; symmetric in the players | the properties of `Teams` |
| `friends` | three players who come and go; nobody asks for a best friend who is offline | the four properties of `Friends` |
| `friends_offline` | best friends may be asked while offline | a violation of `BestFriendsByConsent` |
| `trading` | three players, two trades at once, two lots, stacks of two and one, inventories of one slot; one player may offer a stack in two parts, for more than it has, or as another lot | the properties of `Trading` |
| `spawner` | a node for one and a node for two, 1 or 3 to maintain, a maximum of 3 or none, two commands, three deaths; fair | `NodesAgree`, `MissingAreAwaited`, `Replenished` |
| `activity_lobbies` | three players, lobbies for two, one departure from a lobby and one from the world, one reload, one player who can pay once; fair | the properties of `ActivityLobby` |

The first five runs are of `MCMasterServer`, the others of the MC module of their name.

**The bounds.** `MaxRequestId` is 1: two requesters with one request each already
collide on the request id, and two requests are enough for one to be redirected to the
instance the other is waiting at. The soft cap of 1 makes an instance full with the first
player, so the second request needs a new one. With 4 Instances (3 in
`faults`) every request and command can start a world of its own and one more can be started
by a redirection or a world that is added back; runs do reach the bound, and a step that would
need yet another Instance is not taken, so the runs say nothing about what follows such a step.
`EveryTransferAnswered` shows that no transfer of its run is held up by this: a request
that could not be handled for want of an Instance would violate it. (The proofs are for
every value.) A timeout, an idle world and a prepared world together give every reason for
which an instance is stopped without fault. In `faults` each fault may happen once, in
any order with the others.

The properties that runs check *without* faults need that: `NoRequestLost` is false when a
world crashes before it is ready, because `RedirectPendingRequests` moves
`pendingAffirmations` only and `pendingRequests` is deleted with the Instance; after a lost
connection `AffirmationsUnderWay` and `ClientsCounted` are false, because the messages are
gone; `InstanceKeysUnique` is false after a restart of the master, when instance ids start again:
the world of a clone comes back as clone 0 (`MasterServer.cpp:548`), so a request for the clone
starts a second world of that map, with the id the first one has.
No doc or comment claims otherwise.
`TransfersKeepPromise` is about public zones (the `transfers` run has no passwords): a
private zone is answered before it is ready. The theorems about them have the
same circumstances as their hypotheses.

*The other runs.* In `teams`, one world is enough because worlds do not interact; two teams and three players
give every way into a second team and a leader who leaves a team that lives on. A team of
three is full with all the players there are, so that a fourth is refused is not exercised; an
activity for two moves one player from a team and adds another, which is all the loop over its
party does. In `friends` three players are needed for a list that is read while another
friendship is changed.
`trading` has three players because two trades that share one are the case of interest; counts
range over 4 values, so that one that falls below zero wraps. In
`spawner`, forced spawns overfill either node, and three deaths with two commands put a death
before, between and after them. In `activity_lobbies` one departure and a return are enough for a LobbyPlayer in two
lobbies, and with a departure from the world for one that is deleted twice, and for an update that is cut short.

**Fairness.** `FairSpec` of `MasterServer` assumes weak fairness of the master as a whole, of each world
process, and of the handling of responses. Each of these is a loop that handles a packet per
frame or does its next step; the links are reliable, so what has been sent arrives. Fairness
of `MasterStep` is one condition for all connections: it is enough because the bounded
messages run out, so that no connection can starve another for ever. Nothing is assumed of
players, commands, timers, idle worlds or faults. `FairSpec` of `PersistentIds` assumes weak fairness of the
three steps of the master's handler and of a rename, and strong fairness of each world's handling of answers: these are
loops that handle what has arrived, a world's also when other packets, such as renames, keep coming in between. `FairSpec` of `Spawner` and of `ActivityLobby` assume weak fairness of `Update`,
which the zone manager and the entity manager call in every frame (in `ActivityLobby` it is written with the
parity of the updates, which only `Update` changes).

## 5. The findings

1. `private_stays`: the Instance of a private zone never gets an address, because
   `SERVER_INFO` looks it up with `FindInstance`, which skips private instances. When its world
   disconnects it is not found, stays in the list, and `FindPrivateInstance` goes on giving out
   a world that is gone.
2. `adds_back`: a world added back after a crash of the master ("allows us to add World
   servers back if master crashed") is never ready again, because WORLD_READY is sent once in
   its life; transfers that choose it wait for good.
3. `friends_offline`: a best-friend request to a friend who is offline writes that friend's id and
   name into the entry that stands for a player who is not found, where they stay until a departure
   with the empty id erases the entry (`PlayerContainer.cpp:93`; worlds send one when a client logs in its first character, or leaves before
   that). Meanwhile the entry is found by that name for the next requestor too, and `GetPlayerData` of a player who is not found
   gives it: two players become best friends ("3 = both_accepted") though one of them never asked the
   other.

## 6. The proofs

For every value of the constants that satisfies `ConstantsAssumption` (natural bounds, a
non-empty set of zones, a positive base port and soft caps, and passwords distinct from
zones), and for `Spec`, faults, restarts and reused memory included:

* `TypeCorrect` (`MasterServer_proofs`): `Spec => []TypeOK`. `TypeOK` is inductive.
  Its parts `MasterTypes`, `ProcessTypes` and `RequestTypes` are shown one action at a time;
  `Dispatch` and the other shared operators have type lemmas of their own.
* `FreePortUnused` (a theorem about an operator): if used ports are distinct and lie on the
  grid, `GetFreePort` is on the grid and is unused. It rests on lemmas about the cardinalities
  `Below` and `UpTo`: n ports on the grid cannot cover its first n + 1 places.
* `PendingCorrect`, `NoNullCorrect`, `NoNewWorkCorrect` and `PortsCorrect`. The argument for
  all of them is the lemma `Evolution`: whatever the step, each Instance that was there before it
  and is there after it has *rested*, *become ready*, *been answered* or *been handed* requests, in
  a sense defined there, and an Instance that is new is a fresh one at `nextHandle`. Each property
  then is an argument about those few ways, and not about the handlers.
* `DistinctPorts` is not inductive: a port that lies off the grid makes `GetFreePort`
  return one that is in use, and a port comes back with a `SERVER_INFO` of a process an
  earlier master started. The strengthening `PortsOnGrid` says that the ports of
  Instances and those of all started processes lie on the grid; its second half rests on
  `WorldsEvolve` (a process keeps its port).
* `KeysCorrect`: `InstanceKeysUnique`, when the master does not restart
  (`MaxMasterRestarts = 0`; section 4 says why it is false otherwise) and has not used up its 16-bit
  ids (`MaxInstances <= InvalidInstanceId`). The invariant `KeysKnown` says that the ids given so
  far are below the next one, each given to one process, and that every Instance, also one that was
  added back, has the name of such a process; that a world is added back only on a free port comes
  from `DistinctPorts`.

The second half of `MasterServer_proofs` is about the circumstances of the `transfers` run, `NothingFails`: no
crash, no lost connection, no restart, no signal, no reused memory, ids that have not come round.
These are hypotheses of the theorems, not assumptions of the module; without them the properties
are false (section 4). Under them, for any number of requesters, zones and Instances:

* `ClientsCorrect`, `AffirmationsCorrect` and `RequestsKept` (`ClientsCounted`,
  `AffirmationsUnderWay`, `NoRequestLost`). The invariant has four parts. `Sound` is what the
  theorems above give. `Together` says that a process and its Instance go by one number: `Fit`
  relates, for each number, the Instance, the life of the process, and what is under way between the
  two and in which order (SERVER_INFO first, WORLD_READY once, the farewell last). `Attended` counts: every affirmation
  that an Instance awaits is one message to the world or one from it (`Awaited`), and
  the client count, with what is under way, is the number of players (`Balanced`, which must
  also say that no prefix of the messages brings the count below zero, since the handler of
  PLAYER_REMOVED stops there; with the players announced and never taken back, it says exactly what the count is). `Asked` says that a request is only ever where its
  player wanted to go. Every step acts on one number or moves requests between Instances, and is
  treated as such; a redirected sequence of requests is handled by induction on its length.
* `PromiseKept`: with public zones only (`Passwords = {}`), `Spec => TransfersKeepPromise`,
  the refinement of `ZoneTransfer`, each step mapped to a step or a stutter.

For `PersistentIds` (`PersistentIds_proofs`), for every number of worlds, names, requests and
faults: `TypeCorrect`, `NoIdUsedTwice`, `TrackerNeverBehind`, `NoNameTwice`, and `Implementation`,
the refinement of `UniqueIds`. None of them is inductive alone; the
invariant is `TypeOK` with `MasterInv` (between counting and answering, exactly one
id is ahead of the answers, and the row is at least every id that has left the master), `IdsInv` (an id that is used or on its
way is used or on its way once), `RequestInv` (a world's requests have numbers of their own, so an
answer finds at most one) and `NamesUnique`.

For `Friends` (`Friends_proofs`), under `AsksOffline = FALSE`, for every number of players and
friends: `TypeCorrect`, `OneRow`, `ListsCorrect`, `BestByConsent` and `Friendship`. The
invariant `IInv` is needed whole: `EntriesOwn` says that the shared entry of the players who are not found stays empty, and that each
other entry is of its player or of nobody (without the assumption this part fails first, which is finding 3);
`ListsCoverTable` is why an answer never adds a second row (the handler looks for
the friend in the list, not in the table), which gives `OneRowPerFriendship`, without which one row
of two could be marked and the other listed; `BitsAsked` ties each bit of `best_friend` to a
request of that player.

For `Teams` (`Teams_proofs`), for every number of players, worlds and teams and every team size:
`CountCorrect` (`playerCount` is never below the players known; a player counted
twice is removed once; without a stray player, `Known` is membership, so nobody is counted out twice), `TypeCorrect`, `CopiesCorrect`, `LootOwnerCorrect`, `LeadershipCorrect` and
`SecondTeamCorrect`. The invariant is `IInv`, players and teams. A handler sends while it changes
the teams, so what is invariant is `Stage(s)`, said of a chat state `s` in the middle of a
handler with what it has sent so far at the end of each queue; each operation of `PlayerContainer` takes
a stage to a stage, and a handler is a composition of them. The heart of it is `Follows`, between
a world's copies, its queue and the chat server's teams: the last message about
each team holds; a team of one member was never announced as larger (`Alone`), which is why `AddMember`'s silence about it
does no harm; and a message without members is only about a team that the world does not know
by then (`EmptyUnknown`), so that no copy is ever without a member for
`GetNextLootOwner` to index. `Orderly` says of an operation who may have joined and left,
from which come the two action properties. The loop of `CreateTeamServer` over the members
of a party is treated for parties of any size.

For `Trading` (`Trading_proofs`), for every number of players, trades, stacks and slots:
`AcceptedAreSettled` (each message leaves every trade it does not close as accepted as it was, or
makes one accepted that cannot be settled since a side is away or has not accepted), `TypeCorrect`,
`WealthIsConserved` and `WealthMovesAsAgreed`, for every set of offers and every range of counts. The invariant `TradingInv` has `TradesInv` (an
open trade was opened, and purses are natural numbers), `Differ` (the two sides of an open trade differ), `CoinsConserved`, and `Sound`:
`Tidy` (counts are in their range, item numbers not given yet hold nothing, nobody holds more than the slots) and `Bounded`, which hold
whatever is traded, and, until a trade was careless, `Neat` (no stack above its size, which is what keeps `uint32_t` subtraction from
wrapping in `AddItem`) and `LotsBalance`, the sums themselves. Each step of `AddItem` is shown to be one that `Passes`: from items left to
stacks, slots and mail, nothing lost and no count lowered. A side's offer is
`Afforded` when nothing in it is overlooked; along the loop of `HandOverAll`, what the `Remaining` entries still ask of a stack is there, so that each entry
takes what it hands over. That the first side's items only add to the second's is why the second's offer is still afforded when its turn comes.

For `ActivityLobby` (`ActivityLobby_proofs`), for every number of players, sizes and delays:
`TypeCorrect`, whatever the memory holds; `StartsAsPromisedAlways`; and `NothingDangles`: as long as
neither cause of the `gap` has occurred, every address in a lobby is of a live object, every live object is in a lobby, and
the process does not die. The invariant `Orderly` says that
every lobby before the last is full, every player waits in one place, and every object is in one lobby. It is
the first of these that breaks when somebody leaves, after which `PlayerJoinLobby` shares an object
between two lobbies.

For `Spawner` (`Spawner_proofs`), for every number of nodes of every size, every respawn time, and any
calls: `TypeCorrect`, `NodesCorrect` and `MissingCorrect`. The invariant `IInv` says four things of the
spawner and its goal. `Proper` holds throughout: what a node lists are the spawner's own entities, of
that node and once each, and all of them live. `Agree` is the converse, every living entity is listed, and is
kept until `DestroyAllEntities` meets a node of three or more (`Sparse` says that it does not: over two entities
`Walk` meets both). `Modest` says that the goal exceeds neither the number to maintain nor the room of all nodes.
It is what `Awaited` needs, from which `MissingAreAwaited` follows: a waiting time that has elapsed is erased whether
`Spawn` finds a place or not, and only because the goal is modest does a refusal mean that enough are there (`FullNodesHold`: nodes without a
free place hold as many entities as there is room for). `Elapse` then trades each waiting time for
an entity, or meets one of those limits (`Reaches`, `PassesKeep`).

**Induction over data.** The library's induction rules cannot be used here, since they take the
formula as a parameter. The lemmas of `FiniteData` use the least element of a set of natural
numbers in their place: if a claim about sizes, lengths or steps of a loop failed, there would be
a least one where it does, and a proof can name it. In this way sums over players, occurrences in queues,
redirected requests, what a trade hands over, parties and the loops of a spawner are treated for every size. A loop that the model
writes as a recursive function is that function only if it exists, which `LoopExists` gives.

Only model-checked: liveness (`EveryTransferAnswered`, `ShutdownReachesWorlds`, `RequestsAnswered`,
`Replenished`, `LobbiesStart`), since fairness and ENABLED are out of TLAPS's reach here. Every
safety and action property that a passing run checks is a theorem.

## 7. What is not modelled, and why

* Worth modules of their own (section 8): quick builds, missions. Activities played in the zone they are in, and their scores.
* A restart of the chat server, muting and chat messages; the crash of a world between the two
  saves of a trade; the round of `GetNextLootOwner`; local and random object ids.
* Auth server, sessions, the rest of users and characters, ignore list, properties, loot,
  databases: a statement against the database behind each request.
* Entities, the rest of inventories, behaviors, game components, scripts: large, sequential code over game
  data, whose properties are rules of the game.
* Formats, assets, zones and levels, chat filter: parsing.
* Physics and navigation: floating-point code over meshes, out of TLC's reach.

## 8. The plan

1. **Done**: the modules of section 2, their runs, and the proofs of section 6: every safety and
   action property that a passing run checks, and both refinements.
2. `QuickBuild` and `Mission`: state machines driven by players and timers.
