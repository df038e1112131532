# The game server of SeasunTCCampServerDemo in TLA+

This directory holds a formal model of the server program of this repository
(`server_demo`, `netpack`, `codec`, `utils`): TLA+ modules, the TLC
configurations that check them on small instances, and proofs, checked by TLAPS,
of the properties that matter most. The program is a single-threaded game
server: one libuv loop accepts TCP connections, cuts packets out of the byte
streams, handles them one after the other in memory, and keeps players and
suspended games as files under `./data`.

## 1. Inventory

### The parts and what they keep

| Part | Source | State | Operations |
|---|---|---|---|
| Socket layer | `utils/utils.cpp` | one `uv_tcp_t` per connection, one `uv_write_t` per pending write | `on_new_connection`, `on_read`, `sendData`, `on_write`, `on_close` |
| Connections and dispatch | `netpack/nethandle.cpp` | `s_clientMap`: the receive buffer of each connection | `OnNewClient`, `OnRecv`, `_OnPackHandle`, `OnCloseClient` |
| Wire format | `codec/codec.cpp` | none | `check_pack`, `decode`, `encode` |
| Players | `server_demo/player/player.cpp` | `m_playerMap`: connection -> player object | `player_login`, `player_create`, `on_client_close`, `find_player`, shop, backpack, announcement |
| Games | `server_demo/level/level.cpp` | `__settle_status_Map` (opened or started games), `__Level_state_Map` (the state last uploaded), both by player ID | `on_level_data_req`, `on_level_start_req`, `on_player_level_save`, `on_level_settle_req`, `on_player_diconnect`, `have_save`, `reconnect`, level list and detail |
| Leaderboard | `server_demo/level/RankMgr.cpp` | `__rank_list`, `__rank_rsp_pb_cache` | constructor, `update`, `on_rank_req`, `add_new_player_in_rank` |
| File store | `server_demo/filedb/filedb.cpp` | `./data/<ID>`, `./data/save/<ID>` | `save`, `load`, `readCfg` |
| Configuration | `utils/utils.cpp` | read once at the start | `loadConfig`, `loadItemConfig` |
| Main program | `server_demo/main.cpp` | the loop | `main`, an idle callback that only sleeps |

`broadcast_announce` and `update_online_players_syncInfo` have no caller.
libuv, cJSON and protobuf (`3rd/`) and the generated protocol code (`proto/`) are
not part of the model except for what the server's code relies on.

### How they interact

All calls are direct and run on the loop's thread. `on_read` hands a chunk of
bytes to `OnRecv`, which handles every complete packet of it in a row through
`_OnPackHandle`. The handlers call each other across the parts: a login
(`PlayerMgr`) reads the player file and resumes the saved game (`LevelMgr`); a
registration writes the player file and calls the leaderboard; a settlement
(`LevelMgr`) pays the session (`PlayerMgr`) and reports to the leaderboard, which
asks `PlayerMgr` for players on requests. `on_close` suspends the game, writes the
player file and forgets the session, in that order. Two callbacks come later than
the call that causes them: `on_write`, when libuv has written or cancelled, and
`on_close`, which libuv calls in a later phase of the loop than `uv_close`.

### What is hard about it

* **Interleaving.** Handlers are atomic, but `sendData` may close the handle in the
  middle of a chunk, and the loop of `OnRecv` goes on with the next packet, also with
  further sends that fail and want to close it again. Between
  `uv_close` and `on_close` other connections, the clock and the rest of the chunk
  are handled.
* **Streams.** A packet may be cut anywhere; its length has 16 bits, the buffer 64 KiB;
  what remains of a chunk has to be kept until the rest arrives, and only that.
* **Reused addresses.** `m_playerMap` and `s_clientMap` are keyed by the address of a
  handle that `on_close` frees and the next `malloc` may return.
* **Identity.** Requests name a player ID; a session stores the ID found in the file;
  the leaderboard uses the name of the file; a settlement looks the session up by
  ID and answers on the connection the request came in on.
* **Failure.** `save` truncates before it writes, so it may leave nothing or half of
  a text. `remove` may fail. Null pointers are dereferenced for players who are
  offline and for text that does not parse; the process may end at any time, and
  nothing is saved then. The constructor of the leaderboard exits when a file
  cannot be read. A registration writes texts of any length, which a later read may
  refuse for its length.
* **Derived state.** The list is kept sorted by one erase and one insert; pages are
  cached, and the cached message is modified for each reply.
* **Time.** A game's timing is checked against the clock over a disconnection; saves
  expire.

### What makes each part correct

* Connections: the packets handled are those of the byte stream, however it is cut; a
  buffer belongs to one connection; nothing complete waits; a handle is closed once
  and freed after that, with writes pending or not.
* Players: one connection per player; no session outlives its handle; a session's
  record changes only by the settlement of a game of its player, on whatever connection
  it is asked for; a player who is online has a file that holds a whole record; a closing
  connection ends.
* Games: a game is paid at most once; a game leaves memory with its player; its level and
  its state belong together. The comments add that the time played before a reconnect
  counts, which the code does not keep (run `honest_game`).
* Leaderboard: always sorted, every player once, nobody lost; an update moves only
  the player it is about; pages and own rank agree; nobody is ranked below what his
  session or file holds.
* File store: what is read is what was written, or is recognised as torn or as longer
  than the buffer of the reader, which is 1024 bytes for a login and 5120 for the
  leaderboard.

`PROJECT.json` lists the hazards one by one at their lines, with the properties that
cover them or the reason why none does.

## 2. Plan

The modules, in the order they are written, the most important behaviour first:

1. `RankMgr` with `RankBoard` and the abstract `Leaderboard`; its proofs. *(done)*
2. `FileDB`, `PlayerMgr`, `LevelMgr`: the state and operations of the parts. *(done)*
3. `GameServer`: the handlers that compose them, connections, crashes and restarts,
   with the runs `sessions`, `games` and `ranking`. *(done)*
4. `Claims` and `HonestGame`: what comments say and the code does not keep. *(done)*
5. Proofs about the server: types, leaderboard, sessions, payment. *(done)*
6. `Codec` and `Connections`: the wire format, receive buffers, handles and pending
   writes below the handlers, with the abstract `PacketStream` and the run
   `connections`; `FailingAccept`, the failure path of `on_new_connection`. *(done)*
7. `HandleLife`: the life of a handle, which `Connections` and `GameServer` both
   implement. *(done)*
8. `Accounts`: an abstract account of each player, which `GameServer` implements.
   *(done)*
9. States that know their level, in `HonestGame`, with the run `level_states`. *(done)*
10. Proofs about the connections, the action properties, the ledger and the
    ranking. *(done)*
11. Proofs about the wire format and honest clients, and of the direction in which the
    scores of the list move. *(done)*

What could follow: money of 32 bits, and clients that open a second level without
settling the first.

## 3. The modules

| Module | Models | Extends |
|---|---|---|
| `Identities` | the connections (addresses of handles) and player IDs | |
| `Codec` | `codec.cpp`: `check_pack`, `decode`, `encode`, byte by byte | |
| `PacketStream` | abstract: one byte stream whose packets are taken in order | `Codec` |
| `HandleLife` | abstract: a handle is opened, closed, freed | |
| `Connections` | the callbacks of `utils.cpp` and `OnRecv` with its buffers | `Codec`, `Identities` |
| `FailingAccept` | `Connections` with the failure path of `on_new_connection` | `Connections` |
| `FileDB` | `filedb.cpp`: player files, saves, the outcomes of a write | `Identities` |
| `PlayerMgr` | the parts of the handlers that belong to `player.cpp` | `FileDB` |
| `LevelMgr` | the same for `level.cpp` | `FileDB` |
| `RankMgr` | `RankMgr.cpp`: list, page cache, their operations and properties | `Identities` |
| `Leaderboard` | abstract: players and their best scores | |
| `RankBoard` | the leaderboard alone, under any reports and requests | `RankMgr` |
| `Accounts` | abstract: the money of each player and whether a game is owed | |
| `GameServer` | the loop: connections, one action per packet handler, stop and start | `PlayerMgr`, `LevelMgr`, `RankMgr` |
| `Claims` | properties that comments state and the code breaks | `GameServer` |
| `HonestGame` | `GameServer` restricted to clients that follow the protocol of a game | `GameServer` |
| `CodecProofs`, `ConnectionsProofs`, `RankMgrProofs`, `RankBoardProofs`, `GameServerProofs`, `LedgerProofs`, `RankingProofs`, `HonestProofs` | theorems | |
| `MC...` | instances for TLC | |

The server is modelled on two levels. `Connections` is everything below
`_OnPackHandle`: it knows bytes, buffers and callbacks, and of a handler only what it
sends. `GameServer` is everything from `_OnPackHandle` on: it starts at complete
packets and knows of a connection only whether it is open, closing or free. They meet
in `HandleLife`: `Connections` implements it with the calls of `uv_close` and the
callbacks of libuv, `GameServer` with its handlers, so what `GameServer` takes for
granted about handles is what the layer below provides.

### State

Of `Connections`:

| Variable | Code |
|---|---|
| `handle` | the handle at each address: `free` (not allocated), `open`, `closing` (`uv_close` called, `on_close` to come) |
| `peer` | `s_clientMap`: the used part of `recv_buf`, or no entry |
| `running` | the connection whose `on_read` is on the stack |
| `pending` | the writes libuv has not called back for |
| `closes` | ghost: how often `uv_close` was called on the handle |
| `arrived`, `cursor` | ghosts: the bytes read since the connection was accepted, and how many of them were packets that were handled |
| `packet`, `refused` | ghosts: the packet handled last; `OnRecv` returned false |

Of `GameServer` and the modules it extends:

| Variable | Code |
|---|---|
| `conn` | the handle at each address, as `handle` above |
| `chunk` | the connection whose chunk `OnRecv` is still working on although its handle is closing |
| `reply` | the packets the last step gave to `sendData` and the connections they are for, for logins, registrations, level data and settlements. That a packet was given to `sendData` does not say that it arrived: a send that fails closes the connection |
| `playerMap` | `m_playerMap`; a session carries ID, money, score and the length of its texts |
| `settle`, `levelState` | `__settle_status_Map`, `__Level_state_Map` |
| `rankList`, `rankCache` | `__rank_list`, `__rank_rsp_pb_cache` |
| `playerFile`, `saveFile` | `./data`, `./data/save`; a player file holds what a session carries, nothing, a part of it, or does not exist |
| `now` | `time(NULL)` |
| `up` | whether the process runs |
| `unpaid` | ghost: the player has a game that was opened and has not been settled, or was settled while its save could not be removed. It is set by a level data request, which opens a game, and cleared by a settlement |

### Actions

Of `Connections`:

| Action | Code |
|---|---|
| `Accept` | `on_new_connection` with `OnNewClient` |
| `OnRead` | `on_read` with a chunk, up to the loop of `OnRecv`; a chunk that does not fit is refused |
| `OnReadEnd` | `on_read` at the end of the stream or after an error |
| `Handle` | a round of the loop that handles a packet, with whatever its handler sends |
| `AddFails` | the answer of an addition cannot be sent: the one handler whose failure ends `OnRecv` |
| `Misfit` | a wrong prefix, a packet too short for a command, an unknown command |
| `ReadDone` | no complete packet is left |
| `OnWrite`, `OnClose` | the callbacks of libuv |
| `AcceptFails`, `Unlisted` | in `FailingAccept`: the failure path of `on_new_connection`; libuv comes to the handle |

Of `GameServer`:

| Action | Code |
|---|---|
| `Start`, `Stop`, `Dies` | `main` with the constructors; the end of the process from outside; `exit` or a null pointer in a handler |
| `Tick` | the clock moves |
| `Accept`, `Refuse`, `Close` | `on_new_connection`; `on_read` of an end of stream or of something `OnRecv` refuses; `on_close` with `OnCloseClient` |
| `Query` | requests that only read: ping, addition, announcement, shop, level list and detail; `buy_item` |
| `Backpack`, `Login`, `Create` | the handlers of `player.cpp`, `Login` with `have_save` and `reconnect`, `Create` with `add_new_player_in_rank` |
| `LevelData`, `LevelStart`, `LevelUpdate`, `LevelSettle` | the handlers of `level.cpp`, `LevelSettle` with payment, `update` and the deletion of the save |
| `RankReq` | `on_rank_req` |

A handler is one action, as it is one uninterrupted call. The packets of one chunk are
separate actions: between two of them other steps may come, which the code excludes
while it works on one chunk. For an open connection that only adds behaviours that
exist anyway, for packets may arrive in chunks of their own. For a closing one it
would not, so `chunk` remembers the connection and every step that is not a packet of
it ends the chunk. In `Connections` a chunk is not interrupted: the rounds of the loop
are steps, and `running` keeps every other callback out until it ends.

### Abstractions

* A byte has `ByteValues` values and a length therefore `ByteValues` squared; the code
  has 256. The theorems about `Connections` hold for every number above 2, every
  buffer size and every prefix.
* A handler calls `sendData` at most twice, for a row of sends of which the first ones
  may succeed.
* Names, passwords, items and positions are left out but for their length: a login is
  accepted for a readable file and a `passwordMatches` chosen freely. Levels, states and
  IDs are model values or small numbers.
* The length of a player file is that of its texts (`text`, which a registration chooses
  from `Texts`) and the digits of money and score. `load` refuses a file that is longer than
  its caller's buffer (-2): `LoginBuffer`, 1024 bytes, for login, registration and backpack,
  `RankBuffer`, 5120, for the leaderboard (`Readable`). A file that is too long is an
  existing player for a registration and a failed login for a login; the leaderboard ends
  the process. The files of the first start are taken to be as long as the server would
  print them; those in `data` are shorter by some white space and far from either bound.
* IDs name distinct files. Two IDs that name one file (`./p1` beside `p1`, or another
  letter case on Windows) are not among the players of the model, and the hypothesis
  `FilesNamedAfterPlayers`, which speaks of the first files, does not exclude them: the
  properties that rest on it hold for servers whose clients do not send such IDs. What
  happens otherwise is what `shared_id` shows: the second ID opens a file that stores the
  first, and that player is entered a second time.
* A handler that waits for a key before it exits is modelled as ending at once: nothing
  else is handled meanwhile and nothing is saved.
* A write leaves one of the outcomes the code distinguishes: all written; the file not
  opened (nothing changes); a short write, which leaves a file that is empty or does
  not parse (`TornFile`), or does not parse and is longer than the buffer of a login, which
  refuses it before it parses it (`LongTornFile`), or a save whose last field, the time, is
  missing.
* `reconnect` parses the whole stack buffer, of which only the beginning is the file.
  `StackTail` is the set of further values that may come out. In the run `games` it holds
  a save of another level, as an earlier call may leave one; the other runs leave it
  empty, so `StateFitsLevel` says nothing of a save that is read together with the
  remains of another one. The theorems hold for every value of it, `HonestStatesFit` for
  those in which every state fits its level.
* Integers are unbounded but for the begin of a page. Money grows only by settlements and
  `MaxMoney` bounds it in the guard of the payment, which leaves out the settlement whose
  `gold`, any 32-bit number a client sends, makes the sum overflow.
* The begin of a page is the product of page and page size in an `int` of `IntValues` values,
  which wraps as it does in the builds (`PageBegin`), and is compared as the code does, by an
  unsigned comparison. The code has 2^32 values, the run `rank_board` 16.
* The lists of levels, the order of `m_playerMap` and the player object that
  `insert` did not take (a leak) have no effect on the state and are left out.

## 4. The runs

Six runs pass; each asks one question.

**`connections`** (`MCConnections`): two addresses, bytes of four values, a buffer of 13
bytes, one pending write. The streams are two packets of different lengths, which fill
the buffer exactly, followed by the first byte of a third; and one stream for each
cause of a refusal: a wrong prefix, no room for a command, an unknown command, more
than the buffer takes. They arrive in every division into chunks. Are the packets
handled those of the stream, in its order and without loss, and is a stream refused
only for a cause (`ImplementsStream`); does a buffer hold exactly the unread bytes of
its connection, also at an address that is used again (`BufferHoldsUnread`); does no
complete packet and no malformed stream wait between two callbacks (`NothingWaits`);
is `uv_close` called once (`ClosedOnce`) although handlers send several times and go on
after a failure; are handles opened, closed and freed in this order
(`ImplementsHandleLife`); does each round that `OnRecv` goes on after shorten its buffer
(`RoundsShorten`), so that `OnRecv` returns (`ReadReturns`); does every closing handle get
freed, also with writes that are pending and have to be cancelled first (`ClosingFrees`);
and from which lengths does `encode` make a packet that `check_pack` and `decode` read back
(`EncodingFrames`: from 0 to the largest 16 bits leave for a body, and from no negative
one, which a failing `readCfg` hands it)? `EncodingFrames` is evaluated for every length
up to one beyond the largest number two bytes hold and down to -2. Two packets and a
rest are the fewest that let a chunk hold a packet and a half; one pending write lets a close find one and a second
fail.

**`rank_board`** (`MCRankBoard`): three players, scores 0 to 2, two rows a page, pages
-1, 0, 1, 4 and 8, and an `int` of 16 values: page 4 begins at 8, which wraps to -8, and page
8 at 16, which wraps to 0 and shows the rows of page 0. Does the list stay sorted (`RankSorted`) and without duplicates (`RankUnique`)
although only the constructor sorts; is a cached page what the list holds now
(`CacheFresh`); do page and own rank, which are computed apart from each other, agree
(`PageAgrees`: the rows of a page are different players at their own ranks, and a player is
on it exactly when his rank is, unless its begin overflowed); does nobody but the player
who is updated overtake anybody (`OthersKeepOrder`); does the list implement the
abstract leaderboard (`ImplementsLeaderboard`)? Initially any subset of the players is
listed with any scores, so ties, absent players, a full page, a half full page and a
page that begins right behind the list all occur. Three players are the fewest with
which an update jumps over somebody and leaves somebody behind.

**`sessions`** (`MCSessions`): two addresses, two players of whom one may be new, every
failure of a write and of `uv_write`, crashes and restarts; no games. The texts of a new
player have one of four lengths: with the digits of a new player's money and score the file
just fits the buffer of a login, or is too long for it by one byte (1018, 1019), or the same
for the buffer of the leaderboard (5114, 5115). Checked:
`OneConnectionPerPlayer`, `NoLoginOutlivesHandle`, `OnlineFileReadable` (the file of a player
who is online holds a whole record, and a login can read it unless it is the one his
registration wrote with texts too long for that), `PaidMeansSettled`
(without games: no login or registration touches the record of an existing session),
the refinement `ImplementsHandleLife` and the liveness property `ClosingCompletes`. Two
addresses and two players let two connections compete for one player, one connection be
used for two, and an address be used again while the other is logged in.

**`games`** (`MCGames`): one player on two connections, one level that exists and one
that does not, saves that fail, tear, expire and are not removed, four instants: a
start, one second later, one second beyond the tolerance of 60 seconds, and one beyond
the lifetime of a save; what is read behind a save may be another one (`StackTail`).
Checked: `TypeOK`, `PaidOnce`, `GameLeavesWithPlayer`, `PaidMeansSettled` (a session's record
changes only when a game its own player has started is over with that step and the
settlement is answered OK, to the connection that asked, which need not be the player's),
and that the server implements the ledger of `Accounts` (`ImplementsLedger`). Games of different
players share no state but the leaderboard, which is the next run's subject, so one
player is enough; a settlement in the name of a
player from another connection is included. `MaxMoney = 1` allows one payment of gold
1, and two reach it: a second payment of the same game is excluded by `PaidOnce`, which
does not depend on the money.

**`ranking`** (`MCRanking`): the leaderboard inside the server: two players who settle
games, leave, log in again with a session that starts at 0, ask for the second page, where
a page has one row, register, and the server restarting. What several pages in the cache
mean to each other is the subject of `rank_board`. Checked: `CacheFresh`, `RankBoundsScores` (though the
list is told only of scores that beat the session's, nobody is ranked below his session
or his file) and `RankRisesWhenPaid`: while the server runs nobody enters or leaves the list, and a score in it changes only upwards,
to that of a session, in a settlement that is answered OK. `update` also runs after
every registration, also one that was refused because the name is taken, with what it
finds in the file; that must move nobody.

**`level_states`** (`MCHonestGame`): one player who follows the protocol of a game, on two
connections, two levels with a state each, saves that fail, tear, expire and are not
removed, restarts. The level of a game and its state are kept in two maps that different
requests fill and different branches empty, and a save joins them: do they belong
together (`StateFitsLevel`)? The clock stops at a start, soon after it, and beyond the life
of a save, so a game can be carried over or lost. Two levels are the
fewest that can be confused. The client settles a game before it opens another; without that, a second level is suspended with
the state of the first until its first upload.

In `sessions`, `games` and `level_states` the server may stop for good: after a torn write
of a player file no start succeeds, so their configurations switch the deadlock check
off. In the other three it is on. The two addresses are symmetric in `games` and
`ranking`, whose properties are invariants, action properties and a refinement that name
no address.

Six runs end in a violation. Each states what a comment of the code, or of the
documentation of a library it comes with, says:

| Run | What the code does | What is said |
|---|---|---|
| `every_player_ranked` | a player who registers enters no list until the next restart: `update` inserts nobody | `RankMgr.h:31-32`: the list holds all players at all times |
| `login_managed` | a second login on a connection is answered OK and entered nowhere | `player.cpp:144`: the player is put under the management of `m_playerMap` |
| `highest_score_kept` | a session starts with money and score 0; logging out writes them over the file | `player.cpp:117`: the player's data is read from the file; `level.cpp:277`: the highest score |
| `shared_id` | a file that stores the ID of another player lets that player be logged in twice; `data/zhongjunqiPure` is such a file | `player.cpp:129`: see whether the player is in the game already |
| `honest_game` | starting a resumed game resets the time played before, so a client that reports it is refused as cheating | `level.cpp:249`: the time before the reconnect is added |
| `failing_accept` | when `uv_accept` or `OnNewClient` fails, the handle is freed right after `uv_close` | `handle.rst:144-147` of libuv: the memory can only be released in the close callback or after it |

A save that is too old is a smaller disagreement without a run: `level.cpp:401` says that it is
deleted, and the code leaves it.

`shared_id` is the same property as in `sessions`, over the files the repository ships.

### Fairness

`Spec` of `GameServer` assumes weak fairness of `Close(c)` and nothing else. libuv calls the
close callback of every closing handle once its cancelled requests have returned, and
the idle handler of `main` makes the loop iterate for ever, so no closing handle is
passed over. No client is assumed to send anything, no process to be restarted and no
write to succeed. `ClosingCompletes` also holds when the process ends, as its handles end
with it.

`Spec` of `Connections` assumes weak fairness of `Round(c)`: a call that was made goes on,
as nothing can interrupt it. It assumes strong fairness of `OnWrite(c)` and `OnClose(c)`:
every read disables both while it runs, and every iteration of the loop of libuv
nevertheless comes to them. That `OnRecv` returns is not assumed: it follows, as each
round shortens the buffer or is the last. Peers need not send anything or ever close.

## 5. What is proved

All theorems hold for every value of the constants that satisfies the modules'
assumptions (`CodecAssumption`, `ConnectionsAssumption`, `RankAssumption`,
`BoardAssumption`, `FileDBAssumption`, `PlayerAssumption`, `LevelAssumption`,
`ServerAssumption`, `LedgerAssumption`): the special values differ from the values they
stand beside, the number of players is finite, a page has at least one row, times are
beyond the lifetime of a save, an address is no player ID, and what arrives are bytes.
Some theorems have a hypothesis, named below: on the files of the first start
(`FilesNamedAfterPlayers`, `FilesScored`), or on what lies behind a save (`TailFits`).

**The wire format** (`CodecProofs`). The lemmas on `SubSeq` and `\o` that the proofs about
bytes need come first, among them what `Rest`, the part of a stream that is not handled
yet, is after an append and after a packet. `CheckPackCases` and `PacketFrames` say of any
bytes what `check_pack` and `decode` make of them, `RoundTrip` of what `encode` wrote: with
any bytes behind it, it is measured and decoded to what it was made of, so that a receiver
finds the next packet where this one ends. `EncodingBoundary` states the run's
`EncodingFrames` for every number of byte values, and so for 256: `WholeIffFits` covers
the lengths whose low 16 bits are another number, `NegativeTorn` the negative ones.
The products of `ByteValues` are kept out of the arithmetic steps by the set `Words` and
the lemma `WordBytesType`, which says that the two bytes of a number make it again unless
it was cut.

**The connections** (`ConnectionsProofs`). `ConnInv` is the conjunction of `TypeOK`,
`ClosedOnce`, `BufferHoldsUnread` and three auxiliary parts: the
connection that `OnRecv` works on has a handle (`WorksOnHandle`), the cursor is within
what arrived (`HandledArrived`), and between two callbacks the buffer of an open
connection begins with no complete packet (`BuffersWait`). The parts need each other: a
round may call `uv_close` only because `closes` is what the handle says, a buffer can be
compared with the stream only while the cursor is within it, and what a new connection
finds in its buffer depends on what the last close at its address left. Its
consequences are `ConnTypeOK` (no buffer ever holds more than its size), `ConnClosedOnce`,
`ConnBufferHoldsUnread` and `ConnNothingWaits`.
`ConnRoundsShorten` is the part of `ReadReturns` that is no liveness: a round is gone on after
only if it handled a packet (`GoesOnHandled`), and a packet has at least a head. For
`ConnImplementsStream`, `CodecProofs` says how what is left of a stream changes and that
what `CheckPack` cuts off is a packet of the format; each step of a
connection is then a step of `PacketStream` or a stutter, and every other connection
stutters. `ConnImplementsHandleLife` maps the running call of a closing handle to `chunk`.

**The leaderboard** (`RankMgrProofs`, `RankBoardProofs`). The invariant is
`RankInv == RankTypeOK /\ RankSorted /\ RankUnique /\ CacheFresh`. It is inductive only as a
whole: that an insertion at `Place` keeps the order needs the order before, that erasing
the first item of a player leaves none needs the uniqueness, and a page is fresh
because every update drops the cache. The lemmas say what `RemoveAt` and `InsertAt`
return, that `Position` and `Place` find the first such index, and what `Updated`
preserves (`UpdatedSorted`, `UpdatedPlayers`, `UpdatedUnique`). From them follow
`BoardType`, `BoardSorted`, `BoardUnique`, `BoardCacheFresh` and `BoardImplementsLeaderboard`:
every step of the list is a step of `Leaderboard` or a stutter under the mapping
`best <- ScoresOf(rankList)`. `BoardPageAgrees`, that the page of the cache and the rank of
the list agree, rests on `CacheFresh`, on the uniqueness of positions and on
`DivBounds`, which says on which page a rank lies; of the begin of a page it uses no more
than that it is an integer (`PageBeginType`) and, for the players a page must show, that it
did not overflow. `BoardKeepsOrder` compares the positions
of two players before and after an update: an erase and an insert shift both or none
across one another.

**The server** (`GameServerProofs`).

* `ServerInv == TypeOK /\ RankInv` is inductive, with a lemma per action. It gives
  `TypeCorrect`, `ServerRankSorted`, `ServerCacheFresh` and `ServerPageAgrees`.
  `RankInv` belongs to it since
  the items the list is told of come from files and sessions. Type correctness is not
  a formality here: a suspended game must have a state, and a login must not take the ID
  of a file that holds none.
* `NoLoginOutlivesHandle` is inductive relative to `ServerInv`, whatever the files hold
  (`NoInheritedLogin`): only `on_close` frees a handle, and it erases the session first.
* `SessionInv` adds `NamedFiles` (every file that holds a whole record stores the ID it is
  named after) to `OneConnectionPerPlayer` and `OnlineFileReadable`. The
  conjuncts need each other: a login looks for the requested ID but enters the stored
  one, so uniqueness needs `NamedFiles`; a close may tear the file it writes, which is
  harmless to those online because nobody else plays as the same player. A file that is too
  long for a login is the file of a player online only until he leaves, since he came by a
  registration: a login reads within its buffer what it enters. It gives
  `OneConnection` and `OnlineReadable`, under the hypothesis
  `FilesNamedAfterPlayers` on the files of the first start. The run `shared_id` shows that
  the hypothesis is needed, and that the shipped files do not satisfy it.
* `PaidOnce` is inductive relative to `ServerInv`: a game enters memory by a level data
  request, which makes it unpaid, or by a login from a save, which was written from
  one in memory; a settlement removes both, or says that it could not.
  `NeverPaidTwice` states it.

* The steps of the server (`LedgerProofs`): `ServerImplementsHandleLife` and
  `ServerPaidMeansSettled` follow from what a request may do at all (`RequestAnswers`:
  it sends, stays silent or ends the process; `RequestPlayers`: it enters a session where there was none, leaves the sessions as they are, or is the
  settlement of a game, `GamePaid`); `ServerGameLeaves` from the order of `OnCloseClient`.
  `ServerImplementsLedger` maps the session of a player to his account. It uses
  `SessionInv`, before and after the step, because the money of a player is only
  defined while he has one session, and `PaidOnce`, because a payment is a step of
  the ledger only if the game is owed. Its hypothesis is `FilesNamedAfterPlayers`.
* The ranking (`RankingProofs`): `RankBoundsScores` is not inductive, since a login starts a
  session at score 0, which is harmless only when no listed score is negative.
  `ScoreInv` adds that no score in the list, a session or a file is, and that nobody is
  online while the process is down, when the constructor builds a new list.
  `ServerRankBounds` has the hypothesis `FilesScored`: the files of the first start hold
  no negative score. `ServerRankRises` uses `ScoreInv` too: a registration reports what a
  file holds, which `RankBoundsScores` says is nothing new (`VainUpdate`), and a settlement
  a score above that of the session (`UpdateImproves`). A new file holds the score 0,
  which is an improvement only over a negative one, hence `FilesScored`.

**Honest clients** (`HonestProofs`). Every step of `HonestSpec` is one of the server
(`HonestStep`), so `ServerInv` holds. `StateFitsLevel` is not inductive: a state that
lay there without a game would meet the next game that is opened. `StateHasGame` adds that
there is none, which is why `on_player_diconnect` and the settlement must empty both
maps. `HonestStatesFit` has the hypothesis `TailFits`: what `reconnect` may parse behind
a save is a state of its level, as when nothing lies there. Without it a save may be
read with the state of another. `HonestTimeRefused` rests on `CarriedInv`: a started game
has nothing in `spend` and began no later than now. So the term that `level.cpp:249`
adds for the time before the reconnect is always zero, and the player is refused
exactly when he had played more than a second before; `honest_game` shows one such
behaviour, the theorem that there is no other cause. The theorem describes what the code
does, against that comment; the statement, `CarriedTimeRefused`, stands beside it and is no
property of a run.

Every safety property the passing runs check is stated by a theorem. Only model-checked
are the liveness properties `ClosingCompletes`, `ReadReturns` and
`ClosingFrees` (liveness under fairness is out of the prover's reach) and the violations,
which are behaviours.

## 6. What is not modelled

* The exhaustion of memory as such: it appears as a `sendData`, a read or an accept that
  fails.
* Bytes of 256 values and a buffer of 64 KiB in the runs; the theorems cover them.
* Money of 32 bits. `level.cpp:276` adds the `gold` of the request, any `int32` the client
  chose, without a check, so one settlement can overflow the sum. That is undefined in C++
  and no text of the repository says what money may be; `MaxMoney` keeps it out.
* `buf[len] = '\0'` in `RankMgr.cpp:266` for a file of exactly 5120 bytes, which writes one
  byte behind the buffer. The model takes such a file as read.
* Aliases of a file's name, and the length of player files that were written by hand (see
  the abstractions).
* The configuration, the shop, announcements and the contents of the backpack, which are
  read and sent and change nothing.
* `broadcast_announce` and `update_online_players_syncInfo`, which nothing calls.
* What a client does with the packets it gets, except in `HonestGame`.
* The vendored libraries (libuv, cJSON, protobuf) and the generated protocol code. They are
  nearly all of the repository's lines; the model covers the hand-written server, and of
  the libraries what its code relies on.
