# A verification model of cowchat

Cowchat is a chat server for agents: a Rust workspace with a server
(`crates/cowchat-server`), a client library (`crates/cowchat-client`), a command
line (`crates/cowchat-cli`), a bridge that wakes Codex (`crates/cowchat-codex`),
shared data types (`crates/cowchat-core`) and a Mac application. This directory
holds TLA+ modules of the parts whose correctness depends on the order of
things, the TLC configurations that check them, and TLAPS proofs of the
properties that matter most.

Run a check with `tlc -config MCRoomBroker.cfg MCRoomBroker.tla`, a proof with
`tlapm RegistryProofs.tla`. All source paths below are relative to the
repository; `server/` stands for `crates/cowchat-server/src/`, `codex/` for
`crates/cowchat-codex/src/`.

## 1. Inventory

| Component | State it keeps | Operations | What is hard |
|---|---|---|---|
| Room broker (`server/broker.rs`) | `room_members` (join order), `turn_holders`, tombstones, `agents`; mutexes `room_lifecycle`, `room_mutation`, `agent_lifecycle` | join, leave, destroy, advance the turn, broadcast | three mutexes and several concurrent maps; the turn token is advanced outside the mutex |
| Request handlers (`server/handler.rs`) | none of their own; they read broker and store, then act | every frame a client sends | look first, act later; several stores of the same fact |
| Sessions (`server/server.rs`, `server/reconnect.rs`) | installed connection per agent id, reconnect stash with a lease and a bounded buffer, tombstones of destroyed rooms | register, take over, reclaim, acknowledge and replay, clean up, expire | old session against new session; events during the switch; failed acknowledgement |
| Message log (`server/store.rs`) | `messages`, `room_sequences` | insert, history after a cursor, tip, retention | a number must never be used twice, over purges and older binaries |
| Live delivery (`broker.rs`, `server.rs`) | bounded outbound queue per connection | queue, write, disconnect a lagging agent | order of broadcasts, overflow |
| Client library and `cowchat wait` (`cowchat-client/src/connection.rs`, `cowchat-cli/src/main.rs`) | event channel, cursor, cursor file | pull, live wait, reconnect, print, save | crash between print and save, dropped and reordered events |
| Codex wake bridge (`codex/service.rs`, `codex/store.rs`) | `wake_events`, `wake_targets` (lease, read and acknowledged cursor) | `wake_agent`, `wake_inbox_read`, `wake_inbox_ack` | a message in a room and a row in a database, no transaction over both; lease expiry |
| Webhooks (`server/webhooks.rs`, subscription tables) | subscriptions with cursor and status, delivery queue, retry schedule | enqueue task per message, delivery worker, subscribe, enable, unsubscribe | enqueue tasks in any order, crash between store steps, replay racing live |
| Votes and elections (`server/voting.rs`) | open votes, elections, leaders; rows in the store | create, cast, close by deadline, elect, decline | deadline against the last ballot; candidates that left |
| Room directory (`handler.rs`, `store.rs`, `server/connection.rs`, `server/web.rs`) | rooms with names, parents, owners, visibility | create, rename, destroy, list, publish the change | who sees a room, who is told of a change, and in which order |
| Invites and grants (`handler.rs`, `store.rs`, `server/web.rs`) | `room_invites`, `api_keys`, `room_grants` and its cache in memory | create, revoke, redeem | no lock covers an invite and its room; a cache beside the table; four statements from a token to a key that opens the room |
| Identities, limits and quotas (`server/rate_limit.rs`, `server/server.rs`, `store.rs`) | counters per key, `agent_identities` | check, count, uncount; bind an id to a key | check and count are separate steps, and so are the load and the subtraction of an unsigned counter |
| Task board (`server/tasks.rs`) | tasks in memory and in `room_tasks` | assign, update, list, forget, load | save, show and announce, against other updates and destruction |
| Server instance (`server/server.rs`, `server/main.rs`) | lock file of a database, socket file and its guard, TCP listener, control channel | start, stop, fail half way, crash | files and kernel objects with lives of their own; two servers at once |
| Start-up options, TLS, static web pages, wire format, encryption, status display, Mac application, examples | | | I/O, data definitions or cryptography |

How they interact. A connection is one tokio task that reads a frame, runs the
handler to the end, and reads the next; handlers of different connections
interleave at every lock, map and database access. A handler stores first and
broadcasts afterwards. Broadcasting queues a frame with every member's bounded
queue; a full queue ends that connection. Each stored message also spawns a
webhook enqueue task. When a connection ends, its task stashes the agent's rooms
and leaves them; a later connection with the same id claims the stash, or takes
over a session that is still installed. Rooms are the common ground: their
destruction cuts across members, votes, tasks, invites, grants, stashes and
tombstones, each with its own map, table and moment. The web API reads and
writes the same tables beside the agents' protocol. `cowchat wait` is a client
process of its own with a cursor file, the wake bridge another one with a
database of its own; both may die at any point and see the server only through
history pages and live events. Servers themselves are processes beside each
other, which meet in the file system.

What makes each component correct:

- *Broker*: nobody is a member of a room that is gone; no member is listed
  twice; the turn token is with a member, and with nobody only in an empty room.
- *Sessions*: a session keeps its rooms however an older one ends; when the last
  one is gone the agent is in no room and its stash holds exactly what it was in;
  no destroyed room comes back; every room event reaches the agent once and in
  order.
- *Log*: a sequence number names one message for ever.
- *Wait*: a message the cursor has passed was printed, unless the order of
  broadcasts, an overflow or retention took it; the cursor gets to the end.
- *Wake bridge*: an event is in the room once; a row names its message; an
  eligible event is never left without a wake or a caller that was told.
- *Webhooks*: a matching message is delivered, in order, unless one of a few
  known mishaps befell it; every queued row is settled.
- *Votes*: a result comes out once, complete and not before its time; whoever
  was told it voted is counted; no vote or leader outlives its room.
- *Directory*: a client's picture of a room is the room's last state as soon as
  nothing is being published.
- *Invites*: whoever is let in came by an invite that was good when it was
  taken; a single use lets one in; a key that was answered opens its room, over
  restarts and through both APIs.
- *Limits*: counters equal what they count, limits are passed only by a race,
  and an agent id stays with its key.
- *Tasks*: no update writes back what another one replaced; what was sent is
  saved; whoever listens has the board.
- *Instances*: one server per database; a server that runs can be reached; what
  a crash leaves is in nobody's way; a server without its owner ends.

## 2. Modules

| Module | Models | Extends |
|---|---|---|
| `RoomBroker` | members, token, mutex, destruction (broker.rs, handler.rs) | |
| `MessageStream` | the log of one room, its broadcasts and one subscriber's queue (store.rs, handler.rs, broker.rs) | |
| `WaitCursor` | `cowchat wait` on top of that stream (connection.rs, main.rs) | `MessageStream` |
| `WaitCursorProofs` | theorems about the log and the waiting client | `WaitCursor` |
| `WakeBridge` | the bridge's tool calls over its database (service.rs, store.rs of codex) | `Numbers` |
| `WebhookDelivery` | one subscription, its queue, the worker (webhooks.rs, store.rs, handler.rs) | |
| `NotificationProofs` | theorems about the two ways to be notified | `WakeBridge`, `WebhookDelivery` |
| `Voting` | votes, ballots, deadlines, elections and leader of one room (voting.rs, handler.rs, store.rs) | |
| `VotingProofs` | theorems about it | `Voting` |
| `SessionLifecycle` | the connections of one agent id, its stash, room events (server.rs, reconnect.rs, handler.rs) | |
| `SessionProofs` | theorems about it | `SessionLifecycle` |
| `Registration` | identities, counters and limits of several ids and keys (server.rs, rate_limit.rs, store.rs, handler.rs) | |
| `RegistryProofs` | theorems about who is in a room and who may register | `RoomBroker`, `Registration` |
| `RoomAccess` | abstract: what invites promise | |
| `RoomDirectory` | rooms, visibility, invites, keys, grants (handler.rs, store.rs, web.rs, connection.rs); implements `RoomAccess` | |
| `RoomDirectoryProofs` | theorems about it, the refinement among them | `RoomDirectory` |
| `SharedBoard` | abstract: the tasks of rooms as one object | |
| `TaskBoard` | the tasks of rooms (tasks.rs, store.rs, handler.rs); implements `SharedBoard` | |
| `TaskBoardProofs` | theorems about it, the refinement among them | `TaskBoard` |
| `ServerInstance` | server processes over one file system (server.rs, main.rs) | |
| `ServerInstanceProofs` | theorems about it | `ServerInstance` |
| `Numbers` | least and greatest of a set of numbers | |
| `MC*` | constants and bounds for TLC | the module after `MC` |

Where one module proves theorems about two, the definitions of one of them have
names of their own (`WebhookSpec`, `wpc`, `RegistrationSpec`, `Sockets`, `at`), so
that both can be extended together; neither refers to the other.

Conventions. One action is one atomic step of the code: the work between two
points where another task can get in (a lock taken or released, a concurrent
map, a database statement, an await). `pc`, or the field `at` of a request or a
process, says where a task is. A variable called *history* in its declaration is
not in the code; guards read one only for what is known outside the server or
used up for ever (`told`, `handed`: the tokens and keys somebody has; `home`: the
UUIDs that were drawn). Operators whose comment begins with *Mutant* are
plausible bugs, used by no specification: each property is violated when one of
them takes the place of the action it is named after.

### RoomBroker

`rooms`, `creator`, `used` are the `rooms` table; `members`, `holder`,
`tombstones` the maps of `Broker`; `lifecycle` the holder of `room_lifecycle`.
Each connection runs one handler at a time: `JoinCheck` (handle_join_room's
look), `JoinRefused` / `JoinAdmit` / `JoinTurn` (join_room under the mutex),
`LeaveCheck` / `LeaveBegin` / `LeaveRetain` / `LeaveTurn`, `SendCheck` /
`SendInsert` / `SendRefused` / `AdvanceRead` / `AdvanceWrite` (the message and
then advance_turn_from, which takes no mutex), `DestroyDelete` /
`DestroyMembers` / `DestroyTurn`. `PruneTombstone` is the time and size limit of
the tombstones, which may drop any of them at any time. Room ids are never
reused (`used`).

### MessageStream and WaitCursor

`kind[q]` is the row with sequence number q ("free" before it is stored, and
what the waiter makes of it: a message of a peer, of its own, filtered out, a
thinking trace), `retained` the rows retention has left, `highWater` the
`room_sequences` row. Two senders `Insert` and then `Broadcast`; `LegacyInsert`
is an older binary's insert, caught by the trigger. `outbox` is the connection's
queue. `WaitCursor` adds the client: `events` is the library's broadcast channel
with its capacity, `cursor`, `since`, `file` the process's cursor and the file;
`mode` is --follow, --loop or --loop --drain. Pages of history, resubscription,
the reconnect loop, idle expiry, a lost connection, a lost page, a server
restart and a killed process are actions.

### WakeBridge

`room` is the chat room (which message carries which event), `reserved` and
`roomSeq` the `wake_events` table, `claimed`, `claimedAt`, `acked`, `maxRead` the
`wake_targets` row. A call goes Reserve, Find, Send, Mark, Claim, wake, each a
step of its own with other calls in between; it can be lost at any step
(`CallLost`). The actuator starts a turn and may still report failure or never
answer. `overlapped` and `owed` are history.

### WebhookDelivery

`task[q]` is the enqueue task of message q, `queue` the `subscription_deliveries`
rows, `cursor` and `status` the subscription. The handlers of subscribe
(with backfill) and enable (with replay), the unsubscribe and the worker
(`WorkerLoad`, lookup, POST, the two statements after an answer, retry, giving
up) are steps. `Restart` ends everything that lives in memory between any two
of them. `mishaps` is history: what befell a message (its task ran after the
cursor passed it, the server stopped before its task, a page cut it off, and so
on).

### SessionLifecycle

`live` is the installed connection of the id, `lock` the holder of
`agent_lifecycle`, `stash` the stash with its rooms, buffer and lease. Every
connection is a task: registration (`BeginReclaim`, `Snapshot`, or `TakeOver`,
or `RegisterFresh`), `Install`, `Restore` per room, `Refresh`, `Written` or
`WriteFails`, `Commit`, the tail, requests, then `Cleanup` with `StashFilter`,
`StashInsert`, `StashRecheck`, `Leave` per room, `Remove`; a failed
acknowledgement undoes the registration (`FailedRemove`, `Leave`, `Unwound`,
`Release`). Beside them, not under that mutex: `StashExpires` and one publisher
at a time (it holds `room_mutation`) that renames or destroys rooms, buffers
the event, and sends it live. `out` is what is queued for the client, in order.

### Voting

A vote lives in the store (`rows`, `eligible`, `stored`, `timed`) and in memory
(`active`, `counted`, `timer`), and no lock covers both. A creation is
`CreateCheck`, `CreateStore`, `CreateActivate`, `CreateConfirm` (is the room
still there?) and, if not, `CreateUndo`; a ballot is `CastCheck`, `CastStore`,
`CastCount` or `CastUncounted`, and `CastClose` when it was the last.
`DeadlineFires` takes the vote out of memory like `CastClose` does; `CloseStore`
and `CloseTell` are close_and_broadcast_vote. An election is `StartCheck`,
`StartInsert`, `StartConfirm`, `Decline` and the steps of its timer, which takes
whatever election it finds (`TimerPicks`) and crowns after a second look at the
room. `Leave` is leave_room by request; `Disconnect`, `ClearLook`, `ClearLeader`
the cleanup of a connection, under `agent_lifecycle` from the first to the last;
`FailedRegistration` the way out of the rooms when the connection that took over a
session, or claimed its stash, cannot be told so. It may happen while the older
session still handles a request; otherwise an agent does one thing at a time. A destruction deletes the rows with the lifecycle
lock held, then the members, then what the VoteManager knows. `Restart` reloads
the open votes. What a ballot chooses is left out.

### Registration

`usage` is `RateLimiter.usage` (the counters of a key, `NoUsage` while it has
none), `owner` the `agent_identities` table, `owned` the number of `rooms` rows
of a key, `live` and `stash` what the broker and the reconnect cache know of an
id, `lock` and `mutation` the mutexes. A connection (a slot of `Sockets`, at the point `at[c]`)
goes `Register`,
`LookUp` / `InsertNew` (get_or_create: a look and, with another connection's
insert in between, an overwriting insert), `LimitRefused` / `LimitPassed`,
`Claim`, `Decide` (fresh, takeover, reclaim, refused), `AddAgent`, `Install`,
`Written`; then rooms (`RequestRoom`, `RoomLimit`, `InsertRoom`, `AddRoom`,
`DestroyRoom`, `RemoveRoom`, `SubRoom`), and its end (`Unregister`,
`RemoveAgent`, `SubAgent`, `Cleanup`). `Expire` removes a stash, `Restart`
forgets everything but the tables. The load and the subtraction of a counter
are two steps, and the counter is unsigned (`Wide` for 2^64). `NoKey` is a local
connection on the Unix socket. Where `SessionLifecycle` follows the rooms and
events of one id, this module follows several ids, keys and their counts.

### RoomAccess and RoomDirectory

`RoomDirectory` is what the server does: a request is a task (`task[c]`, a
record with its step, caller, room and what it carries from step to step), every
SQLite call, access to `Store.grants` and wait for a mutex is a step. `Create` /
`CreateRow`, `Rename` / `RenameRow` and `Publish`, `Destroy` / `DestroyRow` /
`DestroyPurge` / `Farewell` hold `room_mutation` from their table change to the
end of the broadcast; the middle of a destruction holds `room_lifecycle` too.
`Invite` / `InviteRow` / `InviteCheck` / `Sweep` and `Revoke` / `RevokeRow` hold
nothing of the kind; `InviteCheck` looks at the tombstones. `Redeem` is one
transaction; `RedeemRoom`, `RedeemKey`, `GrantRow`, `GrantCache` follow without
one and may fail. `Restart` keeps the tables and reads the cache from them.
`view` is what the client of a key last heard of a room; `Trimmed` stands for
normalize_room_name.

`RoomAccess` is what that promises, in four variables: the rooms there are, who
was let in where, what each token is good for, and which room each redemption is
on its way to. Rooms open and end; a token is made, revoked or taken, and a
single use is spent by the taking; a redemption admits one new key or gives up; a
crash decides for each redemption under way whether its key is in. The mapping:
an invite whose row is deleted, revoked, or of a room that is gone is `Spent`; a
guest is a cached grant for a room there is; a redemption arrives while it is at
one of the steps after `Redeem` and its room exists. So the deletion of the row
of a room is the one step that ends it, although invites, cache and tombstone
follow later, and a grant counts when it is cached, not when it is stored, except
over a restart.

### SharedBoard and TaskBoard

`row` is `room_tasks`, `mem` `TaskManager.tasks`, `held[t]` the request that has
locked the entry of t, `members` the room's members, `req[a]` the request of
agent a's connection. A creation is `Assign`, `CreateSave`, `CreateInsert`; an
update `Update`, `UpdateEnter` (locks the entry), `UpdateWrite` (may be refused),
`UpdateSet`; both then `Tell` and `Send` to one member after the other.
`Destroy`, `DestroyMembers`, `DestroyForget` are destroy_room_with and
forget_room; `Crash` leaves the tables. `rev` stands for `updated_at`. `wrote`
(what the last saved update of each field gave it), `known` (what an agent was
sent) and `listed` are history.

`SharedBoard` is what this amounts to: a task has one state, a change of some of its
fields is one step, the end of a room ends its tasks in the same step, and an agent
hears of versions that were made, in order. It has no copies, locks, requests or
crashes. The mapping takes the table for the board, `known` for what was heard; so
an update happens when its row is written, a creation too, the removal of the rows
is the end of the room, and a restart is no step at all.

### ServerInstance

`fs` is what is at each socket path, `owner` and `accepting` the kernel's view of
sockets by inode, `lock` who has which lock file, `tcp` who listens, `proc[p]`
the process. A start is `CheckLinks`, `Lock`, `Stat`, `Connect` (is the old
socket alive?), `Restat`, `Remove`, `Bind`, `Listen`, `Own`, `BindTcp`, `Open`;
a start that fails goes through `UndoCheck`, `UndoUnlink`, `Fail`; a stop drops
the lock, then the socket guard in two steps, then what is left of the runtime.
`Die` is a crash anywhere. `AcceptFails` ends run with an error. `AppGone`,
`ControlEof`, `ControlKill` are the thread that watches the owning application.
An inode number is free again when its file and its listener are gone.

## 3. Runs

| Run | Expect | Shows |
|---|---|---|
| `room_broker` | pass | members and token over two agents, one of them with two sessions, a lobby and a room that is created and destroyed |
| `wait` | pass | what the cursor may and may not skip, in all three modes; sequence numbers; the file of --follow goes up and, under fairness, passes every row |
| `wait_missed` | violation | a live message below the cursor is missed by --loop |
| `wake` | pass | two calls at a time over three events, all failures, lease expiry |
| `webhook` | pass | lost or out of order only by a known mishap; every queued row is settled |
| `session` | pass | memberships, stash and room events over three connections of one id |
| `session_lease` | violation | a claimed stash expires before it is read |
| `voting` | pass | ballots, results, deadlines, elections and leaders over leaves, destruction and a restart |
| `registration` | pass | two connections, two keys or none: exact counters, ids that stay with their key, limits that only a race passes |
| `room_directory` | pass | invites against destruction, grants over a restart, what clients heard of rooms, and that all of it is `RoomAccess` |
| `tasks` | pass | two agents whose updates, lists, joins and destruction overlap, and a crash; that all of it is `SharedBoard` |
| `server` | pass | three starts, two processes at a time: aliases and hard links of a database, stale sockets, failed starts, an owner that goes away |

The runs that pass have between 59,000 and 870,000 distinct states each, so that all of
them together remain quick enough to repeat at every change. Where a bound or a
CONSTRAINT made the difference, the larger instance was checked once; it is
named below.

Why the bounds are enough for what is asked:

- `room_broker`: three connections give every pair of handlers and one of the
  same agent id; `TwoAtATime` has two of the handlers under way, which is what
  every race of two steps takes, and further ones before and after. One room can
  go, the lobby cannot. Room ids are not reused in the code, so one destruction
  per id is all there is.
- `wait`: being overtaken needs two senders and two messages; pages, queue and
  channel of one overflow and are cut. One loss of the connection, the page or
  the server, or one crash, at any step (`OneTrouble`). `KindsBound` keeps, for
  each command, the kinds of row its code treats differently: a skipped row is a
  skipped row. With three messages, a page of one and a queue of two the safety
  properties were checked once (5.2 million states).
- `wake`: two calls at a time (calls end and begin again, so there are more than
  two in a behaviour) over two eligible events and one that is not; two
  messages; a lease of one clock tick that can run out at every step. Three
  messages were checked once.
- `webhook`: two messages, so that either can pass the other; pages of one row,
  so that a longer backlog is cut; one retry before giving up (`Slots` 1); one
  enable, one restart or one purge (`OneTrouble`). Three messages with a restart
  and a purge were checked once without the liveness property.
- `voting`: two agents, so that one acts between the other's steps, one vote,
  two election timers at a time, one restart. `OneKind` keeps a vote and an
  election from being explored at once: they share the members and what
  forget_room clears, nothing else. With three agents votes were checked once in
  full, and elections, where leaders come and go, in a room that is not destroyed
  and without a restart (15.2 million states).
- `session`: an old session, a new one and one that replaces it during the
  switch; a room that is renamed and destroyed; a buffer of two frames, so that
  the second rename or the destruction can find it full. `RenamesOfTwo` has
  renames only while one of the three is unused: a rename concerns a session and
  the stash it claims. The unconstrained run was checked once, and two rooms with two connections and one rename.
- `registration`: a limit of one is passed by two; counters modulo 4 wrap as
  those modulo 2^64 do, and no count gets near 4 otherwise. `OneTrouble` has
  one crash or one insertion of counters over others; `CountersApart` explores
  the rooms of a key, and counters that were inserted over others, without
  identities, with which they share nothing.
- `room_directory`: two requests at a time, since each race of this code is
  between two; the lobby and two rooms, or one room with an invite and two keys
  to redeem it for (`InvitesApart`); four spellings of two names. The same with
  two tokens (403,000 states) was checked once.
- `tasks`: one task with two fields and three versions, so that two updates can
  lose one another; a room that goes and the lobby; one crash at any step. Three
  agents (4.8 million states) were checked once.
- `server`: a predecessor, its successor and a third that finds what the two
  left; two databases, an alias, a file with two hard links, two inodes.
  `Apart` keeps the TCP address, the links and a database that cannot be opened
  to two starts, and explores a process with an owner alone.

Deadlock is checked wherever the system should always be able to go on.
`session` and `session_lease` turn it off because every connection of the model
may have ended, `voting` because a destroyed room stays as it is, `server`
because the starts are used up.

Fairness is assumed only by the three liveness properties. `CursorCatchesUp`
assumes that a tokio task that can run does (`WaiterStep`, `Deliver`, a sender
that has stored its message broadcasts it), and that a connection told to
disconnect ends: its select loop waits for exactly that. Nothing is assumed of
idle expiry, crashes, losses or retention. `RowsSettle` assumes that the
worker, tasks and handlers run and that a retry becomes due (`Due`), i.e. that
time passes. Of the receiver nothing is assumed. `OrphansEnd` assumes only that
the control thread runs and that its sleep returns; nothing of the threads that
are to stop, which may hang: that is what the thread is for.

## 4. Findings

- **A reply can be missed** (`wait_missed`). Numbering and broadcasting are
  separate steps, and the live path takes events as they come, so a message
  broadcast late is below the cursor already. SKILLS.md promises otherwise.
  `MissedOnlyIfOvertakenOrDropped` limits it to that, to overflow and retention.
- **A claimed stash can expire** (`session_lease`). The registration then
  panics with `agent_lifecycle` held; the mutex is poisoned and every later
  registration and cleanup panics too. The window is the time between the claim
  and the snapshot, at the end of the 120 s window.

Observed while modelling, with no run of their own. Rooms, messages and votes:

- The turn token can be left with an agent that has gone, or in an empty room:
  `advance_turn_from` reads the member list and writes `turn_holders` later
  without the mutex (`server/broker.rs:318`, against 72-73).
  `OnlyRacedAdvanceStrandsToken` shows, and the proofs establish, that no other
  step does it.
- A leader that leaves the room stays leader: `handle_leave_room`
  (`server/handler.rs:892`) does not know the VoteManager; only the cleanup of a
  connection clears leadership. SKILLS.md:784 and the comment at
  `server/voting.rs:293` say leaving does. There are two more ways to an absent
  leader. A registration that takes over a session, or claims its stash, and
  cannot be acknowledged removes its connection and leaves every room without
  clearing leadership (`server/server.rs:1192-1205`), and the cleanup of the
  session it replaced returns early (1381). And an agent can be crowned that has
  left since it became a candidate. `LeaderGoneOnlyUnnoticed` shows, and the
  proofs establish, that beside these three there is only the moment before a
  cleanup has looked.
- A webhook is not delivered at all when its enqueue task runs after the cursor
  passed its message (`server/webhooks.rs:50`; SKILLS.md:1042 promises
  at-least-once), nor when the replay of `sub enable` is cut at its one page
  (SKILLS.md:1044 promises that enabling replays everything since the last
  delivery): `AtLeastOnceInOrder` names these and the other mishaps, and shows
  that the order is broken only by a row that is put in after a later one's. Every
  webhook attempt has a new id (`server/webhooks.rs:364`), so a retry after a
  lost answer is a new event for the receiver; there is a sixth attempt (426)
  where the comment (26-28) names five.
- A retry of a wake without `time` is refused (`codex/service.rs:314`): the
  generated timestamp is part of what is compared, so a failed wake cannot be
  retried as docs/codex-wake.md:125-128 describes (`ReserveConflict`).
- A ballot can be stored and answered VoteNotFound, when the deadline takes the
  vote out of memory, or before it is there (`handler.rs:1523-1545`). Then the
  tally a status query reads from the store has a ballot the broadcast result
  has not; the agent cannot vote again, so a vote without a deadline stays open.
- A vote that was complete when the server stopped is closed at the next start
  without a VoteResult being sent (`server/voting.rs:53-81`).
- If all candidates decline, LeaderCleared is broadcast and the old leader stays
  in `room_leaders` (`voting.rs:235-242`).
- Two elections can start at once (204-215); the first timer then decides the
  second election, before its two seconds are over. `clear_leader_if_agent`
  (318-328) may remove a leader crowned between its two steps.
- A leader can be crowned after the room was destroyed, between the second look
  (256) and the insert (260); the comment at 331-333 rules out late events.
- A crash between `store.create_vote` and the check for destruction leaves the
  vote of a room that is gone (`orphaned`); restarts load it for ever.
- `--loop` can write a smaller value to the cursor file than it holds
  (`crates/cowchat-cli/src/main.rs:2141`), after a late live event;
  `CursorFileMonotonic` is therefore stated for --follow.
- `wake_inbox_read` past the end raises the read cursor
  (`codex/service.rs:448`), so that an acknowledgement beyond what was read is
  accepted.

Sessions, identities and limits:

- The tail of a reconnect is queued behind events published later, so that an
  older `room_updated` can follow a newer one, or a `room_destroyed`
  (`handler.rs:619-621` rules this out); `EventsOnceInOrder` says exactly which
  frames can be late.
- A takeover that cannot be acknowledged leaves the rooms and stashes nothing
  (`server/server.rs:1192-1205`), so that neither session nor stash remembers
  them; a registration without `reconnect` leaves an old stash where it is. Both
  are the exceptions of `StashIsWhatTheAgentHad`.
- A join request of a session that was replaced meanwhile can be applied after
  its successor has cleaned up, and leaves a member that nobody is (`late` in
  `GoneMeansOut`).
- Two first requests of a key can each insert fresh counters; the later
  insertion drops what the earlier one counted (`replaced`). The subtraction at
  the end of the lost connection then finds a counter that is too small, and, as
  the test for zero and the subtraction are two steps, two of them can wrap it
  to 2^64-1, which no limit lets pass until the server restarts.
- A reconnect that has a stash to claim does not look at the key of a connection
  that is alive under the id; and an agent that registers without a key is not
  compared with `agent_identities`. `IdentityHolds` is stated for agents with a
  key.

Tasks and instances:

- Events of two updates of a task can overtake each other, because the entry is
  unlocked before they are sent (`handler.rs:2204`). A client has to keep the
  later `updated_at`, as `ListenersHaveTheBoard` does; equal timestamps are
  possible and leave it with either.
- A creation that overlaps the destruction of its room can insert its task in
  memory after forget_room, where nothing reaches it and nothing removes it
  until the next start.
- A server that stops gives its instance lock up first, and its connections
  later, so it can overlap with its successor while it drains; the exception is
  part of `OneServerPerDatabase`.
- After an error of the accept loop the old process may remove the socket file
  of its successor (`failed` in `RunningIsReachable`). Two servers of different
  databases on one socket path may remove each other's fresh socket, which is
  bound before it listens, and a guard may be made for the inode of somebody
  else's (`users` there).
- A start whose removal of a stale socket meets another start's fails on
  NotFound; `FailsOnlyForCause` counts that as being in its way.

## 5. Proofs

The theorems hold for every value of the constants that satisfies the modules'
ASSUMEs: any sets of agents, connections, rooms, calls, keys and events, any
queue, page, lease and buffer sizes.

**RegistryProofs, rooms.** `TypeCorrect`, `NoPhantoms`, `Distinct` and `TokenStep`.
`NoPhantomMembership` is not inductive: between the durable delete and the
in-memory cleanup a room that is gone has members, and a join inside the mutex
relies on nobody else being there. `IInv` adds `MutexInv` (who is at a locked
point holds the mutex), `PhantomInv` (members of a room that is gone only while
its destroyer is on the way to remove them) and `LocalInv` (what holds of the
list between two steps under the mutex). `TokenStep` proves the action property
from `IInv` for each action in turn; the argument rests on `NextAfterMember`
(the next holder is taken from the list that was read) and on the lemmas about
`Retain`. Assumed: `ConnsAssumption` (each connection has an agent; the markers
for nobody are no agents or connections; the lobby is a room).

**RegistryProofs, registrations.** `RegistrationTypes`, `IdentitiesAreBound`,
`CountersAreExact` and `OnlyRacesExceedLimits`: all the properties of `Registration`.
Four parts are the frame of the others: `FieldTypes`; `FrameInv` (what a
connection's point says of its own key, id and way of registering); `LocksInv` (who
is inside which mutex); `ClaimInv` (a claimed stash is of the claimer's id and key).
`IdentityHolds` is inductive with `BoundInv` (past its claim, the id of a connection
is bound to its key) and `LiveInv` (the registry names installed connections, under
their own id). `CountersExact` compares counters with the cardinality of a set of
connections, `Counted(k)`; `CountedStep` says that a step of a connection adds that
connection to the set of its key, removes it, or leaves all sets alone, and
`CountersOfStep` that the counter moves with it. That makes the subtraction safe
although the test for zero comes a step before: the connection that subtracts is
itself counted (`HasUsage`: its key has counters), so the counter is not zero until
it has, and it cannot wrap above because there are fewer connections than `Wide`.
For rooms `RoomsRight` adds the one room between its row and its counter, which the
holder of `room_mutation` is about to settle. Both hold for keys whose counters were
not inserted over (`replaced`), the one case in which the premise fails.
`RaceInv` (whoever is between check and count, and was not passed by another count
of its key, is below the limit) gives `LimitsExceededOnlyByRace`, an action property
proved for the two steps that count and, trivially, for the others. Assumed:
`RegistrationAssumption` (finitely many connections, fewer than a counter can hold;
fewer rooms than that; the markers for nobody are nothing else).

**WaitCursorProofs.** `NumbersNotReused`, `NothingSkipped` and `FileOnlyMovesUp`.
`LogInv` says that the numbers handed out are those up to the high water mark,
and only those are retained; so an insert always takes a fresh number, the older
binary's too, because the greatest retained number is no greater than the mark
(`MaxOfBound`). `MissedOnlyIfOvertakenOrDropped` compares the file with what was
printed, but the file is only the last of four places a number passes through:
history page or live event, batch, cursor, file. `ReadingInv` follows it.
`Clear` are the numbers a cursor may stand at: every peer's message up to there
was printed, is known to be overtaken or dropped, or is gone. `Read` says that
the cursor, the start of the next connection, the file, the rows looked through
and, once the process waits for live events, the backlog's tip are all such
numbers; `Batched` that below a row of the batch everything is in the batch or
dealt with. A live event moves the cursor past every smaller number, so that
rests on `Heard`: of the frames in the queue and the channel together (`Coming`),
a message before another one came earlier or is known to be overtaken or
dropped, and what was sent since the tip was read is still to come. This is where
subscribing before reading the backlog matters. `Heard` in turn needs `Linked`
(who is live has a receiver), and all of it `Bounds` (no number anywhere that was
not handed out). `Followed` (the file is at most the cursor, the batch above it)
gives `CursorFileMonotonic`.

**NotificationProofs, wakes.** `TypeCorrect`, `NoForgottenEvent`, `RowsCorrect`,
`FirstSeqStands`, `RetriesFindTheirMessage`. `PendingIsCovered` needs `LeaseInv` (a lease that is set
stands for a wake under way, one that reached the agent, or one whose failure
was reported), because a coalesced call relies on the lease alone; `RowsCorrect`
needs `MarkInv` (the seq a call is about to record is that of a message of its
event). `RetryDoesNotDuplicate` needs `AloneInv`: an event whose deliveries never
overlapped has one call between reserving and recording, and if that call is
about to send it, the event is not in the room; it is the call's own look that
makes it so, since nobody else sends that event in between.

**NotificationProofs, webhooks.** `WebhookTypes` and `DeliveredAtLeastOnceInOrder`.
`TaskInv`, `WorkerInv` and `HandlerInv` say what the points of the enqueue tasks,
the worker and the handlers mean. That nothing is lost needs more than a look at
the queue, because an unaccepted message may be nowhere: not in a row, a task, the
worker's hands or a replay (`Chased`). `AdriftInv` says that such a message is ahead
of the cursor and its subscription failed, or about to be failed by the attempt on
that very message; enabling it again starts the replay below it. All other ways to
be nowhere are mishaps on record. For the order, `InOrder(q)` says that the row of
a message that was not overtaken is passed by nothing: neither by the worker's job,
nor by the cursor, nor by what the receiver has taken. It holds because the worker takes the least row (`LeastRow`), and a row that
comes after a later one's is on record as overtaken. So a row that is put in late, by
its task or by a replay, is the only way to break the order; nothing that happens to
a row once it is in the queue, be it a retry, a restart or giving up, does. Assumed:
`WebhookAssumption`.

**VotingProofs.** `TypeCorrect`, `Acknowledged`, `Sealed`, `NoLateBallot`,
`LeadersGoUnnoticedThreeWays`, `ElectionsRunTheirTime`, `DestroyedRoomsAreEmptied`
and `CompleteVotesClose`: all the properties of `Voting`.
`LifeInv` says that a vote whose row is not written is known to its creator
alone, and that a vote whose result is out, or about to be, is not open in the
store; with the status check of `Store::cast_vote` that gives `NoLateBallot`.
`SealInv` adds that a vote is activated, taken out and told once each, and that
whoever found it complete is right; counting is enough because the counted
ballots are a subset of the eligible agents (`CompleteIsAll`), which needs
`AgentsAssumption`: a room has finitely many members.
`LeaderGoneOnlyUnnoticed` is inductive with these, as whoever stops being a member
is then being cleaned up after or on record. For elections `TimerInv` says
that, unless two starts raced, the timer that runs is the election's own, or the
room was forgotten and every start that looked before is known to be late. For
destruction `GoneInv` says that a row of the room is that of a creation which has
yet to look whether the room is there, or that a crash cut it short, and that what
is still put into memory is going to be confirmed first; it needs `CreatorInv`
(a vote has one creator). For completion `OpenInv` says that an open vote is in
memory, about to be, or about to be closed, and that whoever counted the last
ballot is on the way to close it; it needs `EligibleInv` (somebody is eligible, so
that a vote is not complete before anyone voted).

**RoomDirectoryProofs.** `TypeCorrect`, `InvitesLive`, `HandedKeys` and the
refinement `Implements` (`Spec => AccessSpec`), and `LastWordIsTrue`: all the
properties of `RoomDirectory`. The invariant has four layers,
each with its own proof over all actions. `Shape`: types, who holds which mutex,
and that whatever a request, an invite or a grant is about was created once
(rooms are never reused, so a step that creates one disturbs nothing). `Fate`: a
room with a tombstone, or of a request past its deletion, is gone; and whoever is
between storing an invite and answering its token will find that out, because
the room exists, or has a tombstone, or its destroyer holds `room_lifecycle` and
will leave one. That is what makes the second look of handle_create_invite
enough. `Grants`: for a room there is, the table has a grant exactly if the cache
has it or a redemption is about to cache it; the key of such a redemption is
nobody else's and unknown to any client. Tables and cache therefore agree for
every key somebody has, and after a restart. The refinement maps each action to
one of `RoomAccess` or to a stutter, with one lemma per action that is seen
(`CreateOpens`, `DestroyEnds`, `InviteInvites`, `RevokeRevokes`, `RedeemTakes`,
`CacheAdmits`, `RestartCrashes`) and one for those that are hidden; the witness
of the crash is the key of each redemption whose grant was stored. The fourth
layer, `Heard`, is about what clients were told: whoever knows a name of a room
may see the room and knows its present name, or the holder of `room_mutation` is
about to publish it (`KnownRight`); and whoever knows anything of a room that is
being ended is among those who will be told, by its row or by the snapshot of
grants taken before they were purged (`WillHear`). `HeardLast` follows, as
without a holder of the mutex nothing is being published. Assumed:
`DirectoryAssumption` (the marker for nothing is none of the things; no client
uses the lobby's name).

**TaskBoardProofs.** `TypeCorrect`, `UpdatesMerge`, `SavedBeforeSent`,
`ListenersUpToDate` and the refinement `Implements` (`Spec => BoardSpec`): all the
properties of `TaskBoard`. Again three layers. `Shape`: types, that an entry is locked by exactly the update that is
writing it, and that a request is about a task of its room. `Saved`: a task of a
room there is has a row; the copy is the row, except where some request has
written a version and not yet replaced the copy (`Has(a, "set", t)`) or has
written the first and not yet inserted it; an update carries the copy it locked,
merged with its fields, one version later; nobody was sent more than the copy
has. With the lock this gives `UpdatesMerge`; and the copy is never ahead of the
row, which gives `SavedBeforeSent`, and over a crash that what is loaded is no
older than what was sent. `Heard`: a member that listed the tasks has the
version of the copy, or a request with that version has not begun its broadcast,
or has begun it and the member is among those still to be told (`WillHear`). A
member that leaves or a room that is destroyed can therefore not take anybody
else out of a broadcast (`RemoveAtType`, `MembersFree`). The refinement needs the first two
layers: an update writes the row that it merged its fields with, because no other
request is between its own write and the replacement of the copy
(`UpdateWriteChanges`); what is sent is no newer than the row (`Hears`). Assumed:
`BoardAssumption`.

**SessionProofs.** `TypeCorrect`, `RoomsFollowTheSession`,
`DestroyedRoomsAreForgotten`, `AcceptedFramesArrive`, `StashIsExact` and
`EventsComeOnceAndInOrder`: all the safety properties of `SessionLifecycle`.
`TypeOK` includes who holds `agent_lifecycle` at which step. The other five
invariants build on each other. `MembersInv`: the steps under the mutex are those
of the installed session, and what the agent is a member of is on the list of
whoever clears it, unless a replaced session joined it (`late`). `ForgetInv`: a
room that is not in the store has a tombstone or is on the way to one, so the
second look of `stash` (`StashRecheck`) finds every room that went in between.
`ReachInv`: a session about to commit has replayed what it holds. `OwnedInv`: what
a connection carries from the stash to its members, or from them to the stash, is
what the agent had, and a stash beside a session is one that session is claiming
or has just made; it needs `PlaceInv`, which says which way of registering can be
at which step. `OrderInv`: every frame anywhere is older than the one being
published; a session that has not been acknowledged was sent nothing the stash
accepted, and its tail is in order and has nothing it was sent. The frames a
session missed are chosen by `Only`, a recursive function over a sequence; that
its result is a subsequence with exactly the chosen frames (`OnlyIs`, `Places`) is
proved by taking a shortest counterexample, as induction itself is out of the
provers' reach. Assumed: `SessionAssumption`.

**ServerInstanceProofs.** `TypeCorrect`, `OneServer`, `Reachable` and
`CausesOfFailure`: all the safety properties of `ServerInstance`. `OneLink` is the
key of the first two: a process past the check for hard links has the lock of its
canonical path, and files with several links are refused, so two processes with
one file have one path, and one lock. `Reach` gives `RunningIsReachable`. A
process on a path of one database (`Solo`) is `Calm`: its own socket is at the
path from bind until its guard removes it, its guard is for that socket, and what
it is about to remove from the path accepts no connections. `Known` (whoever
has the lock is on record as a user of its path) makes two such processes users of
one lock (`OneHolder`), so nobody else acts on the path between the look and
the removal; `OwnPath` says that a socket is at no path but its process's. None of
this holds on a path of two databases, where the premise of the property is
false. `Rivalry` gives `FailsOnlyForCause`: whoever is in the way is on record
(`Rivals`); the process with the TCP address asked for it (`TcpOwn`); and what a
process found at its path, or bound there, is still there unless somebody was in
the way (`AllLook`). So each way for a start to fail names its rival (`FailStep`):
the holder of the lock, the owner of a socket that accepts, whoever removed what
was found or bound, the process that listens on TCP. Assumed:
`InstanceAssumption`.

Only model-checked: the liveness properties `CursorCatchesUp`, `RowsSettle` and
`OrphansEnd`, as fairness is out of the prover's reach. Every safety property of
every module is proved. `TypeOK` of `SessionLifecycle` is checked by its run as well;
the other type invariants are left to the proofs. The two `violation` runs refute
what a document says, and have nothing to prove.

## 6. Limits

- One room, one target, one subscription or one waiter per model where the code
  keeps their state apart. API keys are one key, except in `Registration` and
  `RoomDirectory`, which are about keys.
- Bounded counters: `MaxSeq`, `MaxMessages`, `MaxNow`, `MaxLosses`, `MaxCrashes`, `MaxCrash`,
  `MaxEnables`, `MaxRestarts`, `MaxVersion`, `MaxRev`, `MaxOwned`, `MaxStarts`.
  Each is a guard on the action that counts.
- The session model counts what is queued for an acknowledged session as
  received; frames on a connection that breaks are lost, which is the subject
  of `WaitCursor`. Tombstones of the reconnect cache do not expire there, and
  those of the broker do only in `RoomBroker`.
- In `Voting` a ballot has no option. An option the vote does not have is refused
  before the ballot is stored if the vote is in memory by then
  (`server/handler.rs:1513-1520`), and only after it otherwise
  (`server/voting.rs:163`); the second case is left out.
- In `TaskBoard` no queue is full and the tasks are loaded at every start; an
  error there is swallowed by the code (`server/tasks.rs:21`). `HeardLast` of
  `RoomDirectory` counts room events as heard, not replies to list requests, and
  its queues do not overflow either.
- In `RoomDirectory` a broadcast is one step: it is made under `room_mutation`,
  and who is told is decided by data that only holders of it change, except for
  grants, which reach the client with its key. A room has one name and one
  description; the model keeps the name.
- Not modelled: SQLite errors where the code only reports them (they are modelled
  where something is left half done: redemption, tasks, opening a database), the
  decision request (`handle_decision` asks whether the sender leads, stores a
  message and broadcasts, and changes no vote state), a cursor file that cannot
  be written, one-shot waits and waits without a cursor file (they keep no
  state), the end of a conversation as a reason to stop waiting, a bridge
  request applied by the server after the bridge gave it up, the message limit
  per minute and the limits per address (counters over time), key comparison and
  key rotation, static pages and origin checks, the app-server's JSON-RPC.
- Left out altogether: the wire format and data types (definitions), end-to-end
  encryption (cryptography), Lantern (a display on top of the client library),
  the Mac application, examples and the web site.

## 7. Plan

Done, in this order: `RoomBroker` with proofs, `MessageStream` and `WaitCursor`,
`WakeBridge` with proofs, `WebhookDelivery`, `SessionLifecycle`, `Voting` with
proofs, `Registration`, `RoomAccess` and `RoomDirectory` with proofs and
refinement, `TaskBoard` with proofs, `ServerInstance` with proofs.

The proofs were extended in a second pass: `SessionProofs`, the waiting client, the
rest of `Voting`, `HeardLast`, `RetryDoesNotDuplicate`, and reachability and the
causes of failure of `ServerInstance`; and in a third: identities, counters and limits
(`Registration`), the delivery of webhooks, and `SharedBoard`.

Next:

1. An abstract specification of the log (`a cursor reads each message once`)
   that `MessageStream` with a client that only pulls history implements, and an
   abstract election that `Voting` implements while no two starts overlap.
2. The Mac application's read state and supervisor, which follow the patterns of
   `WaitCursor` and `ServerInstance`.
