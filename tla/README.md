# Whiteboard AI: a TLA+ verification project

Whiteboard AI is a collaborative whiteboard: clients edit a board (a Yjs document) over
WebSockets, one or more server instances hold the open boards in memory and write every edit to
Postgres, and Redis carries edits between instances. Around it are sharing, teams, paid plans,
design interviews and AI reviews. The promise the product makes is narrow and hard: **an edit
shown as "Saved" survives any server failure** (`PROGRESS.md`, failure model), while several
instances, retries, evictions, compactions and restarts go on underneath.

This directory models that promise first, from the tables in Postgres up to the tab that shows
"Saved", and then the paid parts of the product, where requests check one thing and write another.
Paths below are relative to `src/`.

## 1. Inventory

### Server, data path

| component | state it keeps | operations | what makes it correct |
|---|---|---|---|
| **Board store** `apps/server/src/persistence/pgRepository.ts` | per board: `boards.last_seq`, live updates, archived updates, snapshots | `append`, `load`, `updatesSince`, `compact`, `installSnapshot`; trash, restore and purge by the API | the tables behave as one append-only log, whoever compacts when; a reader between two statements misses nothing that was committed |
| **Room write-ahead queue** `sync/roomPersistence.ts` | `pending`, `active`, `closed`, the flush timer, the promise chain and its locals | document update, `activate`, `deactivate`, `close`, `reopen`, `flushNow`, `catchUp`, `compactNow` | what is announced as persisted is committed; nothing queued is lost or forgotten; nothing is stored before what it builds on |
| **Room life cycle** `sync/rooms.ts` | the map of rooms, members, `closing`, the grace timer, queued cluster messages | `acquire`/`join`/`leave`, `load`, `evict`, `flushAll`, `maintainLease`, `handleCluster` | a room leaves memory only when its edits are stored; a lease change never breaks that |
| **Cluster** `cluster/roomBus.ts`, `lease.ts` | Redis channels, a lease key with a TTL per board | publish/subscribe, acquire, renew, release | at most one writer is wanted, none is needed for safety; lost messages are repaired by sync requests |
| **Private rooms** `sync/encryptedRoom.ts` | ciphertext log, per-peer acknowledgement counters, snapshot requests | add, flush, announce, request a snapshot from a client | the acknowledged counter of a peer covers only stored updates; a client snapshot covers every update it replaces |
| **Connections, upgrade** `sync/upgrade.ts`, `connection.ts` | open sockets per user and board, buffers of messages awaiting the room | ticket check, limits, freeze, close | revoked users and a shut-down server hold no working socket; what a handshake carries is the difference of the two documents |
| **Access, revocation** `access/boardAccess.ts`, `revocation/bus.ts` | memberships, share links, public flag, plan lock | resolve a role, issue a ticket, publish a revocation | a revocation reaches every socket opened under the old role |

### Server, product

| component | state | operations | what makes it correct |
|---|---|---|---|
| **Billing** `billing/*.ts` | subscriptions, entitlement grants, seats, coupons, webhook ids | checkout, sync with the provider, cancel, change of seats, grace, reminders, student offer, sweep | our copy follows the provider's; grants follow the row and the current members; a coupon, a reminder and a grace period happen once |
| **Owner limits** `billing/limits.ts`, `api/boards.ts`, `sharing.ts` | locked boards, editor seats (suspended or not), invitations | enforce on every change of plan, create, trash, restore, claim a seat, invite, accept | what may be edited fits the plan, and what was taken comes back; an invitation works once |
| **Interviews** `api/interviews.ts`, `interview/service.ts` | one row per interview with its timer and hints, participants, caps on sockets, each tab's `InterviewStore` | start, change participants, pause, resume, extend, reveal a hint, end, announce | everybody computes the same clock; no reveal is lost; the write cap follows the role; a tab ends up showing the last state |
| **AI reviews** `api/reviews.ts`, `ai/*.ts` | reservations, usage, what was stored of a review | reserve, call the model, record, clean up | usage never passes the allowance; what the requester is told is what was counted |
| **Boards, folders, workspaces** `api/*.ts` | rows | CRUD, duplicate, trash, purge | row-level rules; the seq-0 snapshot of a copy is whole |

### Client and shared code

| component | state | what makes it correct |
|---|---|---|
| **Sync client** `packages/shared/src/sync/{socketBase,provider}.ts` | status, current socket, reconnect timer, a ticket under way, unsent edits, the persisted vector | a stale socket is never used, a reconnect is never forgotten, "saved" is shown only when it is |
| **Encrypted client** `encryptedProvider.ts` | generation, counters, edits not yet acknowledged | results of an old connection are dropped, unacknowledged edits are sent again |
| **Board document** `packages/shared/src/board/*.ts` | shapes, z-order keys, undo stacks | z keys are strictly between their neighbours, undo touches one's own edits |
| **Design graph** `packages/graph/src` | none (pure) | findings match their definitions |

### How the parts interact

A WebSocket message reaches a `Connection`, which hands it to its `Room` once the room has loaded.
The room applies it to its `Y.Doc`; the document's `update` event queues it in `RoomPersistence`
(when this instance holds the lease), broadcasts it to the other connections and publishes it on
the room bus. `RoomPersistence` serialises flushes, catch-ups and compactions in a chain of promises
over the board store, and calls `markPersisted` with the state vector that a commit made durable;
that vector is broadcast to clients and published to the other instances. `RoomManager` loads
rooms, keeps the lease up, evicts empty rooms and flushes all of them at shutdown. Everything else
talks to the same Postgres in its own transactions, and tells open rooms of changes over the
revocation bus.

### What is hard here

* **Interleaving**: JavaScript runs each handler to completion, but every `await` lets others in;
  `evict()`, `flushAll()`, `maintainLease()` and the chain's tasks all share the queue's fields.
* **Several statements, no transaction**: readers of the store run between other instances' commits.
* **Failure**: an append fails, or commits and its reply is lost; the board is purged under an open
  room; Redis answers late, or does not; the process is killed.
* **Ordering**: batches are put back, catch-ups go in front, markers must mean what they say.
* **Liveness**: retries must not stop because `closed` was set by a close that was given up; a tab
  must not stay offline because an event came while it was waiting for something else.
* **Check, then act**: an API handler reads a row, checks it, and begins a transaction that may find
  another row; its announcement is sent after the commit, and from a list read before it.
* **Locks that do not exclude each other**: seats, boards, subscriptions and allowances are each
  guarded by an advisory key of their own.

`PROJECT.json` lists the hazards at their lines with the properties that cover them.

## 2. Modules

| module | models |
|---|---|
| `DurableLog` | abstract specification: what a store of one board promises |
| `BoardRepository` | `pgRepository.ts` for one board: rows, tables, transactions, and readers between statements |
| `BoardRepositoryProofs` | type correctness, whole history, faithful snapshots, refinement of `DurableLog`, what readers know between statements |
| `RoomPersistence` | `roomPersistence.ts`: the queue and its promise chain (operations, no next-state relation) |
| `RoomManager` | `rooms.ts`: one room's life over that queue; `EXTENDS RoomPersistence` |
| `EncryptedProtocol` | `encryptedProtocol.ts`: connections, streams and messages of a private board |
| `EncryptedProvider` | `encryptedProvider.ts`: the client of a private board |
| `CipherLog` | the content of a private room, as a record and its operations |
| `EncryptedRoom` | `encryptedRoom.ts`: the rooms of one private board on several instances, over their write queues, Postgres and the Redis bus |
| `PrivateBoard` | clients and rooms composed, and their properties; `EXTENDS EncryptedRoom, EncryptedProvider` |
| `PrivateBoardProofs` | snapshots cover what they replace, "saved" is true, and on one instance nobody waits |
| `RoomSocket` | `socketBase.ts`: the transport of a client, as a record and the methods of the class |
| `BoardAccess` | `boardAccess.ts`: roles, permissions, and the role that several sources add up to |
| `SyncSession` | tabs, tickets, upgrades, connections, one server, and changes of access; `EXTENDS RoomSocket, BoardAccess` |
| `OwnedBoards` | one owner's boards, seats and invitations under the limits of the plan; `EXTENDS BoardAccess` |
| `Billing` | a team's subscription and the grants that follow from it, with the payment provider as environment |
| `Interview` | the interviews of a board: requests, pushes, caps and the tab's store |
| `AiReviews` | reviews, reservations and allowances |
| `AiReviewsProofs` | no allowance is overdrawn; the row, the count and the answer agree |
| `RoomManagerProofs` | acknowledgements, queue, eviction and log of a room |
| `SyncSessionProofs` | no stranded tab, true "saved", revocation, and that tab and room agree when quiet |
| `OwnedBoardsProofs` | boards and seats fit the plan, seats come back, invitations grant once |
| `BillingProofs` | our rows follow the provider's, grants and limits follow our rows; coupons, reminders, grace |
| `InterviewProofs` | clock, hints, caps, and what tabs show |
| `MC...` | the instance of each for TLC |

### Board store

The variables are the tables: `row` (live, trashed, purged), `lastSeq`, `live` and `archive`
(functions from seq to payload), `snapshots` (from `seq_upto` to the set of payloads merged into
it). `append`, `compact`, `installSnapshot` and the purge lock the board's row, so each is one
action; `load` and `updatesSince` do not, so each of their statements is an action and `reader`
holds the locals between them. Payloads are opaque, and a state is a set of payloads, because Yjs
merges are idempotent and commutative. `IsPrivate` chooses between server-made snapshots (`compact`)
and client-made ones (`installSnapshot`, which may carry more than the log, and less than an earlier snapshot if that
carried more). `InstallSnapshot` assumes that a client's snapshot holds every update up to its seq;
that assumption is `SnapshotCoversUnlessHidden` of `PrivateBoard`, where the protocol is modelled that
makes it true, but for the updates a room had lost sight of (`hidden`, below).

`DurableLog` has a log, a content and `present`. `BoardRepository` implements it with
`log <- archive and live rows`, `content <- latest snapshot and the live rows after it`:
compaction and archiving must be stutters, and whatever else happens, content that the log carries
stays (`Replace`).

### Room and queue

A document is the set of edits in it, an update the set of edits it carries, and `Before[e]` names
what an edit builds on. A deletion does not show in a Yjs state vector, so a vector is the content
without `Deletes`. `RoomPersistence` has the fields of the class with their names, `chain` for the
promise chain, and `step` for the await the head task is at. `RoomManager` adds the room, its
members, the grace timer, `closing`, where each `evict()` and the shutdown stand (`closer`), and
where the lease loop stands (`maintain`).

* **Run to completion.** Database replies, timers, messages and Redis answers are macrotasks: their
  actions require `Quiet`, that no promise continuation is due. Continuations follow the microtask
  order of the code: when a task settles, its awaiter goes on (`settled`) before the next task of the
  chain starts; whoever awaited `close()` itself goes on one step later (`CloseDone`).
* **Failure.** An append may fail before or after its commit (`AppendFails` in steps `appending`
  and `committed`); a load may fail; the process may die at any moment (`Crash`), and an append in
  flight then may still commit (`InFlightMayCommit`).
* **Other instances** are the environment (`Clustered`): their edits arrive, they commit to the log
  and announce it, a lease call may be answered either way, since Redis may be unreachable, flushed
  or slow beyond the TTL, and a load may be torn as `BoardRepository` shows (`LoadResults`).
* **Delays** (flush delay, retry backoff, grace period, deadline) are nondeterministic: an armed
  timer may fire at any later moment, a deadline may pass at any retry.
* **History variables.** `ours` are the edits of this instance's own connections; `leftBehind`
  collects edits that were in the document and not stored when a room was left for good; `raced`
  becomes TRUE when a deactivation ends during a close, or an eviction ends while another close of
  the same room is at work. Edits given up at the shutdown's deadline while still queued or in flight
  are excused, as the code logs and accepts them.

### Private board

The server cannot read a private board: it stores and relays envelopes, acknowledges per-connection
counters instead of state vectors, and has clients make the snapshots. Edits are independent of one
another here (what order protects is the subject of `RoomPersistence`), an envelope is identified by
the connection and counter it was first sent with (its random IV in the code), and its plaintext is
the set of edits in it.

* **Client** (`EncryptedProvider`). The fields of `EncryptedSyncProvider`. `Edit`, `FlushFrame` and
  `SendNext` are the three stages of an edit: in the frame's `pending`, in the queue that encrypts one
  message at a time (`sending`; a message of an old connection is dropped when its turn comes, which is
  what `generation` is for), and on the wire with the next counter. `HandleNext` handles the next
  message in order. `Saved` is what the user is shown.
* **Room** (`EncryptedRoom`). Per instance a `CipherLog`, a write queue and an inbox of the bus.
  `requestSnapshot` and `receiveSnapshot` are cut at their awaits (`starting`, `installing`), an append
  where it commits and where its reply arrives. The request is cleared before the install is awaited, so
  installs of one room overlap: `installing` is a set, any of them commits next (`InstallCommits`), any
  reply comes next (`InstallReturns`, which overwrites the log's snapshot whatever it is), and any of
  them fails before or after its commit (`InstallFails`). Loading reads the snapshot and the later updates in two
  steps, takes the lease if it is free, handles what the bus has delivered meanwhile, then opens and
  sends a sync request.
* **Bus.** `Publish` appends to the inboxes of the instances that listen. Sync replies go to the
  instance that asked. `LoseBus` and `RegainBus` are a subscription that breaks and comes back with a
  sync request; `Resync` is the periodic one. What an inbox holds has been delivered: it is
  handled before the room asks again.
* **Failure.** `Disconnect` of a client at any time, noticed by the server later (`RemoveMember`); an
  append that fails or whose reply is lost; a process that dies, with what Postgres got from it perhaps
  committed after that (`LateCommit`).
* **Instances are alike**: no action and no property of `PrivateBoard` names one, so the runs with two
  of them use `SYMMETRY` over `Instances`. Likewise two clients, each with the one edit it writes, may be
  swapped (`AlikeWithEdits`). These runs check invariants only.
* **The log** (`CipherLog`) is a record, and an operation is described by what it leaves behind: `Add`
  keeps the first of each new envelope, takes the highest counter per connection and the greatest seq;
  what stays of a list is `Picked` from it at a set of positions, in their order. The loops of the class
  come to that; folds would say the same and could not be proved about.
* **History variables.** `resumed` are the clients that reconnected after they had written something.
  `forgotten` are the stored edits that a snapshot replaced without containing them. Only an edit that its
  author captured in a snapshot before sending it can get there (see "Seen while modelling"). `Kept` is what
  is stored or forgotten: what was stored once. `hidden` are the envelopes above an older snapshot and
  not above the newer one that it has replaced in a room's memory (`Hides`).

Not in these modules: presence, viewers, a wrong key or an envelope that does not decrypt, eviction
(see `RoomManager`), a queue longer than `MAX_BATCH`, a lease lost by a process that lives on, an install
that Postgres commits after its room was told of a failure.

Not in `RoomPersistence` and `RoomManager`: awareness, interview broadcasts, heartbeats, metrics; the wire format of
sync messages; connections, which are in `SyncSession`.

### Sessions

`SyncSession` puts tabs with their transport and provider against one server with one room.

* **Tab.** A record of `RoomSocket` holds the fields of the class, and each handler is the composition
  of its methods that the code makes. `pending` is the edits of the present frame; `persisted` the vector
  last acknowledged; `Saved(c)` is what the user is shown. `TicketArrives` is the answer to `getTicket()`
  (issued and received in one step: what the server knew then is in the ticket's claims), with the
  socket it opens.
* **Connection.** A slot of `conn` is the server's end and both wires. Its phase follows `upgrade.ts`:
  `authorize` reads access again, `Register` counts the user's sockets and joins the room,
  `HandleMessage` waits for the room. A close travels behind the messages on the wire, and messages that
  arrive meanwhile are still handled, as in `connection.ts`. A free slot is used again.
* **Server.** `srv` is up, closing (not accepting, flushing) or down. A flush stores and acknowledges
  in one step, since how it does so is `RoomManager`'s subject; a crash loses what is not stored.
* **Access.** `access` is the rows that `resolveBoardAccess` reads; each change that the API announces
  puts an event into `events`, and `DeliverEvent` closes what `Affects` says. The plan lock and the
  trash announce themselves; a link that expires does not.
* `NetworkChanges` are the browser's online and offline events; `Cut` is a socket lost without
  either end being told in time; `LeavePage` is `destroy()`.

Left out: presence, back-pressure, heartbeats, the limit per address, backoff lengths, frames that
cannot be decoded.

### Owned boards

The variables are the rows of one owner: boards with their lock, members, seats in the order they were
claimed, a share link, invitations, and `plan`, what the valid grants amount to. `enforceOwnerLimits` is
two steps: `enforcing` holds what it has read under the owner's key until `FinishEnforcing` commits;
creating a board takes the same key, so no board is created meanwhile. A claim of a seat (`FindEditor`,
then `ClaimEditorSeat`) and an invitation (`FindInvite`, then `AcceptInvite`) are cut where the code
reads outside the transaction that writes. `due`, `unchecked` and `regranted` are history. Left out:
`DELETE /editor-seats`, folders, search, duplication.

### Billing

`remote` is the provider's truth and `events` the webhooks not answered yet: a webhook may be late, be
overtaken or be delivered twice (the second delivery finds its id and does nothing). A transaction is a
record of `txs`, with the locks it holds and the row it has read: `BeginSync`, `ReadRow`, `CommitSync`
for `syncSubscription`; `BeginManaging`, the provider's call and a commit for `cancel` and `changePlan`;
`BeginTeam` and `CommitTeam` for a membership change with its refresh of seats. `Fails` aborts any of
them, after the provider was called too. The outcome `unknown` of a sync (`sync.ts:111`) is for
subscriptions that have neither a row nor notes that name a workspace and its member; ours have notes that
name the team's owner, who stays a member (`BeginTeam`), so `CommitSync` always adopts. `Remind`, `ListExpired` and `ClaimExpired` are the sweep.
The statuses `authenticated`, `halted`, and `completed` or `expired` are taken as `active`, `past_due`
and `cancelled`, which is how the code treats them. Left out: invoices, receipts, previews, mails
(sent best effort after the commit), the coupon's own limit of uses, audit rows.

### Interviews

A request is past its checks when it is in `requests`: it holds what it read, commits (`CommitStart`,
`CommitPeople`, `CommitTimer`, `CommitReveal`, `CommitEnd`), announces, answers. `announce` closes the
sockets of those whose cap may have changed (`joining`, until `Rejoin` gets a new ticket) and
broadcasts: each broadcast reads the row when it is its turn (`PushReads`) and arrives whenever
(`PushSends`), or cannot be read and is given up (`PushFails`: `lost` keeps what it would have said). The
tab is `InterviewStore`: `ApplyState`, `ApplyView`, and its GETs in `loads`.
`ran` and `revealed` are what the clock and the hints should be, kept beside the rows. Left out: notes,
scorecards, share links, summaries, replay; a ticket and its registration are one step, and so are the
reads of one GET; the bus itself loses nothing here; two interviews do not start in the same millisecond.

### AI reviews

`Ask` begins the transaction that reserves, `Count` takes the advisory lock and counts, `Insert` commits
the reservation; then the call ends in one of its outcomes ("error" stands for a refusal, a truncated or
an invalid answer), `Save` writes what is kept together with the usage row, and when that fails the catch
block records the usage again, tells the requester, and clears the reservation. A completed review is read
back before it is sent (`Tell`), and a requester who is no longer a participant of the interview does not
find it: `Interviewed` are the reviews asked for during one, `ReplaceParticipants` puts their requesters
out of it or back (`outside`, which is kept only from the end of the call to the read-back: nothing
looks at the list between the checks and then), and `withheld` are the answers lost in this way. `since` is
`created_at`, so a reservation that is older than `RUNNING_RESERVATION_MINUTES` is no longer
counted. `Fails` covers a statement that fails and a commit whose answer is lost; `Crash` is the instance
dying in the middle. Left out: the checks that refuse before the reservation, live hints, the spend limit.

## 3. Runs

| run | question | instance | distinct states |
|---|---|---|---|
| `repository` | do the tables behave as one log, for writers and readers? | 3 payloads, a template, batches up to 2, 4 seqs, 1 reader | 357 k |
| `repository_private` | the same with client-made snapshots | 2 payloads, 3 seqs, 1 reader | 31 k |
| `room_alone` | one instance: queue, eviction, shutdown, crash; is everything acknowledged at last? | 2 edits (an insertion and a deletion of it), 1 eviction and the shutdown, `MAX_BATCH` 1, threshold 1, 2 chained tasks | 111 k |
| `room_clustered` | peers and lease changes, until a lease change cuts into a close | the same with `Clustered` | 1.3 M |
| `room_false_ack` | a comment of the code that does not hold (violated) | as `room_clustered` | |
| `private_alone` | one instance, two clients that write one edit each: is "saved" stored, do snapshots cover, does anybody wait? | 2 connections, 2 snapshot requests, 2 seqs, 1 crash, lost replies, overlapping installs | 1.4 M (up to symmetry) |
| `private_cluster` | two instances and a client: the writer dies, a subscription breaks | 1 edit and an earlier one, 1 connection, 1 crash, 1 outage, 1 periodic sync request | 890 k (up to symmetry) |
| `session` | does a tab connect again, save, and lose its socket when it loses its access? | 1 tab, 1 insertion, 1 deletion, 2 connection slots, 1 socket per user; 2 disturbances, or 2 changes of access | 326 k |
| `owned_boards` | do boards, seats and invitations fit the plan? | 2 boards (1 shared), 2 other users, 2 plans with 1 and 2 boards and seats, 1 invitation, 2 requests at a time | 1.6 M (up to symmetry) |
| `billing` | do rows, grants and limits follow the provider and the members? | 1 subscription, 2 people, 2 seats, 2 changes at the provider, 2 transactions at a time, 1 grace period | 1.9 M |
| `interviews` | clock, hints, caps, and what a tab shows | 2 interviews, 2 users, 1 tab, 2 hints, 2 requests at a time, budgets of requests, ticks and lost pushes in three mixes | 1.3 M |
| `ai_reviews` | is an allowance ever overdrawn, and is the requester told the truth? | 3 reviews (2 of teammates sharing one allowance of 1), 1 lapse, 1 failing review, 1 review asked for in an interview | 3.6 M |

**Why these bounds are enough for the questions.**

* Two edits, the second building on (and deleting part of) the first, are the least that tells order,
  loss and vector-invisible deletions apart, and with `MAX_BATCH` 1 a queue of two is already cut. A
  threshold of 1 lets compaction follow an append inside a task and in `close()`. One reader is enough
  because readers do not interact; four seqs give a snapshot, archived rows, live rows and an append
  during a read. `MaxChain` stops only the flush timer from queueing more tasks behind those there.
  One eviction and the shutdown are two closes of one room that overlap.
* On a private board two connections are needed for a reconnect, two requests for an answer to the
  wrong one, `MaxSeq` 2 for an append stored twice or for the edit of one client under the snapshot of
  the other.
* In `session` the two slots let an old and a new connection of one tab be alive together, which
  `MaxSockets` 1 turns into the limit. `Starts` chooses between a member on a bad network with two
  disturbances (a cut while coming back, a crash after a shutdown, offline and online), on an empty
  board or one with an earlier edit to catch up with, and somebody whose access changes twice on a good one,
  having it from a link, from a membership and a link and the public flag, or from that flag alone; the
  product of both does not fit. One tab is enough for these questions: tabs meet in the room's document
  only, and an earlier edit stands for what others did.
* In `owned_boards` the smaller plan has room for one board and one editor of the two there are, so
  every change of plan takes something or gives it back.
* In `billing` two changes at the provider make a webhook overtake another or a failure follow a payment;
  two people and two seats make a change of seats or of members matter. A second subscription is reached by
  `MaxSubs` 2, which did not fit the time.
* In `interviews` two requests at a time are the least that overlap; `Mixes` says how they are spent. Two
  broadcasts are lost, and only where roles change three times and the clock stands still.
* In `ai_reviews` two teammates compete for one unit while a third person has another allowance and shares a
  board with one of them, so that a purge hits reviews of two allowances. A failing review may fail at
  every step it still takes.

`CHECK_DEADLOCK FALSE` stands in the runs whose system stops when its bounds are used up (private boards,
`session` after every tab has left, `interviews`, `ai_reviews`). `SYMMETRY` is used where no property is
temporal liveness: instances, and clients with their edits, of a private board; users and requests of `owned_boards`.

**What the runs show.**

* The store is an append-only log under any interleaving of its transactions, `updatesSince` is
  complete, and `load` misses only what a newer snapshot has folded in.
* On one instance acknowledged edits are durable, no wake-up is lost, nothing is left behind unless two
  closes of one room overlap, and every edit is acknowledged at last.
* With several instances the same safety holds as long as no deactivation ends while a close is under
  way. When one does, a later flush can announce edits that were dropped (`room_false_ack`).
  `room_clustered` therefore explores states until that happens (`CONSTRAINT UntilRaced`), and its
  properties are the ones named `...UnlessRaced`.
* On a private board a client's snapshot holds every stored update it replaces, whatever times out,
  dies or is answered late (`SnapshotCoversUnlessHidden`), but for those a room had hidden behind an older
  snapshot; that is what lets `BoardRepository` treat it as a compaction. Until a client reconnects, what it is told is saved is stored; after that, it is at least
  in the room or the database (`SavedIsReceived`), but for edits that a snapshot forgot. Sync requests
  repair a broken subscription, and catch-ups a dead writer (`Converged`, without snapshots).
* A tab never sits without a socket, a timer and an attempt (`NeverStrandedUnlessBlinked`), its
  insertions are stored when it says so, the handshake makes up for everything that reconnects drop, a
  delivered change of access leaves no socket with more than its user has, and, with a server that is
  started again, edits get saved and shown as such (`EditsAreSaved`). The exceptions in the names are
  behaviours the code has; they are described below.
* Boards and seats fit the plan after every enforcement and come back with the plan; an invitation does
  not let somebody back in who was removed.
* Whatever webhooks do, our subscription is the provider's once all are answered; grants, limits,
  coupons, grace periods and reminders follow, with the exceptions of `raced` and `missed`.
* The interview clock and the hints are right unless a request finds another row than it checked; caps
  follow roles, and the tab shows the last state in any order of pushes and answers, unless the push of
  just that state was given up.
* An allowance is never overdrawn by reviews whose reservation lasted, and without failures the row, the
  count and what the requester is told agree, unless the requester may no longer see the review.

The properties of private boards and `ShownIsCurrentUnlessLost` are safety properties of quiet states: nothing in
a queue, an inbox or a stream. Whoever is not served in such a state is not served later either, unless
somebody acts.

**Seen while modelling, without a run of their own.** The history variables in the guards of the
properties above stand for the following; without them, or with other constants, TLC shows each.

Store and rooms:

* the three statements of `load` are not one snapshot of the database (`pgRepository.ts:42`): a load
  that is overtaken by a compaction misses updates, which `RoomManager` repairs by a catch-up, but a
  duplicate of the board made from it keeps the gap (`boardExtras.ts:46`);
* eviction looks at the queue's length only (`rooms.ts:576`): a batch that an overlapping shutdown has
  cut and not yet stored is overlooked, and the room is dropped;
* a deactivation in flight when an eviction begins empties the queue the close is writing
  (`roomPersistence.ts:185`): the room is dropped with edits that are not stored; `room_false_ack` is
  what may follow when it is not dropped.

Private boards:

* after a reconnect the saved state rests on what the room has in memory (`encryptedProvider.ts:169`);
* sync requests do not carry what a snapshot has folded in (`encryptedRoom.ts:447`), and an edit that a
  snapshot captured before it was sent may never reach the others (`encryptedProvider.ts:212`);
* such an edit can be lost: its author answers a snapshot request with it, disconnects before sending the
  update, and comes back when the snapshot has been installed. The server's state has the edit, so the
  client sends nothing and shows "saved" (`encryptedProvider.ts:169`). Then a client that never saw the
  edit answers the next request, and its snapshot replaces the one that was the edit's only copy
  (`encryptedRoom.ts:316`–`338`). `forgotten` holds these edits and no others: every stored *update* is in
  each snapshot that replaces it unless it is `hidden`, which is `SnapshotCoversUnlessHidden`;
* two installs of a room may overlap, and the reply of the older may come last (`encryptedRoom.ts:322`):
  `CipherLog.installSnapshot` (`148`) puts its snapshot in the place of the newer one, whose rows have left
  the entries and stay in `known`, so no catch-up brings them back. A client that joins then is not
  sent them, and the snapshot it makes for a third request replaces rows that it does not hold: they are
  left in the archive only. With three edits and three requests, and without `hidden`, TLC finds such a
  snapshot (not a run: it is larger than the others);
* a room announces the highest counter it has seen (`encryptedRoom.ts:132`): if the bus loses update `n`
  and delivers `n + 1` to the writer, committing that acknowledges both;
* if the writer dies between a commit and its announcement, and the next writer loads the row without
  its counter (`encryptedRoom.ts:117`), a client of another instance waits until it edits or reconnects.

Sessions and access:

* a tab that goes offline and back while a ticket is on its way stays "offline" without a timer until
  the next online event (`socketBase.ts:166`–`185`; history `blinked`); `goOffline` overwrites "denied"
  (`239`, against the comment at `154`);
* "saved" compares state vectors, so a deletion alone shows as saved at once (`socketBase.ts:21`);
* a change of access between a ticket and its registration finds no socket to close, and a ticket that
  names a membership or link while the socket's role came from the public flag is not closed when the board
  stops being public (`conn[k].raced`); a link's expiry is not announced.

Owner limits:

* a restore does not enforce (`boards.ts:398`), and a claim of a seat and an enforcement take different
  keys (`limits.ts:135`, `64`; history `unchecked`); demoting or removing somebody does not enforce;
* two acceptances of one invitation can both find it open, and the second lets back in whom somebody
  removed between them (`regranted`); revoking a share link leaves the seats it gave; a claim under way
  when its user is removed leaves a seat without a member.

Billing:

* `refreshTeamSeats` reads the row without its lock (`sync.ts:320` against `42`), and of the team's newest
  subscription whatever its status (history `raced`);
* the sweep marks a grant as handled that was renewed after it was listed (`service.ts:582` against
  `entitlements.ts:53`; history `missed`): when it ends later, nobody enforces;
* `cancel` and `changePlan` take row, then key; a sync takes key, then row: the database aborts one
  (`Fails`); a cancellation that reached the provider and then failed leaves our flag as it was until the
  next sync; with two checkouts paid, the unique index refuses the second's sync (`sync.ts:160`).

Interviews:

* when the state cannot be read a push is only logged (`upgrade.ts:250`): a connected tab shows the old state
  until the next change or its next GET (history `lost`);
* overlapping requests undo each other's hint (`interviews.ts:376`) and mis-time pauses and ends (`338`,
  `389`); changing participants twice at once merges the lists (`315`) (history `raced`);
* those who are told of a change are read before the transaction (history `missed`); an interviewer who
  was the candidate of an ended interview is capped by that in between, against "interviewers are never
  capped" (`158`, `185`);
* a view that arrives out of order leaves `questionFor` set although the state is not taken over, so a
  later promotion does not fetch the question (`InterviewStore.ts:61`; history `late`).

AI reviews:

* somebody who is taken out of the interview while the model is called is told that the review failed and
  did not count, while it is completed and counted (`reviews.ts:128`, `157`; history `withheld`);
* when the save fails or its answer is lost, the requester is told that the review did not count while
  usage was or is recorded (`reviews.ts:411`–`485`); a commit whose answer is lost is counted twice;
* a reservation that lapses or whose board is purged lets one review too many through (history
  `lapsed`).

**Fairness.** In `room_alone` the event loop takes every continuation, timer and reply that is due
(weak fairness). Postgres may fail again and again but not for ever: strong fairness of an append's
commit and of its reply, since each retry enables them anew. Users, crashes and purges are under no
obligation. Liveness is checked for one instance without lease changes: nothing obliges Redis to leave a
writer its lease for long enough.

In `session` browsers run their timers and frames and handle what arrives; a ticket is answered at last by
a server that is up, with what it says then (an error is under no obligation, and may come only within
`MaxFaults`); the server authorizes, registers, handles messages, loads the room, flushes and
delivers revocations; a shutdown flushes, ends, and the process is started again, by the orchestrator in
`infra/`. Nothing obliges users, the network or access to change. Each of these is weak fairness: none of
the steps is disabled again and again by a disturbance, of which there are `MaxFaults`.

The other runs check safety, or action properties, without fairness.

## 4. Proofs

Every statement below is checked by TLAPS for all values of the constants.

* `BoardRepositoryProofs`. The inductive invariant `IInv` is `TypeOK` with two strengthenings. `Numbered`
  says of a board that is not purged: the greatest snapshot number `last` exists (0 without snapshots)
  and is at most `lastSeq`, the archive is `1..last`, the live rows are `(last + 1)..lastSeq`, and a
  board from a template has a snapshot. Without the bound on `last` an append could put a row under a
  snapshot. `PurgedIsEmpty` says that a purged board has no snapshots. Together they give `TypeCorrect`
  and `WholeHistory`; `FaithfulAlways` is proved on top of them, each step keeping
  `SnapshotsAreFaithful`. `RefinesLog` proves that `BoardRepository` implements `DurableLog`: appends
  map to `Extend`, client snapshots to `Replace`, the purge to `Delete`, everything else to a stutter;
  that compaction stutters needs the faithfulness of the snapshot it starts from.
  `ReadersKnow` says what the locals of a reader are worth at every statement:
  after the live rows were read, each row it should see is in its hands or already archived;
  after the snapshot was read, each later row is live or under a newer snapshot. It gives
  `SinceComplete` and `LoadMisses`.

* `AiReviewsProofs`. `QuotaHolds` proves `QuotaHoldsUnlessLapsed`. `Holds(k)` is what has a part of the
  allowance `k`: a review that was let in and is not inserted yet, a reservation, or usage that counts.
  The inductive invariant `IInv` says that `Holds(k)` is never larger than the allowance; to keep it, it
  needs `ReservationsOK`: a review under way that has not lapsed is reserved or recorded at every
  step, with no gap between the two (`KeepsItsPart`), and what was let in is younger than `Lapse` for
  every transaction that has begun by now (`IsSeen`). `CountSeesAll` is the heart of it: with the key
  free, nobody is between count and insert, so the transaction's count is at least the size of
  `Holds(k)`; `Insert` adds one to a count below the allowance. That a transaction counts as of its
  *beginning* and not of the moment it got the lock is why `since` is in the count.

  `OneStory` proves `OneStoryUnlessFailedOrWithheld` from `Story`, which says for each step of a review that
  met no failure what its row, its usage and its answer are by then; others' steps leave all three alone,
  but for a purge, which is in the hypothesis. A `withheld` review is a completed and counted one whose
  requester was told otherwise.

* `RoomManagerProofs`. Four layers, each proved on the ones before it.
  1. `ServedInv` is types, the shape of the promise chain (`ChainShape`: the batch and the marker belong
     to a flush at the head) and of the room's life (`RoomShape`), and `Served`: what is queued in a writer
     has a timer, a task that waits or runs, or a close at work. It gives `QueueIsServed`.
  2. `Owed`: every continuation that is due or chained belongs to exactly one awaiter that waits for it.
     `Orderly`: an instance that does not write has nothing queued, a closing one writes with its timer
     off, and once the close has its first answer only the close's own tasks are in the chain. `Orderly`
     and `leftBehind = {}` hold until a close is cut into (`raced`), which is
     `NothingLeftBehindUnlessRaced`.
  3. `Truthful`: `persisted` is stored; the marker of a flush is stored once its append has committed, and
     before that is stored or in the batch; a writer's document is stored, in the batch or queued, unless a
     catch-up is to come. This is `AckedIsDurable...` and `WriterCovers`, and needs layer 2, because a
     deactivation that empties a queue between a marker and its commit makes the marker a lie.
     `Alone` (not `Clustered`: the room is written as long as it is there, no catch-up) closes the case
     where `raced` says nothing, hence `AckedIsDurable` without exception on one instance.
  4. `Grounded`: document and log are closed under `Before`, and each queued update builds on the log and
     what is queued ahead of it (`LaidDown`): putting a failed batch back in front, taking a catch-up, and
     committing a prefix keep that. It gives `StoredIsIntegrated`.
* `PrivateBoardProofs`. Layers again, the first four for any number of clients, instances, connections and
  rows, the last for one instance.
  1. `Basis` is types and what the rest keeps citing: a connection has one client and is a member only of
     an open room (`Members`), ids of snapshot requests are not reused (`Numbered`), and a room's log does
     not claim more than the tables have (`Logs`: an entry with a seq is that row, a request or an answer up
     to a seq comes from a room that has seen that far, an install that is done is not newer than the
     latest snapshot, a batch that got
     its seqs is in those rows). It gives `PrivateBoardTypes`. `AscendingOf` proves that the positions `Picked` and `RowEntries` take are all
     there, in order: an induction over cardinality, done by the least counterexample because an induction
     theorem cannot be instantiated.
  2. `Shows`: all a room knows its members have been sent or have (`Showing`, in `Sees`), what a client
     has not sent yet it has in its document (`Writing`), a client that is asked for a snapshot up to
     a seq has, by the time it reads the request, everything up to that seq (`Asking`), and an answer that
     arrived, an installed snapshot, and the latest stored one hold the rows they stand for (`Covering`),
     each but for `hidden` rows. Installs may commit, return and fail in any order; a log that an older one
     overwrites knows what it has lost, and all of that is hidden (`Advances`).
     That is `SnapshotsCover`. It fails without `Asking`: an answer is late by definition, and covers only
     because the request went down the same ordered stream, behind the rows.
  3. `Counting`: nothing the server holds or sends, an acknowledgement, a marker, a counter of an entry, is
     beyond the number the client has reached on that connection (`Counted`, `Unopened`), and updates come
     in the order of their numbers (`Numbers`).
  4. `Reaching`: what a synced client has in its document is on its way (`Carried`) or in its room, the
     database, or forgotten (`Receiving`), and so is what a stream brings down (`DownSafe`) and what
     an installed snapshot holds (`Installed`). With layer 3, a client that waits for nothing has nothing on
     the way: `SavedWasReceived`, for any crashes, relays and handovers. Clustered rooms allow no more: an
     acknowledgement is not a proof of storage there (see "Seen while modelling").
  5. `Alone(i)`, for `Instances = {i}`, the deployment without a Redis bus (`index.ts:53`). The room writes whenever it is open and hears nobody (`Solo`). Of every update that was
     ever sent, `Traced` says where it is: on its stream, in the room, queued, cut or stored; if its number
     is announced to its client it is stored. `Heard` is that counters of the log do not skip an update, which
     a bus breaks. `Storing` follows an edit of its author from the frame through the queue of the sender to
     the update it travels in; `Answering` says that the last acknowledgement of a member is on its way or has
     come. They give `SavedWasStored` and `AnsweredInTheEnd`.
* `SyncSessionProofs`.
  `TransportInv` (a tab of a browser that is online and not excused is not "offline", and has a socket, a
  timer or an attempt unless access was denied) is kept by each method of the class, whatever state it
  finds: `NeverStrandedUnlessBlinked`.
  `SessionTypesInv` types messages with the database: an acknowledgement on a wire names only what is
  stored, and what is stored stays. It gives `SavedInsertionsAreStored`.
  `AccessInv` bounds every connection, phase by phase, by what its source gives: at most that until it is
  registered (unless access changed in between, `raced`), afterwards at most that or there is an event on
  the way that will close it. With an empty queue of events it is `RevokedIsClosedUnlessRaced`.
  `LinkInv` gives `QuietIsSent`: what a tab and the room lack of each other is on the wire. Before the tab
  has heard its socket open, the answer to that will be its vector; after that each difference is in an
  `ops`, `step2` or `update` message, an edit of the frame, or a `step1` still to be answered. No two tabs
  share a socket, so a step of one leaves the others' wires alone. TLC checked `LinkInv` in the instance of
  `session` before it was proved.
* `OwnedBoardsProofs`. `OwnedInv` adds to the properties that an enforcement's limits are those of the plan
  or a new one is due (`InTime`), that only boards whose seats were not looked at are in the trash
  (`Trashed`), that a person has one seat per board (`SeatedOnce`), and that an enforcement has read every
  seat there is as it is, but for those claimed since (`Known`). The count of active seats after an
  enforcement is bounded by an injection from them into the limit's first seats (`EarlyAreActive`). A claim
  keeps it because it counts under the lock of the board's seats. `Alone` is about a request that found an
  invitation open with no other request at it: nobody has accepted it meanwhile.
* `BillingProofs`. `Followed` says that the webhook of the provider's last change is unanswered or our row
  is a copy, and that what a sync under way has fetched is the last state or that webhook is still
  somebody else's (`Answers`); `Locked`, one holder of a subscription's key, keeps two syncs from
  overwriting one another. So `AnsweredIsApplied` holds whatever transactions are under way. `Known`: there
  is no row without a subscription at the provider. `GrantsFollow` is the property for every row and set of
  members a transaction may hold. `Unhandled` and `Enforced`: a grant that has not ended is not marked
  handled, and a person whose limits are not those of the plan has an ended grant the sweep has not
  handled. `GraceIsNeverExtended` and `RemindedOnce` follow from what a sync keeps of its row.
* `InterviewProofs`. `Informed`: a connected tab has the current state, or a broadcast to it is under way,
  or a commit is not announced, or the broadcast of just this state was lost. With `IsRight` (a state on the way was that interview's at that version,
  with the role of its receiver), `IsNewerState` can only move a tab forwards, so no order of
  arrivals takes it back: `ShownIsCurrentUnlessLost`. `Fetching`: a question that was asked for is there, or its
  answer is on its way, or came in another role. `CapsKept`: a socket's cap is what the interviews make it,
  or an announcement will close the socket. `Clocked`: the columns of a row that no request raced on
  tell how long it ran and what was revealed (`Tells`), for arbitrary clocks. `OneRunning` stands for the
  unique index.

**Assumptions.** The proofs assume only the named assumptions of the constants:

| assumption | says |
|---|---|
| `RepositoryAssumption` | the template's payloads are payloads; `MaxBatch` and `MaxSeq` are naturals |
| `EditsAssumption`, `AwaitersAssumption`, `LimitsAssumption`, `ClosersAssumption` | deletions are edits, `Before` maps edits to sets of them; names of awaiters differ; limits are positive |
| `ProtocolAssumption`, `RoomAssumption` | every edit has an author, edits written earlier are none of these; the bounds are naturals |
| `SessionAssumption`, `StartsAssumption` | insertions and deletions differ, sockets are positive numbers, `Starts` is typed |
| `OwnedBoardsAssumption` | shared boards are boards, there is a free plan, limits are naturals, boards are finitely many; `Init` takes a plan that has room for the shared boards |
| `BillingAssumption` | the order of seats is a list without repetitions that has all students and is not empty; numbers are naturals |
| `InterviewAssumption` | types |
| `AiReviewsAssumption` | finitely many reviews, allowances and `Lapse` naturals |

Queues, wires, clocks, numbers of tabs, edits, members, evictions, seats, webhooks and failures are
arbitrary. The bounds of the instances (`MaxChain`, `MaxFaults`, budgets) are parameters of the guards
there too, so a theorem holds for every value of them. `SavedWasStored` and `AnsweredInTheEnd` have the
hypothesis `Instances = {i}` in their statement; everything else about them is arbitrary.

**Only model-checked.** Liveness (`EditsAreAcked`, `EditsAreSaved`, with their fairness) and
everything about `ENABLED`, which this prover does not handle. `Converged` of `PrivateBoard`: it is no
theorem of all constants, since with snapshots a captured edit refutes it (see "Seen while modelling"), and is
claimed for the two instances without snapshots of its run. `SavedIsStoredUnlessResumed` and `NobodyWaits`
are proved for one instance; with a bus they do not hold (the same section says how). `RoomManager` takes the
log and its loads as `LoadResults`; that `BoardRepository`'s loads are among these is not a theorem, the two
modules share no state.

## 5. Not modelled, and the plan

In order of importance:

1. A specification in which `RoomManager`'s `stored` is the log of `DurableLog`, so that what is proved of
   the tables and of the queue meets. The same for the rows of `PrivateBoard`.
2. `SyncCluster`: several instances of a normal room with a lossy bus, and leases with expiry.
   `RoomManager` has these as environment, `EncryptedRoom` for private boards without expiry.
3. Live hints, the spend limit, and who sees an interview's reviews; scorecards and notes of interviews,
   whose draft saves overlap a submission (`interviews.ts:550`).
4. The limiter of windows and `limitedWrites`, the memory repository against `DurableLog`.
5. `BoardDocument`, `DesignGraph`: z-order keys, undo and design rules as operators against reference
   definitions over bounded inputs.

Left out for good: the React application's rendering, the public site, the adapters of the payment
and mail providers, prompts, migrations, load tests and tooling: I/O, text or data without
behaviour of their own. `PROJECT.json` says so component by component.
