# VerseLink in TLA+

VerseLink is a Node/PostgreSQL server for groups of players (blueprints,
orders, missions, inventories) with a Windows tray client, written in Go, that
reads the game's log and reports a player's *presence*.  This directory holds
TLA+ models of it, the TLC configurations that check them, and proofs checked
by TLAPS.

It has three parts: **presence delivery**, from the tray client's revision file
to the row in PostgreSQL, step by step and composed; the **telemetry service**
around it (limiters, heartbeat, pairing, connection pool, the history its owner
reads) with the SCMDB sink; and the **community** part of the server (accounts,
groups, missions, materials, orders, personal inventories).

    tlc -config TelemetryPresence_safety.cfg MCTelemetryPresence.tla
    tlapm TelemetryPresenceProofs.tla     # and the other *Proofs modules

## Inventory

Paths are relative to the repository.  *State* is what a component keeps
between operations.

### Server (`src/`)

| Component | State | Operations | Hard because | Correct if |
|---|---|---|---|---|
| presence endpoint (`telemetry-presence.js`, `telemetry-device-auth.js`) | `telemetry_devices.last_presence_revision`, `telemetry_presence`, `telemetry_presence_history` | PUT presence: limit, authenticate, lock, decide, store | two lookups around a transaction, two row locks, lost COMMIT answers | stored snapshot is current; mark monotone; linearizable |
| device management (`telemetry-management.js`, `telemetry-history-cleanup.js`) | devices, history | list, rename, revoke, delete history, expire | race with PUT | nothing survives a revocation; history follows presence |
| account administration (`server.js`) | `app_users`, everything that cascades | block, reactivate, delete, transfer groups, clear tables | opposite lock order to PUT | no deadlock is final; no snapshot, code or session of a blocked account |
| pairing (`server.js`) | `telemetry_pairing_codes`, devices | create code, claim, expire | concurrent claims, blocked owner, lost answer | one live code per account; a code is redeemed at most once |
| heartbeat (`telemetry-heartbeat-handler.js`) | `last_seen_at` | POST heartbeat | a lookup, an UPDATE, a second lookup | a device is told what was true of it during the request |
| authentication slots (`telemetry-auth-inflight.js`) | slots per peer, total | acquire, release | release exactly once, full table of peers | counters match running lookups |
| rate limiters (`rate-limit.js`) | windows per key | allow, consume, recordFailure, cleanup | capacity, window edge | two budgets at most in any window's length; waiting as told helps |
| database pool (`server.js`) | ten connections | connect, query, release | handlers that take two | it stops only when a holder asks for a second connection |
| missions (`server.js`) | missions, tasks, contributions | create, edit, assign, contribute, complete | share locks upgraded, roles read outside | progress follows from contributions; active tasks are with members |
| orders (`server.js`) | `material_orders`, `material_order_deliveries` | create, claim, report, complete, hide, cancel | read, then write without a transaction; deliveries go with accounts | completed means it was delivered; exact unless reports overlap; one claimer unless claims do |
| groups and invites (`server.js`) | groups, members, invites | create, join, leave, transfer, remove, delete | check then act | one owner; a one-time invite lets one join |
| browser accounts (`server.js`, `auth-primitives.js`) | users, tokens, sessions | register, log in, recover, log out, recovery key | races with blocking | no session of a lost VerseLink ID; a recovery key works once |
| SCMDB connection (`server.js`, `scmdb-sink-config.js`) | connections, revoked tokens, blueprint events | connect, sink, disconnect | sink races disconnect | an event counts once; a token serves one sender, none after revocation |
| personal inventory (`server.js`) | items, events | add, edit, wipe, patch reset | read, then write | no more offered than there is; resets keep everything |
| material inventory, mining pools (`server.js`) | contributions, withdrawals, pools | contribute, withdraw, move, clear | advisory lock, a transaction sent through the pool | withdrawals never exceed stock; connections are returned clean |

### Tray client (`telemetry/`)

| Component | State | Operations | Hard because | Correct if |
|---|---|---|---|---|
| revision store (`internal/revision`) | state file, lock file | Acquire, Release, Advance, AdvanceAtLeast | crash between write, rename and sync; two processes | revisions strictly increase for ever |
| presence monitor (`internal/connection/presence_monitor.go`) | latest, sent, pending, blocked | receive snapshot/config, send, retry, reconcile | timeouts, overtaken answers, restarts | the last snapshot is delivered |
| heartbeat monitor (`internal/connection/heartbeat.go`) | health | send, wait, stop on 401/403 | configuration change during a call | health tells the truth |
| pairing flow (`internal/connection/flow.go`, tray) | settings, credential, lock | claim, persist, undo | partial failure | paired only if all three are there |
| game log (`internal/gamelog`) | offset, anchors, session | poll, reset, restore, parse | rotation, truncation, partial lines | each complete line once, in order |
| reducer (`internal/telemetry`) | telemetry state | Reduce | long event sequences | fields are cleared together |
| runtime host (`internal/runtimehost`) | phase | discover, monitor, retry, emit | ticks against cancellation | the last status is emitted |
| tray (`cmd/verselink-telemetry-tray`) | status store, channels, windows | publish, disconnect, shut down | one-place channels, shutdown timer | the newest value wins; exit happens once |
| diagnostics (`internal/diagnostics`) | ring of log lines | Record, Snapshot | wrap-around | the last lines, in order |

Of the browser front end only the history on the profile page keeps state worth a
model (`HistoryView`).  Left out, with reasons in `PROJECT.json`: companion, log
discovery and autostart, update check, reference-data synchronisation, loggers.

### How they interact

    game log -> tailer -> session/parser -> reducer -> runtime host
                                                         | OnLiveSnapshot (channel of one)
    revision file -- Advance --> presence monitor <------+
                                   | PUT, revision + snapshot (HTTPS, may be lost or late)
                                   v
      limiter -> authenticate -> BEGIN, lock device, lock user -> decide -> COMMIT
                                   ^                ^
       owner's browser (revoke, delete history)     administrator (block, delete)

## Modules

| Module | Models | Uses |
|---|---|---|
| `PresenceRegister` | abstract: what PUT presence promises, as an atomic register | |
| `TelemetryPresence` | the endpoint, management and administration, step by step | implements `PresenceRegister` |
| `TelemetryPresenceProofs` | theorems about `TelemetryPresence` | TLAPS |
| `RevisionCounter` | abstract: strictly increasing revisions | |
| `RevisionStore` | `internal/revision`: lock file, state file, crashes, power loss | implements `RevisionCounter` |
| `RevisionStoreProofs` | theorems about `RevisionStore` | TLAPS |
| `PresenceSync` | presence monitor, tray and network | composes with `PresenceRegister` |
| `PresenceSyncProofs` | theorems about `PresenceSync` | TLAPS |
| `RequestLimit` | `createRequestRateLimiter` | |
| `Heartbeat` | the heartbeat handler and the authentication slots | |
| `OneTimeCode` | abstract: what a pairing code promises | |
| `Pairing`, `PairingProofs` | creating, claiming and ending codes | implements `OneTimeCode`; TLAPS |
| `PoolUse` | the connection pool and the handlers that take two | |
| `HistoryView` | the history on the profile page, its listing and deletion | |
| `AtomicSink` | abstract: deliveries that take effect at one moment | |
| `ScmdbSink` | SCMDB connections and the sink | implements `AtomicSink` |
| `Accounts` | logins, recovery, key rotation, blocking, deletion | |
| `Membership` | abstract: joins that happen at one moment | |
| `Groups` | roles, invites, transfer, deletion | implements `Membership` |
| `Missions` | tasks, contributions, derived status, leaving members | |
| `Materials` | contributions, withdrawals, moves, clearing | |
| `Orders` | claim, report, complete, cancel, clear, deletion of a member's account | |
| `PersonalInventory` | one item of an account, patch reset, sink, restart | |
| `MCClients`, `MCCommunity` | run the modules above side by side | `Pairing`, `Groups`; instances of the others |
| `Sums` | lemmas about sums over finite sets | TLAPS |
| `ClientsProofs` | theorems about the parts of `MCClients` | `PairingProofs`, `Sums`, TLAPS |
| `CommunityProofs` | theorems about accounts, groups and missions in `MCCommunity` | `Sums`, TLAPS |
| `GoodsProofs` | theorems about its materials, orders and inventories | `CommunityProofs` |
| other `MC*` | symmetry sets and constants for TLC | |

The pieces fit together by refinement.  `PresenceSync` does not repeat the
endpoint: it uses the register, and `TelemetryPresence` is shown (TLC) and
proved (TLAPS) to implement the register.  It does not repeat the file either:
its `counter` is `RevisionCounter`'s promise, which `RevisionStore` is shown
and proved to implement.

### TelemetryPresence

One process per request (`Handlers`), each at a label of the handler's code:

| `pc` | Code in `telemetry-presence.js` | Actions that leave it |
|---|---|---|
| `idle` | no request | `Receive` |
| `received` | 110-139 | `RateLimited`, `Authenticate`, `Fail` |
| `lockDevice` | 143-152, before the device row is locked | `LockDevice`, `NoOwner`, `Fail` |
| `lockAccount` | 143-152, waiting for the user row | `LockAccount`, `NoOwner`, `ResolveDeadlock`, `Fail` |
| `decide` | 159-212, both rows locked | `StaleRevision`, `Duplicate`, `RevisionConflict`, `Accept`, `Fail` |
| `reauth` | 155-157, after ROLLBACK | `Reauthenticate`, `Fail` |
| `answered` | response sent | `Respond` |

`SELECT ... FOR UPDATE OF d,u` takes two row locks one after the other and, at
READ COMMITTED, evaluates its condition again when it had to wait; so it is two
actions.  Who holds a lock is a function of `pc` (`HoldsDevice`,
`HoldsAccount`) and of `purging`, the account deletions that hold the user row.
Everything between the locks and COMMIT reads and writes only locked rows and
is one action; a failure in it rolls back (`Fail`).  Accept may still answer
503: the COMMIT took effect, its confirmation did not arrive.

A snapshot is its `place` (the four fields history keeps), its `rest` (what is
stored besides) and its `noise` (`shard`, `party_count`: validated, never
stored).  `ExpireHistory` removes a lowest part of a device's history.  The
batch is ordered by `received_at` and may stop anywhere; `received_at` is
`clock_timestamp()` under the device's lock, so it orders a device's rows as
the revisions do as long as the database's clock is not set back.

### RevisionStore

`file` is what the directory shows, `disk` what a power loss would leave.
Between them stand `ReplaceFile` (rename) and `SyncDirectory`, or the system's
own `Persist`.  On Windows the rename is written through and `SyncDirectory`
does nothing: that is the case where `Persist` follows at once.  The temporary
file never becomes visible before it is complete, so its content is not
modelled.

### PresenceSync

`mon` is the position in `runConfigured`; `run` is the head of its loop,
`call` and `called` the two selects around a request (in the second no snapshot
is taken), `wait` the retry timer.  The five members of `Blocked` are the
`blocked` flag together with the reason it was set.  `off` is the first branch
of `Run`: no device is configured.  A request stays in the register's `phase`
and `req` after the monitor gave up on it or its process ended, so it may take
effect much later.  Launching assumes that the revision lock is obtained; a
client that does not get it never starts sending, and competing for it is
`RevisionStore`'s subject.  Pairing again makes a new device, with a register
of its own, so it is not an action here.

`Faults` switches faults on and off per run; it is a bound of the runs, not a
feature of the code.

### The telemetry service and the sink

*RequestLimit.*  `cleanup`, the check for room and the counting of one call
have no await between them, so `Consume` is one action; `allow` is `Preflight`.
A full map evicts nobody: it answers with the end of the first window
(`RefuseFull`).  `admitted` and `told` are history: who was let in when, and who
was told to come back when.

*Heartbeat.*  A statement is two actions: PostgreSQL evaluates it (`Lookup`,
`Update`), then the handler gets the result (`AfterLookup`, `AfterUpdate`,
`AfterRecheck`).  `Acquire` and `Release` are `tryAcquire` and the `finally` of
`run`.  Between any two of them `Admin` revokes, blocks, reactivates, deletes.
`was` collects what has been true of the device since the request started.

*Pairing.*  Both transactions lock the account's row, and then nothing else
that touches the codes runs, so what they do under the lock is one action.  What
they read before it is not: a claim finds its code's owner without a lock
(`LookupOwner`), and whether the code has expired is decided with the time of
BEGIN (`ClaimVerdicts`).  A COMMIT may take effect without its answer arriving
(`Commit`).  The other limiters in front of these handlers are `RequestLimit`
again.

*PoolUse.*  What the handlers of the other modules do between taking and
returning connections, reduced to that: one statement, a transaction that locks
a row, or one that asks for a second connection while it holds the first (the
presence PUT whose device was closed, the task PATCH with an assignee).

*HistoryView.*  The page's requests (`Press`), the server's statements (`List`,
`DeleteHistory`), the answers (`Answer`, `Fails`), while rows are recorded and
expire.  A render enables every button again, also those of a request that is
still running: that is how two of them overlap.

*ScmdbSink.*  A post reads the connection, locks its row, compares the sender,
applies and records the event and commits; each wait for somebody else's row is
an action of its own.  `Record` is the primary key on the event: an INSERT waits
for an uncommitted one of the same id.  `AtomicSink` is the same endpoint with
one step per delivery, at the commit; `counted` and `accepted` are its `applied`
and `answered`.

### The community part

*Accounts.*  A login is three statements outside any transaction; recovery and
rotation lock key, account and token rows in different orders, and `Abort` is
PostgreSQL ending a cycle of them.  `DeleteSessions` and `DeleteUser` are the
first and last statement of the account deletion; a session committed in between
makes it fail on its foreign key.

*Groups.*  A join locks the invite, inserts the member (needing the group's
row), then counts the use; a deletion takes the group's row first and the
invites' rows later, so the two can wait for each other (`AbortJoin`,
`AbortDelete`).  A transfer checks, and writes all roles in one later UPDATE.
PostgreSQL judges `expires_at > now()` by the time of the request's BEGIN, so
"expired" here is an invite that no later lookup finds alive.  `Membership` is
the same endpoints with one step per join, at the use of the invite; the members
are those with a role.

*Missions.*  `Lock`, `Note`, `Recalc`, `Commit` are the statements of one
transaction in their order: the task's row, the notifications (which share the
mission's row), the mission's row, COMMIT.  A member's leaving is an UPDATE that
matches tasks (`Leave`) and, once their locks are free, looks at them again
(`Left`).

*Materials.*  `open` and `newAdded`/`newTaken` are transactions by connection,
because clearing sends BEGIN, its DELETEs and COMMIT through the pool: each lands
on any idle connection and acts on whatever transaction that is in.

*Orders.*  A request reads the order and decides; what it writes does not look
again.  Only a report is a transaction, whose SUM sees what is committed.
`reported` is the committed deliveries, added up by member, because
`CloseAccount` deletes those of one member (`ON DELETE CASCADE`) and sets
`assigned_to` to NULL, and leaves `status` and `delivered_quantity` alone.  It
waits for the member's reports that have inserted, as `Clear` waits for all: the
foreign keys share the rows that are to go.  `erased` remembers how much went so,
`basis` how much of it before the SUM that `delivered_quantity` comes from.
`Abort` is any statement that fails; the claim or report of somebody who is gone
ends there.

*PersonalInventory.*  An edit reads quantity and settings by two queries and
writes the whole row; a reset reads, deletes and inserts; the sink changes the
quantity alone; the server's start repairs what is above it.

These modules share no rows beyond what one of them has as state of its own (who
is a member, whether an account is open), so the runs do not interleave them:
`part` says which one a behaviour follows.

## Runs

| Run | Instance | States | Shows |
|---|---|---|---|
| `TelemetryPresence_safety` | 1 device, 2 handlers, 2 places, requests with revisions 0-3 | 464 k | `TypeOK`, `PresenceIsCurrent`, `VerdictNamesTheMark`, `MarkAdvances`, `ImplementsRegister` |
| `TelemetryPresence_history` | 1 device, 1 handler, 2 places, 2 noises, requests with revisions 0-5 | 106 k | `HistoryFollowsPresence`, `HistoryOnlyFromAccepted` |
| `TelemetryPresence_fleet` | 2 devices of 1 account, 2 handlers, 1 place, requests with revisions 0-2 | 766 k | `OneDeciderPerRow` |
| `TelemetryPresence_live` | 1 device, 2 handlers, 1 place, requests with revisions 0-2; fair | 59 k | `RequestIsAnswered` |
| `TelemetryPresence_unknown` | as `TelemetryPresence_safety` | violated | `UnknownMeansUnknown`, see [Findings](#findings) |
| `RevisionStore` | 3 processes, 4 revisions | 25 k | `OneHolder`, `IssuedIsDurable`, `ImplementsCounter` |
| `PresenceSync_safety` | 2 requests in flight, 2 places, 3 revisions, all faults but a restored file | 2.2 M | `TypeOK`, `OneBodyPerRevision`, `CounterIsAhead`, `AcknowledgedIsShown` |
| `PresenceSync_live` | the same, 4 revisions; crashes, lost messages, server restarts; fair | 401 k | `Delivery` |
| `PresenceSync_restore` | the same, 3 revisions; crashes and restored revision files; fair | 219 k | `Reconciliation` |
| `Clients` | limiter: 3 keys, room for 2, limit 2, window 2, 4 ticks; heartbeat: 3 requests, 2 peers (room for 1), 1 device; pairing: 2 creations, 2 claims, 3 codes; pool: 4 handlers (2 ask twice), 2 connections, 2 rows; sink: 3 posts, 2 connects, 2 tokens, 2 events, 2 senders; view: 2 requests, pages of 1, 2 instants with 2 ids | 1.19 M | `BudgetIsExact`, `RetryIsUseful`, `SlotsAreExact`, `AnswersAreTimely`, `OneLiveCode`, `ImplementsOneTimeCode`, `StuckOnlyByNesting`, `SinkIsAtomic`, `SinkIsOwned`, `ViewIsFaithful`, `PartsTypeOK` |
| `Community` | accounts: 2 logins, 2 recoveries, 1 rotation, 3 secrets; groups: 3 people, 2 joins, 2 transfers, 1 invite; missions: 2 requests of 4, 2 users, 2 tasks, target 2; materials: 2 withdrawals, 1 clear, 2 connections, 2 places, stock 2; orders: 4 requests, 2 members, 2 required; inventory: 2 edits, 2 resets, 2 locations, quantity 1 | 1.49 M | `KeyWorksOnce`, `OldSessionsEnd`, `OneOwner`, `JoinsAreAtomic`, `ProgressIsExact`, `StrayAssignments`, `StockIsCovered`, `IdleIsClean`, `OrderIsConsistent`, `InventoryIsKept`, `PartsTypeOK` |
| `Missions_members` | 1 request at a time of 3, 2 users, 2 tasks | violated | `ActiveAssigneesAreMembers`, see [Findings](#findings) |

Bounds.  Two handlers are enough for any two requests to meet at every pair of
labels; a third would only wait for the same two locks.  Requests carry every
revision from 0 to one past the largest, so both ends of the valid range are
there.  One account owns all devices in the fleet run, since devices of
different accounts share no row.  Two places tell "changed" from "same" and
allow a return to an earlier one; with four revisions a history can go
a, b, a, b with deletions in between.  In `PresenceSync` two requests are one
forgotten by an earlier run and the current one; three revisions are one for
each of them and one above, and one more value in the liveness run keeps
running out of revisions from being the usual end.  Symmetry is used for
handlers and places in runs without liveness properties.

In `Clients` and `Community` the initial state chooses the part, so the states
of the parts add up and do not multiply.  Several parts take the same model
values (a key is also a request, a code and a post), so that one symmetry
set serves them all.  Two requests of a kind let each meet another of its own
kind at every step; a third creation, transfer or reset would wait for the same
row.  The limiter has one key more than room, a window of two ticks and time for
two windows; the pool has fewer connections than nesting handlers plus others,
so it can run dry with and without them; codes, secrets and events outnumber
the requests that use them up by one where running out would hide a case.  A
material's stock of two and an order of two are the least at which two requests
can each be admissible and together not.  `MaxRequests` bounds the transactions
on a mission, `MaxTime` the clocks of limiter and view.  Deadlock is not checked
in these two: requests are used up, and the pool really does stop
(`StuckOnlyByNesting` says when).

Fairness.  `TelemetryPresence`: a handler's own code proceeds (weak fairness of
`Work`; Node's event loop runs every callback), PostgreSQL queues the waiters
of a row lock, so a waiter that can be served again and again is served (strong
fairness of `Await` and `FinishPurge`), and the deadlock detector runs
(`ResolveDeadlock`).  No client, owner, administrator or fault is assumed to
act.  `PresenceSync`: the monitor's goroutine is scheduled and its timers fire,
a broken connection is noticed (10 s timeout), and the register answers, which
is `RequestIsAnswered`.  `Delivery` and `Reconciliation` say what holds if
observations and faults (`Disturb`) stop at some time; they say nothing of
behaviours in which these go on for ever.  The parts of `Clients` and
`Community` are checked for safety only: no fairness is assumed there.

`Delivery` allows the monitor to end without a delivery only when the process
does not run, has no device, or has used up all revisions; `Reconciliation`
allows every reason to stop that the code has.

### What the other runs show beside their properties

An exception in one of these properties is there because the code behaves so; some
behaviours no property speaks about are added where the actions show them.

* `OneOwner`: the new owner leaves, or is removed, between the check and the
  UPDATE of a transfer: the group has no owner.  So it has when an account
  becomes owner while it is being deleted.
* `OldSessionsEnd`: a login that had found the VerseLink ID before a recovery (or
  before its account was blocked, of which no property speaks) inserts its
  session afterwards.
* `OrderIsConsistent`: two overlapping reports each write their own sum
  (`delivered_quantity` loses one, and more than required can be delivered); a
  report, claim or completion that was decided before a cancellation overwrites
  it.  Two members who both read the order as open both claim it, both are told
  so, and the last UPDATE counts (`contested`).  When a reporter's account is
  deleted, his deliveries go and the order keeps its status and
  `delivered_quantity`: a completed order may then have less than required among
  its deliveries (`erased`), and the SUM of the next report falls below what the
  order said before.  A claimed order whose claimer is deleted stays claimed, by
  nobody, and cannot be claimed again.
* `StockIsCovered`, `IdleIsClean`: a clear takes no advisory lock, and its BEGIN
  and COMMIT may use different connections; then a connection stays in a
  transaction, and later statements on it are in no committed state.  Neither
  property speaks of what follows such a clear (`torn`); that one which keeps to
  a connection of its own closes what it has begun, they do say.
* `InventoryIsKept`: a row written between a patch reset's read and its DELETE is
  lost or comes back.  What the sink takes from a row leaves `trade_quantity`
  above the quantity; the repair at start then keeps a quantity for trade on a
  row that is `NOT_FOR_TRADE`, which a later PATCH that does not change it is
  refused for, and a reset lists again.
* `StuckOnlyByNesting`: with every connection held by a handler that asks for a
  second one the pool stops for good, as it has no timeout.
* `ViewIsFaithful`: LOAD OLDER pressed again after another answer rendered
  the page shows rows twice; a page that arrives after a deletion shows deleted
  rows; a reload in between leaves a gap.
* Deadlocks PostgreSQL ends, one of the requests answering 500 or 503: login with
  recovery, sink with connect, joining with deleting a group, two concurrent
  creations of a mission's tasks.
* A post to the sink that began while the account was open is still accepted
  after it was blocked.

### What holds only with a qualification

* After a **restored revision file** a request of the earlier run that is still
  on its way has a higher revision than what the restored client sends first.
  If it arrives later it replaces that snapshot, and the client does not learn
  of it.  `CounterIsAhead` and `Delivery` are therefore checked without
  restored files, `Reconciliation` with them.
* After an account is **blocked and reactivated** without a request in between
  the server has no snapshot and the monitor sends none until the state
  changes: it compares with what it sent, and heartbeats carry no snapshot.
  `Delivery` is checked without blocked devices.

## Findings

`UnknownMeansUnknown` (run `TelemetryPresence_unknown`): the account of a
paired device is blocked after the request was authenticated, the locking
SELECT finds nothing, the account is reactivated, and the second lookup
succeeds.  The handler then answers `401 invalid_device_credential`
(`src/telemetry-presence.js:157`; the heartbeat handler has the same fallback),
a code `docs/telemetry/CONNECTION_CONTRACT.md:157` gives only to missing,
malformed and unknown credentials.  The client stops its authenticated calls
until it is configured again.

`ActiveAssigneesAreMembers` (run `Missions_members`): a member completes a task
and leaves, which takes only active tasks from him
(`unassignOpenMissionTasksForFormerMember`); then its target is raised or its
checklist reopened, and the active task is assigned to somebody outside the
group.  The same happens when he leaves between the lookup of the assignee
(`src/server.js:2486`, `:2539`) and the commit.  `public/changelog.html:18`
promises that "active assignments, former-member history, and completed work
remain consistent when group membership changes", `README.md:69` assignment "to
active group members".  `StrayAssignments` says that these are the only ways.

## Proofs

TLAPS proves every safety property of the passing runs, the refinements and the
action properties among them, for every value of the constants.  The
hypotheses are the assumptions the modules state for their constants, which TLC
evaluates in the runs: `PresenceAssumption` (every device has an owner among the
accounts, at least one revision), `StoreAssumption` (`None` is no process),
`SyncAssumption` (`None` is no request), and `PartsAssumption` of `MCClients` and
of `MCCommunity` (those of the components: requests of different kinds are
different, `None` is nothing else, limits are positive, and what is added up or
counted - places, locations, handlers, the lookups of the limiter - is finite).

| Theorem | Statement |
|---|---|
| `TelemetryPresenceProofs`: `TypeCorrect`, `Currency`, `Exclusion`, `Verdicts`, `Recording`, `Monotonicity`, `History` | `Spec` implies `TypeOK`, `PresenceIsCurrent`, `OneDeciderPerRow`, `VerdictNamesTheMark`, `HistoryOnlyFromAccepted`, `MarkAdvances`, `HistoryFollowsPresence` |
| `TelemetryPresenceProofs!Implementation` | `TelemetryPresence!Spec => PresenceRegister!Spec` under the mapping `Register` |
| `RevisionStoreProofs`: `SoleUse`, `Durability`, `TypeCorrect`, `StoreImplementsCounter` | `OneHolder`, `IssuedIsDurable`, `TypeOK`; `RevisionStore!Spec => RevisionCounter!Spec` |
| `PresenceSyncProofs`: `Ahead`, `Bodies`, `Acknowledged` | `CounterIsAhead`, `OneBodyPerRevision`, `AcknowledgedIsShown` if the revision file is never replaced (`"restore"` is no fault) |
| `PresenceSyncProofs`: `TypeCorrect`, `UsesRegister` | `TypeOK`; `PresenceSync!Spec => PresenceRegister!Spec` of its one device; both whatever fails |
| `PairingProofs`: `LiveCodes`, `Implementation` | `OneLiveCode`; `Pairing` implements `OneTimeCode` |
| `ClientsProofs`: `BudgetHolds`, `RetryHolds` | `RequestLimit`: `BudgetIsExact`, `RetryIsUseful` |
| `ClientsProofs`: `SlotCounts`, `TimelyAnswers` | `Heartbeat`: `SlotsAreExact`, `AnswersAreTimely` |
| `ClientsProofs`: `PoolStops` | `PoolUse`: `StuckOnlyByNesting` |
| `ClientsProofs`: `SinkRefinement`, `Ownership` | `ScmdbSink` implements `AtomicSink` (`SinkIsAtomic`); `SinkIsOwned` |
| `ClientsProofs`: `AppliedOnce` | `ScmdbSink`: `EventsCountOnce`, which follows from `SinkIsAtomic` and has no run of its own |
| `ClientsProofs`: `HistoryIsFaithful` | `HistoryView`: `ViewIsFaithful` |
| `CommunityProofs`: `RecoveryOnce`, `SessionsEnd` | `Accounts`: `KeyWorksOnce`, `OldSessionsEnd` |
| `CommunityProofs`: `Ownership`, `JoinRefinement` | `Groups`: `OneOwner`; it implements `Membership` (`JoinsAreAtomic`) |
| `CommunityProofs`: `SingleUse` | `Groups`: `InviteOnce`, which follows from `JoinsAreAtomic` and has no run of its own |
| `CommunityProofs`: `Progress`, `Strays` | `Missions`: `ProgressIsExact`, `StrayAssignments` |
| `GoodsProofs`: `Stock`, `CleanConnections` | `Materials`: `StockIsCovered`, `IdleIsClean` |
| `GoodsProofs`: `OrderHolds` | `Orders`: `OrderIsConsistent` |
| `GoodsProofs`: `InventoryKept` | `PersonalInventory`: `InventoryIsKept` |
| `ClientsProofs!PartsTypes`, `GoodsProofs!PartsTypes` | `PartsTypeOK` of `MCClients` and of `MCCommunity` |

*The parts.*  `ClientsProofs` and the two community modules prove what the runs
`Clients` and `Community` check, of the same composition.  `PartsFollow` and
`CommunityFollows` say that a behaviour of the composition is, for each
component, one of that component's `Spec`: the others only let it stutter.  Each
component then has an inductive invariant of its own (`LimiterInv`, `BeatInv`,
`PoolInv`, `SinkInv`, `ViewInv`, `AccInv`, `GroupInv`, `MissionInv`, `StockInv`,
`OrderInv`, `InventoryInv`, and `IInv` of `PairingProofs`), one lemma per action
or group of actions, and one `...Invariance` lemma that the theorems cite.

*TelemetryPresence.*  The inductive invariant `IInv` adds to the properties what
makes them inductive.  `PresenceIsCurrent` alone is not: `Accept` stores a row
for the device it decides on, so `OneDeciderPerRow` has to say that this
device is admissible, and that in turn needs the locks: every action that ends
admissibility waits for a row which the decider holds.  A request past
`Authenticate` carries a valid revision, which is why the row it stores has the
right type.  Each action has one step in the proof, split by the conjuncts it
can disturb.  The refinement maps the decision under the locks to the
register's atomic step, a ROLLBACK that found nothing to `TurnAway`, and every
lookup and lock to a stutter; `Authenticate` maps to `Deny` because the
device is closed at that instant.

*RevisionStore.*  `IInv` adds `disk <= file` and `SaveIsAhead`: what the holder
is about to save is above the file, and after the rename above everything
issued.  With `OneHolder` nobody else moves the file in between.

*PresenceSync.*  None of the three properties is inductive.  The pending body
has the durable revision, the largest in use (`CounterIsLargest`), so a body
under a new revision meets no other (`OneBody`).  A verdict on the request that
is waited for says that the mark has reached the pending revision, and a
refusal that the server shows nothing (`CallIsPending`: with a revision that is
the largest in use, `stale_revision` cannot happen, and `revision_conflict` only
after the device was closed).  Therefore nothing but the pending body can still
replace what was acknowledged (`NothingElseToCome`), which `AcknowledgedIsShown`
needs when a delayed request is accepted.  Types need less, only that a revision
is obtained for a snapshot that was taken (`TypeInv`), and hold with replaced
files too; with them every step of the composition is one of the register or
leaves the server alone (`TypeStep`), so what is proved of the register, and of
the endpoint that implements it, is not undone by how the monitor uses it.

*Pairing.*  What a handler has decided stays true until it ends because it holds
its account's row (`DeciderHolds`, `VerdictStands`), and whatever closes the
account, or ends or makes a code of it, waits for that row.  In the refinement
the commit of a creation is `Issue`, that of a claim `Redeem`; looking up,
locking and expiring are stutters.

*Sums.*  Budgets, stocks, totals and connections in use are sums over sets
(`MapThenSumSet`), of which the library states no theorem.  `Sums` proves what
the components need: a sum without one element, with one value changed, over
two disjoint sets, over a part.  The induction on the set is done without an
induction theorem: a lemma is about a set of counterexamples among the subsets
of a finite set, of which one is minimal (`Minimal`, from the well-foundedness
of strict inclusion); in it one element is removed.

*RequestLimit.*  `BudgetIsExact` speaks of every interval and the code only
remembers the current window, which a full map or a cleanup forgets.  The
invariant therefore says of every key that some window, perhaps forgotten, was
its last (`LastWindow`), in which it spent a budget at most, and another at most
in any interval that ends before that window and begins less than a window's
length earlier (`Spent`).  When the next window begins, the last one becomes
part of the latter.  An interval that an admission falls into is cut where the
last window begins (`TwoAtMost`).  `RetryIsUseful` needs a counting argument: at
the time somebody was told, fewer entries than the map has room for can still be
open of those that were open before (`Across`, `ToldRight`), since the one that
was to end then has ended.  If the map is full, somebody has entered since.

*Heartbeat.*  `SlotsAreExact` is inductive with the types and with `IsKnown`
(whoever holds a slot has a peer); the arithmetic is that a request more or less
changes a finite set's cardinality by one.  `AnswersAreTimely` rests on
`ResultWasTrue`: a result was true when its statement was evaluated, and the
second lookup only runs if the device was closed at some moment.

*PoolUse.*  What a handler holds follows from where it is (`HoldsItsOwn`), who
waits is in the queue once (`QueueIsExact`), nobody waits while a connection is
free (`PoolIsUsed`), and a locked row has a running owner (`OwnersRun`).  So if
nothing can move the pool is empty, its holders wait, and a holder that waits in
the queue is one that asked for a second connection.

*ScmdbSink.*  A post at work has the connection's row, and what it found there
stays so (`Holds`); who has recorded an event's id is alone with it and first
(`RecordsFirst`), so applying it makes its count one.  With that every step maps
to one of `AtomicSink` or to none (`AtomicStep`): a delivery happens at its
commit (`DeliveryIsAtomic`), when what it found at its lookup is still so;
receiving, waiting, applying and every rollback are invisible
(`BeforeIsNothing`, `RollbackIsNothing`).

*HistoryView.*  A row's place is how many matching rows are newer; places number
the rows without a gap (`PlacesAre`), so a page is what comes first in the order
and nothing is left out above its last row (`Pages`, `ListedIs`).  What a call
has been told was such a page of the rows there were (`Told`), which stays true
whatever overlaps.  While nothing does, a call for more continues where the list
ends and has seen every row the list must have that is still there (`Alone`):
joining the two gives a list of that kind again (`MoreIsFaithful`).

*Accounts.*  Who has the account's row locked is alone and sees its newest
credentials (`LockedAccount`, `Newest`); a recovery that waits for that row has
the newest key or is too late for good (`WaitsWithKey`), and a login that found
its token still has it unless a recovery has overtaken it since (`FoundToken`).

*Groups.*  `OneOwner` needs to know that whoever a transfer is about to make
owner is a member, unless somebody has seen him off since (`TakerIsMember`,
with the history `lost`).  `InviteOnce` needs that an invite whose row a join
holds is live (`LockedIsLive`) and that a one-time invite which is still live
has not been used (`UnusedIsFresh`).  With these and `DoorInv` - a live invite's
group exists, a join that has inserted is of an account that exists, a join whose
use counts is over - every step maps to one of `Membership` or to none
(`DoorStep`): somebody is let in by the use (`UseIsJoin`), everything before it
and every transfer is invisible (`BeforeUse`, `TransferStutters`), and the
deletion of a group takes its invites and members at once (`CascadeIsDelete`).

*Missions.*  Between its `Lock` and its end a request's draft is exact and its
task's row is its own (`Carries`, `Apart`); the status it has computed is that
of the tasks with its draft in place, because it has the mission's row from then
on.  `StrayAssignments` needs the same of drafts and of what a leaving member's
UPDATE has matched (`Excused`).

*Materials.*  As long as no clear is torn, a withdrawal has a connection and,
once it has decided, the advisory lock (`Reserves`), and takes at most what it
saw (`TakesWhatIsThere`); no transaction takes away more than there is, and at
each place one at a time takes anything away (`NeverNegative`), so each of them
may commit or roll back in any order (`CloseKeepsCovered`).

*Orders.*  What was ever reported (`Ever`: the deliveries there are and those
erased with an account) never shrinks, so a decision to complete stays earned
(`CompletionIsEarned`).  The sum a report has seen is at most that and its own
delivery (`TotalIsSeen`); while the report is alone, what is missing from it is
exactly what had been erased before its SUM (`AloneIsExact`).  As long as claims
do not race, the one that is decided comes before any winner, and an order that
was won is not open again (`OneClaims`).  The deliveries are added up with the
lemmas of `Sums` (`DeliveriesAre`, `DeliveriesChange`).

*PersonalInventory.*  What a reset has read is everything there is until a row
is written (`GathersAll`), and what a request will write is a proper row
(`Proper`), whatever has become of the rows it read.

What the proofs changed in the models.  In `Missions` the derived status was a
`CASE` whose alternatives overlapped, of which a proof may assume either; it is
now the `IF` that the SQL is, in its order.  `HistoryView` sorted with a TLC
built-in that has no definition; a page is now defined by the number of newer
rows.  Some assumptions that the instances satisfied were not stated
(`None` is no handler, place, location or row; places and locations are finitely
many), and `ScmdbSink!TypeOK` bounded a counter by the number of posts, which
means nothing without a bound on these: it is a natural number there, and
`EventsCountOnce` says which.

Only model-checked.  Liveness (`RequestIsAnswered`, `Delivery`,
`Reconciliation`): the proof system does not reason about fairness.  With
restored revision files only `Reconciliation` is checked, beside the types and
the interface that are proved: `CounterIsAhead` does not hold then.

## Not modelled

Limits of the wire format, credential hashing and text limits of fields: the
payload checks are one predicate (`ValidPayload`).  Retry delays and backoff: a
timer fires at some time.  In `TelemetryPresence` the limiters are one
nondeterministic refusal (`RateLimited`); `RequestLimit` has one of them in
full.  The failure limiter (`createRateLimiter`), a counter per window, has no
module.  READ COMMITTED is built
into the granularity of the actions.  The failure of a statement and the loss
of a connection are the same action (`Fail`).

Also without a module: the client's log pipeline (tailer, session, parser,
reducer, runtime host, diagnostics), whose output `PresenceSync` takes as any
sequence of snapshots; the tray's pairing flow and shutdown; the client's
heartbeat monitor; public links of groups (two concurrent rotations leave two
valid ones); mining pools; renamings, titles and descriptions, numbering and
hiding of orders, and who may do what beyond the checks that race; expiry of
browser sessions; the reference data; and the front end except the history.

## Plan

What would add most next, in this order:

1. *Client pipeline*: the tailer (abstract: a reader that delivers each
   complete line once, under rotation and truncation), the log session, the
   runtime host with its ticks and cancellation.
2. *Tray*: the pairing flow's three-part persistence with its undo, and the
   shutdown timer.
3. *Proofs*: abstract specifications, as the sink and the groups have them, of
   what else is proved as invariants today (a limiter that only knows admissions,
   an inventory that is one number per item), and of what the modules of 1 and 2
   will promise.
4. *Mining pools* and *public links*, which repeat patterns checked here.
