# a2a-mcp-bridge in TLA+

`a2a-mcp-bridge` lets LLM agents exchange messages and files. Each agent runs a
bridge process (an MCP server on stdio); the bridges of one machine share a SQLite
file, a directory of signal files and a directory of file transfers, and bridges on
other machines reach the same database through an HTTP facade. This directory models
that system in TLA+, checks it with TLC on small instances, and proves with TLAPS, for
every instance, all safety properties the passing runs check, in every module, and that
the local bus and the facade implement one abstract inbox.

Paths below are relative to the package `src/a2a_mcp_bridge/` of the repository.

## 1. The system

### Components

| Component | State it keeps | Operations | Modelled in |
|---|---|---|---|
| Message store, `store.py` | tables `agents`, `messages`, `capabilities`; one SQLite connection | `upsert_agent`, `send_message`, `read_inbox`, `peek_inbox`, `subscribe`, `purge_old_messages`, `init_schema` with its migration, `register_capability` | `Bus`, `Facade`, `Startup`, abstractly `Inbox` |
| Signal files, `signals.py` | `<agent>.notify`, one file per agent with an unread message, advisory | `notify`, `clear`, `wait` | `Bus`, `Facade` |
| Tool layer, `tools.py` | none, only locals of a call | `agent_send`, `agent_inbox`, `agent_inbox_peek`, `agent_list`, `agent_subscribe`, the file tools | `Bus`, `Transfers`, `FacadeTransfers` |
| Intent policy, `intents.py` | none | `normalize_intent`, `wakes` | `Intents` |
| Bridge server, `server.py` | the process: one tool call at a time, a sweep thread, a cached wake registry | start, import of the legacy registry, tool calls, `capability_announce`, sweep, reload of the wake registry | `Startup`, `Bus`, `Transfers`, `WakeRegistry` |
| HTTP facade, `facade.py` | one connection shared by the event loop and the worker threads | `/register`, `/send`, `/inbox`, `/subscribe`, reads, transfer routes, sweep loop | `Facade`, `FacadeTransfers` |
| HTTP client store, `bus_store.py` | an HTTP client | the store's operations as requests | `Facade`, `FacadeTransfers` |
| Rate limiter, `rate_limit.py` | per limiter, a dict from client addresses to the times of their hits | `allow`, `prune_stale`, the middleware | `RateLimiter` |
| Local transfers, `transfers.py` | one directory per transfer: payload and `meta.json` | `stage_file`, `load_manifest`, `resolve_locator_path`, `delete_transfer`, `_transfer_sweep` | `Transfers` |
| Facade transfers, `transfer_store.py` | table `transfers` and a directory per row | upload, download, soft deletion, sweep | `FacadeTransfers` |
| Wake-up webhooks, `wake.py` | the registry file | load, check, POST | `WakeRegistry`; the POST is one step of `Bus` |
| Command line, `cli.py` | none | `messages purge`, `init`, `register`, `wake-registry init`, `serve` | `Bus` (purge), `Startup` (init), `WakeRegistry` (wake-registry init) |
| `logging_ext.py`, `models.py`, `validation.py`, `exceptions.py` | none | formatting, data classes, syntax checks | not modelled |

### How they interact

* Bridges of one machine do not call each other. They meet in the SQLite file (write
  transactions are `BEGIN IMMEDIATE`, with a busy timeout of 5 s), in the signal files
  and in the transfer directory, on which there are no locks at all. Any of them may be
  killed between two operations. Several processes may serve one agent (ADR-001).
* `agent_send` commits the row, then touches the recipient's signal file, then posts a
  webhook. `agent_subscribe` reads the inbox, waits for the signal file, reads again.
* Every process that opens the database completes its schema first; a bridge then imports
  the registry file of older versions and renames it. Nobody coordinates this.
* The operator rebuilds the registry of webhooks from the agents' profiles while bridges
  run; a bridge looks at the file's modification time at every send.
* The facade runs `/send` and `/inbox` on its event loop, each to completion, and
  `/subscribe` in a worker thread. All of them use one SQLite connection, hence one
  transaction. The middleware consults the rate limiter before any handler.
* The bridges of the facade's machine use its database file and its signal files beside
  it, from their own processes.
* A remote bridge calls `/register` before each request and gives a request up when it
  times out; the facade is not told.
* Files cross machines through the facade's transfer routes, which run on its event loop
  and keep a database and a directory of their own; the message that names a transfer is
  sent separately, after the upload.

### What is hard here

Interleavings of processes around two or three shared resources that are not updated
together; the window between commit and signal; death of a process in that window, in
the middle of a read or of an `rmtree`; readers that race for one agent's messages; one
connection shared by a loop and several threads; abandoned long polls; a clock that is
read twice; sweeps that race with readers, with deletions and with each other; several
processes that migrate one database and import one file at once; a cache compared by
modification time with a file that is rewritten in place. The list, line by line, is
under `hazards` in `PROJECT.json`.

### What makes each component correct

* Store and signals: a message is read once, in order, by a session of its recipient,
  and by nobody but a reader or a purge does it disappear; a waiting reader is woken;
  a reader that keeps calling reads everything.
* Facade: the same promise over HTTP, each handler's statements in a transaction of its
  own, what was acknowledged is durable, every call ends.
* Start: whoever is up has the whole schema under it, and gets up; what an older version
  kept in another file is neither lost nor put over what is newer.
* Wake registry: the agents in it verify the one secret it holds; a bridge uses what the
  file says, not what it said.
* Rate limiter: no request is refused undeservedly, none too many let through, no
  garbage kept.
* Transfers, local and through the facade: a transfer that others can see is complete, is
  found until it expires or is deleted, then disappears entirely; quotas hold.

## 2. The modules

| Module | What it is |
|---|---|
| `Intents` | the intents, pure operators |
| `Inbox` | abstract specification: post, take the oldest, purge |
| `Bus` | bridge processes, SQLite file and signal files of one machine |
| `BusProofs` | the theorems about `Bus` |
| `Startup` | schema migration, import of the legacy registry, announcements |
| `StartupProofs` | the theorems about `Startup` |
| `WakeRegistry` | the webhook registry: the command that builds it, the cache of a bridge |
| `WakeRegistryProofs` | the theorems about `WakeRegistry` |
| `Facade` | the HTTP facade, its shared connection, its clients, the bridges beside it |
| `FacadeProofs` | the theorems about `Facade` |
| `RateLimiter` | the sliding windows and their sweep, the middleware |
| `RateLimiterProofs` | the theorems about `RateLimiter` |
| `Transfers` | local file transfers: tools, sweep threads, file system |
| `TransfersProofs` | the theorems about `Transfers` |
| `FacadeTransfers` | file transfers through the facade: routes, sweep loop, clients |
| `FacadeTransfersProofs` | the theorems about `FacadeTransfers` |
| `DataLemmas` | lemmas the proofs share: the least of a set of numbers, sequences that grow or change, what `ORDER BY ... LIMIT` selects, the recipients of a log |
| `MC*` | instances for TLC: owners of the sessions, symmetry |

Definitions marked `Mutant:` are plausible bugs. They belong to no specification; each
takes the place of the definition that follows it to show that a property notices.

### Inbox

State: the recipients of the messages posted, which are unread, which each session has
taken. `Take` is one consuming read: a prefix of the session's unread messages, in one
step. `Bus` and `Facade` both implement it, the local bus with purges of unread messages
where the operator makes them (`MayPurge`), the facade without. In `Facade` its sessions are the clients and the local bridges
together, so the two sides compose to one inbox.

### Bus

An action is one committed transaction or one operation on a signal file.

| State | In the code |
|---|---|
| `agents`, `log`, `stored`, `unread` | tables `agents` and `messages`; `unread` is `read_at IS NULL`. A message is its index in `created_at` order: the timestamp is taken inside the inserting transaction |
| `signal`, `woken` | the `.notify` files; the webhooks posted |
| `pc`, `call`, `batch` | where a session is in its tool call, its arguments, the rows it has marked read |
| `returned`, `lost`, `orphans` | history: rows returned, rows marked by a process that died, messages whose sender died before the signal |

| Actions | In the code |
|---|---|
| `Start`, `Observe` | `build_server`; the tools whose only write is the upsert |
| `Send`, `Reject`, `Commit`, `Notify`, `Wake` | `tool_agent_send`, statement by statement: upsert, checks, insert and commit, signal, webhook |
| `Inbox`, `InboxEmpty`, `InboxRead`, `Clear` | `tool_agent_inbox`: one transaction selects and marks, a read that found rows clears the signal |
| `Subscribe`, `SubscribeRead`, `SubscribeWait`, `Probe`, `Poll`, `Consume`, `Timeout`, `Reread`, `Deliver` | `tool_agent_subscribe`, `Store.subscribe` and the polling loop of `SignalDir.wait`; the read after the signal clears nothing |
| `Busy` | `BEGIN IMMEDIATE` that gives up after 5 s |
| `Crash` | a process is killed at any point |
| `Purge` | `messages purge`, with or without `--unread-only` |

### Startup

An action is one transaction on the database or one operation on the legacy file.

| State | In the code |
|---|---|
| `tables`, `columns` | the tables that exist, and those of the two migrated columns that `messages` has |
| `capabilities` | the table of that name: each skill of an agent, and who wrote its row last |
| `legacy`, `backup` | `<db>.registry.db` and the file it is renamed to: full, empty or gone |
| `pc`, `column`, `tries`, `todo` | where a process is, the column it adds, its failed attempts, the rows it has yet to write |
| `announced`, `skipped` | history: skills announced since, rows whose `INSERT` failed |

| Actions | In the code |
|---|---|
| `CreateMessages`, `CreateCapabilities` | the script `schema.sql`, whose statements commit one by one; indexes and `agents` are left out |
| `Probe`, `AddColumn`, `AddFails` | `_add_column_if_missing`: the probe, the transaction that probes again, the three attempts of tenacity |
| `Busy`, `Crash` | any other statement that meets a locked database ends the start; a kill ends it anywhere |
| `Upsert`, `LegacyExists`, `ReadLegacy`, `ReadFails`, `ImportRow`, `SkipRow`, `Rename` | the rest of `build_server` and `_migrate_legacy_registry`, where every operation on the file may find it renamed by another bridge, and a file that cannot be read is left for the next start |
| `Announce`, `RegisterCapability`, `AnnounceFails` | `capability_announce`, one transaction per skill |

The databases a process may find are those older versions leave: none, `messages`
without one or both of the columns, everything.

### WakeRegistry

`profiles` are the webhook settings of the agents; `Built` folds them into a registry in
the order of the directories, as `wake-registry init` does, and `Loaded` is what a bridge
makes of a file: a registry, or no waker at all. The operator edits profiles, truncates
the file, writes it, breaks off in between, or removes it (`EditProfile`, `Truncate`,
`WriteRegistry`, `Interrupt`, `RemoveFile`). Each change of the file may or may not get a
new modification time (`Change`), since the clock of the file system has ticks; `same` is
what the file held since that time began.

A session is in one of three stages of `_load_waker_if_stale`: `Hit` (the cached time is
that of the file), or `Stat`, `IsFile`, `ReadText`, which may find the file gone at every
step. `cache` is `_waker_cache`, `noted` the time `stat` returned, with which the waker
is kept though the file may have changed before it was read. `used` is the waker of the
last send; `may`, history, the contents of the file during that send.

### Facade

An action is one statement of the shared connection, one operation on a signal file or
one step of the HTTP exchange. `disk` is what is committed, `view` what the connection
sees, `tx` the handler whose `BEGIN` is open. `stage`, `request`, `live`, `rows` are the
handlers (the loop and the threads), `phase`, `asked` the clients; `sent`, `ended` are
history. `GiveUp` is a client that stops waiting: a request that a handler has begun goes
on, one that has not is lost or stays in `queue`, as one does that waits in a socket or for
a worker thread, and the facade may get to it at any later time (`ServeLate`,
`RegisterLate`), for nobody. `Late` names the kinds of request a run does this with.
`Die` is a restart of the facade, which
rolls the open transaction back. `Accept` is the routing: the loop takes `/send` and
`/inbox` itself, so it takes nothing else until it has answered; `/subscribe` goes to a
free thread. `BeginFails` is the `OperationalError` of a `BEGIN IMMEDIATE` inside an open
transaction, `Register` a single statement that joins whatever transaction is open.

`Locals` are bridges on the facade's machine. Their transactions are atomic here, as the
write lock makes them, and exclude those of the facade's connection (`Writes`); their
operations on signal files are steps of their own: `LocalSend` and `LocalNotify`,
`LocalRead` and `LocalClear`, `LocalProbe` and the `LocalClear` that ends a wait,
`LocalEnds`. While they are there, a `BEGIN` or an upsert of
the facade may wait for the lock for longer than 5 s (`BeginFails`, `RegisterFails`). `Bus`
has the details of a local bridge, this module what the facade can see of it.

### RateLimiter

`Dispatch` is the middleware with one or two calls of `Allow`, each of which may sweep;
the sweep's clock is up to `MaxPause` ticks later than the one the decision was made
with. `hits` and `swept` are `_hits` and `_last_prune`. A list a sweep dropped from the
dict is still appended to by the call that holds it, and lost (`Counted`).

### Transfers

A transfer is a directory: `files[t]` says which of its entries and whether itself is
there, `manifests[t]` what its `meta.json` says or will say. `at`, `on`, `todo` are the
tool call and the sweep thread of each session: stage, transfer, entries its `rmtree`
listed and has not yet removed. `reply` is what the last step answered, where a property
needs it. `handed`, `deleted`, `cut`, `most` are history; `most` is the most calls of an
agent that have been past the check of the quota at once.

| Actions | In the code |
|---|---|
| `SendFile`, `Refuse`, `Stage`, `Copy`, `Publish`, `StagingFails` | `stage_file`: size and quota, directory and copy, rename, manifest written and renamed |
| `Load`, `Announce` | `tool_agent_send_file` reads its manifest back and sends the message |
| `Fetch`, `Open` | `tool_agent_fetch_file`: resolve, then open and hash |
| `Delete`, `NotFound` | `delete_transfer` up to its `rmtree`; the refusals |
| `List`, `Unlink`, `Rmdir` | `shutil.rmtree`, as called by a deletion (errors reported) and by the sweep (errors ignored). Entries are removed in the directory's order, the same for all, which `First` fixes |
| `SweepStart`, `SweepLook`, `SweepRead` | `_transfer_sweep`: read the clock, look for a manifest, read it |
| `Crash`, `Restart`, `Tick` | death and start of a process, time |

Merged into one action because nothing another process does in between can be told
apart: the count of the quota over the directory; the two loads of the manifest and the
ACL check of a fetch; the `chmod` after the manifest and the read back.

### FacadeTransfers

A transfer is an upload (`uploads`, by order of arrival), a row (`rows`: its expiry and
whether `deleted_at` is set) and a directory (`files`: the directory itself, `.tmp`, the
payload). The event loop runs one handler at a time, and a handler gives it away only
where it awaits: in the copy of an upload (`copying`). What it does in several steps
without an `await` is in `loop`: a row to create after a rename, or the transfers to mark
and to remove. Nobody else on the loop sees these halfway; a response that is being sent
and a restart do. `call` is what each client waits for, `reply` what the last step
answered. `handed`, `deleted`, `cut`, `most` are history; `most` is the most uploads an
agent has had under way at once.

| Actions | In the code |
|---|---|
| `StartUpload`, `Refuse`, `UploadFails`, `Rename`, `Create`, `CreateFails`, `Announce` | `transfer_upload` up to its first chunk, its refusals, the end of the copy one way or the other, the row or an error of SQLite in its stead; then `tool_agent_send_file` sends the message, or fails to |
| `Download`, `Open` | `transfer_download`, and the `FileResponse` that opens the file after it has returned |
| `Delete` | `transfer_delete` up to the first of its two statements |
| `StartSweep`, `Mark`, `MarkFails`, `Remove` | `_transfer_sweep_loop`: `list_expired`, then for each row `TransferStore.delete` and `rmtree`; a deletion has the last two in common. A row that cannot be marked is left to the next sweep, and answers a deletion with HTTP 500 |
| `GiveUp`, `Die`, `Tick` | a client that stops waiting, a restart of the facade (which may leave part of a directory), time |

`fetched_at` is left out: nothing reads it. Refusals for lack of rights change nothing and
have no action, nor has a `DELETE` that the rate limiter refuses. Nor have the failures of a
statement that change nothing but the status of an answer. The tool turns `expires_in`
into hours (`Asked`, `Hours`): 0 is the default, whole hours are cut towards zero, and what
is negative has expired at once. `HttpBusStore` passes parts of hours on as they
are, which the route refuses (`Refuse`).

## 3. What is checked

Every run finishes in under four minutes with two workers.

| Run | Question | Result |
|---|---|---|
| `bus_leaders` | one session per agent, one of them mortal, lock timeouts, purges, three intents, limits 1 and 2, two messages: types (`TypeOK`), webhook after row and signal and never for `fyi` (`WakeAfterStore`), a blocked subscriber is woken (`NoLostWakeup`), every message is read in the end (`EventuallyRead`) | holds, 351,962 states |
| `bus_siblings` | two sessions of one agent, mortal, and a sender; purge of unread messages: `ExactlyOneReader`, `NoneVanishes`, `OldestFirst`, refinement `AsInbox` | holds, 850,575 states |
| `bus_lost_wakeup` | `NoLostWakeup` with two sessions of one agent | violated, see 5 |
| `startup` | two bridges and a third process on a database of any older version, two of the three mortal, lock timeouts, two legacy rows, an announcement of the skill in one of them: `TypeOK` with the three attempts, `ReadyIsMigrated`, `NoRowIsLost`, `EventuallyUp` | holds, 249,644 states |
| `startup_import` | what a comment says of the import | violated, see 5 |
| `wake_registry` | two agents, four settings, one edit, two runs of `init`, one session: `TypeOK`, `SecretsAgree`, `BoundedStaleness`, `EventuallyCurrent` | holds, 386,635 states |
| `facade_flaky` | a client that gives up and whose sends may be served afterwards, restarts, two threads and a loop, two messages: `TypeOK`, `OneTransaction`, `SentIsStored`, refinement `AsInbox` | holds, 1,579,450 states |
| `facade_mixed` | a local bridge of the agent whose client gives up, another client, a pool of one thread that abandoned polls occupy, at once or later, restarts: `BlockedIsWoken`, refinement `AsInbox`, `EveryCallEnds` | holds, 305,322 states |
| `facade_abandoned` | what a docstring says of a failed long poll | violated, see 5 |
| `rate` | global limit 2, route limit 1, two addresses, a dict over its size at the second: `TypeOK`, `AtMostOneOver`, `NoFalseRefusal`, `NoGarbage` | holds, 142,529 states |
| `transfers` | two sessions of one agent that race for its quota of one, one mortal, one sweeping, two transfers: `TypeOK`, `WithinQuota`, `ManifestMeansFile`, `FoundWhenFresh`, `DeletedIsGone`, `NoneLeaked`, `ExpiredIsSwept` | holds, 458,877 states |
| `facade_transfers` | two clients of one agent that race for its quota of one, a third that gives requests up, restarts, errors of SQLite, two uploads: `TypeOK`, `WithinQuota`, `RowHasFile`, `FoundWhenFresh`, `NoneLeaked`, `ExpiredIsSwept` | holds, 225,173 states |

### Bounds, and why they are enough

* Messages: 2. A first to be read, signalled or cleared, a second to arrive in between
  and to be overtaken or masked; no property relates three. With limits 1 and 2 a read
  leaves a message behind or takes all. The theorems of section 4 have no bound.
* Sessions: two of one agent race, a third sends. One agent needs no third reader: the
  properties relate two.
* Start: two bridges, because each operation of the import races with at most one rename
  (what three can do to the backup file is described in section 5); a third process that
  only opens the database, so that three add columns at once; two rows, so that an import
  stops between them, and one skill announced (`Offered`), so that one row is in the table
  before its import and the other is not. Any number of each in the proofs.
* Wake registry: two agents, which agree on a secret or not; settings that lack a secret
  of their own, override it for the wake route, are disabled, or listen on an address a
  bridge refuses; two runs, so that a cached registry is replaced by another. One session:
  sessions share nothing but the file, which they only read.
* Facade: the loop and two threads, because a thread can meet a transaction of the loop
  and one of another thread; two clients, one of which gives requests up; two messages.
  With a local bridge, one thread and one message: a thread meets the other side's
  transaction or signal, no third party is needed; `facade_flaky` has the second thread.
  One request at a time is in the queue (`MaxQueued`): a send in `facade_flaky`, a long
  poll or a registration in `facade_mixed`, where it meets restarts and occupies the
  pool. A late `/inbox`, and more than one late request, are only in the proofs.
* Rate limiter: a window of 2 ticks and a pause of 1, so that a hit can expire inside
  one call; three ticks, so that a window opens and closes; `MaxKeys` 1 with two
  addresses, so that sweeps occur both by size and by time. TLC stops at `MaxTime`, so
  this run does not check deadlock.
* Transfers: two transfers and a quota of one, so that an agent is at its limit, below it
  again after an expiry or a deletion, and a sweep meets an expired transfer beside a
  fresh one; one tick, before and after every expiry; a requested time to live above and
  at the maximum. Both sessions are those of one agent, so both may pass the check of the
  quota before either has published; `WithinQuota` admits the second transfer only if that
  has happened. The recipient has no session: that it may delete and fetch as the sender
  may is a matter of names, and any number of its sessions is in the proofs. One session
  sweeps, the other is mortal and deletes beside it; the first transfer loses its
  manifest first, the second its payload.
* Facade transfers: two uploads and a quota of one, for the same reasons, by two clients
  of one agent, while a client of the recipient fetches, deletes, uploads and gives up; an
  hour of two ticks, so that a part of one is asked for; three ticks, because the sweep
  takes what expired strictly before now; a maximal time to live of one hour, asked for,
  exceeded, and the default.

### Fairness

* `Bus!LiveSpec`: a session that is never killed runs its call on (weak fairness on
  `Running`, which is sequential code without unbounded waits: the polling loop has a
  deadline), its client subscribes again and again, as the docstring of
  `agent_subscribe` tells it to (strong, for the session may be found busy), and its
  reads get the write lock in the end (strong fairness on `SubscribeRead` against
  `Busy`): writers hold it for one short transaction and sqlite3 retries for 5 s. Nothing
  is assumed of mortal sessions, clients that send, or the operator.
* `Startup!FairSpec`: a process that is not killed is started again when its start has
  failed, as MCP clients and service managers do, goes on with its start (weak), and gets
  the lock in the end for each transaction (strong, against `Busy` and `AddFails`). Nothing
  is assumed of mortal ones, which may leave the schema at any point.
* `WakeRegistry!FairSpec`: the sends of a session follow one another and none stops
  halfway (weak). Nothing is assumed of the operator, who may leave a torn file for good,
  nor that anybody restarts. `EventuallyCurrent` excuses a session that read the file
  between two changes in one tick, and for as long as this is so.
* `Facade!FairSpec`: handlers go on, and the loop takes the next request of a client, its
  registration or its call, however often it is busy with another (strong): uvicorn serves
  its connections in turn. None is needed for requests given up. Nothing is
  assumed of clients.
* `Transfers!FairSpec`: the sweep thread's loop never ends, so it starts another pass and
  comes past every directory again and again (strong, for it may be busy with another at
  any given moment); an `rmtree` of a live process ends. Nothing is assumed of tool calls.
* `FacadeTransfers!FairSpec`: the sweep task comes round every five minutes, however often
  the loop is busy when it does (strong on `StartSweep`), handlers that do not await run
  on (weak on `Create`), and neither a kill nor a database that refuses to mark a row
  meets the removal of a transfer for ever (strong on `Mark` or `Remove`). Nothing is assumed of clients or of uploads.

## 4. What is proved

The theorems hold for all values of the constants that the named assumption of each module
admits. The assumptions state what the constants are, and nothing about how the system
behaves:

* `BusAssumption`, `FacadeAssumption`, `StartupAssumption`: the types of the constants. Any
  agents, sessions, bridges, threads, limits, purges, lock timeouts, mortal sessions, legacy
  rows and number of messages; with or without restarts and requests given up.
* `RegistryAssumption`: the types. Any agents, profiles, sessions and numbers of runs;
  `Order` is a finite sequence, for the command lists a directory.
* `TransfersAssumption`: the types, and that sessions are finitely many, without which the
  calls past the quota, which `WithinQuota` counts, would not be a number.
  `FacadeTransfersAssumption`: the types. Any number of clients, sweeps, any quota and
  times to live.
* `RateAssumption`: the types. Any limits, addresses and pauses, and a window of at least
  one tick.

| Module | Theorem | Statement |
|---|---|---|
| `BusProofs` | `TypeCorrect` | `Spec => []TypeOK` |
| | `ReadOnce` | `Spec => []ExactlyOneReader` |
| | `NothingVanishes` | `Spec => []NoneVanishes` |
| | `ReadInOrder` | `Spec => []OldestFirst` |
| | `WokenIsStored` | `Spec => []WakeAfterStore` |
| | `LeaderIsWoken` | `LeaderAtGateway => (Spec => []NoLostWakeup)` |
| | `BusImplementsInbox` | `Spec => AsInbox` |
| `FacadeProofs` | `TypeCorrect` | `Spec => []TypeOK` |
| | `OneAtATime` | `Spec => []OneTransaction` |
| | `ToldIsStored` | `Spec => []SentIsStored` |
| | `FacadeImplementsInbox` | `Spec => AsInbox` |
| | `SubscriberIsWoken` | `Spec => []BlockedIsWoken` |
| `StartupProofs` | `TypeCorrect` | `Spec => []TypeOK` |
| | `ReadyProcessIsMigrated` | `Spec => []ReadyIsMigrated` |
| | `ImportLosesNoRow` | `Spec => []NoRowIsLost` |
| `WakeRegistryProofs` | `TypeCorrect` | `Spec => []TypeOK` |
| | `SecretsDoAgree` | `Spec => []SecretsAgree` |
| | `StalenessIsBounded` | `Spec => []BoundedStaleness` |
| `TransfersProofs` | `TypeCorrect` | `Spec => []TypeOK` |
| | `QuotaHolds` | `Spec => []WithinQuota` |
| | `ManifestsMeanFiles` | `Spec => []ManifestMeansFile` |
| | `FreshIsFound` | `Spec => []FoundWhenFresh` |
| | `DeletedStaysGone` | `Spec => []DeletedIsGone` |
| | `NothingLeaks` | `Spec => []NoneLeaked` |
| `FacadeTransfersProofs` | `TypeCorrect` | `Spec => []TypeOK` |
| | `QuotaHolds` | `Spec => []WithinQuota` |
| | `RowsHaveFiles` | `Spec => []RowHasFile` |
| | `FreshIsFound` | `Spec => []FoundWhenFresh` |
| | `NothingLeaks` | `Spec => []NoneLeaked` |
| `RateLimiterProofs` | `TypeCorrect` | `Spec => []TypeOK` |
| | `RefusalsAreDeserved` | `Spec => []NoFalseRefusal` |
| | `NothingIsKept` | `Spec => []NoGarbage` |
| | `LimitHolds` | `Spec => []AtMostOneOver` |

The argument for the bus. `TypeOK` is inductive: beside the types it says what a session holds at
each stage (a batch only between marking and returning it, a message with the right
recipient from commit to wake-up). With it, `StepKinds` sorts every step by what it does
to messages: nothing, a new row, a read that takes the oldest unread ones, a batch
returned, a batch lost with its process, a purge. `ExactlyOneReader`, `NoneVanishes` and
`OldestFirst` are then inductive relative to `TypeOK`, with one case per kind.
`OldestPrefix` supplies the fact about `ORDER BY ... LIMIT`: what a read leaves is
younger than what it takes. `NoLostWakeup` is not inductive: its third disjunct excuses a
session because a sibling that consumed the signal is about to read. Under
`LeaderAtGateway` (one session per agent, ADR-001 section 3.1-bis) there is no sibling,
and the stronger `LeaderWakes`, the signal is there or its writer is, is inductive. The
run `bus_lost_wakeup` shows that the assumption cannot be dropped. `WakeAfterStore` needs
`WakeInv`: no two sends speak of the same row, and a sender's raw intent is the one its row
was stored with. For the refinement,
`StepRefines` maps each kind of step to an action of `Inbox` or a stutter.

The argument for the facade. `TypeOK` is not inductive: that an answer frees its client
needs that no other handler has that client waiting, and that a rolled back transaction
leaves the rows of the other handlers on disk needs `OneTransaction`. `Sound` says both:
`CallsInv`, who works for whom at which stage, and `StoreInv`, that what a handler holds
is committed unless it is the one about to commit, and that the connection sees an
extension of what is committed. `QueueInv` adds that a request the facade gets to late is
one of a client that gives requests up, so that serving it keeps the other clients' promises. `PendingInv` then says what the open transaction adds:
nothing yet, one row, or one read of the oldest unread messages. With it, `StepKinds`
sorts every step by what it does to the inbox: nothing, a row for one agent, a read of
one bridge. The refinement follows, and so does `RowsStay`: no committed row changes.
`SentIsStored` needs `SentInv`: a handler of a send that is past its commit holds a row of
its own client. `BlockedIsWoken` needs two more. `HonestInv`: a handler whose client does
not give up still has it, and a read that selected nothing had nothing to select.
`CoverInv`: a local bridge that is about to write the signal of a message is one of the
message's sender; any other that happens to be about to signal might die, and the property
would go with it.

The argument for the start. `TypeOK` needs that a bridge imports legacy rows only
(`ImportsLegacy`), without which a skipped row need not be one of them. `ReadyIsMigrated`
follows from what each process has seen to by its stage (`Relies`: `messages` before the
second statement of the script, both tables from the first probe on, the first column
while it is at the second). `SchemaGrows` keeps that true while others run, `OthersStay`
says that they move nobody else, and `MoverRelies` that a process never relies on more
than it did itself. `NoRowIsLost` needs that an importing bridge has accounted for all rows
but its `todo` (`ImportInv`); `ImportGrows` keeps that true under the others' writes, and
`RenamedWhenDone` says that only a bridge with nothing left to do takes the file away.

The argument for the registry. `BoundedStaleness` speaks of sends that are over; what makes
it inductive is what a send in progress and the cache may hold (`StalenessInv`). During a
send, `may` covers what the file says now (`SendInv`). A waker that is cached with the
time of the file was loaded since that time began, or it stands for a file that was gone
and still is (`CacheInv`): a removal keeps the time, and what follows it is a truncation,
which loads as no waker too. No time a session keeps lies ahead of the file's
(`ClockInv`, by the number of runs), so a new time makes every cached one old.

`SecretsAgree` is about the fold of all profiles, and the library's induction theorems
cannot be instantiated here. The proof takes the least counterexample instead:
`LeastNatural` says that a set of numbers that is not empty has a least one, so if the
registry after some number of profiles were not `Good` (it names the usable profiles that
have its secret, and has none only if none was usable), it would be good one profile
earlier, and `IntegrateIsGood` leads from there to a contradiction.

The argument for the local transfers. Nothing is locked, so what holds is what each thread
knows of its own directory. Up to the manifest nobody else has to do with it
(`StageInv`), which is why the manifest may go last. A removal has listed all that is left,
and of what was published both files are there until the transfer has expired or its
deletion was asked for (`FreshInv`): that is what the sweep establishes before it removes
anything, and a manifest that has vanished under it establishes it too. `NoneLeaked` is
not inductive: that some removal is at work does not say that it will get through, for an
`unlink` of an entry that another has removed ends a deletion. `LeakInv` names one that is
in step with the directory (all it has left to remove is still there); when another removes an
entry, that one is in step itself, because all removals go in the directory's order
(`OrderInv`: the entry that comes first is not there without the other). `WithinQuota`
needs that what has passed the check counts as if it was published (`QuotaInv`): pending
transfers and calls past the check, together, are fewer than the quota and the most such
calls there ever were at once (`most`); and that what a call publishes is its own agent's
(`SenderInv`). `RoomInv` keeps transfers within the bound of the model.
The steps are sorted by kind first (`Rests`, `TakesUp`, `GoesOn`, `Writes`, `Begins`,
`Lists`, `Unlinks`, `Removes`), and each invariant is shown for the kinds.

The argument for the transfers through the facade. The loop does several things at once for
everybody but a response and a restart, so the invariant says what the loop is in the
middle of (`LoopInv`): a row to create has its file, what a deletion removes was asked for,
what a sweep removes is overdue, and what is being removed is marked. `FileInv` relates
rows to files, `LeakInv` names who has a directory without a live row in hand. The quota
needs that an upload under way counts as if it had its row (`QuotaInv`), whoever still
waits for it: a row, a failure and a restart each take one out of those under way, and
`most` keeps their number.

The argument for the rate limiter. A list of hits is in order, so the hits in a window are
its last ones (`FreshIs`, another induction by least counterexample), and how many there are
falls as the window moves on (`CountFalls`). What the limiter has let through is compared
with what it has counted, for every window still to come (`AddressInv`): counted hits were
let through, and at most one that was let through is not counted. A hit is only lost when
its list has wholly expired between two readings of the clock; then nothing counted is left
in any window to come, and a hit lost before is out of it too, so the loss is again the only
one. `NoFalseRefusal` follows from the first half, `AtMostOneOver` from both.

Only model-checked: the liveness properties (`EventuallyRead`, `EveryCallEnds`,
`ExpiredIsSwept` of both modules, `EventuallyUp`, `EventuallyCurrent`), because fairness is
stated with ENABLED, which is out of the prover's reach. And what the violation runs show
is shown by their counterexamples.

## 5. Where the code differs from what is said of it

Each is a run that ends in a counterexample, with quotes under `findings`.

* `bus_lost_wakeup`. README: "Any agent blocked in `agent_subscribe` wakes up
  immediately". With two sessions of one agent, the `clear` after one's read removes the
  signal of a message committed since, and the other sleeps until its timeout. The
  message is not lost: `EventuallyRead`.
* `facade_abandoned`. `HttpBusStore.subscribe` says a failed long poll may be treated
  like a timeout. The thread it left behind marks the next message read, for nobody.
* `startup_import`. `_migrate_legacy_registry` says it copies rows "via INSERT OR IGNORE
  (idempotent)". It calls `register_capability`, which is `INSERT OR REPLACE`. Of two bridges
  that start together, the slower one writes the old rows over what an agent has announced
  through the faster one.

Observed while modelling, without a run of their own:

* `store.py` says a `Store` is "Not thread-safe; create one per process/thread"; the facade
  shares one between its loop and its threads. A `BEGIN IMMEDIATE` that meets another
  handler's transaction fails, and no handler catches it: HTTP 500 (`Facade!BeginFails`).
* `HttpBusStore.delete_transfer` returns `{"deleted": True}` "on success". It does so for
  every status but 403 and 404, so for the 429 of the rate limiter too.
* `/register` is one statement: while a thread has its transaction open, the upsert becomes
  part of it, and is acknowledged before it is durable (`Facade!Register`).
* A legacy row whose `INSERT` meets a locked database is skipped without a word, and the file
  renamed all the same (`skipped`, exempted by `NoRowIsLost`).
* Connecting to a legacy file that another bridge has just renamed creates an empty one. It
  stays, and every later start warns of it; with three bridges, one that has already read the
  rows can rename it over the backup.
* `_load_waker` says "Never raises", but catches `ValueError` only: a registry that is removed
  between `is_file` and `read_text` ends the send (`WakeRegistry!Raise`) or the start.
* `wake-registry init` calls an empty registry "a legal output". It writes the secret `""`,
  which `load_registry` refuses. The bridges catch that, `serve_facade` does not.
* The first usable profile fixes the shared secret. If that one is the odd one out, all
  others are left out of the registry (`Integrate`).
* `init` turns a gateway that listens on `0.0.0.0` into a loopback address, which
  `load_registry` refuses unless `A2A_ALLOW_INTERNAL_WEBHOOKS` is set, and one refused
  address disables the whole registry.
* `register` opens the database without `init_schema`, so it fails on a fresh one.
* `HttpBusStore.register_capability` posts to `/capability-announce`, which `facade.py` does
  not have: what a remote bridge announces is dropped with a warning in its log.
* ADR-007 says of a crash during a sweep that it "is not a concern (re-run is idempotent)".
  A local removal killed after `meta.json` and before the payload leaves a directory that
  every later sweep skips. In the facade, the row is marked first, and `list_expired`
  skips marked rows; the docstring of `TransferStore.delete` leaves the file to a reaper
  that does not look there. `NoneLeaked` and `ExpiredIsSwept` make exceptions for what was
  cut short, and for nothing else (`cut`).
* The quota is counted before the copy in both kinds of transfers, and nothing is locked in
  between: uploads of one agent that overlap may all get through. In the facade one client
  is enough, if it gives an upload up and starts another, for the handler it left behind
  still creates its row. `WithinQuota` says how much this adds: fewer than the most that
  were under way at once.
* The upload is renamed before its row is inserted. If the `INSERT` or its `COMMIT` fails,
  the client gets HTTP 500 and the payload stays, with no row that a sweep would find, while
  the facade lives on (`FacadeTransfers!CreateFails`; such transfers are `cut`, which
  `NoneLeaked` exempts).
* `tool_agent_send` touches the signal file and then posts the webhook; the facade's
  `/send` posts the webhook first. `WakeAfterStore` says the former of `Bus` only.
* `DEFAULT_INTENT` is `execute`; the docstring of `agent_send` and ADR-002 say `triage`.
* A message can be read before its sender touches the signal file. The file then ends the
  next `agent_subscribe` at once, empty and not timed out.
* A hit that expires between the two clock readings of `allow` takes with it the list the
  current hit is appended to, so a window can let `rpm + 1` requests through. This is the
  "one over" of `AtMostOneOver`.
* With `A2A_BUS_URL` set and a local `Store`, `agent_send_file` uploads to the facade and
  `agent_delete_file` looks for a local manifest, so the sender cannot delete its upload.
* The upload path of the tool turns `expires_in` into whole hours by truncation, so less
  than an hour becomes none: the transfer has expired when it is announced. `HttpBusStore`
  sends parts of hours as they are, and gets HTTP 422.

## 6. What is not modelled, and why

* Timestamps of the purge: a cutoff is a position in the log. Bodies, metadata, names,
  hashes, paths and checksums: no property depends on them.
* Authentication of the facade, HTTP status codes, retries below `httpx`.
* The tools that query capabilities: one `SELECT`. Announcements are in `Startup`; over HTTP
  they end at a route that does not exist.
* The webhook request itself: one POST with a signature, whose failure is logged. Whether it
  is made is in `Bus`, to whom and under which secret in `WakeRegistry`.
* `register`, which upserts agents without a session: the upserts of `Bus` are those of
  agents with one.
* Reads that change nothing (`agent_list`, `agent_inbox_peek`) have one action, `Observe`.
* Logging, models and validation: formatting and syntax. The models start from arguments
  that passed validation.
* SQLite itself: atomic commits and rollback at the death of a process are assumed.

## 7. Plan

Every safety property a run checks has a theorem. What is left:

1. Two hazards have no property. A signal written after its message was read ends the next
   `agent_subscribe` at once (`store.py:605`): that nothing is lost by it is what
   `EventuallyRead` says, that the call returns early is the code's choice. An error of
   SQLite in `list_expired` ends the facade's sweep task (`facade.py:278`), which is not
   modelled: `FacadeTransfers` would need a task that can end.
2. Lemmas toward the liveness properties: that what a fair action waits for stays enabled is
   safety, and could be stated and proved for each of them.
