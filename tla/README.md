# TLA+ models of Chimera CLI (NEXUS-OMEGA)

Chimera CLI is a Rust workspace of about forty crates in ten layers: an agent
front end (`chimera-cli`, `chimera-tui`, `nexus-app-server`), a model gateway,
memory and routing engines, execution and scheduling layers, an event bus and
the mesh that runs tool calls on several MCP servers. Most of the code is
scoring, encoding and I/O. What can go wrong in ways a test hardly reaches
sits in the parts that keep state over crashes, share it between tasks, or
wait for somebody else. This directory models those parts, beginning with
the two that promise durability and atomicity and going on to the services
whose tasks share state without a lock around the whole operation.

## 1. Inventory

`PROJECT.json` lists every component, with its status. The ones with
protocols of their own:

| Component | State | Operations | Interacts with | Hard behaviour | Correct when |
|---|---|---|---|---|---|
| `mcp-mesh` coordinator (`mesh.rs`, `quantum/transaction.rs`) | one `QuantumTransaction` per call, `pending_compensations` | `execute_transaction` (prepare, commit, rollback), `reconcile_pending_transactions` | participants over TCP, WAL, registry | concurrent fan-out, retries, an overall deadline that drops the future anywhere | all participants commit or none; success means committed |
| `mcp-mesh` WAL (`quantum/wal.rs`) | JSONL file | `append`, `read_all`, `truncate`, `recover_from_wal` | coordinator, blocking pool | crash in the middle of a line, appends that outlive their caller | recovery commits only what was prepared, and loses nothing |
| `mcp-mesh` registry (`server_registry.rs`) | servers and heartbeats | `register`, `heartbeat`, `unregister`, background probe | coordinator looks servers up again at every attempt | changes under a running transaction | no decision depends on a stale lookup |
| `mcp-mesh` entanglement | peers, lazy buffer | `sync_state_change`, `flush_lazy_buffer` | event bus | flush while changes arrive | no change is lost |
| `session-store` writer (`writer.rs`) | pending queue, open segment per session, last offsets | `append`, `flush`, flush loop, `fork_session` | segment files, SQLite index | concurrent flushes, errors in the middle | a confirmed event is kept, in order, once |
| `session-store` segments (`segment.rs`) | append-only files | `append_batch`, `recover_tail` | file system | torn writes, failed fsync | contiguous numbering over crashes |
| `session-store` index (`tree.rs`) | `segments`, `events` tables | `insert_*`, `fork`, `rebuild_index`, `read_events` | files | updates out of order, crash before the update | never says more than the files; can be rebuilt |
| `session-store` replay (`replay.rs`) | cursors | `replay` | files and `segments` table | forks, partial index | every record once, in order |
| `nexus-app-server` (`server.rs`, `approval.rs`) | session table, approvals | `turn_submit`, `persist_turn`, `thread_fork`, `approval_respond` | session store, core backend | awaits between steps, DashMap guards | an answer means the turn is logged; the first fresh vote stands |
| `mas-sched` | leases, counters per peer, rate windows | `claim`, `renew_lease`, `handoff` | agents, `ClaimBroker` | check and grant under different locks | one holder per task behind the broker, counters never too low |
| `nexus-subagent` | cancel flag, reason; nesting guard | `cancel`, `reason`, `spawn`, `join_next_typed` | tokio `JoinSet` | flag before reason | the first cause wins, no nesting |
| `event-bus` | broadcast ring, critical channel, shards, credits | `publish`, `publish_critical`, `publish_batch`, `recv` | every crate | lagging receivers, backpressure, sharding switched on at run time | no event lost or doubled on the way to the ring, order kept, critical events noticed |
| `quest-engine` (`engine.rs`, `checkpoint.rs`, `control.rs`) | registry, checkpoint files, paused set | `update_task_status`, `save_checkpoint`, `restore`, pause/resume/cancel | event bus, file system | overlapping saves and pruning, restarts | a confirmed checkpoint is kept, completion is reported |
| `quest-engine` DAG (`dag.rs`) | task list | `validate_dag`, `topological_order` | `create_quest` | repeated ids, self-dependency | an order exactly when there is one |
| `mca-gateway` | in-flight table, cost guard, circuit breaker | `invoke`, `join`, `complete`, `check`, `allow` | vendors over HTTP | separate atomics, leaders that fail | identical requests are paid once, nobody is forgotten |
| `cmt-tiering` | four tiers | `insert`, `get`, `delete`, decay cycle, LSCT migration | SQLite, files, event bus | awaits between single-tier calls | nothing inserted is lost, old copies stay hidden |
| `scc-cache` | entries and access order | `get_or_prefetch`, `insert` | `Arc` holders | accesses without the insert lock | every entry can be evicted, overflow is explained |

The hazards found while reading are listed in `PROJECT.json`, each at its line.

## 2. Modules

| Module | What it is |
|---|---|
| `McpMesh` | coordinator, WAL, registry, reconciliation and recovery of `mcp-mesh` |
| `AtomicCommit` | what a participant may see of an atomic commit: the abstract specification `McpMesh` is checked against |
| `SessionStore` | queue, flushes, segment files, index, replay, fork and rebuild of `session-store` |
| `TurnLog` | `persist_turn` of `nexus-app-server`, composed with `SessionStore` |
| `EventBus` | dispatch, shard workers, credits, down-sampling, subscribers and critical channel of `event-bus` |
| `TieredStore` | the coordinator and the four tiers of `cmt-tiering` |
| `QuestEngine` | quests, checkpoints and the control subscriber of `quest-engine` |
| `TaskDag` | `kahn_core` of `quest-engine`, checked against a reference definition |
| `PeerScheduler` | leases, counters and rate limit of `mas-sched` |
| `SubAgent` | runtime and cancellation token of `nexus-subagent` |
| `Approvals` | votes and pending requests of `nexus-app-server` |
| `Gateway` | one vendor channel of `mca-gateway` |
| `SccCache` | the two maps of `scc-cache` |
| `AppServer` | the session table of `nexus-app-server` |
| `Ordering` | finite sets of numbers in ascending order, used by `TaskDag` and `SessionStore` |
| `McpMesh_proofs`, `EventBus_proofs`, `Ordering_proofs` | the theorems and lemmas about the module of that name |
| `SessionStore_proofs` | types, files and the open segments of `SessionStore` |
| `TurnLog_proofs` | the index, the confirmed events and the readers of `SessionStore`, and `TurnLog` |
| `QuestEngine_proofs` | the theorems about `QuestEngine` and `TaskDag` |
| `Services_proofs` | the theorems about `TieredStore`, `Gateway` and `SccCache` |
| `Agents_proofs` | the theorems about `PeerScheduler`, `SubAgent`, `AppServer` and `Approvals` |
| `MCServices` | runs ten services that share no state side by side, one moving at a time |
| other `MC*` | add symmetry sets only: tasks, in `MCTurnLog` sessions too; no step and no property tells two of them apart |

An operator whose comment begins with "Mutant:" is a plausible mistake in the
code; TLC must find the property it is paired with in `PROJECT.json` violated
when it replaces the real definition. Nothing else uses it.

### McpMesh

`Tx` is the set of calls of `execute_transaction`, `pc[t]` the place where the
call is. `parts`, `state`, `acked`, `failed` are the fields and locals of
`QuantumTransaction`, `prepare_phase` and `commit_phase`; `wait`, `todo` and
`attempt` say which answers the current phase awaits, which servers its serial
loop has not reached and how often it has tried. One action stands for the
code between two awaits. The `Prepare*` and `Retry*` actions are
`prepare_phase`, `Commit*` is `commit_phase` (which recovery runs too:
`LeaveCommit` does what the caller does with the result), `Rollback*` and
`Timeout*` are the rollback and the deadline.

- The network is the set `sent`; a participant is external and known by the
  requests it has carried out (`handled`). A request may be carried out at any
  time after it was sent and its answer may be lost, so delays, duplicates
  (a set has no multiplicity; handling is idempotent per transaction and phase)
  and reordering are covered.
- `WalStore::append` runs in the blocking pool: `appending` holds the calls
  under way, which go on when the deadline drops the call that awaits them. An
  append may fail, also in the middle of its line (`torn`); the next append
  then makes one unparseable line of both.
- Timestamps are abstracted to "strictly newer than the transaction's first
  entry or not", which is all `recover_from_wal` compares.
- `Crash` clears memory. `recover_from_wal` is called after the restart before
  any new transaction is accepted; servers may register before, during or
  after it.
- Participants are a set: the code's `Vec` is walked in any order, which covers
  the order it has. `durable = false` is the case in which every append fails.

### SessionStore

An event is its position in `log`, the order in which `append` accepted it.
`fpc[f]` is where a task is in `flush_sync`: `take` (the queue), `group`
(lock the sessions mutex, look the session up or recover it from disk),
`write` and `sync` (`append_batch`, and the roll to the next segment), `index`
(SQLite, after the mutex is released), `confirm` (last offsets). `file[s][k]`
is the k-th segment file as a sequence of records, the bytes of an incomplete
record being one `Torn` item; `dirty` counts the records not yet fsynced, of
which a crash keeps any prefix. `segments` and `events` are the two SQLite
tables. `base` (ghost) remembers what replay of the parent showed below the fork
point; `ok` (ghost) which events a flush has confirmed. `Replay` and
`ReadEvents` are what the two readers return.

`rebuild_index` is modelled as the repair the docs describe: it runs while no
writer has the session open. `resolve_physical`'s limit of 64 links is far
above `MaxForks`. A fork is one action, although `fork_session` copies the
index rows one statement at a time and opens the child's file after them: nobody
knows the child's id before `fork_session` returns. The window's length is left
out: the flush loop may wake up at any time and, in the fair specification, does
while something is pending.

### TurnLog

`persist_turn` calls `append`, `flush` and `last_offset` with an await between
each two; all steps of other tasks may come in between, and everything else the
store offers (`OtherUse`: append, fork, rebuild), so that `TurnSpec` has every
behaviour of the store alone. An error of either call ends it. `answers`
records what it returned.

### EventBus

A publisher's `pc` walks `dispatch_one_impl`: credit, shard push, wake-up,
full queue (a second credit buys a second attempt), fallback, critical side
channel, sample of the ring, send. A worker pops, sends and releases in steps
of its own. An event is its number in the order of `publish`; `published`
(ghost) keeps its lane and publisher, `charged` (ghost) which events hold a
credit, `unsent` those that down-sampling or a bus without subscribers let go,
`outcome` what the side channel did with a critical event. tokio's broadcast
ring is external: it keeps the last `RingCap` values and a receiver that lags
skips to the oldest. `ring` in the model is the whole history.

### TieredStore, QuestEngine, SccCache

Maps without a common lock. `job[t]` (`call[p]`, `user[u]`) is where a task is
between two accesses and the copy it holds there. In `TieredStore` the entry
is the number of the insert that made it, LRU ticks and decay weights are a
free choice, and `latest`, `excused` and `calm` are ghosts: what the last
insert or delete said, which ids an error, a delete or an overtaken LSCT
migration may have dropped, and whether operations have overlapped or failed or
an LSCT migration has run so far. In
`QuestEngine` a checkpoint file carries the snapshot and the number of the
save that stamped it; a write may be torn, a process may die, and what was
confirmed to a caller is remembered in `confirmed`.

### PeerScheduler, SubAgent, Approvals, Gateway

One step per lock or atomic. `broker` chooses between the bare scheduler
(several claims overlap) and `ClaimBroker` (`&mut self`: a claim excludes the
rest). `SubAgent` separates swap, store and the two loads. `Approvals`
separates lookup, removal and the entry API. `Gateway` separates every load,
`compare_exchange`, `fetch_add` and store of cost guard and breaker, and a
call may end without `complete` at each error return and each await.

### AppServer

The table is a DashMap, whose guards lock a shard. `place` is any assignment
of ids to shards. Accesses that take and leave a guard at once are one step;
`HeldBy` says which guards a call keeps: `thread_fork` the one of the parent
until the child is inserted, `iter_mut` (`mode_set`, `approval_respond`) the
shard it has finished until it has the next one, as dashmap 6 does. `Wanted`
is the shard a call waits for. `completed` (ghost) remembers what clients were
told, `overwritten` (ghost) whose actor was replaced.

### TaskDag

The input is any list of up to `NumTasks` tasks; one step pops one id. The
reference definition says when an order exists without following Kahn.

### MCServices

The ten services have no variable in common, so exploring them in one run
costs the sum of their state spaces, not the product: `part` picks the one
that moves and the others rest in one initial state. A state of the run is a
state of one service; each property speaks of one service, except
`ServicesInv`, which collects the type invariants and the bounds of all (and, for the
session store, `ForkSeesPrefix`, which `store_crash` checks under overlapping
flushes and a crash).

## 3. Runs

| Run | Instance | Shows |
|---|---|---|
| `mesh_crash` | 1 call, 2 servers, 1 retry, deadline, 1 crash | `CommitNeedsAllPrepared`, `AbortedNeverCommits`, `SuccessIsAtomic`, `CommitEntryIsTrue`, the inductive invariant `IInv` |
| `mesh_atomic` | the same without deadline, 2 crashes | `ImplementsAtomicCommit`: refinement of `AtomicCommit` |
| `mesh_live` | 1 server, 2 retries, deadline, 2 crashes, fair | calls return, recovery ends, reconcile calls end |
| `store_crash` | `TurnLog` over the store: 2 sessions, 2 tasks, in persist_turn or not, 3 events, segments and batches of 2, refused batches, 1 fork, 1 crash | contiguous files, confirmed events kept, a truthful index, replay without repetition, append-only files, a rebuild that heals, `AnswerIsDurable`, `ForkSeesPrefix` under overlapping flushes, rebuilds and the crash |
| `store_live` | 2 sessions, 2 tasks, 2 events, segments of 1, I/O errors, refused batches, 1 fork, 1 crash, fair | every flush returns, the queue drains |
| `bus` | 2 publishers, 1 reader, 1 listener, 1 shard of 1, 1 credit, ring and critical channel of 1, 3 events of which 2 may be critical; wired with shards, with down-sampling, or with listeners and down-sampling; fair | `EachEventOnce`, `OrderKept`, `CreditsComeBack`, `CriticalNoticed`, `EventsSettle` |
| `services`, forks | 3 sessions, 1 task, 3 events, 2 forks | `ForkSeesPrefix` for forks of forks, in `ServicesInv` (one flush at a time, no crash) |
| `services`, tiers | 2 ids, 2 tasks, hot capacity 1, 4 operations, 1 storage error | `NothingLost`, `ReadsLatest` |
| `services`, quests | 1 quest of 2 tasks, 2 callers, `max_keep` 1, 5 calls, requests, failures or restarts | `CheckpointKept`, `CompletionReported` |
| `services`, peers | 2 peers, 1 to-do, 2 agents, quota 1, bare and behind the broker, with and without rate limit | `NeverUndercounted`; `GrantHonoured` in `ServicesInv` |
| `services`, subagents | 3 spawns, swarm of 2, 1 canceller, 1 watcher | `FirstCauseWins` |
| `services`, dag | every list of 3 tasks over 3 ids, dependencies listed once or twice | `DagVerdict` |
| `services`, approvals | 1 request, 2 clients, 4 votes, expiry and purge | `VotesStand` |
| `services`, gateway | 3 tasks, 1 key, limit 1, threshold 2, 2 attempts | `OneCallPerKey`, `NoWaiterForgotten` |
| `services`, sessions | 1 root and its fork, 2 clients, 2 shards in every assignment, limit 2, 4 operations | `StuckOnlyByFork`, `HistoryKept` |
| `services`, cache | 3 contexts, 2 tasks, capacity 2, 5 calls | cache part of `ServicesInv` |
| `mesh_doc_timeout`, `mesh_doc_recovered`, `store_doc_failed_write`, `store_doc_replay`, `gateway_doc_leader` | as above; `store_doc_replay` has 2 overlapping flushes of 1 session and no failure | a sentence of the documentation that the code does not keep; `PROJECT.json` quotes it under "findings" |

Why the bounds are enough. Calls of the mesh share only the registry, the WAL
and the compensation queue, all keyed by transaction, so one call with two
servers shows the interactions of its own phases with reconciliation and
recovery; the theorems cover any number of calls. One retry gives both
branches of every retry loop. Three events in segments and batches of two
make a batch end inside a segment, fill it and cross its end, and let two
flushes hold batches at once, also so that their index updates come in the wrong
order and the parent is forked with the hole this leaves in its replay: the child
of records 0, 1 and 2 then inherits 0 and 2; `store_live` has two events in segments of one, so
that every second record rolls. One crash is followed by a second process that
opens, appends to and rebuilds what the first one left. On the bus every
bound is at its limit with the first event, so full, refused, retried and
fallen-back all happen with three. A hot tier and a checkpoint directory of
one evict and prune at the second insert or save; four operations let one
task insert twice while the other promotes, deletes or decays. Two claims, two
votes or two leaders are what a lost race needs.

Fairness. `FairSpec` of the mesh assumes that the runtime polls a call that can
go on (an answer or the phase timeout always comes: the TCP client wraps every
request in a timeout), that the blocking pool runs its closures, and that
recovery and a reconcile call, once started, are polled too. It does not
assume that requests are handled, servers stay registered or transactions are
begun. `FairSpec` of the store assumes that a flush that has started is run to
its end, and that the flush loop wakes up while something is pending.
`BusSpec` assumes that a publish call that was made runs to its end (it never
blocks) and that the runtime polls the shard workers; nobody has to publish,
subscribe or read.

Deadlock is checked in the mesh and store runs. `bus` and `services` may
stop: a worker waits for ever on an empty queue, a bus whose publishers are
done is silent, and a service whose callers have used up their bound rests.

## 4. Proofs

Every theorem holds for every value of the constants that the named assumption
of its module allows: any number of servers, publishers, tasks, callers, ids,
and every capacity, budget and bound. Each rests on an inductive invariant: a
lemma shows that the initial states satisfy it, one lemma per action (or group
of actions) that the action keeps it, and the theorem puts them together. The
assumptions are the types of the constants and, where the argument needs it,
that a set is finite or not empty, or that a model value that stands for
"none" is not one of the others; TLC evaluates all of them in the runs.

### McpMesh

- `TypeCorrect`, `InvariantHolds`: `TypeOK` and `IInv`;
- `CommitSafe`, `AbortSafe`, `SuccessSafe`, `CommitEntrySafe`: the four safety
  invariants of `mesh_crash`;
- `RefinesAtomicCommit`: if no transaction deadline expires,
  `Spec => ImplementsAtomicCommit`.

None of the four is inductive. A commit may be sent by a call, by a reconcile
call or by recovery, so "every participant has prepared" must be known of each
place that can lead to one: `IInv` says it of the state of every call
(`PhaseInv`: what has been acknowledged in each phase), of every log entry, on
disk, on its way there or picked by recovery (`LogInv`), and of the queue and
the record a reconcile call works on (`CommitInv`). `AbortInv` adds that an
aborted call has left nothing anywhere that could be committed later
(`Untouched`). `OtherCalls` and `SameKeeps` settle once that a step leaves all
other calls alone, `LogKeeps` that a log which only grows by true entries stays
true.

The refinement needs two more facts. `RequestsInv`: whoever is asked, awaited
or queued for compensation, by a call or by a reconcile call, is a participant
of the transaction. `RollbackInv`: a rollback is sent only for a transaction
that aborted in its prepare phase. Then every step either stutters or is the
abstract step of the one participant that handles a request. The hypothesis is
needed: the deadline drops a call at any await, also after some commits, which
is the finding `mesh_doc_timeout`.

### SessionStore and TurnLog

- `StoreTypesProved`: `TypeOK`, whatever fails;
- `FilesContiguousProved`, `AppendOnlyProved`: the segment files;
- `IndexIsTrueProved`, `NoKeyConflictProved`: the index;
- `ConfirmedKeptProved`, `AnswerIsDurableProved`: what was promised to callers;
- `ReplayOnceProved`: replay repeats nothing, through forks of any depth;
- `RebuildHealsProved`: after `rebuild_index` both readers find every record
  of the session's own files;
- `ForkSeesPrefixProved`: a fork replays what replay of its parent showed below
  the fork point, and that never changes.

All but the first suppose `~IoErrors`: writes, fsyncs and index updates do not
fail, while batches may still be refused and the process may die at any step.
The hypothesis is needed: after a failed write the offsets repeat, which is the
finding `store_doc_failed_write`.

The argument goes from the files up. `BaseInv` (types, `IdsOK`: a segment id
stands for one segment, in the index, in the hands of a flush and in the open
session; `ForkOK`: copied rows end right before the fork point) needs no
hypothesis. `FileInv` says that every record is at the place its number
gives (`Places`), that all files but the last are full, that the open segment
is the last file or a full one before a file a crash left empty
(`StateFits`), and that what is written and not synced is exactly what the one
flush between the two has to sync (`SyncOK`). Every step keeps the synced
records where they are (`StaysPut`), so `RowsOK` is inductive: an index row, a
row on its way there and a noted offset name a synced record. `KeysOK` keeps
the rows of concurrent flushes apart, `OnceOK` puts an event in the queue, in
one batch or in one record, and `OkKnown` has an index row for every confirmed
event. An answer of `persist_turn` is a noted offset, and its record stays put
(`AnswersOK`).

The readers follow the parent links of copied rows with a recursive function,
`Root`, whose value has to be known without induction over data. `Forest` says
that some function leads from every row to a row without a parent, agrees along
each link, and from no two rows of one session to the same one; links go to
smaller ids, so a row at which it differed from `Root` would have a parent at
which it does, and the least such row refutes itself (`RootIs`). With `OwnOnce`,
one id for every segment of a session, two cursors of a replay then read two
files, and numbers are not repeated inside one (`ReadInv`). After a rebuild
every segment that has records has a row that ends at the last of them
(`Covered`), and the two readers return everything such rows point at.

What a fork inherits needs no index that is complete. A cursor returns the
records of one file up to an end (`CursorsShow`), and by `InheritInv` every
copied row leads to a row of another session whose file is synced up to the end
of the copy, while `seen` is what the copied rows of the session show. Synced
records stay, a row without a parent keeps its file, and a rebuild replaces own
rows only, so neither side changes (`ShowsStays`, `CopyStays`); the fork itself
cuts each parent row at the fork point (`ForkCopy`). A hole that overlapping
flushes have left in the parent's replay, the finding `store_doc_replay`, is
inherited with the rest.

### EventBus

`BusTypesProved`, `EachEventOnceProved`, `OrderKeptProved`, `CreditsProved`,
`CriticalNoticedProved`, over `BusInv`. `PlaceInv` says that an event is in one
place and that only events of shard lanes are in shards; `PubsGood` that what a
publisher has in hand is the last it published, which is what makes the order
in the ring follow from the order in the shard and in the publisher's steps;
`CritInv` follows a critical event through the side channel. Finitely many
publishers are assumed, since the credits are counted.

### TieredStore

`TierInvProved`, `NothingLostProved`, `ReadsLatestProved`, `TierTypesProved`,
`HotWithinCapacityProved`. `TierInv` says at each place of a task what the copies it carries are and which
ids it may remove. `SafeInv` makes `NothingLost` inductive: an entry that is in
no tier is in `Solid` of a task, the copies it is bound to write whatever the
others do. `CalmInv` does it for `ReadsLatest`: while no two operations have
overlapped, none has failed and no LSCT migration has run, it says at each place of the only one under way which ids already
have their latest entry on top and which are about to get it back. `RoomInv`
says in the same way by what the access order of the hot tier differs from its
entries in the middle of an insert or a removal, and how much room there is, so
that between operations the capacity holds.

### QuestEngine and TaskDag

`QuestInvariant`, `CheckpointKeptProved`, `CompletionReportedProved`,
`QuestBoundsProved`. A confirmed checkpoint keeps an intact file at least as new
because every file a pruning call has picked has a newer intact one (`KeptInv`),
and no stamp is used twice (`StampsInv`). `DirectoryInv` bounds the files that
nobody is about to unlink.
`CheckpointKeptProved` supposes `MaxKeep # 0`: the proof does not go through
without it, and the code does break the property there (section 5).

`DagInvariant`, `DagVerdictProved`, `DagLoopProved`: kahn_core is right on every
list of tasks. `DagInv` is the loop invariant: a degree is the number of listed
edges to ids that are not in the order, the ids of degree zero are the order and
the queue, each once, and every edge inside the order points backwards. A
positive degree at the end gives a set of tasks that wait for one another; an
order as long as the list gives a first member of any such set, which waits for
nobody. That sorting has a result and that a set of positions has a least
member are shown in `Ordering_proofs` by taking a minimal counterexample
(`LeastSubset`), since the library's induction theorems cannot be used.

### PeerScheduler and SubAgent

`SchedInvariant`, `NeverUndercountedProved`, `BrokerProved`. The count of a peer
and its leases change under different locks, so the invariant adds up the calls
between the two (`ToRaise`, `ToLower`). Behind the broker, one claim at a time
makes grants and leases match, and the governor's window is never ahead of the
clock reading of the claim. Finitely many to-dos and agents are assumed.

`SubInvariant`, `FirstCauseWinsProved`, `NoNestingProved`: `TokenInv` says for
each step of a canceller or watcher what flag and reason are.

### Gateway

`GatewayInvariant`, `OneCallPerKeyProved`, `NoWaiterForgottenProved`,
`GuardsProved`. `CoalescerInv` says that a leader has the entry of its key as
long as the token is valid, and where a waiter is listed; `GuardInv` and
`BreakerInv` what the tasks between load and store know.

### SccCache

`CacheProved`: types, `EveryEntryListed`, `OverflowExplained`. Only one task is
inside `insert`, while `get_or_prefetch` touches both maps without its lock.
`UserOK` says at each step of that task what it knows: its victim is still an
entry, the id it is about to fill in has been put into the order, and there is
room for it within the capacity and the overflows so far.

### AppServer and Approvals

`AppInvariant`, `StuckOnlyByForkProved`, `HistoryKeptProved`,
`ModesAgreeProved`. Sweeps take the shards in order, so a circle without a fork
would contain a shard above the highest one waited for. A turn under way keeps
its actor unless it was replaced (`HistoryInv`); the sessions behind a sweep
have its mode (`ModesInv`).

`ApprovalInvariant`, `VotesStandProved`: a removal that is still to come is
about a request that has expired, and an accepted vote that has not been
answered yet is the recorded one.

### Only model-checked

Liveness (`mesh_live`, `store_live`, `EventsSettle`) is out of the prover's
reach. The conjunction `ServicesInv` is a checking device; each of its parts is
a theorem of its module.

## 5. Observations beyond the listed findings

These disagreements between comment and code show in the same models and have
no run of their own.

Mesh and store: `wal.rs:11` announces a Rollback entry which `rollback_phase`
never writes; `mesh.rs:854` takes an empty result of a reconcile call for
success although unregistered participants are dropped; `tree.rs:395-418`
compares a fork's coverage at its two ends only, so a parent row whose end is
stale leaves a hole in the child, which a rebuild of the parent does not fill; `replay.rs:22` equates
replay with `read_events`, which follows one parent link only;
`writer.rs:181` has `flush` put everything pending on disk, although it
returns at once when another flush has taken the queue; `replay.rs:16-17` has
replay yield the order of the writes, although two flushes may take their
batches in one order and lock the sessions in the other; `server.rs:360` has
`persist_turn` return the offset of its own event, although another turn's
flush may have moved `last_offset` on.

Tiers: `coordinator.rs:731` says an LSCT migration loses nothing, although the
source is erased without another look at the target. A delete that overlaps a
promotion, or an insert that overlaps a decay, brings the older entry back. So
does a migration on its own when it skips a tier: with an older copy in warm and
the newer entry in hot, hot to cold writes cold and erases hot
(`coordinator.rs:761-779`), and `get` meets the warm copy first. `ReadsLatest`
therefore excludes LSCT migrations. `warm.rs:203` says that a batch that fails is
rolled back; `insert_batch` leaves its `BEGIN` open on the one write connection
when a statement fails (`warm.rs:215-237`). The model's `StorageError` takes the
documented rollback.

Quests: `control.rs:96-97` says the subscriber logs errors and goes on, but a
lagged receiver ends its loop (`control.rs:113-116`); a save that began earlier
may carry the later `created_at`; a task list in which an id occurs twice is
reported as `CyclicDependency`; `with_max_keep` accepts 0 (`checkpoint.rs:57`),
and then a save deletes the file it has just written and confirmed.

Scheduler: `scheduler.rs:153` promises an exclusive task, but the bare
scheduler may grant it twice; an expired lease is deferred until it is claimed
again (`scheduler.rs:223`) and never can be (`scheduler.rs:156`); a decrement
that overtakes its increment is dropped and the counter stays too high.

Session table: `thread_fork` waits for itself when parent and child fall into
one shard, and two forks, or a fork and a sweep, can wait for each other
(`server.rs:549` and `574`); a second fork of one parent and a start that
overlaps another replace an actor and its history; forks ignore
`max_sessions`; `server.rs:580` has `mode_set` affect later sessions, which
begin in the default mode.

Approvals: `approval.rs:69` announces `Unknown`, which is never returned; after
an expiry two voters may both be told `Accepted`.

Gateway: `transport.rs:90` lets a single probe through in the half-open state,
while every caller that finds it passes; `cost_guard.rs:119` speaks of one
request too many, and there may be as many as there are callers.

Bus: the worker releases a credit for events that took none, so the pool may
be fuller than what was taken from it would allow (it is capped at its size).

Cache: `cache.rs:170` says an overflow is cleaned up by the next eviction,
which removes one entry and adds one.

Read but not modelled: `gatherer.rs:98-99` of `gqep-executor` counts unfinished
futures as failed when the deadline cuts the collection, while
`collect_with_deadline` leaves `failed` as it is.

## 6. Plan

1. Done: the modules of section 2; proofs of every safety property.
2. Modules next: the entanglement buffer of `mcp-mesh`, the gatherer of
   `gqep-executor`.
3. Runs next: two calls of the mesh on one server, `rebuild_index` of an open
   session, and a fair run of `AppServer` for the stuck forks.

## 7. Not modelled

Routing, scoring, learning and compression crates compute with floats and text
and keep no protocol; the TUI, the CLI, encoders and bridges are I/O and
encodings; `nexus-contracts` holds types only. Within the modelled crates:
statistics, display queries, endpoint validation, frame encodings; topics,
schema registry and causal order of the bus; the semantic cache, rate limiter
delays and codecs of the gateway; priorities, thinking modes and metrics of the
quests; decay weights of the tiers; prefetching of the cache.
