# Verification of the distributed ACID key-value store

TLA+ models of the store in `src/`, the TLC runs that check them on small
instances, and TLAPS proofs that hold for every instance. Line numbers refer to
files under `src/crates/`.

## 1. The system

A node is one process: three gRPC services (`node/src/service.rs`) over a
`NodeState` (`node/src/server.rs`) that owns a Fjall storage engine, a hybrid
logical clock, a transaction coordinator, a region router and one Raft node per
region.

| Component | State | Operations that change it |
|---|---|---|
| Transaction coordinator (`txn-coordinator/src/coordinator.rs`) | none of its own; the three partitions | begin, get and scan (through the resolver), prewrite, commit, rollback, heartbeat, batch_prewrite, batch_commit, check_txn_status |
| Lock resolver (`lock_resolver.rs`) | none | check_txn_status (rolls back an expired primary), resolve_lock |
| MVCC reader, records, keys (`storage/src/mvcc`, `lock.rs`) | none | pure: get, encode/decode |
| Storage engine (`storage/src/engine.rs`) | partitions DEFAULT, LOCK, WRITE | commit_batch (atomic), gc_keys_older_than; ranges, median and statistics are reads |
| Hybrid logical clock (`hlc.rs`) | `latest_physical`, `logical` under a mutex | new, now, update |
| Region router (`raft-engine/src/router.rs`) | `regions_by_id`, `regions_by_key` | insert_region, split_region |
| KvService / TxnService / RaftService | `next_region_id`, `raft_nodes` | ask_split and the calls into the coordinator; send_message, step |
| Raft storage and Multi-Raft node (`store.rs`, `node.rs`) | log, hard state, conf state | append, set_hard_state, process_ready, propose, step |
| Client, batch collector, command line client (`client/src`) | two queues of pending items | the transactional calls; collecting and flushing |

How they interact. A client begins with a timestamp, prewrites its mutations
(locks on all keys, the first one is the primary), draws a commit timestamp and
commits: first the primary, then the secondaries. Anyone who meets a lock asks
the resolver, which looks the transaction up at its primary and rolls the lock
forward or back. Nothing is held between two storage accesses of a handler, so
everything that runs on another worker thread may happen in between. Commands of
the transaction layer do not go through Raft in this code base, and the node
binary runs no Raft tick or ready loop.

What makes it hard, and what must hold:

* handlers interleave between any two accesses; the lock a step removes may not
  be the lock the handler has read;
* clients stop, lose answers, retry, and roll back what may be committed;
* the node crashes between two batches; TTLs expire between two clock readings;
* still a secondary may be committed only if its primary is, an acknowledged
  commit must stay, a reader must see committed versions of its snapshot only,
  and must eventually be answered;
* timestamps must increase although each thread reads the wall clock before it
  takes the mutex;
* concurrent splits working from stale regions must keep the regions a
  partition of the key space.

`PROJECT.json` lists every component and every hazard at its line.

## 2. Modules at a glance

| Module | Models | Checked by | Proofs |
|---|---|---|---|
| `TransactionCoordinator` | two-phase commit with resolver, reader, clients, crashes and time | runs Txn_* | `TransactionCoordinatorTypes`, `...Control`, `...Store`, `...Proofs` |
| `AtomicCommit` | what the coordinator promises: the abstract specification | Txn_readers (`Atomic`) | `TransactionCoordinatorRefinement` |
| `MvccStore` | encoded keys in byte order, the searches over them, lock resolution, scan, garbage collection, region statistics | runs Mvcc_* | |
| `HybridLogicalClock` | the clock the coordinator's timestamps come from | Hlc_threads | `HybridLogicalClockProofs` |
| `RegionRouter` | the router and the AskSplit handler | Router_split | `RegionRouterProofs` |
| `MultiRaftNode` | Raft storage, `process_ready`, RaftService, restarts | Raft_node | |
| `BatchCollector` | the client's two batching tasks | Collector | `BatchCollectorProofs` |

Each `MC` module instantiates the module of its name for TLC.

## 3. Modules

### TransactionCoordinator

One action is one access to the store: a point read, a range scan, or a batch.
`Workers` are the threads of the tokio runtime. Handlers contain no await, so a
runtime with one worker thread runs them one after the other; a multi-threaded
runtime interleaves them.

State and code: `lock`, `write` and `data` are the partitions LOCK, WRITE and
DEFAULT. A write record carries the timestamp of its encoded key; `Insert`
replaces a record at the same key and timestamp, as Fjall does. `data` holds the
(key, start_ts) pairs that have a value, because a value is identified by its
writer. `now` is the wall clock, `issuedAt[ts]` the physical part of timestamp
`ts`; a timestamp is its place in the order of issue. `pc`, `job`, `idx`,
`copy`, `ttl`, `found` and `staged` are a handler's local variables. `phase`,
`start` and `commitTs` say where each client is, `readTs` and `seen` what each
reader asks and was told.

| Actions | Code |
|---|---|
| GetLock, GetWrite, GetData | `TransactionCoordinator::get`, `MvccReader::get`; the second attempt after a resolution has `idx` 2 |
| ResolveScan, ResolvePrimary, ResolveExpire | `check_txn_status` |
| ResolveApply, ResolveLocked | `resolve_lock` by status |
| PrewriteConflict, PrewriteLock, PrewriteRecheck, PrewriteWrite | `prewrite` per key; `batch_prewrite` skips the recheck and writes one batch at the end |
| CommitReadPrimary, CommitWritePrimary, CommitReadSecondary, CommitWriteSecondary | `commit` |
| BatchCommitRead, BatchCommitWrite | `batch_commit` |
| RollbackRead, RollbackWrite; HeartbeatRead, HeartbeatWrite | `rollback`; `heartbeat` |
| Begin, DrawCommitTs, Call... | the client's calls through the services |
| GiveUp, Crash, Tick | lost answers, restart of the node, time |

Abstractions. Byte keys are elements of `Keys` of which none is a prefix of
another, so the versions of a key are contiguous and newest first. The codecs of
`Lock` and `WriteRecord` are lossless on the values the coordinator stores (a
lock's op is Put or Delete), so records stand for bytes. Errors of Fjall itself
are left out. A crash keeps every batch that was committed: with the default
configuration Fjall may lose the unsynced end of its journal when the machine,
not the process, fails, and that is not modelled. Physical time of an issued
timestamp is the wall clock: `HybridLogicalClock` shows when that holds. The
status RPC's answer is not used by a client.

### HybridLogicalClock

`CallNow` and `CallUpdate` read the wall clock, `Now` and `Update` are the
critical sections. `LogicalRange` is 65536 in the code and small in the runs;
`Encode` cuts the logical part to it. `last` is the timestamp returned last in
mutex order, `heard` the largest timestamp `update` has taken in. `lost` records
that a restart found the wall clock at the old clock (the order of timestamps
may be lost) or behind it (that of milliseconds too). `WallStepBack` is an
administrator or NTP setting the clock back. `now` and `update` are the only
writers, and nothing in the node calls `update` yet.

### RegionRouter

The two maps, the id counter, the keys of `raft_nodes`, and AskSplit in five
steps (region read, median, id, split, Raft node), each of which takes and
releases its own locks. Keys are numbers in byte order, 0 the empty key.
`written` holds the keys with a write record, from which `find_median_key`
chooses. `Restart` keeps `written` only. `MultiRaftNode::new` succeeds in the
model: it fails only for an invalid configuration, and this one is constant, or
over a stored log in the cases MultiRaftNode shows, which need `process_ready`.
The fields `peers` and `conf_ver` never change and are left out.

### AtomicCommit

The abstract specification of the coordinator. A transaction draws a start and a
commit timestamp and is `Publish`ed key by key, the first time with its primary
(a client of the batch RPCs excepted, whose secondaries `batch_commit` commits
also without the primary); what is published stays. A reader takes a snapshot and is told, per key, a
version that is published, in its snapshot and of a published primary. There are
no locks, threads, resolvers, TTLs, lost answers or crashes in it. `Published`
and `Acked` in `TransactionCoordinator` are the refinement mapping: the keys on
which a transaction has a commit record, and the clients that were answered Ok.

### MvccStore

The three partitions (`db`), with WRITE as Fjall sees it: byte strings in
lexicographic order. A user key is a sequence of bytes and a timestamp is one
byte here (eight in the code), inverted, behind it. `Reached` is what a loop
that ends at the first record of another key sees; `Get`, `Conflicts` and
`Status` are the loops of `MvccReader::get`, `prewrite` and `check_txn_status`.
`Read` is the answer of the reader, with `CorruptedState` for a version whose
value is gone; `Verdict` and `Resolved` are `resolve_lock`; `GetResult` and
`ScanResult` are the coordinator's `get` and `scan`, with their answer and the
store they leave behind: scan calls get on every key it meets, and get resolves
the lock in its way. `SuggestedSplitKey` is the answer of ReportRegionStats,
`Garbage` and `Gc` the loop of `gc_keys_older_than`.

The calls run one after the other: their interleavings are the coordinator's. A
transaction writes one key, or a primary and a secondary. Its prewrite may be
repeated or come late; its rollback may come before the prewrite and after the
commit; each may end after the first of two keys, as a crash or an error ends
it (a crash inside the resolver, between its batches for the primary and for the
key, is in the coordinator's model only). Time is left out: a call may find any
set `late` of locks expired. `Begin` and `Commit` draw timestamps. `rolled` and
`unchecked` are histories: what was rolled back, and which versions a prewrite
has itself rolled forward after its conflict check. The thresholds of a split
(10000 keys, 64 MiB) are the constants `SplitKeys` and `SplitBytes`; a record's
value counts one byte.

### MultiRaftNode

One region's node, a follower of leaders that satisfy Raft's guarantees (a new
leader has every committed entry, a term has one leader) and may send any
append they could have sent, any number of times and in any order. `store` is
`RaftStorageCore`, `disk` the DEFAULT partition, `raw` what `RawNode` keeps:
term, commit index, `persisted`, `since` (commit_since_index), the unstable
entries and the hard state of the last Ready. `handed` are the entries whose
data `process_ready` has returned since the node was opened. `RestartInReady`
ends the process between the two batches of `process_ready`. `misled` records
that a restart has given the node entries it did not have in memory, or a commit
index it had not reached; `failed` that the raft crate has panicked.

The node is a follower for good: its configuration is loaded from disk,
`set_conf_state` has no caller, and a node without a configuration does not
campaign. So `propose` is refused and `tick` changes nothing the model has. Nothing
under `src/` calls `process_ready`, the tests included: the model takes it to be
called as its signature allows. Replies of a
follower are `persisted_messages`, which `process_ready` does not take, so the
leaders are not driven by this node. The raft crate (0.7) is external, and
modelled from how `node.rs` and `store.rs` use it.

### BatchCollector

`queue` is a bounded channel, `items` the batch a task has collected, `task`
where the task is (collecting, about to send the next item, awaiting the answer,
ended). A client submits its prewrite, and once it was answered Ok its commit;
it may drop the future of a submission (`Cancel`) and submit again, and drop its
clone of the collector. `accepted` and `sent` are histories. README.md says
batches travel together; the code sends one RPC per item, one after the other.

### How the models meet

The router's `written` is the set of keys with a write record in the
coordinator; the clock's timestamps are the coordinator's `issuedAt`;
`BatchCollector` justifies the coordinator's clients, which have one call of
their protocol outstanding; `MvccStore` says for which keys the coordinator's
view of a key's versions (all of them, newest first) is what the code sees: for
those that no other key extends. Commands do not go through Raft, so
`MultiRaftNode` meets the router only, which creates a node per region.

## 4. Runs

All runs use the `.cfg` of their name. Deadlock checking is off for the
coordinator and the clock, where clients may be done and bounds reached; it is
on for the router, where a restart is always possible.

Coordinator (`MCTransactionCoordinator`): two keys, two transactions, one reader
or none, one or two threads. Two keys give a primary and a secondary; two
transactions give every conflict the pairwise checks know. Mutations are
`SpanAndSingle` (t1 writes both keys, t2 the secondary of t1), `Crossing` (each
primary is the other's secondary) or `Deletes` (each deletes what the other puts).
In Txn_writers and Txn_readers time has two instants, `MaxTime` 1, with lock TTL 0 and
heartbeat TTL 1: a lock is alive or expired, and a heartbeat keeps it alive for
good. Txn_one_worker has three instants and three different TTLs, 0 for `get`'s
own (3000 in the code), 1 for prewrite's and 2 for a heartbeat's, so that each of
them is in turn the one that has passed. `MaxBegin` 0 makes all transactions
begin at the first instant, so that their locks can expire.

| Run | Instance | Shows |
|---|---|---|
| Txn_writers | 2 threads, Crossing, give up / rollback / heartbeat, crashes | TypeOK, CommitPoint, AckedIsCommitted, CommittedForever hold |
| Txn_readers | 2 threads, SpanAndSingle, reader, crashes | NoDirtyRead, PutHasValue hold; Atomic: AtomicCommit is implemented |
| Txn_one_worker | 1 thread, Deletes, t1 single and t2 batch RPCs, reader, give up / late rollback / retry / heartbeat / status, no crash, fairness | NoLostUpdate, SnapshotStable, AbsentIsNotPrewritten, PromptCommitsWhole, SkippedWereRolledBack, ReadsAreAnswered hold |
| Txn_race_lost_update | 2 threads, no crash | NoLostUpdate fails |
| Txn_delete_rolled_forward | 1 thread, crashes, Deletes | PutHasValue fails |
| Txn_half_committed | 1 thread, one transaction, a reader, no crash, get's TTL shorter than the lock's | AllOrNothing fails |
| Mvcc_versions | 3 keys, 2 of which extend the first, 3 transactions on one or two keys, 4 timestamps, 4 kinds of scan, garbage collection at any safe point | the eight properties of MvccStore hold |
| Mvcc_prefix_conflict | 2 keys, one extends the other | NoLostVersionOfAnyKey fails |
| Hlc_threads | 2 threads, 3 remote timestamps, clock set back, restarts | IncreasesUntilWrap, AheadOfRemote, MillisecondsInOrder hold |
| Router_split | 2 handlers, 4 keys, 4 region ids, restarts | all six router properties hold |
| Raft_node | 3 leaders, 3 log entries, 2 restarts | the five properties of MultiRaftNode hold |
| Collector | 2 clients, channels of 1, batches of 2, 3 submissions each, fairness | NothingLost, NoLatePrewrite, SubmissionsEnd, TasksEnd hold |

The findings in `PROJECT.json` name the lines of the failing runs. Where each
guarantee ends (what TLC finds when the instance is changed as described):

* First committer wins (NoLostUpdate) holds on one thread without crashes. With
  two threads, prewrite's conflict check and lock write interleave
  (Txn_race_lost_update). One thread and a crash between the commits of primary
  and secondary are enough too, when the second transaction writes the first
  one's secondary and not its primary (`SpanAndSingle`, single-key RPCs for the
  first, `MayCrash = TRUE`): `resolve_lock` rolls the secondary forward after the
  conflict check of the same key has passed (`coordinator.rs:218`), and only the
  lock is looked at again. A second transaction that writes the primary as well
  fails the conflict check there, and `batch_commit` writes both commits at once,
  so neither shows the problem. Without crashes one thread is safe for
  `Deletes`, `SpanAndSingle` and `Crossing` alike, whichever clients use the
  batch RPCs.
* All of this is about keys that no other key extends. With keys "a" and "ab"
  one thread is enough: the records of "ab" lie where the conflict search of "a"
  begins, and end it (Mvcc_prefix_conflict). Reads are safer, because they begin
  at a present timestamp: they miss versions only next to a key that goes on
  with a byte as large as an inverted timestamp (254 for present ones), which
  text has not (ReadsNewest).
* All-or-nothing has no simple condition. A transaction is judged by three TTLs:
  its locks' own, a heartbeat's (the primary only), and the literal 3000 that
  `get` puts in their place (`coordinator.rs:115`). A `lock_ttl` above 3000 is
  enough for a reader to roll back the secondary of a living transaction, whose
  commit then commits the primary, skips the secondary and answers Ok
  (Txn_half_committed); heartbeats do the same, and so does the second clock
  reading of `resolve_lock` (`lock_resolver.rs:127`), when the TTL passes between
  the two. It also fails with no expiry at all: when a client rolls back after
  the node crashed between the commits of primary and secondary
  (`coordinator.rs:304`), and on two threads. What holds, on one thread without
  crashes: as long as none of the three TTLs has passed since it began, nobody
  takes a client's locks away and its Ok means that every key is committed
  (PromptCommitsWhole); and at any time, a key of a committed or acknowledged
  transaction that is not committed was rolled back with a record, or is still
  locked (SkippedWereRolledBack).
* The commit point (CommitPoint, AckedIsCommitted and their theorems) is about
  clients of `commit`. `batch_commit` skips every key whose lock is gone, the
  primary too, commits the others and answers Ok (`coordinator.rs:416`): after an
  expiry a secondary can be committed without its primary, and an Ok can mean
  that nothing is committed.
* "Lock absent" means "not prewritten" on one thread (AbsentIsNotPrewritten). On
  two, a commit between the resolver's scan and its look at the primary lock is
  taken for a rollback (`lock_resolver.rs:70`), and the resolver rolls the
  secondary back.
* With Puts only, every Put record has its value; a Delete that a reader rolls
  forward becomes a Put without one (Txn_delete_rolled_forward).
* A commit that is repeated after a lost answer is told `TransactionRolledBack`
  although the transaction is committed (`coordinator.rs:280`): the client state
  "aborted" of the model does not imply that nothing is committed.
* scan looks at keys with a write record only, and at its first key only if it
  has a record at or before its timestamp. So it passes over a lock on any other
  key, also when the lock's transaction is committed at its primary before the
  timestamp: get would roll it forward and return the value, scan leaves it out.
  ScanIsExact says that these are the only locks it passes over, and is about
  keys of which none extends another.
* Garbage collection keeps the newest record before the safe point, also when
  it is a rollback, and then removes the newest committed version before it. It
  removes values by start timestamp, so the record of a rollback that came after
  the commit takes the committed value with it. GcKeepsReads excepts these two
  cases and no other. The comment at `engine.rs:86` says the newest committed
  version is kept.
* Garbage collection does not look at locks. When it removes the commit record of
  a primary, because the primary has a newer record before the safe point, a
  secondary of that transaction that is still locked is rolled back by the next
  resolver: "lock absent and no commit record" (`lock_resolver.rs:96`).
  GcKeepsVerdicts says that this is the only way in which it changes what
  becomes of a pending lock. A lost rollback record does no harm
  (RolledBackStaysOut): it is removed only behind a newer record of the key, and
  that one keeps a late prewrite out.
* Two versions of a key do overlap when prewrite finds the secondary of a
  committed transaction locked: it rolls it forward after its own conflict check
  (`coordinator.rs:218`). NoLostVersion excepts exactly this pair.
* Timestamps increase until the logical part overflows its 16 bits (65536 calls
  in a millisecond), where `now` returns a smaller one, or a restart finds the
  wall clock not past the old clock, which `lost` records.
* A node whose log was truncated in memory finds the old tail on disk after a
  restart (`store.rs:98` removes nothing there). With `MaxIndex = 4`, and
  HandedAreCommitted without its proviso `~misled`, TLC finds the consequence: a
  log 1(t1), 2(t2), 3(t1), whose last entry is stale, matches a leader of term 3
  at entry 3, and the node commits and hands out 2(t2), which the group never
  committed.
* A restart before the first commit index is on disk: the first stored entry is
  taken for the last compacted one. Without a hard state it then counts as
  committed (`misled`); with a stored commit index 0 the raft crate panics when
  the node is opened. FailsOnlyBeforeFirstCommit says that this is over with the
  first stored commit index. After a restart `first_index` is 2, and entry 1 is
  not handed out again; it is the empty entry of the first leader, so no command
  is lost (StoredFirstIsHanded).
* Entries that are committed already when they arrive come out of `advance` in
  the LightReady that `process_ready` drops (`node.rs:118`): they are not handed
  out before the next restart. StoredFirstIsHanded says that no others are lost
  that way: what was stored when the node was opened is handed out once
  commit_since_index has passed it.
* A call of BatchCollector has no deadline: while the server does not answer,
  everybody behind it on that lane waits. SubmissionsEnd assumes it answers.

Bounds of the other models. Clock: three milliseconds and a counter up to 3
with a field of 2 values, so that the field overflows; the wall clock can be
ahead of, at, and behind the clock when the node restarts. Router: three
non-empty keys and four ids allow three splits, the third of a region that has
been split before, with two handlers at once. MvccStore: four timestamps are two
whole transactions, or three of which one commits; the keys are one, one that
extends it with a byte below all inverted timestamps, and one that extends it
with a byte among them. `Workloads` says which transactions come together: puts
of one key each, or puts of two keys (that do not extend each other) and
deletions of the second. The second workload gives locks that are rolled forward
by get, scan and prewrite, a primary that is overwritten and collected while its
secondary is locked, and values lost to garbage collection. The scans are of
everything, with and without limit, from a key on and up to a key; the split
thresholds are reached from below.
MultiRaftNode: three entries and three leaders give a conflicting tail that is
replaced, and a second leader that agrees with it in part; two restarts give a
node that is opened on what an earlier restart left. BatchCollector: a channel
of one place is full as soon as two clients submit, and three submissions are a
cancelled prewrite, its repetition and the commit.

Deadlock checking is off in these three, where clients and leaders may stop and
bounds are reached.

Fairness. Txn_one_worker (`LiveSpec`): weak fairness of each worker's next step,
because a tokio worker runs a handler without awaiting; weak fairness of the
clock; strong fairness of a reader's call, because the runtime queues a request
until a worker is free, and a worker is free again and again. Clients of
transactions are not fair: they may stop anywhere. MaxTime bounds the clock, but
the lock TTL passes before the bound. Collector (`LiveSpec`): weak fairness of a
task's step and of its timer, because the runtime polls a task that can go on,
and the server answers every call; strong fairness of a submitter's place in the
channel, because tokio hands places out in the order of asking. Clients need not
submit, cancel or drop anything. MultiRaftNode has no liveness property: nothing
in the program drives its ready loop.

## 5. Proofs

Every theorem holds for all values of the constants that satisfy the ASSUMEs:
any number of keys, transactions, threads and readers, any mutations, client
policy and TTLs.

**Coordinator.** `TransactionCoordinatorTypes` (definitions of the invariant,
type correctness), `...Control` (a handler's label, request and locals belong
together; a client's phase agrees with the request that serves it), `...Store`
(locks, records, commit point) and `TransactionCoordinatorProofs`, which combines
them into the theorems

* `TypeCorrect`: `TypeOK`;
* `PrimaryIsCommitPoint`: `CommitPoint` (clients of `batch_commit` excluded);
* `AcknowledgedCommitsStay`: `AckedIsCommitted` (likewise);
* `CommittedVersionsStay`: `CommittedForever`;
* `NoReadIsDirty`: `NoDirtyRead`.

`CommitPoint` is not inductive. A worker that is about to write a secondary
knows that the primary is committed only because it has passed the primary; a
resolver that is about to roll forward knows it because it has read the record;
and a record stays because the only inserts at its timestamp are by its own
transaction with the same start. The inductive invariant `IInv` says exactly
this: which labels go with which request (Control), that a request belongs to a
client that waits for it unless it is an orphan (Waiting, ClientRpcs, Begun,
Protocol), that start and commit timestamps are distinct, issued and ordered
(Timestamps), that every lock, lock copy and record belongs to a transaction with
that start, key and primary (Locks, Records), what each label knows about the
primary (CommitPointKnown), and what a reader holds in hand (Reads).

**Clock.** `HybridLogicalClockProofs`: `TimestampsIncrease`
(`IncreasesUntilWrap`), `RemoteTimestampsPrecede` (`AheadOfRemote`) and
`MillisecondsNeverDecrease` (`MillisecondsInOrder`), for any number of threads,
any width of the logical part, any remote timestamps, and a wall clock that is
set back at will. The properties are about single steps; the invariants they
need are `Ahead` (unless the order is lost, the pair latest, logical is at or
above everything returned and heard, and in a millisecond that is not earlier)
and `NotBehind` (unless the millisecond is lost, latest is at or above the
physical part returned last). `Ahead` counts with the full logical counter, not
with the 16 bits that are encoded, because it must survive an overflow.

**Router.** `RegionRouterProofs`: `TypeCorrect`, `MapsAlwaysAgree`,
`EveryKeyHasOneRegion`, `EveryRegionHasRaftNode`, `EpochsGrow`,
`MedianAlwaysSplits`. The invariant adds to the two maps' agreement a local
tiling (every key is in some region, no key in two) and, for each handler, that
its id is drawn, unused and its own, and that the region it has read still
exists.

**Refinement.** `TransactionCoordinatorRefinement`, theorem
`ImplementsAtomicCommit`: `Spec => Atomic`. A step of a worker that inserts
commit records is a `Publish` of one transaction (the lemmas find its owner and
its keys in `IInv`), an answered get is a `Read`, drawing a timestamp is `Begin`,
`Stamp` or `TakeSnapshot`, and everything else (locks, resolver, rollback
records, crashes, lost answers, time) is a stutter. In addition to `IInv` it
needs `Asked`: a handler of a get that is not given up belongs to a reader that
still awaits this key, so that a reader is told only once.

**Batch collector.** `BatchCollectorProofs`: `PrewritesComeFirst`
(`NoLatePrewrite`) and `ItemsAreKept` (`NothingLost`), for any number of clients,
submissions and cancellations and any capacity and batch size. `NoLatePrewrite`
relates two lanes that nothing synchronises. `LaneInv` adds what makes it
inductive: the items of a client are numbered upwards through batch and channel
(InOrder), so the item that a client still awaits is its last one in the lane,
and an Ok leaves none behind it; and a client with an item in the prewrite lane
has had no prewrite answered Ok, one with an item in the commit lane has
(LanesApart). For `NothingLost` the invariant `Kept` adds that a client that
awaits something owns its clone, so that a task which finds no sender left drops
nothing that is awaited.

Only model-checked: liveness (`ReadsAreAnswered`, `SubmissionsEnd`,
`TasksEnd`), because fairness is beyond the prover; `NoLostUpdate`,
`SnapshotStable`, `PromptCommitsWhole`, `SkippedWereRolledBack` and
`AbsentIsNotPrewritten`, which hold for particular deployments (one thread, no
crash) that the runs select through constants; `PutHasValue`, which
holds for mutations without Delete; and the properties of `MvccStore` and
`MultiRaftNode`.

## 6. What is not modelled

* The command line client (`kv-cli.rs`): one call of `KvClient` per process. It
  makes its timestamps up from its own wall clock; two puts of the same
  millisecond share their start timestamp, and the second prewrite overwrites
  the first one's lock and value. The models take timestamps from one clock, and
  their isolation properties are not meant for such a client.
* Raft: elections and votes, heartbeats, snapshots (`stream_snapshot` drops its
  chunks and answers success) and configuration changes (`set_conf_state` has no
  caller). The consensus algorithm is the external raft crate's.
* Fjall, tonic and tokio, which are external; a loss of the unsynced end of
  Fjall's journal.
* `execute_txn`, which is unimplemented; `raft-engine/src/region`, which is not
  compiled; generated protocol code, configuration, argument parsing and `main`.
