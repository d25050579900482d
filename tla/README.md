# A TLA+ model of the key-value store

TLA+ specifications of the storage engine, the Raft nodes, the cluster manager
and the server process of this repository, TLC configurations that check them
on small instances, and TLAPS proofs about the elections and the server. `PROJECT.json` maps every definition to the lines
it models and lists runs, mutants, hazards, findings and theorems.

## 1. The system

| Part | Source | State | Operations that change it | What is hard |
|---|---|---|---|---|
| Storage engine | `engine/engine.go` | active memtable, immutable memtables, levels of readers, file counter, `flushCh`, `compactCh` | `Put`, `Delete`, `BatchPut`, flush goroutine, `Close`, `Open` | flush steps interleave with clients and `Close`; kill between any two; full `flushCh` |
| WAL | `wal/wal.go` | numbered files, active file | `Append`, `AppendBatch`, `Rotate`, `Replay`, `PurgeOlderThan` | torn tails, prefix of a batch, purge against replay |
| Manifest | `engine/manifest.go` | log of added and removed files | `AddFile`, `RemoveFile`, `replay` | a compaction is several records |
| Compaction | `engine/compaction.go` | the merge in progress | `compactL0`, `compactLevel` | reads levels, works unlocked, installs; races with flushes |
| Merge iterator | `engine/merge_iterator.go` | heap of sources | `Next` | priority must follow age |
| Memtable | `memtable/` | skip list, frozen flag | `Put`, `Delete`, `Freeze` | nil means deleted |
| SSTable | `sstable/` | immutable file, index, Bloom filter | `Writer`, `OpenReader`, `Get` | empty values, block search |
| Raft | `raft/raft.go` | term, vote, log, state, commit index, per-peer indexes, proposals | elections, replication, `Propose`, RPC handlers, restart | lost, late, repeated and reordered calls; restarts; change of leader |
| Raft log | `raft/log.go` | file of entries | `Append`, `TruncateFrom` | file is rewritten from nothing; appends behind a torn record |
| Raft transport | `raft/transport.go` | cached connections | `Send*` | no timeouts; `Close` leaves accepted connections open |
| Node | `raft/node.go` | Raft and an engine | apply loops, `Stop` | re-application after a restart; two loops and `Stop` waiting for each other |
| Cluster manager | `server/cluster.go` | nodes, running, stopped | `Start*`, `Stop`, `StopNode`, client calls | waits while it holds its lock |
| TCP server | `server/tcp.go`, `server/protocol.go` | listener, connections | accept, handle, `Stop` | idle connections |
| Event bus | `server/events.go` | subscriber channels | `Subscribe`, `Unsubscribe`, `Publish` | full and closed channels |
| HTTP API | `server/api.go` | handlers in progress | requests, event streams, `Stop` | calls that outlive `Shutdown` or the cluster |
| Server program | `cmd/server/main.go` | TCP server, HTTP API, engine | the shutdown | the order in which they end |
| Client library | `client/client.go` | a connection | its methods, `Close` | connections that end under a request |
| Admin server, dashboards, command-line programs | `server/http.go`, `server/dashboard`, `web/`, `cmd/client`, `cmd/bench` | none of their own | | |

A TCP client talks to the engine of the server process. An HTTP client also
reaches the cluster manager, which looks for the leader of a cluster of nodes
in the same process and calls `Propose` there (or reads the leader's engine); Raft
replicates the command; the apply loop of every node writes it to its engine;
the engine logs it, inserts it into the memtable, and flushes and compacts in
the background.

## 2. Modules

| Module | Models | Notes |
|---|---|---|
| `Entries` | entries, images, decoding | key = number, value = number of the write; `put`, `empty` (length 0), `delete` |
| `Engine` | engine, WAL, memtables, flush, `Close`, kill, `Open` | a call of a client holds `e.mu` throughout and is one step; `flushMemtable` is six |
| `KVMap` | abstract map with durability | what the engine promises |
| `MCEngine` | instances; refinement mapping to `KVMap` | |
| `EngineCompaction`, `MCEngineCompaction` | `Engine` composed with the compaction goroutine | one step per manifest record |
| `Raft`, `MCRaft` | Raft nodes and network | one step per critical section |
| `RaftElections`, `MCRaftElections` | `Raft` with the record of all votes and elections | history only |
| `NatBounds` | least and greatest element of a set of naturals | lemmas for the proofs |
| `Node`, `MCNode` | one node: log file, `AppendEntries`, apply loops, engine, `Stop`, kill, restart | the other nodes are a log that leaders extend |
| `Protocol` | the codec of requests, responses and commands | operators on sequences of cells |
| `TcpServer` | TCP server and client library | one step per blocking operation |
| `EventBus` | event bus and event streams | one step per send |
| `ClusterManager` | cluster manager, its callers, `statusLoop` | one step per critical section of `cm.mu` |
| `Server`, `MCServer` | `TcpServer` and `ClusterManager` composed with `main` | |
| `RaftTypeProofs`, `RaftElectionProofs`, `ServerProofs` | theorems of section 5 | proofs |

### Engine

`wal`, `manifest` and `ssts` are on disk and survive a kill; the other
variables are the fields of `Engine`; `acked`, `logged` and the counters are
history. A WAL file is what its replay yields, with a flag for a torn tail,
behind which replay sees nothing. A memtable is known by the number of the WAL
file that was active when it was frozen. Whether a write fills the memtable is
nondeterministic. Definitions marked "Mutant" are the plausible mistakes that
show that a property can fail; nothing else uses them.

`flushMemtable` is `WriteSSTable`, `FlushAddFile`, `FlushInstall`,
`RemoveImmutable`, `PurgeOlderThan` (per file) and `FlushDone`. `Close` is
`CloseBegin`, `FlushLoopExit`, `CloseFlushActive`, `CloseFlushImmutable` (per
memtable), `CloseFlushed` and `CloseEnd`; clients may write until it ends, as
the code lets them, and a memtable frozen after the loop stays unflushed (its
records are in the WAL). `Crash` and `CrashInWrite` (with a prefix of a batch, and maybe a torn
record) kill the process.

`KVMap` is what callers may expect: a call takes effect as a whole or fails
without a trace, a stop keeps what is durable and a restart shows it.
`ImplementsMap` is stated over the steps of the engine, with `HalfBatch` as its
one exception. `running` (the process is up) is part of the abstract state:
without it, a kill that leaves half of a batch would look like a smaller batch.

The properties over values use `Intact` as hypothesis: no flush task dropped,
no record appended behind a torn one. What happens otherwise is the subject of
the run `engine_zeroloss` and of section 3.

### EngineCompaction

The steps from the first read lock to the end of `writeCompactionOutput` are
one action: levels 1 and up have no other writer, and of L0 the code keeps the
snapshot it took. The edits of the manifest are one step each, with `e.mu`
held; a flush can add to the manifest in between. Sizes are numbers of keys,
so levels fill up with two keys. The history variable `lost` records the two
windows in which the code loses files (a kill between the first and the last
edit of the manifest, and the race shown by `compaction_race`); `KeysSurvive` and `DeeperIsOlder` say that there is no
third one.

### Raft

Timers are nondeterminism: a node, a leader too, may start an election at any
time, and a leader may send at any time. A vote is asked for once per term and
its messages are used up; an AppendEntries and its reply stay in the network
when handled, so they may be repeated and overtaken at will. Any message may
be lost (`RpcFail`). A restart keeps term, vote and log.

- The goroutine that receives a vote takes `r.mu` and the vote lock one after
  the other; here it is one step. A tally counts only while the node is still
  a candidate in the same term, so a step in between changes nothing.
- `Propose` may time out; here it waits for ever. So `confirmed` contains
  every answer the code can give, and `ProposeBlocksUntilCommitted` is violated
  by a trace short enough for the timeout.
- The commit index of a follower is the minimum of the leader's and its own
  last index, not of the last entry sent. That is safe only because a leader
  always sends everything up to the end of its log.
- A node that was stopped and still answers RPCs is in `Node`, not here.

### Node

`file` is the log file as the sequence of the writes that made it: `writeEntry`
writes a header with the index, the term and the length of the data, and then
the data, so a kill can leave a header without data at the end. `Replays` is
what `replay` makes of a file; the bytes of the next record, read as the data
of a torn one, become `Garbled`. `log` is `l.entries`. The environment is a
leader's log that leaders of rising terms replace behind its committed prefix
(`ClientProposes`, `LeaderCommits`, `NewLeader`), which is what `Raft`
guarantees; a message carries any part of it, so messages are repeated and
overtake each other.

`HandleAppendEntries` is the whole handler under `r.mu`; `KillInHandler` ends
it after any of its writes, in the middle of `rewriteFile` too. A garbled
command makes its decoder panic, which ends the process (`EnginePanics`; there is at most one
such end more than `MaxKills`, because a node that reads its log again panics
again). `mainLoop` is `MainSends`, `MainAnswered` and `MainExit`: it waits in
`sendHeartbeats` until the peers have answered. `applyLoop`
is `ApplierWake`, `ApplierSend`, `ApplierEnd` and `ApplierExit`;
`engineApplyLoop` is `EngineTake`, `EngineApply` and `EngineExit`. `Stop` is
`StopBegins`, `RaftStopBegins`, `RaftStopEnds` and `EngineCloses`; a stopped
node goes on answering on connections accepted before.

### Server, TcpServer, ClusterManager, EventBus

A connection goroutine is at the test of `closeCh`, in `ReadFrame`, in a
handler or writing; bytes in flight are sequences of cells, and every request
and answer passes through the encoders and decoders of `Protocol`. `content`
and `truth` record what the requests amount to without them.

A caller of the cluster manager is a goroutine of an HTTP handler. A critical
section that neither waits nor publishes is one step; `mu` names the caller
that waits or publishes with `cm.mu` held for writing. Nodes are seen through
`IsLeader`, which a stopped node may go on answering with true, and through
`Stop`, which panics when called twice: `net/http` recovers the panic and the
deferred `Unlock` runs. A `Publish` holds `eb.mu` for reading from its first to
its last send.

`Server` adds `main`: the signal, `Shutdown` of the API with its five seconds,
the three statements of `tcpServer.Stop`, and `eng.Close`.

## 3. Runs

Runs that pass:

| Run | Properties | Shows |
|---|---|---|
| `engine_calls` | `OpenSucceeds`, `ReadLatest`, `Durable`, `ImplementsMap` | `Get` and a restart answer with the last write at every point of flushes, `Close` and kills; `Open` never fails; with batches, also of two records for a key, the engine implements `KVMap`, except for a kill between two records of a batch |
| `compaction_safe` | `CompactionTypeOK`, `OpenSucceeds`, `LevelsDisjoint`, `RangeMatchesGet`, `KeysSurvive`, `DeeperIsOlder`, `ListedImmutable` | compaction of three levels against flushes, `Close` and a kill: disjoint levels, `Get` and `ReadRange` agree, data moves down in the order of its age, no listed file is written twice, no key is lost outside the two windows |
| `compaction_live` | `FlushedInTheEnd`, `CloseReturns`, `L0Drains` | queued memtables are flushed in the end; `Close` returns; L0 drains, with one pending signal only |
| `raft_elections` | `ElectionSafety`, `ElectionInv` | one leader per term, and the inductive invariant of section 5 |
| `raft_replication` | `TypeOK`, `LogMatching`, `LeaderCompleteness`, `StateMachineSafety`, `ConfirmedKept`, `CommittedKept` | logs match under overtaking and repeated calls; committed entries survive four terms of alternating leaders, two candidates in one term and a restart; proposals confirmed in their own term stay |
| `node` | `TypeOK`, `AckedOnDisk`, `AppliesCommitted`, `EngineCaughtUp`, `CommittedApplied`, `NodeStopReturns` | what a node acknowledges it reads back after a kill, outside three windows; committed entries reach the engine once, in order and in the end, and applying them again after a restart leaves no trace; `Stop` returns unless a peer never answers |
| `server` | `TypeOK`, `AnswersTrue`, `BrokenMeansNotDone`, `EngineClosedLast`, `NodesAccountedFor`, `LifecycleOrder`, `FreshTarget`, `PanicOnlyAfterStopNode`, `PublishToOpenChannels`, `RequestsAnswered`, `CallsReturn`, `ShutdownReturns` | clients see the engine's answers through the codec; a broken connection means a request not carried out; event streams are in order; no call goes to a node known to be stopped; calls and the shutdown return, with the exceptions below |

`engine_calls`, `raft_replication`, `node` and `server` cover several instances
each: a variable `instance`, chosen at the beginning, selects the bounds.

Runs that find a disagreement between the code and what the repository says of
it (quotations under `findings` in `PROJECT.json`):

| Run | Property | The code |
|---|---|---|
| `engine_zeroloss` | `ZeroDataLoss` | appends behind a torn record and never reads the result again |
| `compaction_newer` | `NewerVersionWins` | keeps the oldest of several L0 versions |
| `compaction_race` | `FlushedKeysKept` | deletes the file of a flush that is listed but not yet installed |
| `raft_propose` | `ProposeBlocksUntilCommitted` | answers success for a proposal whose entry was replaced |
| `cluster_stop` | `StopShutsDown` | `Stop` waits for `statusLoop` with `cm.mu` held, and `statusLoop` waits for `cm.mu` |

More, which the models contain and the properties that pass except, each
by a hypothesis or an alternative of its own:

- A flush task dropped on a full `flushCh` is not sent again
  (`engine/engine.go:470`, where a comment says that the flush "will happen
  eventually"): the memtable stays until `Close`, in front of younger versions
  that have been flushed. Excepted through `dropped`.
- A kill inside `AppendBatch` leaves a prefix of the batch, which replay
  installs (`wal/wal.go:130`; `engine/engine.go:200` says "atomically",
  `requirements_test.go:485` "all or nothing"). Excepted through `HalfBatch`;
  without this alternative TLC finds `ImplementsMap` violated.
- A value of length 0 reads as not found once it has been replayed or flushed
  (`wal/wal.go:281`, `sstable/reader.go:239`). Excepted by kind.
- A kill between the removals and the additions of a compaction leaves neither
  in the manifest (`engine/compaction.go:142`). Excepted through `lost`.
- Deletion markers are never dropped, not even at the deepest level
  (`engine/compaction.go:301`), against the document's "Tombstone cleanup".
- Raft log: a record appended behind a torn one is read as the data of that one
  at the next restart (`raft/log.go:148`); a kill inside `rewriteFile` loses
  acknowledged entries in front of the cut (`:307`); a stopped node
  acknowledges what it cannot write, because `handleAppendEntries` ignores the
  errors (`raft/raft.go:673-679`). Excepted through `lost` of `Node`.
- A garbled command (above) makes the decoders, which check no lengths, panic
  in `engineApplyLoop` at every start (`raft/log.go:41-105`). Only after an
  append behind a torn record.
- `Raft.Stop` waits for `mainLoop` before it closes the connections, and
  `mainLoop` for RPCs without a timeout (`raft/raft.go:180`, `:451`,
  `raft/transport.go:176`): with a peer that never answers, `Stop` does not
  return. An alternative of `NodeStopReturns`.
- After a restart a node applies its log from the first entry to an engine that
  holds later ones (`raft/raft.go:579`): until it has caught up, reads go back
  in time. `EngineCaughtUp` speaks of the time after that.
- `StopNode`, and then `Stop`, close the channels of a node twice: the panic
  leaves the cluster half stopped and marked as running
  (`server/cluster.go:197-203`). Excepted in `PanicOnlyAfterStopNode` and
  `NodesAccountedFor`.
- A start that fails leaves nodes created, with their listeners open
  (`server/cluster.go:152-162`): state `"created"`.
- A client that keeps its connection open without sending keeps
  `tcpServer.Stop` from returning (`server/tcp.go:56`). An alternative of
  `ShutdownReturns`. `CallsReturn` has the deadlock of `cluster_stop` as one.
- An HTTP handler that outlives the five seconds of `Shutdown` uses a closed
  engine. Excepted in `EngineClosedLast` through `timedOut`.

### Bounds

Every bound is a named constant. Two keys are the least with which files can
overlap, be disjoint and touch; two to four writes fill several memtables and
overtake each other; the second of two restarts interrupts what the first one
recovered. `FlushCap` (16 in the code) is 2, so that three memtables overflow
the channel, and 4 where it should not overflow. Three nodes are the least with a majority
that is not everyone; two terms suffice for a conflict between logs, four for
an entry that is replicated, replaced and replicated again. In two instances
of `raft_replication` the candidates are fixed (`Turns`: n1 in odd terms, n2 in
even ones) and n1 replicates to one node only (`ReplicatesTo`): to n3, whose
vote decides between n1 and n2, in `"terms"`; to n2, whose log then conflicts
with that of n1, in `"entries"`. In its instance `"restart"` n1 and n2 compete
in the first term and replicate to everyone; in `raft_elections` any node is a
candidate at any time. `MaxMsgs` bounds the calls in flight, not their
repetitions.

In `node`, two terms and two entries make logs conflict; `ApplyCap` (256 in the
code) is 1, so that `applyLoop` waits for room; the second of two kills reads
what was appended behind the record the first one tore. Its instances divide
kills, applying and `Stop` among them, and only `"stop"` has `mainLoop` wait for
peers. In `server`, two
callers are enough for every pair of operations to meet, and two nodes for one
to be stopped and the other not; keys and values include the empty one.
`ChanCap` (64) is 2, so that events are dropped. Its six instances divide the
product of the TCP and the cluster side, which share only `main` and the
engine. Behaviours end when the bounds are used up, so the configurations do
not check deadlock.

### Fairness

Weak fairness of the flush goroutine, of a `Close` in progress and of the
compaction goroutine: each is a goroutine the Go scheduler runs whenever it
can, and waits for mutexes only, which starve nobody. None for clients, kills
and `Open`. In `Node` and `Server` weak fairness of the disjunction of the
steps that goroutines take by themselves (the scheduler does not stop while one
can go on), and one of each engine call; none for the answers of peers, leaders, clients, users,
the ticker and kills. In `Node` also strong fairness of `MainExit`: `mainLoop`
is at its `select` again and again, and Go chooses at random among the channels
that are ready, so it takes `closeCh` in the end. Time limits in the code (two seconds in `findLeader`, five
in `Shutdown`) are steps that may come at any time and come in the end.

## 4. Hazards

`hazards` in `PROJECT.json` lists what is hard to test, with the line where it
bites and the properties that cover it; a note says what a property excepts,
or why none covers it.

## 5. Proofs

### Raft

For every finite set of nodes and all bounds (`RaftAssumption`):

- `RaftTypeOK` (`RaftTypeProofs`): `Spec => []TypeOK`. It includes that
  `nextIndex` stays above 0, which `replicateTo` relies on when it subtracts 1.
- `ElectionSafe` (`RaftElectionProofs`): `ElectionsSpec => []ElectionSafety`,
  no two nodes are ever leaders of the same term.

Election safety is not obvious here: `becomeFollowerLocked` clears `votedFor`
also when the term stays the same, so a candidate that hears from the leader
of its own term drops its vote and may vote again in that term. By then the
term is decided, and the nodes that decided it never drop theirs: they are
followers, or the leader itself, whom no other leader of the term can write
to. `ElectionInvariant` makes this inductive, over the record `granted` of all
votes and `elected` of all elections won:

1. `VotesRecorded`: the votes nodes hold and candidates have counted are on
   record, none of a term its voter has not reached;
2. `LeadersRecorded`: every leader is on record with the quorum that elected
   it, and is not a candidate again in that term;
3. `MessagesRecorded`: a reply that grants a vote is on record, an
   AppendEntries comes from a recorded leader of its term;
4. `VotesUnique`: in a term without a leader nobody has voted for two;
5. `QuorumsHold`: the members of a quorum that elected a leader voted for
   nobody else in the term, and still hold their vote or have left the term.

Two quorums share a node (`QuorumsMeet`), and by 5 its vote excludes a second
leader of the term. The proof has one lemma per kind of change to the election
state and one per action; TLC checks the same invariant in `raft_elections`.

### Server

For all sets of clients, callers, streams, commands and all bounds, every
capacity above 0 (`ChanCapAssumption`), and with the callers and `statusLoop` as
publishers (`PublishersAssumption`), in `ServerProofs`:

- `ClosedLast`: `Spec => []EngineClosedLast`. `ShutdownInv` is inductive: the
  engine is closed only once `main` is past `tcpServer.Stop`; then the accept
  loop is done and no connection is served, which no step changes; past
  `apiServer.Stop` every caller is idle, unless `Shutdown` gave up; and calls
  are late only once the engine is closed.
- `OpenChannels`: `Spec => []PublishToOpenChannels`. Every step of the process
  is a step of the bus or leaves it alone (`NextOnBus`), and the steps of the
  bus preserve `BusInv`: channels still to be served are subscribed, because
  `Unsubscribe` waits for the read lock of every `Publish`, and a stream that
  was never opened has been sent nothing.

Only model-checked: the liveness properties (fairness and ENABLED are beyond
the prover), the refinement, everything about the engine, the logs and `Node`.

## 6. Open ends

1. `Manifest` at the level of records with torn tails, and the state file of
   Raft with a torn write; failing file operations.
2. Algorithms as operators against reference definitions: the heap of the merge
   iterator, block search, Bloom filter, skip list.
3. Proofs: type invariant and `OpenSucceeds` of `Engine`, then `ReadLatest` and
   `Durable`; log matching of `Raft`; `AppliesCommitted` of `Node`.

## 7. Not modelled

- The admin server of `server/http.go` (no program starts it), the dashboards
  and the command-line programs: they hold no state of their own.
- Of `server/api.go`: decoding and presentation, and the demonstration of crash
  recovery, which works on an engine of its own. A benchmark makes one engine
  call in the model. Its writes go to the leader's engine past Raft
  (`server/api.go:302-305` says so), so `EngineCaughtUp` speaks of a node that
  runs none.
- Counters and rates of the dashboard (`nodeMetrics` is read and replaced
  without a common lock), metrics and logging.
- The bytes of the WAL, the MANIFEST and the SSTables with their blocks,
  checksums and Bloom filters; the towers of the skip list (its
  iterators are used under `e.mu` or on a frozen memtable).
  The engine's answers depend on what these structures hold, which is modelled,
  and each is a sequential algorithm on one file or under one lock.
- The cache of client connections in `raft/transport.go`.
- In `ClusterManager`, a `Stop` of a node that does not return. The peers of
  its nodes are in the same process and answer even when they are stopped,
  with one exception that takes three nodes: a node elected while
  `StartWithNodes` is still starting later ones, which accept no connection
  yet, when one of these fails to start.
- Lengths beyond 32 bits in the codec: no encoder writes them.
- fsync of directories and disk errors other than a kill.
