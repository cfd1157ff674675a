# Fused distributed file system: TLA+ specifications

Specifications of the Fused distributed file system, the TLC instances that
check them, and TLAPS proofs about them. Paths are relative to the root of the
repository.

## The system

A cluster of *frontends* serves gRPC requests. A frontend keeps the metadata of
all files in memory, logs it, and replicates every change to the other frontends
with a protocol derived from Paxos. File contents are on *storage nodes*, to which
a frontend writes and from which it reads by quorum. A storage node is an
in-memory inode table over a directory of backing files, behind a gRPC server,
which a TCP adapter in front of it makes available to the frontends; the same
file system can be mounted with FUSE.

| part | source | operations | model |
|---|---|---|---|
| replication | `distributed_core/src/paxos.c` | `paxos_propose`, `paxos_handle_message` | `Paxos`; what it promises: `CommitLog` |
| metadata, log | `distributed_core/src/metadata_manager.c` | create, update, assign, delete, apply, append, replay, truncate | `MetadataManager`; lookup by path in `Frontend` |
| network | `distributed_core/src/network_engine.c` | add peer, send, event loop | `NetworkEngine`; the set `msgs` of `Paxos` |
| storage calls | `distributed_core/src/storage_interface.c` | select, write, read, delete | `StoredFile`, `Frontend` |
| frontend | `src/distributed_frontend.cpp` | Create, Mkdir, Remove, Rmdir, Write, Get; the Paxos callbacks | `Frontend`; callbacks in `Paxos`, `MetadataManager` |
| file system | `src/fused_ops.c` | init, destroy, create, mkdir, rmdir, unlink, rename, write | `FusedFS` |
| FUSE program | `src/fused_main.c` | operation table | `FuseNext` of `FusedFS` |
| RPC server | `src/fused_rpc_server.cpp` | Create, Mkdir, Remove, Write, Get | `RpcNext` of `FusedFS`; what it promises: `StorageServer` |
| TCP adapter | `src/storage_tcp_adapter.cpp` | WRITE, READ, DELETE | `StoredFile` |
| client | `src/distributed_client.cpp` | one call per run | not modelled |

How they interact: a frontend operation takes the coordinator lock of its
frontend, talks to storage nodes one after the other, then calls `paxos_propose`
with the serialized metadata entry. Paxos calls back `persist_wal` (log),
`apply_state_machine` (map) and `paxos_broadcast_message` (network); the event
loop of the network calls `paxos_handle_message` and sends the answer back. A
storage call is a TCP request to the adapter of a storage node, which makes one
gRPC request to the RPC server behind it.

How the models fit together:

    Frontend   is built on   CommitLog      and on   StorageServer
                                 ^                        ^
                                 | implements             | implements
                               Paxos                   FusedFS (RPC server)

`Frontend` has the steps of `CommitLog` as its `Commit`, `CommitFails` and `Learn`,
and takes a file on a storage node for a `StoredFile`, which is also what
`StorageServer` is made of. That `Paxos` implements `CommitLog` is proved
(`Refinement`), and so is that `FusedFS` implements `StorageServer`
(`ServerRefined`). The set `msgs` of `Paxos` and the restarts of
storage nodes and frontends are not derived from a lower level.

What is hard about the system: two frontends propose at once; deadlines race late
answers and slots are reused; messages are lost and reordered; entries that
frontends have of a file are stale; a storage node carries out a request that was
given up; the log fails after the record is written; a process stops at any
moment; inode numbers, backing files and descriptors are reused; the table, a
directory or the slot pool is full; an operation of several steps fails in the
middle. `PROJECT.json` lists each hazard at its line with the properties that
would catch it.

## The modules

### Paxos

One variable per field of `paxos_node_t` (functions of the node) and of
`paxos_proposal_t` (functions of the slot `<<node, index>>`), the locals of
`paxos_propose` per thread, and `msgs`, the messages under way. `wal` and `applied`
are what `persist_callback` stored and `apply_callback` was called with.
`accepts`, `succeeded` and `failed` are history.

`paxos_propose` is cut at its critical sections; `pc` names the next one:

| `pc` | lines of `paxos.c` | actions |
|---|---|---|
| idle | 144-181 | `NextProposalId` |
| sequence | 183-185 | `NextSequence` |
| scan | 187-232 | `ScanBusySlot`, `NoFreeSlot`, `TakeSlot` |
| promises | 234-240 | `PromiseQuorum`, `PromiseTimeout` |
| accept | 242-247 | `SelfAccept` |
| persist | 249-254 | `SelfPersist`, `SelfPersistFails` |
| persisted | 256-280 | `SendAccept` |
| commit | 282-288 | `Committed`, `CommitTimeout` |

`SendAccept` joins two short critical sections and a broadcast: until the
broadcast nobody else touches the slot, and a late broadcast is a message
received late. `paxos_handle_message` holds `state_lock` throughout, so each
phase is one action. A message is received at most once (TCP; a failed send is
not repeated), in any order (a reconnect loses the order), or never. A message
that a handler ignores is ignored for good, so there is no step for it.
`malloc` failures are left out. Ids are `ballot * 65536 + node`, as in the code;
the ballot does not reach the 48 bits at which the code saturates.

### CommitLog and PaxosLog

`CommitLog` is the service that callers of `paxos_propose` see: an operation gets a
number that its issuer has not used, is applied by the issuer once or by nobody,
and is learnt by other nodes from the issuer, above everything they have applied;
0 is returned for what the issuer has applied and -1 for what nobody has or will.
It does not promise one order for all nodes, because the code does not keep it
(`paxos_agreement`). `PaxosLog` maps `Paxos` to it: the entries of calls that have
drawn their number are pending; the rest has the same names. `LogInv` is what the
mapping needs beyond the invariant of the protocol. `DurableInv` is the invariant
behind `CommittedDurable`, which holds with one call at a time (`OneCaller`).

### Frontend, FrontendInv, FrontendNames, StoredFile

A handler is cut where it calls a storage node or `paxos_propose`, where it waits for
`g_coordinator_lock`, and (Create, Mkdir) between its two looks at the map; `call[c]`
is the request that thread `c` serves, with `pc` as follows.

| `pc` | handler | actions |
|---|---|---|
| idle | | `Create` (also Mkdir), `Rmdir`, `Write`, `Remove`, `Get` |
| exists, create | Create, Mkdir | `CreateExists`, `CreatePropose` |
| write | Write, the replica loop | `WriteReplica`, `WriteDecide` |
| delete | Remove, the replica loop | `DeleteReplica`, `DeleteDecide` |
| commit | `commit_metadata_with_paxos` | `Commit`, `CommitFails` |
| rollback | Write after a failed commit | `DeleteReplica`, `RollbackDone` |
| forward | Get without an entry | `Forward`, `NotForwarded` |
| read, answer | Get, the replica loop | `ReadReplica`, `ReadFails`, `Answer` |

`Learn` is the event loop, which applies entries without the lock.
`StorageRestarts`, `FrontendRestarts` and `LateRequest` (a storage request that is
carried out after its caller gave it up) may come at any point. `entries` is the map of
each frontend, `placed` the storage nodes a file was given with its id, `store` the
files of each storage node. `done`, `purged` and `lost` are history: writes that were
acknowledged, files of which some replica was to be deleted, storage nodes that
lost their inode table. A request that is refused without a change is not a step.

`StoredFile` says what one storage call does to a file and what the frontend is told.
The two need not agree: a write whose answer is lost has happened, a DELETE without
answer counts as success, a READ that breaks off gives a part, and one for a missing
file an empty success.

Simplifications. A storage node takes one request at a time. Identical late requests
merge. A forwarded Get that passes its deadline releases the lock of the frontend it
was forwarded to at once, where the code would go on reading there. `StoredFile`
assumes a disk that stores what it is given (`fused_short_write` shows what happens
otherwise). `InitCreated`, where `frontend_data` begins, is the state after one
committed Create that any of the other frontends may not have heard of yet.

`FrontendInv` has the inductive invariant behind the properties of the data,
`FrontendNames` the one behind the properties of the names, which hold while clients
use one frontend (`OneFrontend`).

### FusedFS, FusedInv and StorageServer

The table as functions of the slot, `children` as a set of entries (the order in
which a directory lists them matters to nothing), `backing` as the contents of the
backing files, `acked` as the history of what successful writes amount to. A
request is one step. An operation has one action for success, one for failure
after allocation (`Rollback`, `MkdirRollback`); all refusals are one action (`Refuse`).
A path is given as the directory that its parent path leads to and its last name.
`program` says which program the file system is linked to. `FuseNext` is what the
kernel calls: it never unlinks a directory and moves none below itself. `RpcNext` is
what the RPC server calls; there `Remove` is `fused_unlink` without these tests, and `Write`
creates missing files. A mount that is taken down in order runs `fused_destroy`
(`Remount`); either program may be killed instead (`Crash`), which leaves the backing
files where they are, to be met by the next owner of the same inode number.
`FaultyDisk` lets a write to a backing file fall short. `StorageServer` is what the frontends see of this: the files
in the root directory, each a `StoredFile`, each request touching one of them.
`FusedInv` has the inductive invariant.

### MetadataManager

The map as a sequence of entries in the order of their insertion, because
`metadata_lookup` returns the newest with a key; the statistics as numbers modulo
`Modulus` (2^64 in the code); the log as a sequence of records. Calls are cut
where they release a lock, so that other threads, failures of the log and a
restart fall between. `write()` may store only a part of the data, which
`wal_append` does not notice (`whole` is FALSE). `LocalNext` is the library's own
interface, `ReplicaNext` what the frontend uses of it. `uncounted` is history: a deletion
of this life has changed the statistics. The log record's header as
written and read stops before the checksum, so `wal_replay` compares with an
uninitialised value: `ReplayedLsn` is the set of numbers it may be left with.

### NetworkEngine

The peers' descriptors and flags under `peers_lock`, the event loop (poll, then accept,
then recv and close over what poll found) and the sending threads, cut at the lock and at the system calls.
Descriptors are small numbers that the process gives out again, the lowest first;
connections of other parts of the process take them too.

### MC modules and broken variants

`MCPaxos`, `MCFusedFS`, `MCMetadata`, `MCFrontend` and `MCNetwork` add symmetry sets
and values for constants. Definitions with an underscored suffix (`Matches_AnyId`)
are broken variants, used nowhere: putting one in the place of the definition it
precedes makes the property it is meant for fail, which shows that the property says
something about that code.

## What TLC checks

| run | instance | distinct states | shows |
|---|---|---|---|
| `paxos_cluster` | 3 nodes, 2 propose with 2 threads each, 1 slot, 2 calls | 761,272 | `FailedNeverApplied`, `SuccessApplied`, `CommitHasQuorum`, `AppliedOnce`, `ProposerAgreement`, `ImplementsLog` |
| `paxos_returns` | 3 nodes, 1 thread, 2 calls, fair | 115,576 | `IInv`, `LogInv`, `DurableInv` (the inductive invariants of the proofs), `CommittedDurable`, `ProposeReturns` |
| `paxos_agreement` | 2 proposers, 2 values | | `LogAgreement` fails |
| `paxos_durable` | 2 proposers | | `CommittedDurable` fails |
| `fused` | 4 inodes, 2 children, 3 names; mount and RPC server | 70,067 | `TypeOK`, `FsInv`, `EntriesSound`, `OneName`, `MountReachable`, `ReadBack`, `FailuresLeaveNoTrace`, `OnlyCrashesLeak`, `ImplementsServer` |
| `fused_orphans` | RPC server, 4 inodes | | `AllReachable` fails |
| `fused_short_write` | faulty disk | | `AppendsAtEnd` fails |
| `metadata` | 2 threads, 2 records, 2 map nodes | 261,372 | `TypeOK`, `LsnGrowsInALife`, `CallsInv`, `AckedInLog`, `TotalsExact` |
| `metadata_recovery` | 1 thread, 3 records | | `Recovered` fails |
| `frontend_data` | 2 frontends, 3 replicas, 1 file, 3 requests, 1 failure | 256,483 | `AckedOnQuorum`, `AckedDisjoint`, `GetSound`, `FrontInv` |
| `frontend_names` | 2 threads of one frontend, 2 paths, 3 requests, 1 failure, fair | 54,150 | `NameInv`, `RollbackSafe`, `RmdirStrandsNothing`, `VersionsGrow`, `RequestReturns` |
| `network` | 2 peers, 3 descriptors | | `SentToPeer` fails |

Why these bounds. Three nodes are the smallest cluster with a quorum that is
neither one node nor all. Two calls are enough for two proposers to collide, for
a slot to be reused while answers to its former owner are on their way, and for a
second thread to find the pool full. Four inodes allow a directory with a child,
a removal from the middle of the table, and reuse of the last slot; two children
and three names fill a directory. `MaxSize` 2 has gaps of one byte. States of `fused` that
differ in the return code of the last operation alone count as one (`StateView`): no
operation reads it, and the action properties are checked on every step. Two log records
are a create and a delete by two threads, with a restart in between; entries that
come from other frontends have size 1, so that they count in `total_size`. Three requests
are two writes that overlap and a read, or a Mkdir, a Create in it and an Rmdir; one
failure leaves a majority of the replicas. Clients of `frontend_data` write two
different bytes, so that a write that is cut short, a gap and two writes that are one
byte off all show; the proofs cover other data.

Runs and hazards. In `paxos_returns` one thread proposes; threads that compete for
numbers and for the only slot are in `paxos_cluster` and in the proofs.
`RmdirStrandsNothing` is about the step that commits an Rmdir: a Create that looked at the
parent before may still add a child after it. `VersionsGrow` and the other properties of
names are checked and proved while clients use one frontend; with two they fail.
`TotalsExact` ends with the first `metadata_delete_entry`, which no program calls:
the deletion leaves its entry in the map, a second one of the same entry counts it down
again, and the counters wrap below zero, so they are no longer the "Total number of
metadata entries" and the "Total size of all files" of `metadata_manager.h:90-91`. A
record of which `write()` stored a part counts as logged in `AckedInLog`.

The Paxos and frontend runs do not check deadlock: `MaxCalls` ends them, after which
no step is left once the messages are used up. The others do.

### The runs that end in a violation

Each states a sentence of the repository that the code does not keep; the
findings in `PROJECT.json` quote it.

* `paxos_agreement`: sequence numbers are drawn by each node for itself and the
  `accepted_id` of a PROMISE is not used, so two proposers commit different
  operations under one number. Among the operations of one proposer
  (`ProposerAgreement`) the log agrees.
* `paxos_durable`: an acceptor stores only what is above its highest persisted
  number and acknowledges in any case. It takes numbers that arrive out of the
  order of the ids: two proposers, or two threads of one node, whose ids and
  numbers are drawn in separate critical sections. One proposer with one call at
  a time, which is what the coordinator lock allows a frontend, is durable
  (`paxos_returns`, and `CommitsDurable` for every cluster).
* `fused_orphans`: `Remove` on a directory strands its children. The mount does not
  (`MountReachable`).
* `fused_short_write`: a write of which one byte was stored fails and leaves that byte in
  the backing file, of size 0. The next write, of one byte at offset 0, is accepted and
  stored whole, and lies at position 1, where no read of the file comes.
* `metadata_recovery`: replay reads the records and applies none. In the trace the record
  of a create that returned is whole in the log, and the map is empty after the restart.
* `network`: the event loop closes a peer's descriptor before it marks the peer, so
  that another connection takes the number and a message for the peer is sent into
  it, with success.

### Fairness

`ProposeReturns` assumes that a thread inside `paxos_propose` is scheduled and
that the deadline of `pthread_cond_timedwait` passes. `RequestReturns` assumes that a
handler that can go on does: storage calls, proposals and forwarded requests have
timeouts, which are the failing outcomes of its steps. Nothing is assumed of the
network, of other processes, of clients or of the log. `MaxCalls` makes the
competition for `g_coordinator_lock` finite, so `RequestReturns` says nothing about a
thread that a mutex passes over for ever.

## What is proved

### Replication

For every finite cluster, pool, set of threads and set of values:

| theorem | module | statement |
|---|---|---|
| `TypeCorrect` | `PaxosSteps` | `Spec => []TypeOK` |
| `Invariance` | `PaxosProofs` | `Spec => []IInv` |
| `CommitNeedsQuorum` | `PaxosProofs` | nothing is applied before a majority accepted it |
| `FailureIsFinal` | `PaxosProofs` | an operation reported as failed is applied nowhere, ever |
| `NothingTwice` | `PaxosProofs` | no node applies a proposal twice |
| `SuccessMeansApplied` | `PaxosProofs` | success means that the proposer's node has applied it |
| `LogInvariance` | `PaxosProofs` | `Spec => [](IInv /\ LogInv)` |
| `ProposersAgree` | `PaxosProofs` | one number of one proposer is one operation, on all nodes |
| `Refinement` | `PaxosProofs` | `Spec => ImplementsLog`: Paxos implements CommitLog |
| `DurableInvariance` | `PaxosProofs` | with one call at a time, `DurableInv` always holds |
| `CommitsDurable` | `PaxosProofs` | with one call at a time, what a node has applied is in a majority of the logs |

Assumptions: node ids are distinct naturals below 65536 (the id format has 16 bits
for them), the proposing nodes belong to the cluster, the pool has some finite
size, and NULL is no value. `MaxCalls` is arbitrary.

The argument. None of the properties is inductive: that an ACCEPTED completes a
quorum says something about acceptors only if it was counted in the slot of the
proposal it answers, and only once. `IInv` (module `PaxosInv`) adds what is needed.
Every id in the system was issued by the node in its low bits (`IssuedInv`), so
ids drawn later are new. Calls under way have ids of their own, which have not
returned (`CallInv`). A slot in use has exactly one owner, and their ids agree
(`SlotInv`), so the answer to a released proposal finds no slot. Nothing of
phase 2 exists before the owner sends ACCEPT (`PhaseInv`). An acceptor is sent
one ACCEPT and sends one ACCEPTED per id (`AcceptInv`), so `accept_count` is at most
the number of acceptors whose answer has arrived (`CountInv`). Hence what is applied
or announced has its quorum and a caller that got 0 or is about to (`ChosenInv`),
is news to its receiver (`LearnInv`), and was applied by its proposer (`DoneInv`).
The proof has one lemma per conjunct. It uses lemmas that say what a step may do
to a group of variables, so the actions are opened once per group. These lemmas and
the conjuncts of `IInv` are in `PaxosSteps`; `LogInv`, the refinement, durability and
the theorems are in `PaxosProofs`. That sets of nodes are finite and that counting them
is monotone (`Counting`) is shown from the library's theorems at the end.

For the refinement, `IInv` knows ids but not what goes with them. `LogInv` (module
`PaxosLog`) says that all entries that calls carry or nodes have applied are told
apart by id, and by number among those of one issuer, below the issuer's counter
(`NumberInv`); that the slot of a call, its ACCEPT and ACCEPTED messages and the
LEARNs that follow carry the entry of the call (`CarryInv`); and that
`highest_sequence_committed` bounds what a node has applied (`HighestInv`). A step then
is `Propose` when a call draws its number, `Commit` when the last ACCEPTED of a quorum
arrives, `Learn` when a LEARN is taken, a return when the call returns, and nothing
otherwise.

`CommittedDurable` does not hold in general (`paxos_durable`): an acceptor acknowledges
without storing when the number is not above its `highest_sequence_persisted`. The
theorem assumes `OneCaller`, that at most one thread of one node is ever inside
`paxos_propose`; nothing is assumed of messages, which may be late and out of order, and
of the logs, which may fail. `DurableInv` says why the test then skips nothing that
matters. Numbers grow over the whole cluster: what is in any log, and in any ACCEPT or
LEARN on its way, is below the counter of the proposer, and below the number of the call
under way unless it comes from that call (`FreshInv`). So a node whose
`highest_sequence_persisted` has reached the number of a call has accepted that very
call, or the call is committed already. Hence, until the commit, whoever has
accepted the operation has stored it (`StoredInv`), and the quorum that commits it is a
majority of logs. A LEARN carries an entry that its issuer has applied, which is in a
majority of the logs by induction.

### Frontends and storage nodes

For any frontends, threads, storage nodes, replication factor, files, paths and data,
any number of requests and of failures, from an empty system (`Spec`) and from one
where some frontends know of a file (`CreatedSpec`):

| theorem | module | statement |
|---|---|---|
| `FrontInvariance` | `FrontendProofs` | `FrontInv` always holds |
| `WritesStay` | `FrontendProofs` | `AckedOnQuorum`: an acknowledged write stays on a majority of its replicas |
| `WritesDisjoint` | `FrontendProofs` | `AckedDisjoint`: acknowledged writes do not overlap |
| `GetsSound` | `FrontendProofs` | `GetSound`: what Get returns contradicts no acknowledged write |

And with any number of frontends of which clients use one (`OneFrontend`), from an
empty system:

| theorem | module | statement |
|---|---|---|
| `NameInvariance` | `FrontendProofs` | `NameInv` always holds |
| `RollbacksSafe` | `FrontendProofs` | `RollbackSafe`: undoing a failed write destroys nothing acknowledged |
| `RmdirsSafe` | `FrontendProofs` | `RmdirStrandsNothing`: no Rmdir is committed over a live child |
| `VersionsHold` | `FrontendProofs` | `VersionsGrow`: what a frontend knows of a file never goes back |

Assumptions: node and file ids are naturals, NULL is neither an id, an entry nor a
sequence of storage nodes, at least one replica is asked for, and clients write bytes,
of which 0 is one.

The argument. What a storage node has of a file it keeps: a write goes behind the end
(`WriteOutcome`, `FaultOutcome`), whether it is in time, late, partial or from a
frontend that does not know the size. So what a replica has accepted it has until
the file is purged or its table is lost (`Kept`), and of two writes that it accepted
one lies behind the other. `FrontInv` (module `FrontendInv`) carries this through the
handlers: all entries and messages about a file name the storage nodes that it was
given with its id (`MetaInv`); the replicas that a thread has counted for its write are
among these and have its bytes, and those that a Get has heard show what they answered
(`CallInv`); a write that is proposed or acknowledged has its majority (`CallInv`,
`DoneInv`); writes are told apart by their ids (`IdInv`); and any two, acknowledged or
under way, that one replica has accepted lie apart (`ApartInv`). Two majorities of one
list of nodes have a replica in common (`Majorities`), which decides the overlap of two
writes, and of a write and a read. Deletions that come late are of purged files only
(`LateInv`). The proof has one lemma per action; `Neutral` reduces a step that
acknowledges nothing and begins no write to what it does to the calls, and `StoreStep`,
`ApplyEntry` and `Proposed` are shared by the actions that write to a storage node, apply
an entry, or propose one. Facts about files, lookups, the choice of nodes and majorities
are in `FrontendLemmas`, the actions in `FrontendSteps`.

The properties of names are false with two frontends in use, each with a lock of its own.
With one, `NameInv` says what the lock protects. One thread at a time is between the lock
and the end of its proposal, and no entry is on its way to the frontend in use
(`LockInv`). So what it knows of a file is at least as new as what any frontend knows or
will learn (`KnownInv`), and entries on their way to another frontend come after what
that one knows, in the order of their numbers (`OrderInv`), which is the order in which
it takes them. What a thread decided under the lock still holds when its proposal is
committed or fails (`HeldInv`): the size a write has seen, the file nobody has heard of,
the directory without a child; hence a rollback, which is for a file that had size 0, is
for one without acknowledged data. The steps are in `FrontendNameSteps`, one lemma per
action.

### The file system of a storage node

For any table, directory and file size, any names and bytes, mounted and behind the RPC
server, where either program may be killed and started again at any point between two
requests:

| theorem | module | statement |
|---|---|---|
| `FsInvariance`, `FsTyped` | `FusedProofs` | `FsInv` and `TypeOK` always hold |
| `EntriesHold` | `FusedProofs` | `EntriesSound` |
| `NamesHold` | `FusedProofs` | `OneName` |
| `MountHolds` | `FusedProofs` | `MountReachable`: under a mount every inode in use is reached from the root |
| `LeaksByCrash` | `FusedProofs` | `OnlyCrashesLeak`: under a mount only a kill leaves backing files behind |
| `FailuresHold` | `FusedProofs` | `FailuresLeaveNoTrace` |
| `FilesReadBack` | `FusedProofs` | `ReadBack`, on a disk that stores what it is given |
| `ServerRefined` | `FusedProofs` | `Spec => ImplementsServer`, on such a disk |

That disk is the assumption `~ FaultyDisk` of the last two; without it both fail
(`fused_short_write`).

The argument. `FsInv` (module `FusedInv`): a slot in use bears its own number and none
after `n_inodes` is in use (`TableInv`), so the slot that `alloc_inode` takes is free
and `lookup_inode` finds what it is asked for; an entry leads from a directory to a slot
in use that no other entry leads to (`EntriesInv`), so nothing leads to the slot that
`free_inode` gives back; a file's backing file is what was written (`FilesInv`), whatever
a killed process left under its number, because `fused_create` truncates it. That backing
files without an inode come from kills only follows step by step: `fused_unlink` and the
undoing of a creation remove the file of the inode that they free (`FreeLeaks`), and what
else gives a slot a backing file has made the slot a file (`NewLeaks`). That every inode is reached from
the root is stated without paths: a set that has the root and, with a directory, its
children has every slot in use (`TreeInv`). `ReachClosed` shows that what the recursive
function behind `path_to_inode` reaches is such a set: each step either adds an inode or
has come to an end, and there are `MAX_INODES` of them. `fused_rename`
keeps `TreeInv` because the kernel moves no directory below itself. For the refinement
the file that `StorageServer` has under a name is what the entry of that name in the root
leads to (`RootFile`); as no two entries share a slot, a request changes one file.

### The metadata manager

For any threads, files, numbers of records and map nodes, any width of the counters, and
any order of failures and restarts:

| theorem | module | statement |
|---|---|---|
| `MetadataInvariance`, `LocalInvariance` | `MetadataProofs` | `MetadataInv` always holds, with and without the frontend's callbacks |
| `MetadataTyped` | `MetadataProofs` | `TypeOK` |
| `LsnsGrow` | `MetadataProofs` | `LsnGrowsInALife` |
| `CallsSound` | `MetadataProofs` | `CallsInv` |
| `AcksAreLogged` | `MetadataProofs` | `AckedInLog` |
| `TotalsHold` | `MetadataProofs` | `TotalsExact` |

The argument. `MetadataInv` is the conjunction of the properties. `CallsInv` is what makes
the others inductive: a node that a call found under one lock is still in the map when it
takes the next, since nothing leaves the map but in a restart, which ends the call; and
the record that a call is to acknowledge is in the log, unless the log was truncated. For
`TotalsExact` the sum of the sizes is a recursive function on prefixes of the map
(`TotalSize`): that it exists, and what an append and a change of one entry do to it, is
proved by induction on the length.

Induction. The library's induction theorems take an operator, which the provers here cannot
instantiate. Where a proof needs induction over the naturals it is over a set T of
numbers (`UpTo`), from the library's theorem that a non-empty set of naturals has a least
element.

## What is only model-checked

* `ProposeReturns` and `RequestReturns`: liveness under fairness is out of the prover's
  reach.
* That the failing properties fail, and that the broken variants break the properties.

## What is not modelled

* Overlapping requests on one storage node. `fused_ops.c` has no lock, and both
  programs may run requests in parallel; what a data race leaves in the inode table
  has no useful specification. The models are of one request at a time.
* A Paxos node that restarts with its state zeroed, inside `Paxos`: `Frontend` has the
  restart, on the level of `CommitLog`. Ids and numbers are then used again, so no
  property of `Paxos` about ids can hold across one.
* Reads that change nothing but times (`getattr`, `readdir`, `open`, `read`, ReadDirectory),
  permissions, owners and times; parsing and length limits of paths; serialization;
  `malloc` failures; startup and the command line.
* Library functions that no program calls: `storage_interface_unregister_node`,
  `_update_node_status`, `_replicate`, `_health_check`, `_get_healthy_nodes`,
  `network_engine_remove_peer`, `_is_connected`, `_get_connected_peers`.
* How messages are cut from the byte stream: `NetworkEngine` takes a recv for a message.
* The client, the scripts and the deployment.
