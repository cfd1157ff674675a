------------------------------ MODULE Frontend ------------------------------
(***************************************************************************)
(* The frontends, src/distributed_frontend.cpp, over the storage nodes and *)
(* the replication of metadata: the handlers of                            *)
(* DistributedFileSystemServiceImpl, each cut where another thread, another*)
(* frontend or a failure can come in between.                              *)
(*                                                                         *)
(* Commits of metadata are the steps of CommitLog, with the map of         *)
(* MetadataManager in place of the list of applied entries.  A storage     *)
(* node is a function from file ids to StoredFile; it takes one request at *)
(* a time.  A request whose answer timed out may be carried out later.     *)
(*                                                                         *)
(* A request that is refused without any change is not a step.  Paths are  *)
(* sequences of names, in the form normalize_path and trim_trailing_slash  *)
(* give them.  A definition with an underscored suffix, such as            *)
(* Quorum_Half, is a broken variant of the one it precedes: it is used     *)
(* nowhere, and some property fails if it takes the other's place.         *)
(***************************************************************************)
EXTENDS StoredFile, FiniteSets

CONSTANTS
    Node,           \* node ids of the frontends
    Active,         \* the frontends that clients use
    Thread,         \* threads of a frontend's gRPC server
    Storage,        \* storage nodes, in the order of their registration
    MAX_REPLICAS,
    FileId,
    Path,           \* paths that clients name
    Payload,        \* data that clients write
    Offset,         \* offsets that clients name
    Op,             \* operations that clients call
    NULL,
    MaxCalls,       \* bound: requests that are served
    MaxFaults       \* bound: failures of storage calls, commits and processes

StorageNode == {Storage[i] : i \in DOMAIN Storage}

ASSUME FrontendAssumption ==
    /\ Storage \in Seq(StorageNode) /\ NULL \notin Seq(StorageNode)
    /\ Node \subseteq Nat /\ Active \subseteq Node
    /\ FileId \subseteq Nat /\ NULL \notin FileId
    /\ Payload \subseteq Content /\ Offset \subseteq Nat
    /\ MAX_REPLICAS \in Nat \ {0}
    /\ MaxCalls \in Nat /\ MaxFaults \in Nat

VARIABLES
    entries,        \* per frontend: its metadata map
    next_node_idx,  \* per frontend: round robin over Storage
    next_seq,       \* per frontend: number of its next proposal
    last_seq,       \* per frontend: the highest number it has applied
    placed,         \* per file id drawn so far: the storage nodes it was given
    learns,         \* LEARN messages under way that would still be applied
    call,           \* per thread: the request it serves
    store,          \* per storage node: its files
    late,           \* storage requests that timed out and are still under way
    calls,          \* requests served so far
    faults,         \* failures so far
    done,           \* history: writes that were acknowledged
    purged,         \* history: files of which a replica was to be deleted
    lost            \* history: storage nodes that lost their inode table

metaVars == <<entries, next_node_idx, next_seq, last_seq, placed, learns>>
storeVars == <<store, late, lost>>
vars == <<metaVars, call, storeVars, calls, faults, done, purged>>
-----------------------------------------------------------------------------
Caller == Node \X Thread

\* States other than DELETED are not told apart.
Entry == [file : FileId, path : Path, dir : BOOLEAN, deleted : BOOLEAN,
          size : Nat, version : Nat, nodes : Seq(StorageNode)]

ASSUME NullAssumption == NULL \notin Entry

NewEntry(f, p, dir, nodes) ==
    [file |-> f, path |-> p, dir |-> dir, deleted |-> FALSE, size |-> 0,
     version |-> 1, nodes |-> nodes]

MaxOf(a, b) == IF a > b THEN a ELSE b

EmptyMap == [f \in FileId |-> NULL]

Idle == [pc |-> "idle"]

Init ==
    /\ entries = [n \in Node |-> EmptyMap]
    /\ next_node_idx = [n \in Node |-> 0]
    /\ next_seq = [n \in Node |-> 1]
    /\ last_seq = [n \in Node |-> 0]
    /\ placed = EmptyMap /\ learns = {}
    /\ call = [c \in Caller |-> Idle]
    /\ store = [s \in StorageNode |-> [f \in FileId |-> NoFile]]
    /\ late = {}
    /\ calls = 0 /\ faults = 0
    /\ done = {} /\ purged = {} /\ lost = {}
-----------------------------------------------------------------------------
(***************************************************************************)
(* The metadata map                                                        *)
(***************************************************************************)
Live(n) == {f \in FileId : entries[n][f] # NULL /\ ~ entries[n][f].deleted}

\* The first live entry with the path, in the order of the hash table.  File
\* ids are drawn at random, so that any order of ids is as good as that one.
metadata_lookup_by_path(n, p) ==
    LET found == {f \in Live(n) : entries[n][f].path = p}
    IN  IF found = {} THEN NULL ELSE CHOOSE f \in found : \A g \in found : f <= g

Parent(p) == SubSeq(p, 1, Len(p) - 1)

path_is_existing_directory(n, p) ==
    \/ p = <<>>
    \/ \E f \in {metadata_lookup_by_path(n, p)} \ {NULL} : entries[n][f].dir

directory_has_children(n, p) ==
    \E f \in Live(n) : entries[n][f].path # <<>> /\ Parent(entries[n][f].path) = p

\* The file at a path, as Write and Get see it: storage nodes are asked for.
FilesAt(n, p) ==
    {f \in {metadata_lookup_by_path(n, p)} \ {NULL} : entries[n][f].nodes # <<>>}
-----------------------------------------------------------------------------
(***************************************************************************)
(* Storage                                                                 *)
(***************************************************************************)
\* storage_interface_select_nodes: every node that is registered is online.
select_nodes(n) ==
    [i \in 1 .. (IF Len(Storage) < MAX_REPLICAS THEN Len(Storage) ELSE MAX_REPLICAS)
        |-> Storage[1 + ((next_node_idx[n] + i - 1) % Len(Storage))]]

\* The search stops when it has all replicas, or has gone round twice.
node_idx_after(n) ==
    IF Len(Storage) < MAX_REPLICAS THEN next_node_idx[n]
    ELSE (next_node_idx[n] + MAX_REPLICAS) % Len(Storage)

\* Half of the replicas.
Quorum_Half(nodes) == Len(nodes) \div 2

\* quorum_required
Quorum(nodes) == Len(nodes) \div 2 + 1

Fault == faults < MaxFaults /\ faults' = faults + 1
NoFault == faults' = faults

\* A storage call of c on replica i ends; nodes that said "ok" are collected.
Answered(c, o) ==
    LET s == call[c].nodes[call[c].i] IN
    /\ store' = [store EXCEPT ![s][call[c].file] = o.file]
    /\ call' = [call EXCEPT ![c].i = @ + 1,
                            ![c].ok = IF o.ok THEN @ \cup {s} ELSE @]
-----------------------------------------------------------------------------
(***************************************************************************)
(* Requests.  A handler that takes g_coordinator_lock first is a step from *)
(* there to its first call of a storage node or of paxos_propose.          *)
(***************************************************************************)
Locked == {"write", "delete", "commit", "rollback", "read"}

\* g_coordinator_lock of frontend n is free.
LockFree(n) == \A c \in Caller : call[c].pc \in Locked => call[c].at # n

\* A client's request op reaches thread c.
Request(c, op) ==
    /\ c[1] \in Active /\ op \in Op
    /\ call[c] = Idle
    /\ calls < MaxCalls
    /\ calls' = calls + 1

Serve(c, r) == call' = [call EXCEPT ![c] = r]

Return(c) == Serve(c, Idle)

\* Create and Mkdir look at the map before they take the lock.  There are no
\* more of them at work than file ids left: FileId is a bound.
Create(c, op, p) ==
    /\ Request(c, op)
    /\ op \in {"Create", "Mkdir"} /\ p # <<>>
    /\ path_is_existing_directory(c[1], Parent(p))
    /\ Cardinality({d \in Caller : call[d].pc \in {"exists", "create"}})
          < Cardinality({f \in FileId : placed[f] = NULL})
    /\ Serve(c, [pc |-> "exists", path |-> p, dir |-> op = "Mkdir"])
    /\ UNCHANGED <<metaVars, storeVars, faults, done, purged>>

CreateExists(c) ==
    /\ call[c].pc = "exists"
    /\ IF metadata_lookup_by_path(c[1], call[c].path) = NULL
       THEN call' = [call EXCEPT ![c].pc = "create"]
       ELSE Return(c)
    /\ UNCHANGED <<metaVars, storeVars, calls, faults, done, purged>>

\* Under the lock: an id is drawn, and the entry is made and proposed.
CreatePropose(c, f) ==
    LET n == c[1]
        nodes == IF call[c].dir THEN <<>> ELSE select_nodes(n)
    IN
    /\ call[c].pc = "create"
    /\ LockFree(n)
    /\ placed[f] = NULL /\ placed' = [placed EXCEPT ![f] = nodes]
    /\ IF ~ call[c].dir /\ Storage = <<>>
       THEN Return(c)
       ELSE Serve(c, [pc |-> "commit", at |-> n, write |-> NULL,
                      entry |-> NewEntry(f, call[c].path, call[c].dir, nodes)])
    /\ next_node_idx' = IF call[c].dir THEN next_node_idx
                        ELSE [next_node_idx EXCEPT ![n] = node_idx_after(n)]
    /\ UNCHANGED <<entries, next_seq, last_seq, learns, storeVars, calls, faults,
                   done, purged>>

\* The entry that Remove and Rmdir propose.
Deletion(e) == [e EXCEPT !.deleted = TRUE, !.version = @ + 1]

\* The directory may have children.
Rmdir_NotEmpty(c, p) ==
    /\ Request(c, "Rmdir") /\ p # <<>>
    /\ LockFree(c[1])
    /\ path_is_existing_directory(c[1], p)
    /\ Serve(c, [pc |-> "commit", at |-> c[1], write |-> NULL,
                 entry |-> Deletion(entries[c[1]][metadata_lookup_by_path(c[1], p)])])
    /\ UNCHANGED <<metaVars, storeVars, faults, done, purged>>

Rmdir(c, p) ==
    /\ Request(c, "Rmdir") /\ p # <<>>
    /\ LockFree(c[1])
    /\ path_is_existing_directory(c[1], p)
    /\ ~ directory_has_children(c[1], p)
    /\ Serve(c, [pc |-> "commit", at |-> c[1], write |-> NULL,
                 entry |-> Deletion(entries[c[1]][metadata_lookup_by_path(c[1], p)])])
    /\ UNCHANGED <<metaVars, storeVars, faults, done, purged>>

\* A write to the file at path p: with offset 0 it goes to the end.
Write(c, p, offset, data) ==
    /\ Request(c, "Write")
    /\ LockFree(c[1])
    /\ \E f \in FilesAt(c[1], p) :
          LET e == entries[c[1]][f] IN
          Serve(c, [pc |-> "write", at |-> c[1], file |-> f, nodes |-> e.nodes,
                    offset |-> IF offset = 0 /\ e.size > 0 THEN e.size ELSE offset,
                    data |-> data, size |-> e.size, id |-> calls,
                    i |-> 1, ok |-> {}])
    /\ UNCHANGED <<metaVars, storeVars, faults, done, purged>>

\* storage_interface_write to the next replica.
WriteReplica(c) ==
    LET w == call[c]
        file == store[w.nodes[w.i]][w.file]
    IN
    /\ w.pc = "write" /\ w.i <= Len(w.nodes)
    /\ \/ /\ Answered(c, handle_write(file, w.offset, w.data))
          /\ NoFault /\ UNCHANGED late
       \/ /\ \E o \in WriteFaults(file, w.offset, w.data) : Answered(c, o)
          /\ Fault /\ UNCHANGED late
       \/ /\ Answered(c, Outcome(FALSE, file))
          /\ Fault
          /\ \E k \in 0 .. Len(w.data) :
                late' = late \cup {[op |-> "WRITE", node |-> w.nodes[w.i], file |-> w.file,
                                    offset |-> w.offset, data |-> SubSeq(w.data, 1, k)]}
    /\ UNCHANGED <<metaVars, calls, done, purged, lost>>

\* The write that thread state w is about.
AsWrite(w) ==
    [file |-> w.file, nodes |-> w.nodes, offset |-> w.offset, data |-> w.data,
     size |-> w.size, id |-> w.id, ok |-> w.ok]

\* The metadata to commit after a write: the entry is read again, since a LEARN
\* may have changed it while the replicas were written.
Grown(e, end) == [e EXCEPT !.version = @ + 1, !.size = MaxOf(@, end)]

\* The replicas have been asked.
WriteDecide(c) ==
    LET w == call[c] IN
    /\ w.pc = "write" /\ w.i > Len(w.nodes)
    /\ IF Cardinality(w.ok) >= Quorum(w.nodes)
       THEN Serve(c, [pc |-> "commit", at |-> w.at, write |-> AsWrite(w),
                      entry |-> Grown(entries[w.at][w.file], w.offset + Len(w.data))])
       ELSE Return(c)
    /\ UNCHANGED <<metaVars, storeVars, calls, faults, done, purged>>

\* Remove of the file at path p.  The root and directories are refused.
Remove(c, p) ==
    /\ Request(c, "Remove")
    /\ LockFree(c[1])
    /\ \E f \in FilesAt(c[1], p) :
          /\ Serve(c, [pc |-> "delete", at |-> c[1], file |-> f,
                       nodes |-> entries[c[1]][f].nodes, i |-> 1, ok |-> {}])
          /\ purged' = purged \cup {f}
    /\ UNCHANGED <<metaVars, storeVars, faults, done>>

\* storage_interface_delete on the next replica, for Remove or for the rollback
\* of a write.
DeleteReplica(c) ==
    LET d == call[c]
        file == store[d.nodes[d.i]][d.file]
    IN
    /\ d.pc \in {"delete", "rollback"} /\ d.i <= Len(d.nodes)
    /\ \/ /\ Answered(c, handle_delete(file))
          /\ NoFault /\ UNCHANGED late
       \/ /\ \E o \in DeleteFaults(file) : Answered(c, o)
          /\ Fault /\ UNCHANGED late
       \/ /\ Answered(c, Outcome(TRUE, file))
          /\ Fault
          /\ late' = late \cup {[op |-> "DELETE", node |-> d.nodes[d.i], file |-> d.file]}
    /\ UNCHANGED <<metaVars, calls, done, purged, lost>>

\* A deletion without quorum is not given up.
DeleteDecide_Waits(c) ==
    LET d == call[c] IN
    /\ d.pc = "delete" /\ d.i > Len(d.nodes)
    /\ Cardinality(d.ok) >= Quorum(d.nodes)
    /\ Serve(c, [pc |-> "commit", at |-> d.at, write |-> NULL,
                 entry |-> Deletion(entries[d.at][d.file])])
    /\ UNCHANGED <<metaVars, storeVars, calls, faults, done, purged>>

DeleteDecide(c) ==
    LET d == call[c] IN
    /\ d.pc = "delete" /\ d.i > Len(d.nodes)
    /\ IF Cardinality(d.ok) >= Quorum(d.nodes)
       THEN Serve(c, [pc |-> "commit", at |-> d.at, write |-> NULL,
                      entry |-> Deletion(entries[d.at][d.file])])
       ELSE Return(c)
    /\ UNCHANGED <<metaVars, storeVars, calls, faults, done, purged>>

RollbackDone(c) ==
    /\ call[c].pc = "rollback" /\ call[c].i > Len(call[c].nodes)
    /\ Return(c)
    /\ UNCHANGED <<metaVars, storeVars, calls, faults, done, purged>>
-----------------------------------------------------------------------------
(***************************************************************************)
(* commit_metadata_with_paxos                                              *)
(***************************************************************************)
\* metadata_apply_entry: the entry is replaced, whatever its version.
metadata_apply_entry(n, e) == entries' = [entries EXCEPT ![n][e.file] = e]

\* Messages are applied in any order.
Deliverable_Any(ms, last) == ms

\* The messages that would still be applied if the nodes are at last.
Deliverable(ms, last) == {m \in ms : m.seq > last[m.to]}

\* The proposal succeeds: it is applied here and announced to the others.
Commit(c) ==
    LET r == call[c]
        n == r.at
        last == [last_seq EXCEPT ![n] = MaxOf(@, next_seq[n])]
    IN
    /\ r.pc = "commit"
    /\ metadata_apply_entry(n, r.entry)
    /\ next_seq' = [next_seq EXCEPT ![n] = @ + 1]
    /\ last_seq' = last
    /\ learns' = Deliverable(learns \cup
          {[to |-> p, seq |-> next_seq[n], entry |-> r.entry] : p \in Node \ {n}}, last)
    /\ done' = IF r.write = NULL THEN done ELSE done \cup {r.write}
    /\ Return(c)
    /\ UNCHANGED <<next_node_idx, placed, storeVars, calls, faults, purged>>

\* Every write is rolled back.
CommitFails_Always(c) ==
    LET r == call[c] IN
    /\ r.pc = "commit"
    /\ Fault
    /\ next_seq' = [next_seq EXCEPT ![r.at] = @ + 1]
    /\ IF r.write # NULL
       THEN /\ Serve(c, [pc |-> "rollback", at |-> r.at, file |-> r.entry.file,
                         nodes |-> r.entry.nodes, i |-> 1, ok |-> {}])
            /\ purged' = purged \cup {r.entry.file}
       ELSE /\ Return(c)
            /\ UNCHANGED purged
    /\ UNCHANGED <<entries, next_node_idx, last_seq, placed, learns, storeVars, calls, done>>

\* It fails, and is applied nowhere.  A write to an empty file is rolled back.
CommitFails(c) ==
    LET r == call[c] IN
    /\ r.pc = "commit"
    /\ Fault
    /\ next_seq' = [next_seq EXCEPT ![r.at] = @ + 1]
    /\ IF r.write # NULL /\ r.write.size = 0 /\ r.write.offset = 0
       THEN /\ Serve(c, [pc |-> "rollback", at |-> r.at, file |-> r.entry.file,
                         nodes |-> r.entry.nodes, i |-> 1, ok |-> {}])
            /\ purged' = purged \cup {r.entry.file}
       ELSE /\ Return(c)
            /\ UNCHANGED purged
    /\ UNCHANGED <<entries, next_node_idx, last_seq, placed, learns, storeVars, calls, done>>

\* A LEARN is applied by the event loop, which does not take the lock.
Learn(m) ==
    LET last == [last_seq EXCEPT ![m.to] = m.seq] IN
    /\ metadata_apply_entry(m.to, m.entry)
    /\ last_seq' = last
    /\ learns' = Deliverable(learns, last)
    /\ UNCHANGED <<next_node_idx, next_seq, placed, call, storeVars, calls, faults, done, purged>>
-----------------------------------------------------------------------------
(***************************************************************************)
(* Get: from the replicas, or through the other frontends                  *)
(***************************************************************************)
\* g is what the client asks for.  Frontend n reads file f for thread c; size 0
\* stands for the rest of the file, by the size that n knows.
StartRead(c, n, f, g) ==
    LET e == entries[n][f]
        rest == IF g.offset < e.size THEN e.size - g.offset ELSE 0
    IN  Serve(c, [pc |-> "read", at |-> n, file |-> f, nodes |-> e.nodes, get |-> g,
                  length |-> IF g.size = 0 THEN rest ELSE g.size,
                  i |-> 1, got |-> {}])

Get(c, p, offset, size) ==
    LET g == [path |-> p, offset |-> offset, size |-> size] IN
    /\ Request(c, "Get")
    /\ LockFree(c[1])
    /\ \/ \E f \in FilesAt(c[1], p) : StartRead(c, c[1], f, g)
       \/ /\ metadata_lookup_by_path(c[1], p) = NULL
          /\ Serve(c, [pc |-> "forward", get |-> g, left |-> Node \ {c[1]}])
    /\ UNCHANGED <<metaVars, storeVars, faults, done, purged>>

\* A frontend that has no entry asks the others in the order of their ids,
\* with x-no-forward set, and goes on to the next after an error or 1.5 s.
Forward(c) ==
    LET r == call[c]
        peer == CHOOSE p \in r.left : \A q \in r.left : p <= q
    IN
    /\ r.pc = "forward" /\ r.left # {}
    /\ \/ /\ LockFree(peer)
          /\ \E f \in FilesAt(peer, r.get.path) : StartRead(c, peer, f, r.get)
       \/ call' = [call EXCEPT ![c].left = @ \ {peer}]
    /\ UNCHANGED <<metaVars, storeVars, calls, faults, done, purged>>

NotForwarded(c) ==
    /\ call[c].pc = "forward" /\ call[c].left = {}
    /\ Return(c)
    /\ UNCHANGED <<metaVars, storeVars, calls, faults, done, purged>>

\* The read at r.at ends without an answer for the client of c.
GiveUp(c) ==
    LET r == call[c] IN
    IF r.at = c[1] THEN Return(c)
    ELSE Serve(c, [pc |-> "forward", get |-> r.get,
                   left |-> {p \in Node \ {c[1]} : p > r.at}])

\* The nodes that gave data.
Gave(got, data) == {s \in StorageNode : <<s, data>> \in got}

\* storage_interface_read from the next replica: equal answers are counted, and
\* the first that a quorum has given is the result.
ReadReplica(c) ==
    LET r == call[c]
        s == r.nodes[r.i]
        file == store[s][r.file]
    IN
    /\ r.pc = "read" /\ r.i <= Len(r.nodes)
    /\ \/ \E data \in ShortReads(file, r.get.offset, r.length) :
             LET got == r.got \cup {<<s, data>>} IN
             /\ IF data = handle_read(file, r.get.offset, r.length) THEN NoFault ELSE Fault
             /\ IF Cardinality(Gave(got, data)) >= Quorum(r.nodes)
                THEN Serve(c, [pc |-> "answer", file |-> r.file, nodes |-> r.nodes,
                               offset |-> r.get.offset, data |-> data,
                               from |-> Gave(got, data)])
                ELSE call' = [call EXCEPT ![c].i = @ + 1, ![c].got = got]
       \/ call' = [call EXCEPT ![c].i = @ + 1] /\ Fault
    /\ UNCHANGED <<metaVars, storeVars, calls, done, purged>>

\* No quorum, or the deadline of a forwarded request.
ReadFails(c) ==
    /\ call[c].pc = "read"
    /\ call[c].i > Len(call[c].nodes) \/ call[c].at # c[1]
    /\ GiveUp(c)
    /\ UNCHANGED <<metaVars, storeVars, calls, faults, done, purged>>

\* The client has the data.
Answer(c) ==
    /\ call[c].pc = "answer"
    /\ Return(c)
    /\ UNCHANGED <<metaVars, storeVars, calls, faults, done, purged>>
-----------------------------------------------------------------------------
(***************************************************************************)
(* Failures                                                                *)
(***************************************************************************)
\* A storage request that timed out is carried out after all.
LateRequest(r) ==
    LET file == store[r.node][r.file]
        o == IF r.op = "WRITE" THEN handle_write(file, r.offset, r.data)
             ELSE handle_delete(file)
    IN
    /\ store' = [store EXCEPT ![r.node][r.file] = o.file]
    /\ late' = late \ {r}
    /\ UNCHANGED <<metaVars, call, calls, faults, done, purged, lost>>

\* The server of a storage node is restarted: its inode table is empty.
StorageRestarts(s) ==
    /\ Fault
    /\ store' = [store EXCEPT ![s] = [f \in FileId |-> NoFile]]
    /\ lost' = lost \cup {s}
    /\ UNCHANGED <<metaVars, call, late, calls, done, purged>>

\* A frontend is restarted: wal_replay brings nothing back.  Requests that it
\* serves end without an answer.
FrontendRestarts(n) ==
    /\ Fault
    /\ entries' = [entries EXCEPT ![n] = EmptyMap]
    /\ next_node_idx' = [next_node_idx EXCEPT ![n] = 0]
    /\ next_seq' = [next_seq EXCEPT ![n] = 1]
    /\ last_seq' = [last_seq EXCEPT ![n] = 0]
    /\ learns' = {m \in learns : m.to # n}
    /\ call' = [c \in Caller |->
          IF c[1] = n THEN Idle
          ELSE IF call[c].pc = "read" /\ call[c].at = n
          THEN [pc |-> "forward", get |-> call[c].get,
                left |-> {p \in Node \ {c[1]} : p > n}]
          ELSE call[c]]
    /\ UNCHANGED <<placed, storeVars, calls, done, purged>>
-----------------------------------------------------------------------------
\* What a client may ask of thread c.
ClientRequest(c) ==
    \E p \in Path :
        \/ \E op \in Op : Create(c, op, p)
        \/ Rmdir(c, p)
        \/ Remove(c, p)
        \/ \E offset \in Offset, data \in Payload : Write(c, p, offset, data)
        \/ \E offset, size \in Offset : Get(c, p, offset, size)

\* A step of a handler.
Step(c) ==
    \/ CreateExists(c)
    \/ \E f \in FileId : CreatePropose(c, f)
    \/ WriteReplica(c) \/ WriteDecide(c)
    \/ DeleteReplica(c) \/ DeleteDecide(c) \/ RollbackDone(c)
    \/ Commit(c) \/ CommitFails(c)
    \/ Forward(c) \/ NotForwarded(c) \/ ReadReplica(c) \/ ReadFails(c) \/ Answer(c)

Next ==
    \/ \E c \in Caller : ClientRequest(c) \/ Step(c)
    \/ \E m \in learns : Learn(m)
    \/ \E r \in late : LateRequest(r)
    \/ \E s \in StorageNode : StorageRestarts(s)
    \/ \E n \in Node : FrontendRestarts(n)

Spec == Init /\ [][Next]_vars

\* A thread that can go on does; nothing else is certain to happen.
FairSpec == Spec /\ \A c \in Caller : WF_vars(Step(c))

\* Frontend n has created file f, and the frontends in known have heard of it.
InitCreated ==
    \E n \in Active, f \in FileId, p \in Path, known \in SUBSET Node :
        LET e == NewEntry(f, p, FALSE, select_nodes(n))
            apply == [m \in Node |-> m \in known \cup {n}]
        IN
        /\ next_node_idx = [m \in Node |-> 0]
        /\ entries = [m \in Node |-> IF apply[m] THEN [EmptyMap EXCEPT ![f] = e] ELSE EmptyMap]
        /\ next_seq = [m \in Node |-> IF m = n THEN 2 ELSE 1]
        /\ last_seq = [m \in Node |-> IF apply[m] THEN 1 ELSE 0]
        /\ placed = [EmptyMap EXCEPT ![f] = e.nodes]
        /\ learns = {[to |-> m, seq |-> 1, entry |-> e] : m \in {q \in Node : ~ apply[q]}}
        /\ call = [c \in Caller |-> Idle]
        /\ store = [s \in StorageNode |-> [g \in FileId |-> NoFile]]
        /\ late = {}
        /\ calls = 0 /\ faults = 0
        /\ done = {} /\ purged = {} /\ lost = {}

CreatedSpec == InitCreated /\ [][Next]_vars
-----------------------------------------------------------------------------
(***************************************************************************)
(* Properties                                                              *)
(***************************************************************************)
\* Replica s shows data at offset of file f.
Shows(s, f, offset, data) == Has(store[s][f], offset, data)

\* Replica s has the bytes of write w.
Holds(s, w) == Shows(s, w.file, w.offset, w.data)

\* An acknowledged write stays on a majority of the storage nodes of its file,
\* not counting nodes that lost their table, as long as no replica of the file
\* is deleted: no later, late, partial or concurrent write of any frontend takes
\* a byte of it away.
AckedOnQuorum ==
    \A w \in done : w.file \notin purged =>
        LET nodes == {w.nodes[i] : i \in DOMAIN w.nodes}
        IN  Cardinality({s \in nodes : s \in lost \/ Holds(s, w)}) >= Quorum(w.nodes)

Bytes(w) == w.offset + 1 .. w.offset + Len(w.data)

\* Writes that were acknowledged never overlap, also if frontends that do not
\* know of each other's writes send them at the same time, as long as no replica
\* is deleted or lost: a storage node takes only one of them.
AckedDisjoint ==
    \A v, w \in done :
        v.file = w.file /\ v.file \notin purged /\ v # w /\ lost = {} =>
            Bytes(v) \cap Bytes(w) = {}

\* What Get returns contradicts no acknowledged write, whichever frontend is
\* asked, however stale its entry is and whichever replicas answer short or not
\* at all.
GetSound ==
    \A c \in Caller : call[c].pc = "answer" =>
        \A w \in done :
            w.file = call[c].file /\ w.file \notin purged /\ lost = {} =>
                \A k \in 1 .. Len(call[c].data) :
                    call[c].offset + k \in Bytes(w) =>
                        call[c].data[k] = w.data[call[c].offset + k - w.offset]

\* The rollback of a write destroys no acknowledged data.  (With one frontend
\* in use: rollback_safe is decided by what that frontend knows.)
RollbackSafe ==
    \A c \in Caller : call[c].pc = "rollback" =>
        \A w \in done : w.file # call[c].file

\* A deletion of a directory is committed only while it has no live child there.
RmdirStrandsNothing ==
    [][\A c \in Caller :
          Commit(c) /\ call[c].entry.dir /\ call[c].entry.deleted =>
              ~ directory_has_children(call[c].at, call[c].entry.path)]_vars

\* What a frontend knows of a file never goes back: neither to an earlier
\* version nor from deleted to live, except by a restart.
VersionsGrow ==
    [][\A n \in Node, f \in FileId :
          entries[n][f] # NULL /\ entries'[n][f] # NULL =>
              /\ entries'[n][f].version >= entries[n][f].version
              /\ entries[n][f].deleted => entries'[n][f].deleted]_vars

\* Every request comes back: no handler waits for a lock, a replica, a quorum or
\* another frontend for ever.  (Storage calls, proposals and forwarded requests
\* have timeouts, and g_coordinator_lock is given back on every path.)
RequestReturns == \A c \in Caller : call[c] # Idle ~> call[c] = Idle
=============================================================================
