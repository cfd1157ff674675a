-------------------------- MODULE MetadataManager --------------------------
(***************************************************************************)
(* The metadata of a frontend, distributed_core/src/metadata_manager.c: an *)
(* in-memory map of entries and a write-ahead log on the disk.             *)
(*                                                                         *)
(* A call is cut where it releases a lock, so that calls of several        *)
(* threads, failures of the log and a restart fall between the pieces.     *)
(* LocalNext is the library's own interface; ReplicaNext is what the       *)
(* frontend uses of it, through the Paxos callbacks persist_wal and        *)
(* apply_state_machine.                                                    *)
(*                                                                         *)
(* A definition with a capitalised suffix, such as DeleteUncount_NoWrap,   *)
(* is a broken variant of the one it precedes: it is used nowhere, and     *)
(* some property fails if it takes the other's place.                      *)
(***************************************************************************)
EXTENDS Integers, Sequences, FiniteSets

CONSTANTS
    FileId,
    Thread,
    FileSize,       \* sizes that replicated entries carry
    MaxLsn,         \* bound: numbers and records of the log
    MaxNodes,       \* bound: nodes of the map
    Modulus         \* 2^64: the counters wrap around

ASSUME MetadataAssumption ==
    /\ FileSize \subseteq Nat
    /\ MaxLsn \in Nat /\ MaxNodes \in Nat
    /\ Modulus \in Nat \ {0}

VARIABLES
    nodes,          \* the map: its entries, in the order of their insertion
    total_entries,
    total_size,
    current_lsn,
    wal,            \* the records of the log
    call,           \* what a thread still has to do
    acked,          \* history: records whose call has returned success, from
                    \* the restart on that followed the last truncation
    life,           \* history: length of the log when the process started
    cut,            \* history: the log was truncated in this life
    uncounted       \* history: a deletion of this life has changed the totals

historyVars == <<life, cut, uncounted>>
vars == <<nodes, total_entries, total_size, current_lsn, wal, call, acked, historyVars>>

\* States other than DELETED are not told apart.  "placed" says that storage
\* nodes are assigned.
Entry == [id : FileId, deleted : BOOLEAN, placed : BOOLEAN,
          size : Nat, version : Nat]

Op == {"CREATE", "UPDATE", "DELETE"}

\* "whole" is FALSE if the data stops short.
Record == [lsn : Nat, op : Op, entry : Entry, whole : BOOLEAN]

Idle == [pc |-> "idle"]

Call == {Idle}
        \cup [pc : {"update", "unlist"}, node : Nat]
        \cup [pc : {"insert", "bump", "uncount", "persisted"}, node : Nat, record : Record]

\* The type invariant.
TypeOK ==
    /\ nodes \in Seq(Entry)
    /\ total_entries \in 0 .. Modulus - 1
    /\ total_size \in 0 .. Modulus - 1
    /\ current_lsn \in Nat
    /\ wal \in Seq(Record)
    /\ call \in [Thread -> Call]
    /\ acked \subseteq Record
    /\ life \in Nat
    /\ cut \in BOOLEAN
    /\ uncounted \in BOOLEAN

\* metadata_manager_init on an empty log
Init ==
    /\ nodes = <<>>
    /\ total_entries = 0 /\ total_size = 0
    /\ current_lsn = 0
    /\ wal = <<>>
    /\ call = [t \in Thread |-> Idle]
    /\ acked = {}
    /\ life = 0
    /\ cut = FALSE
    /\ uncounted = FALSE
-----------------------------------------------------------------------------
\* The newest node with the key: buckets grow at the head.  0 if there is none.
metadata_lookup(id) ==
    LET found == {k \in 1 .. Len(nodes) : nodes[k].id = id}
    IN  IF found = {} THEN 0 ELSE CHOOSE k \in found : \A j \in found : j <= k

\* The records wal_append may write for an entry.
RecordsFor(op, e) ==
    {r \in {[lsn |-> current_lsn + 1, op |-> op, entry |-> e, whole |-> w] :
            w \in BOOLEAN} : current_lsn < MaxLsn /\ Len(wal) < MaxLsn}

\* A write or an fsync that fails is not noticed.
wal_append_Unchecked(t, op, e, pc, k) ==
    \E r \in RecordsFor(op, e) :
        /\ current_lsn' = r.lsn
        /\ wal' \in {wal, Append(wal, r)}
        /\ call' = [call EXCEPT ![t] = [pc |-> pc, node |-> k, record |-> r]]

\* The number is taken only when the append succeeds.
wal_append_Reuse(t, op, e, pc, k) ==
    \/ \E r \in RecordsFor(op, e) :
          /\ current_lsn' = r.lsn
          /\ wal' = Append(wal, r)
          /\ call' = [call EXCEPT ![t] = [pc |-> pc, node |-> k, record |-> r]]
    \/ \E r \in RecordsFor(op, e) :
          /\ wal' \in {wal, Append(wal, r)}
          /\ call' = [call EXCEPT ![t] = Idle]
          /\ UNCHANGED current_lsn

\* wal_append called by thread t, which goes on at pc if it succeeds and
\* returns if it fails.  A short write is not noticed.  It may fail without
\* memory, at the header, at the data, or in fsync, and has spent the number
\* in all cases but the first.
wal_append(t, op, e, pc, k) ==
    \/ \E r \in RecordsFor(op, e) :
          /\ current_lsn' = r.lsn
          /\ wal' = Append(wal, r)
          /\ call' = [call EXCEPT ![t] = [pc |-> pc, node |-> k, record |-> r]]
    \/ \E r \in RecordsFor(op, e) :
          /\ current_lsn' = r.lsn
          /\ wal' \in {wal, Append(wal, r)}
          /\ call' = [call EXCEPT ![t] = Idle]
    \/ /\ call' = [call EXCEPT ![t] = Idle]
       /\ UNCHANGED <<current_lsn, wal>>

\* The call of thread t returns success.
Succeed(t) ==
    /\ call' = [call EXCEPT ![t] = Idle]
    /\ acked' = IF cut THEN {} ELSE acked \cup {call[t].record}
-----------------------------------------------------------------------------
(***************************************************************************)
(* metadata_create_entry.  The id is a hash of the path and the second of  *)
(* the call, so it may be one that is there already.                       *)
(***************************************************************************)
Created(id) ==
    [id |-> id, deleted |-> FALSE, placed |-> FALSE, size |-> 0, version |-> 1]

Inserting == {t \in Thread : call[t].pc = "insert"}

CreateLog(t, id) ==
    /\ call[t] = Idle
    /\ Len(nodes) + Cardinality(Inserting) < MaxNodes
    /\ wal_append(t, "CREATE", Created(id), "insert", 0)
    /\ UNCHANGED <<nodes, total_entries, total_size, acked, historyVars>>

CreateInsert(t) ==
    /\ call[t].pc = "insert"
    /\ nodes' = Append(nodes, call[t].record.entry)
    /\ total_entries' = (total_entries + 1) % Modulus
    /\ Succeed(t)
    /\ UNCHANGED <<total_size, current_lsn, wal, historyVars>>
-----------------------------------------------------------------------------
(***************************************************************************)
(* metadata_update_entry on the entry of node k, and                       *)
(* metadata_assign_storage_nodes, which ends in it.  The version that is   *)
(* logged is the one before the update.                                    *)
(***************************************************************************)
AssignNodes(t, k) ==
    /\ call[t] = Idle
    /\ nodes' = [nodes EXCEPT ![k].placed = TRUE]
    /\ call' = [call EXCEPT ![t] = [pc |-> "update", node |-> k]]
    /\ UNCHANGED <<total_entries, total_size, current_lsn, wal, acked, historyVars>>

UpdateLog(t, k) ==
    /\ call[t] = Idle \/ (call[t].pc = "update" /\ call[t].node = k)
    /\ wal_append(t, "UPDATE", nodes[k], "bump", k)
    /\ UNCHANGED <<nodes, total_entries, total_size, acked, historyVars>>

UpdateBump(t) ==
    /\ call[t].pc = "bump"
    /\ nodes' = [nodes EXCEPT ![call[t].node].version = @ + 1]
    /\ Succeed(t)
    /\ UNCHANGED <<total_entries, total_size, current_lsn, wal, historyVars>>
-----------------------------------------------------------------------------
(***************************************************************************)
(* metadata_delete_entry.  It does not ask whether the entry is deleted    *)
(* already.                                                                *)
(***************************************************************************)
DeleteMark(t, id) ==
    LET k == metadata_lookup(id) IN
    /\ call[t] = Idle
    /\ k # 0
    /\ nodes' = [nodes EXCEPT ![k].deleted = TRUE]
    /\ call' = [call EXCEPT ![t] = [pc |-> "unlist", node |-> k]]
    /\ UNCHANGED <<total_entries, total_size, current_lsn, wal, acked, historyVars>>

DeleteLog(t) ==
    /\ call[t].pc = "unlist"
    /\ wal_append(t, "DELETE", nodes[call[t].node], "uncount", call[t].node)
    /\ UNCHANGED <<nodes, total_entries, total_size, acked, historyVars>>

\* The counters are signed.
DeleteUncount_NoWrap(t) ==
    /\ call[t].pc = "uncount"
    /\ total_entries' = total_entries - 1
    /\ total_size' = total_size - nodes[call[t].node].size
    /\ Succeed(t)
    /\ uncounted' = TRUE
    /\ UNCHANGED <<nodes, current_lsn, wal, life, cut>>

DeleteUncount(t) ==
    /\ call[t].pc = "uncount"
    /\ total_entries' = (total_entries - 1) % Modulus
    /\ total_size' = (total_size - nodes[call[t].node].size) % Modulus
    /\ Succeed(t)
    /\ uncounted' = TRUE
    /\ UNCHANGED <<nodes, current_lsn, wal, life, cut>>
-----------------------------------------------------------------------------
(***************************************************************************)
(* The Paxos callbacks of the frontend                                     *)
(***************************************************************************)
\* The size of the entry that is replaced stays in the total.
apply_state_machine_AddsUp(e) ==
    LET k == metadata_lookup(e.id) IN
    /\ \/ /\ k # 0
          /\ nodes' = [nodes EXCEPT ![k] = e]
          /\ total_size' = (total_size + e.size) % Modulus
          /\ UNCHANGED total_entries
       \/ /\ k = 0
          /\ Len(nodes) + Cardinality(Inserting) < MaxNodes
          /\ nodes' = Append(nodes, e)
          /\ total_size' = (total_size + e.size) % Modulus
          /\ total_entries' = (total_entries + 1) % Modulus
    /\ UNCHANGED <<current_lsn, wal, call, acked, historyVars>>

\* metadata_apply_entry: replaces the entry with the same key, whatever its
\* version, or inserts it.  total_entries is not changed by a deletion.
apply_state_machine(e) ==
    LET k == metadata_lookup(e.id) IN
    /\ \/ /\ k # 0
          /\ nodes' = [nodes EXCEPT ![k] = e]
          /\ total_size' = (total_size + e.size - nodes[k].size) % Modulus
          /\ UNCHANGED total_entries
       \/ /\ k = 0
          /\ Len(nodes) + Cardinality(Inserting) < MaxNodes
          /\ nodes' = Append(nodes, e)
          /\ total_size' = (total_size + e.size) % Modulus
          /\ total_entries' = (total_entries + 1) % Modulus
    /\ UNCHANGED <<current_lsn, wal, call, acked, historyVars>>

PersistLog(t, e) ==
    /\ call[t] = Idle
    /\ wal_append(t, "UPDATE", e, "persisted", 0)
    /\ UNCHANGED <<nodes, total_entries, total_size, acked, historyVars>>

PersistDone(t) ==
    /\ call[t].pc = "persisted"
    /\ Succeed(t)
    /\ UNCHANGED <<nodes, total_entries, total_size, current_lsn, wal, historyVars>>
-----------------------------------------------------------------------------
(***************************************************************************)
(* The life of the log                                                     *)
(***************************************************************************)
\* wal_truncate empties the log, whatever number it is given.
wal_truncate ==
    /\ wal' = <<>>
    /\ life' = 0
    /\ acked' = {}
    /\ cut' = TRUE
    /\ UNCHANGED <<nodes, total_entries, total_size, current_lsn, call, uncounted>>

\* What wal_replay can leave in current_lsn.  A record carries no checksum, so
\* each is compared with an uninitialised one; only one that happens to match
\* counts.  Past a record that stops short the records are out of step.
ReplayedLsn ==
    {0} \cup (IF \E k \in DOMAIN wal : ~ wal[k].whole
              THEN 0 .. MaxLsn
              ELSE {wal[k].lsn : k \in DOMAIN wal})

\* The process stops, at any moment, and starts: metadata_manager_init and
\* wal_replay, which reads the records and applies none of them.
Restart ==
    /\ nodes' = <<>>
    /\ total_entries' = 0 /\ total_size' = 0
    /\ current_lsn' \in ReplayedLsn
    /\ call' = [t \in Thread |-> Idle]
    /\ life' = Len(wal)
    /\ cut' = FALSE
    /\ uncounted' = FALSE
    /\ UNCHANGED <<wal, acked>>
-----------------------------------------------------------------------------
\* What a Paxos round may carry.  Nothing looks at the version.
Applicable == [id : FileId, deleted : BOOLEAN, placed : {TRUE},
               size : FileSize, version : {1}]

LocalNext ==
    \/ \E t \in Thread :
          \/ \E id \in FileId : CreateLog(t, id) \/ DeleteMark(t, id)
          \/ \E k \in 1 .. Len(nodes) : AssignNodes(t, k) \/ UpdateLog(t, k)
          \/ CreateInsert(t) \/ UpdateBump(t) \/ DeleteLog(t) \/ DeleteUncount(t)
    \/ wal_truncate
    \/ Restart

ReplicaNext ==
    \/ \E e \in Applicable :
          \/ apply_state_machine(e)
          \/ \E t \in Thread : PersistLog(t, e)
    \/ \E t \in Thread : PersistDone(t)
    \/ Restart

LocalSpec == Init /\ [][LocalNext]_vars
Spec == Init /\ [][LocalNext \/ ReplicaNext]_vars
-----------------------------------------------------------------------------
(***************************************************************************)
(* Properties                                                              *)
(***************************************************************************)
\* In the part of the log that this process has written the numbers grow, and
\* none is above current_lsn, whichever thread writes and whatever fails.
LsnGrowsInALife ==
    \A j, k \in DOMAIN wal :
        life < j => /\ wal[j].lsn <= current_lsn
                    /\ j < k => wal[j].lsn < wal[k].lsn

\* What a call relies on when it takes the next lock: the node it has found is in
\* the map, the record it has written is in the log unless the log was cut, and
\* the entry it is to insert, which adds nothing to total_size, is empty.
CallsInv ==
    \A t \in Thread :
        /\ call[t].pc \in {"update", "unlist", "bump", "uncount"} =>
              call[t].node \in 1 .. Len(nodes)
        /\ call[t].pc \in {"insert", "bump", "uncount", "persisted"} /\ ~ cut =>
              \E k \in 1 .. Len(wal) : wal[k] = call[t].record
        /\ call[t].pc = "insert" => call[t].record.entry.size = 0

\* A call that returned success has its record in the log, as much of it as
\* write() stored, whatever has failed or stopped since: only wal_truncate takes
\* it away.
AckedInLog == \A r \in acked : \E k \in DOMAIN wal : wal[k] = r

\* The sum of the sizes of entries
TotalSize(s) ==
    LET sum[k \in 0 .. Len(s)] == IF k = 0 THEN 0 ELSE sum[k - 1] + s[k].size
    IN  sum[Len(s)]

\* The statistics are those of the map as long as metadata_delete_entry has not
\* changed them: creations, entries applied over others that are larger, smaller or
\* deleted, and the pieces of calls of other threads lose and count nothing twice.
\* A deletion leaves its entry in the map, and a second one of the same entry takes
\* it off again, below zero and round to 2^64; the totals count nothing from then
\* on.  An entry that is applied as deleted stays in the map and in the totals.
TotalsExact ==
    ~ uncounted =>
        /\ total_size = TotalSize(nodes) % Modulus
        /\ total_entries = Len(nodes) % Modulus

\* After a restart over a log of whole records the map holds every file whose last
\* record was acknowledged and is no deletion.
Recovered ==
    [][Restart /\ (\A k \in DOMAIN wal : wal[k].whole) =>
          \A k \in DOMAIN wal :
              LET later == {j \in DOMAIN wal : k < j /\ wal[j].entry.id = wal[k].entry.id}
              IN  wal[k] \in acked /\ later = {} /\ ~ wal[k].entry.deleted =>
                      \E n \in DOMAIN nodes' : nodes'[n].id = wal[k].entry.id]_vars
=============================================================================
