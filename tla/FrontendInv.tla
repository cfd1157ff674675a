---------------------------- MODULE FrontendInv ----------------------------
(***************************************************************************)
(* The inductive invariant behind AckedOnQuorum, AckedDisjoint and         *)
(* GetSound.                                                               *)
(***************************************************************************)
EXTENDS Frontend

Nodes == Seq(StorageNode)

WriteRecord ==
    [file : FileId, nodes : Nodes, offset : Nat, data : Content, size : Nat,
     id : Nat, ok : SUBSET StorageNode]

GetRequest == [path : Path, offset : Nat, size : Nat]

CreateCall == [pc : {"exists", "create"}, path : Path, dir : BOOLEAN]

WriteCall ==
    [pc : {"write"}, at : Node, file : FileId, nodes : Nodes, offset : Nat,
     data : Content, size : Nat, id : Nat, i : Nat \ {0}, ok : SUBSET StorageNode]

DeleteCall ==
    [pc : {"delete", "rollback"}, at : Node, file : FileId, nodes : Nodes,
     i : Nat \ {0}, ok : SUBSET StorageNode]

CommitCall ==
    [pc : {"commit"}, at : Node, write : WriteRecord \cup {NULL}, entry : Entry]

ForwardCall == [pc : {"forward"}, get : GetRequest, left : SUBSET Node]

Answers == SUBSET (StorageNode \X Content)

ReadCall ==
    [pc : {"read"}, at : Node, file : FileId, nodes : Nodes, get : GetRequest,
     length : Nat, i : Nat \ {0}, got : Answers]

AnswerCall ==
    [pc : {"answer"}, file : FileId, nodes : Nodes, offset : Nat, data : Content,
     from : SUBSET StorageNode]

CallState ==
    {Idle} \cup CreateCall \cup WriteCall \cup DeleteCall \cup CommitCall
    \cup ForwardCall \cup ReadCall \cup AnswerCall

LateState ==
    [op : {"WRITE"}, node : StorageNode, file : FileId, offset : Nat, data : Content]
    \cup [op : {"DELETE"}, node : StorageNode, file : FileId]

MetaType ==
    /\ entries \in [Node -> [FileId -> Entry \cup {NULL}]]
    /\ next_node_idx \in [Node -> Nat]
    /\ next_seq \in [Node -> Nat] /\ last_seq \in [Node -> Nat]
    /\ placed \in [FileId -> Nodes \cup {NULL}]
    /\ learns \subseteq [to : Node, seq : Nat, entry : Entry]

StoreType ==
    /\ store \in [StorageNode -> [FileId -> File]]
    /\ late \subseteq LateState
    /\ lost \subseteq StorageNode

TypeOK ==
    /\ MetaType /\ StoreType
    /\ call \in [Caller -> CallState]
    /\ calls \in Nat /\ faults \in Nat
    /\ done \subseteq WriteRecord
    /\ purged \subseteq FileId
-----------------------------------------------------------------------------
\* The storage nodes of a file never change: entries and messages have the ones
\* the file was given when its id was drawn.
MetaInv ==
    /\ \A n \in Node, f \in FileId : entries[n][f] # NULL =>
          entries[n][f].file = f /\ entries[n][f].nodes = placed[f]
    /\ \A m \in learns : m.entry.nodes = placed[m.entry.file]

\* Deletions are for purged files only.
LateInv == \A r \in late : r.op = "DELETE" => r.file \in purged

NodesOf(nodes) == {nodes[i] : i \in DOMAIN nodes}

\* Nothing that node s had of file f was taken away.
Intact(f, s) == f \notin purged /\ s \notin lost

\* The replicas that have accepted write w are among those of the file, and have
\* its bytes.
WriteOK(w) ==
    /\ w.nodes = placed[w.file]
    /\ w.ok \subseteq NodesOf(w.nodes)
    /\ \A s \in w.ok : Intact(w.file, s) => w.data # <<>> /\ Holds(s, w)

Accepted(w) == Cardinality(w.ok) >= Quorum(w.nodes)

\* A request goes to the nodes of its file.  Files that are written or deleted
\* are known; those that are deleted are purged.  The write that is proposed has
\* its quorum.  What replicas have answered to a Get they still show.
CallOK(c, r) ==
    /\ r.pc \in {"write", "delete", "rollback", "read", "answer"} =>
          r.nodes = placed[r.file]
    /\ r.pc \in {"write", "delete"} => r.at = c[1] /\ entries[c[1]][r.file] # NULL
    /\ r.pc \in {"delete", "rollback"} => r.file \in purged
    /\ r.pc = "write" => WriteOK(AsWrite(r))
    /\ r.pc = "commit" =>
          /\ r.entry.nodes = placed[r.entry.file]
          /\ r.write # NULL => WriteOK(r.write) /\ Accepted(r.write)
    /\ r.pc = "read" => \A x \in r.got :
          /\ x[1] \in NodesOf(r.nodes)
          /\ Intact(r.file, x[1]) => Shows(x[1], r.file, r.get.offset, x[2])
    /\ r.pc = "answer" =>
          /\ Cardinality(r.from) >= Quorum(r.nodes)
          /\ \A s \in r.from :
                /\ s \in NodesOf(r.nodes)
                /\ Intact(r.file, s) => Shows(s, r.file, r.offset, r.data)

CallInv == \A c \in Caller : CallOK(c, call[c])

DoneInv == \A w \in done : WriteOK(w) /\ Accepted(w)
-----------------------------------------------------------------------------
\* The write that a thread has under way.
Carried(r) ==
    CASE r.pc = "write"  -> {AsWrite(r)}
      [] r.pc = "commit" -> {r.write} \ {NULL}
      [] OTHER           -> {}

\* All writes that some replica may have accepted for an answer yet to come or
\* given.
Writes == done \cup UNION {Carried(call[c]) : c \in Caller}

\* Writes are told apart by their ids.
IdInv ==
    /\ \A w \in Writes : w.id < calls
    /\ \A v, w \in done : v.id = w.id => v = w
    /\ \A c \in Caller : \A w \in Carried(call[c]) :
          /\ \A v \in done : v.id # w.id
          /\ \A d \in Caller : \A v \in Carried(call[d]) : v.id = w.id => c = d

\* What one replica has accepted lies one after the other.
Apart(v, w) ==
    \/ v.offset + Len(v.data) <= w.offset
    \/ w.offset + Len(w.data) <= v.offset

ApartInv ==
    \A v, w \in Writes : \A s \in v.ok \cap w.ok :
        v.file = w.file /\ v.id # w.id /\ Intact(v.file, s) => Apart(v, w)

FrontInv ==
    TypeOK /\ MetaInv /\ LateInv /\ CallInv /\ DoneInv /\ IdInv /\ ApartInv
=============================================================================
