--------------------------- MODULE FrontendProofs ---------------------------
(***************************************************************************)
(* Every step keeps the invariant, and what follows from it: acknowledged  *)
(* writes stay, are disjoint, and are what Get returns.  With one frontend *)
(* in use, rollbacks, Rmdir and versions are safe too.                     *)
(***************************************************************************)
EXTENDS FrontendSteps, FrontendNameSteps

\* A step by which no thread moves.
LEMMA NoThread ==
    ASSUME FrontInv, Kept, StoreType', LateInv', MetaType', MetaInv',
           \A n \in Node : KnownKept(n),
           UNCHANGED <<call, calls, done, purged>>, faults' \in Nat
    PROVE  FrontInv'
<1>1. StoreType /\ call \in [Caller -> CallState]
  BY Zenon DEF FrontInv, TypeOK
<1>2. TypeOK'
  BY Zenon DEF FrontInv, TypeOK
<1>3. CallInv'
  <2>. SUFFICES ASSUME NEW d \in Caller PROVE CallOK(d, call[d])'
    BY Zenon DEF CallInv
  <2>1. call'[d] = call[d] /\ call[d] \in CallState /\ CallOK(d, call[d]) /\ KnownKept(d[1])
    BY <1>1, Zenon DEF FrontInv, CallInv, Caller
  <2>. QED
    BY <1>1, <2>1, CallKept, Zenon
<1>4. calls' >= calls /\ \A d \in Caller : Carried(call'[d]) \subseteq Carried(call[d])
  BY DEF FrontInv, TypeOK
<1>. QED
  BY <1>2, <1>3, <1>4, Neutral, Zenon

\* A frontend that learns an entry keeps the invariant.
LEMMA LearnStep ==
    ASSUME FrontInv, NEW m \in learns, Learn(m)
    PROVE  FrontInv'
<1>. DEFINE last == [last_seq EXCEPT ![m.to] = m.seq]
<1>1. MetaType /\ MetaInv
  BY Zenon DEF FrontInv, TypeOK
<1>2. /\ m.to \in Node /\ m.seq \in Nat /\ m.entry \in Entry
      /\ m.entry.nodes = placed[m.entry.file]
  BY <1>1, Zenon DEF MetaType, MetaInv
<1>3. /\ metadata_apply_entry(m.to, m.entry) /\ last_seq' = last /\ learns' \subseteq learns
      /\ UNCHANGED <<next_node_idx, next_seq, placed, call, storeVars, calls, faults, done, purged>>
  BY Zenon DEF Learn, Deliverable
<1>4. last_seq' \in [Node -> Nat] /\ next_seq' \in [Node -> Nat]
  BY <1>1, <1>2, <1>3, Zenon DEF MetaType
<1>5. learns' \subseteq [to : Node, seq : Nat, entry : Entry]
  BY <1>1, <1>3, Zenon DEF MetaType
<1>6. MetaType' /\ MetaInv' /\ \A n \in Node : KnownKept(n)
  BY <1>2, <1>3, <1>4, <1>5, ApplyEntry, Zenon
<1>7. StoreType' /\ LateInv' /\ Kept
  BY <1>3, StoreSame, Zenon
<1>8. faults' \in Nat
  BY <1>3, Zenon DEF FrontInv, TypeOK
<1>. QED
  BY <1>3, <1>6, <1>7, <1>8, NoThread, Zenon

\* A storage request carried out after it was given up keeps the invariant.
LEMMA LateRequestStep ==
    ASSUME FrontInv, NEW r \in late, LateRequest(r)
    PROVE  FrontInv'
<1>. DEFINE file == store[r.node][r.file]
            o == IF r.op = "WRITE" THEN handle_write(file, r.offset, r.data)
                 ELSE handle_delete(file)
            new == o.file
<1>1. StoreType /\ LateInv /\ faults \in Nat
  BY Zenon DEF FrontInv, TypeOK
<1>2. r.node \in StorageNode /\ r.file \in FileId
  BY <1>1, Zenon DEF StoreType, LateState
<1>3. file \in File
  BY <1>1, <1>2, Zenon DEF StoreType
<1>4. new \in File /\ (r.file \in purged \/ Extends(file, new))
  <2>1. CASE r \in [op : {"WRITE"}, node : StorageNode, file : FileId, offset : Nat,
                    data : Content]
    <3>1. r.op = "WRITE" /\ r.offset \in Nat /\ r.data \in Content
      BY <2>1, Zenon
    <3>2. o = handle_write(file, r.offset, r.data)
      BY <3>1, Zenon
    <3>. HIDE DEF file, o
    <3>. QED
      BY <1>3, <3>1, <3>2, WriteOutcome, Zenon
  <2>2. CASE r \in [op : {"DELETE"}, node : StorageNode, file : FileId]
    <3>1. r.op = "DELETE" /\ r.file \in purged
      BY <1>1, <2>2, Zenon DEF LateInv
    <3>2. new = NoFile
      BY <3>1, Zenon DEF handle_delete, Outcome
    <3>. QED
      BY <3>1, <3>2, Zenon DEF File
  <2>. QED
    BY <1>1, <2>1, <2>2, Zenon DEF StoreType, LateState
<1>5. /\ store' = [store EXCEPT ![r.node][r.file] = new] /\ late' \subseteq late
      /\ UNCHANGED <<metaVars, call, calls, faults, done, purged, lost>>
      /\ UNCHANGED <<placed, purged, lost>>
  BY Zenon DEF LateRequest, metaVars
<1>6. Extends(file, new) <=> Extends(store[r.node][r.file], new)
  BY Zenon
<1>. HIDE DEF new, file
<1>7. late' \subseteq LateState /\ \A q \in late' : q.op = "DELETE" => q.file \in purged
  BY <1>1, <1>5, Zenon DEF StoreType, LateInv
<1>8. StoreType' /\ LateInv' /\ Kept
  <2>. DEFINE s == r.node
              f == r.file
  <2>1. /\ s \in StorageNode /\ f \in FileId
        /\ store' = [store EXCEPT ![s][f] = new]
        /\ f \in purged \/ Extends(store[s][f], new)
    BY <1>2, <1>4, <1>5, <1>6, Zenon
  <2>. HIDE DEF s, f
  <2>. QED
    BY <1>4, <1>5, <1>7, <2>1, StoreStep, Zenon
<1>9. MetaType' /\ MetaInv' /\ \A n \in Node : KnownKept(n)
  BY <1>5, MetaSame, Zenon
<1>. QED
  BY <1>1, <1>5, <1>8, <1>9, NoThread, Zenon

\* The restart of a storage node keeps the invariant.
LEMMA StorageRestartsStep ==
    ASSUME FrontInv, NEW s \in StorageNode, StorageRestarts(s)
    PROVE  FrontInv'
<1>1. StoreType /\ LateInv
  BY Zenon DEF FrontInv, TypeOK
<1>2. /\ store' = [store EXCEPT ![s] = [f \in FileId |-> NoFile]] /\ lost' = lost \cup {s}
      /\ UNCHANGED <<metaVars, call, late, calls, done, purged>> /\ UNCHANGED placed
      /\ faults' \in Nat
  BY DEF StorageRestarts, metaVars, Fault, FrontInv, TypeOK
<1>3. StoreType' /\ LateInv'
  <2>1. [f \in FileId |-> NoFile] \in [FileId -> File]
    BY Zenon DEF File
  <2>2. store' \in [StorageNode -> [FileId -> File]]
    BY <1>1, <1>2, <2>1, Zenon DEF StoreType
  <2>. QED
    BY <1>1, <1>2, <2>2, Zenon DEF StoreType, LateInv
<1>4. Kept
  <2>1. \A t \in StorageNode, f \in FileId : t \notin lost' => Extends(store[t][f], store'[t][f])
    <3>. SUFFICES ASSUME NEW t \in StorageNode, NEW f \in FileId, t \notin lost'
                  PROVE  Extends(store[t][f], store'[t][f])
      BY Zenon
    <3>1. store'[t] = store[t] /\ store[t][f] \in File
      BY <1>1, <1>2, Zenon DEF StoreType
    <3>. QED
      BY <3>1, SizeType, Zenon
  <2>. QED
    BY <1>2, <2>1, Zenon DEF Kept, Intact
<1>5. MetaType' /\ MetaInv' /\ \A n \in Node : KnownKept(n)
  BY <1>2, MetaSame, Zenon
<1>. QED
  BY <1>2, <1>3, <1>4, <1>5, NoThread, Zenon

\* The restart of a frontend keeps the invariant.
LEMMA FrontendRestartsStep ==
    ASSUME FrontInv, NEW n \in Node, FrontendRestarts(n)
    PROVE  FrontInv'
<1>1. StoreType /\ MetaType /\ MetaInv /\ call \in [Caller -> CallState]
  BY Zenon DEF FrontInv, TypeOK
<1>2. /\ entries' = [entries EXCEPT ![n] = EmptyMap]
      /\ next_node_idx' = [next_node_idx EXCEPT ![n] = 0]
      /\ next_seq' = [next_seq EXCEPT ![n] = 1] /\ last_seq' = [last_seq EXCEPT ![n] = 0]
      /\ learns' \subseteq learns
      /\ UNCHANGED <<placed, storeVars, calls, done, purged>> /\ faults' \in Nat
  BY DEF FrontendRestarts, Fault, FrontInv, TypeOK
<1>3. \A f \in FileId : EmptyMap[f] = NULL
  BY Zenon DEF EmptyMap
<1>4. MetaType'
  <2>1. EmptyMap \in [FileId -> Entry \cup {NULL}]
    BY Zenon DEF EmptyMap
  <2>2. entries' \in [Node -> [FileId -> Entry \cup {NULL}]]
    BY <1>1, <1>2, <2>1, Zenon DEF MetaType
  <2>. QED
    BY <1>1, <1>2, <2>2, Zenon DEF MetaType
<1>5. MetaInv' /\ \A m \in Node : m # n => KnownKept(m)
  <2>1. \A m \in Node : m # n => entries'[m] = entries[m]
    BY <1>1, <1>2, Zenon DEF MetaType
  <2>2. entries'[n] = EmptyMap
    BY <1>1, <1>2, Zenon DEF MetaType
  <2>. QED
    BY <1>1, <1>2, <1>3, <2>1, <2>2 DEF MetaInv, KnownKept
<1>6. StoreType' /\ LateInv' /\ Kept
  BY <1>2, StoreSame, Zenon
<1>7. ASSUME NEW d \in Caller
      PROVE  /\ call'[d] \in CallState /\ CallOK(d, call[d])'
             /\ Carried(call'[d]) \subseteq Carried(call[d])
  <2>. DEFINE left == {p \in Node \ {d[1]} : p > n}
  <2>1. call'[d] = IF d[1] = n THEN Idle
                   ELSE IF call[d].pc = "read" /\ call[d].at = n
                   THEN [pc |-> "forward", get |-> call[d].get, left |-> left]
                   ELSE call[d]
    BY Zenon DEF FrontendRestarts
  <2>2. left \subseteq Node /\ d[1] \in Node /\ call[d] \in CallState /\ CallOK(d, call[d])
    BY <1>1, Zenon DEF Caller, FrontInv, CallInv
  <2>. HIDE DEF left
  <2>3. CASE d[1] = n
    <3>1. call'[d] = Idle
      BY <2>1, <2>3, Zenon
    <3>. QED
      BY <3>1 DEF CallState, CallOK, Carried, Idle
  <2>4. CASE d[1] # n /\ call[d].pc = "read" /\ call[d].at = n
    <3>1. call'[d] = [pc |-> "forward", get |-> call[d].get, left |-> left]
      BY <2>1, <2>4, Zenon
    <3>2. call[d].get \in GetRequest
      BY <2>2, <2>4, CallKinds, Zenon DEF ReadCall
    <3>3. call'[d] \in CallState
      BY <2>2, <3>1, <3>2 DEF CallState, ForwardCall
    <3>. QED
      BY <3>1, <3>3 DEF CallOK, Carried
  <2>5. CASE d[1] # n /\ ~ (call[d].pc = "read" /\ call[d].at = n)
    <3>1. call'[d] = call[d]
      BY <2>1, <2>5, Zenon
    <3>2. KnownKept(d[1])
      BY <1>5, <2>2, <2>5, Zenon
    <3>. QED
      BY <1>1, <1>6, <2>2, <3>1, <3>2, CallKept, Zenon
  <2>. QED
    BY <2>3, <2>4, <2>5, Zenon
<1>8. call' \in [Caller -> CallState]
  <2>1. \E g : call' = [d \in Caller |-> g[d]]
    BY Zenon DEF FrontendRestarts
  <2>. QED
    BY <1>7, <2>1, Zenon
<1>9. TypeOK' /\ CallInv'
  BY <1>2, <1>4, <1>6, <1>7, <1>8, Zenon DEF FrontInv, TypeOK, CallInv
<1>10. calls' >= calls
  BY <1>2 DEF FrontInv, TypeOK
<1>. QED
  BY <1>2, <1>5, <1>6, <1>7, <1>9, <1>10, Neutral, Zenon
-----------------------------------------------------------------------------
\* The next frontend to be asked is one that is left.
LEMMA Peer ==
    ASSUME LeastExists, NEW left, left \subseteq Node, left # {}
    PROVE  (CHOOSE p \in left : \A q \in left : p <= q) \in left
<1>1. \E p \in left : \A q \in left : p <= q
  BY FrontendAssumption, Zenon DEF LeastExists
<1>. QED
  BY <1>1, Zenon
-----------------------------------------------------------------------------
\* Rmdir keeps the invariant.
LEMMA RmdirStep ==
    ASSUME FrontInv, LeastExists, NEW c \in Caller, NEW p, Rmdir(c, p)
    PROVE  FrontInv'
<1>. DEFINE f == metadata_lookup_by_path(c[1], p)
            e == Deletion(entries[c[1]][f])
<1>1. calls' \in Nat /\ calls' >= calls /\ c[1] \in Node
  BY Requested, Zenon DEF Rmdir
<1>2. f \in Live(c[1])
  BY Lookup, Zenon DEF Rmdir, path_is_existing_directory
<1>3. f \in FileId /\ entries[c[1]][f] # NULL
  BY <1>2, Zenon DEF Live
<1>. HIDE DEF f
<1>4. e \in Entry /\ e.nodes = placed[e.file]
  BY <1>1, <1>3, EntryType, Changed
<1>5. Serve(c, [pc |-> "commit", at |-> c[1], write |-> NULL, entry |-> e])
  BY Zenon DEF Rmdir, f
<1>6. /\ UNCHANGED <<metaVars, storeVars, done>>
      /\ purged' = purged /\ placed' = placed /\ faults' = faults
      /\ faults \in Nat /\ purged \subseteq FileId
  BY Zenon DEF Rmdir, metaVars, FrontInv, TypeOK
<1>. HIDE DEF e
<1>7. /\ Moves(c) /\ call'[c] \in CallState /\ CallOK(c, call[c])'
      /\ Carried(call'[c]) = {}
  BY <1>1, <1>4, <1>5, <1>6, Proposed, Zenon
<1>. QED
  BY <1>1, <1>6, <1>7, Quiet, Zenon

\* The start of a Remove keeps the invariant.
LEMMA RemoveStep ==
    ASSUME FrontInv, LeastExists, NEW c \in Caller, NEW p, Remove(c, p)
    PROVE  FrontInv'
<1>1. calls' \in Nat /\ calls' >= calls /\ c[1] \in Node
  BY Requested, Zenon DEF Remove
<1>2. PICK f \in FilesAt(c[1], p) :
          /\ Serve(c, [pc |-> "delete", at |-> c[1], file |-> f,
                       nodes |-> entries[c[1]][f].nodes, i |-> 1, ok |-> {}])
          /\ purged' = purged \cup {f}
  BY Zenon DEF Remove
<1>3. f \in FileId /\ entries[c[1]][f] # NULL
  BY FilesAtKnown, Zenon
<1>. DEFINE nodes == entries[c[1]][f].nodes
<1>4. nodes \in Nodes /\ nodes = placed[f]
  BY <1>1, <1>3, EntryType, Zenon
<1>5. /\ UNCHANGED <<metaVars, storeVars, done>> /\ UNCHANGED <<placed, entries>>
      /\ faults' \in Nat /\ purged \subseteq FileId
  BY Zenon DEF Remove, metaVars, FrontInv, TypeOK
<1>. HIDE DEF nodes
<1>6. Moves(c) /\ call'[c] = [pc |-> "delete", at |-> c[1], file |-> f, nodes |-> nodes,
                              i |-> 1, ok |-> {}]
  BY <1>2, Served, Zenon DEF nodes
<1>7. call'[c] \in CallState
  BY <1>1, <1>3, <1>4, <1>6 DEF CallState, DeleteCall
<1>8. CallOK(c, call[c])'
  <2>1. /\ call'[c].pc = "delete" /\ call'[c].at = c[1] /\ call'[c].nodes = nodes
        /\ call'[c].file = f
    BY <1>6
  <2>2. nodes = placed'[f] /\ entries'[c[1]][f] # NULL /\ f \in purged'
    BY <1>2, <1>3, <1>4, <1>5, Zenon
  <2>. QED
    BY <2>1, <2>2, Zenon DEF CallOK
<1>9. Carried(call'[c]) = {}
  BY <1>6 DEF Carried
<1>. QED
  BY <1>1, <1>2, <1>3, <1>5, <1>6, <1>7, <1>8, <1>9, Quiet, Zenon

\* The start of a Get keeps the invariant.
LEMMA GetStep ==
    ASSUME FrontInv, LeastExists, NEW c \in Caller, NEW p \in Path, NEW offset \in Offset,
           NEW size \in Offset, Get(c, p, offset, size)
    PROVE  FrontInv'
<1>. DEFINE g == [path |-> p, offset |-> offset, size |-> size]
<1>1. calls' = calls + 1 /\ calls' \in Nat /\ calls' >= calls /\ c[1] \in Node
  BY Requested, Zenon DEF Get
<1>2. g \in GetRequest
  BY FrontendAssumption, Zenon DEF GetRequest
<1>3. /\ UNCHANGED <<metaVars, storeVars, done>> /\ UNCHANGED <<placed, faults, purged>>
      /\ faults' \in Nat /\ purged \subseteq FileId
  BY Zenon DEF Get, metaVars, FrontInv, TypeOK
<1>4. CASE \E f \in FilesAt(c[1], p) : StartRead(c, c[1], f, g)
  <2>1. PICK f \in FilesAt(c[1], p) : StartRead(c, c[1], f, g)
    BY <1>4, Zenon
  <2>2. f \in FileId /\ entries[c[1]][f] # NULL
    BY FilesAtKnown, Zenon
  <2>. HIDE DEF g
  <2>3. /\ Moves(c) /\ call'[c] \in CallState /\ CallOK(c, call[c])'
        /\ Carried(call'[c]) = {}
    BY <1>1, <1>2, <1>3, <2>1, <2>2, ReadStarts, Zenon
  <2>. QED
    BY <1>1, <1>3, <2>3, Quiet, Zenon
<1>5. CASE Serve(c, [pc |-> "forward", get |-> g, left |-> Node \ {c[1]}])
  <2>. HIDE DEF g
  <2>1. Moves(c) /\ call'[c] = [pc |-> "forward", get |-> g, left |-> Node \ {c[1]}]
    BY <1>5, Served, Zenon
  <2>2. call'[c] \in CallState /\ call'[c].pc \in Plain
    BY <1>2, <2>1 DEF CallState, ForwardCall, Plain
  <2>. QED
    BY <1>1, <1>3, <2>1, <2>2, PlainStep, Zenon
<1>. QED
  BY <1>4, <1>5, Zenon DEF Get

\* A forwarded Get keeps the invariant.
LEMMA ForwardStep ==
    ASSUME FrontInv, LeastExists, NEW c \in Caller, Forward(c)
    PROVE  FrontInv'
<1>. DEFINE r == call[c]
            peer == CHOOSE p \in r.left : \A q \in r.left : p <= q
<1>1. r \in ForwardCall /\ call \in [Caller -> CallState]
  BY CallKinds, Zenon DEF FrontInv, TypeOK, Forward
<1>2. r.get \in GetRequest /\ r.left \subseteq Node /\ r.left # {}
  BY <1>1, Zenon DEF ForwardCall, Forward
<1>3. peer \in Node
  BY <1>2, Peer, Zenon
<1>. HIDE DEF peer
<1>4. /\ UNCHANGED <<metaVars, storeVars, done>> /\ UNCHANGED <<placed, faults, purged, calls>>
      /\ faults' \in Nat /\ purged \subseteq FileId /\ calls \in Nat
  BY Zenon DEF Forward, metaVars, FrontInv, TypeOK
<1>5. CASE \E f \in FilesAt(peer, r.get.path) : StartRead(c, peer, f, r.get)
  <2>1. PICK f \in FilesAt(peer, r.get.path) : StartRead(c, peer, f, r.get)
    BY <1>5, Zenon
  <2>2. f \in FileId /\ entries[peer][f] # NULL
    BY FilesAtKnown, Zenon
  <2>3. /\ Moves(c) /\ call'[c] \in CallState /\ CallOK(c, call[c])'
        /\ Carried(call'[c]) = {}
    BY <1>2, <1>3, <1>4, <2>1, <2>2, ReadStarts, Zenon
  <2>. QED
    BY <1>4, <2>3, Quiet
<1>6. CASE call' = [call EXCEPT ![c].left = @ \ {peer}]
  <2>1. Moves(c) /\ call'[c] = [r EXCEPT !.left = r.left \ {peer}]
    BY <1>1, <1>6, Zenon DEF Moves
  <2>2. call'[c] \in ForwardCall /\ call'[c].pc = "forward"
    BY <1>1, <2>1, Zenon DEF ForwardCall
  <2>. QED
    BY <1>4, <2>1, <2>2, PlainStep, Zenon DEF CallState, Plain
<1>. QED
  BY <1>5, <1>6, Zenon DEF Forward, peer

\* A new write has an id that no other has, and no replica has accepted it.
LEMMA NewWrite ==
    ASSUME NEW n \in Node, NEW f \in FileId, NEW nodes \in Nodes, NEW at \in Nat,
           NEW data \in Content, NEW size \in Nat, NEW id \in Nat, NEW r,
           r = [pc |-> "write", at |-> n, file |-> f, nodes |-> nodes, offset |-> at,
                data |-> data, size |-> size, id |-> id, i |-> 1, ok |-> {}]
    PROVE  r \in WriteCall
BY DEF WriteCall

\* The start of a Write, with an id that no other write has, keeps the invariant.
LEMMA WriteStep ==
    ASSUME FrontInv, LeastExists, NEW c \in Caller, NEW p, NEW offset \in Offset, NEW data \in Payload,
           Write(c, p, offset, data)
    PROVE  FrontInv'
<1>1. /\ calls' = calls + 1 /\ calls \in Nat /\ calls' \in Nat /\ calls' >= calls
      /\ c[1] \in Node /\ Carried(call[c]) = {}
  BY Requested, Zenon DEF Write
<1>2. PICK f \in FilesAt(c[1], p) :
          LET e == entries[c[1]][f] IN
          Serve(c, [pc |-> "write", at |-> c[1], file |-> f, nodes |-> e.nodes,
                    offset |-> IF offset = 0 /\ e.size > 0 THEN e.size ELSE offset,
                    data |-> data, size |-> e.size, id |-> calls,
                    i |-> 1, ok |-> {}])
  BY Zenon DEF Write
<1>. DEFINE nodes == entries[c[1]][f].nodes
            size == entries[c[1]][f].size
            at == IF offset = 0 /\ size > 0 THEN size ELSE offset
<1>3. f \in FileId /\ entries[c[1]][f] # NULL
  BY FilesAtKnown, Zenon
<1>4. nodes \in Nodes /\ nodes = placed[f] /\ size \in Nat
  BY <1>1, <1>3, EntryType, Zenon
<1>5. at \in Nat /\ data \in Content
  BY <1>4, FrontendAssumption, Zenon
<1>. HIDE DEF nodes, size, at
<1>6. /\ Moves(c)
      /\ call'[c] = [pc |-> "write", at |-> c[1], file |-> f, nodes |-> nodes, offset |-> at,
                     data |-> data, size |-> size, id |-> calls, i |-> 1, ok |-> {}]
  BY <1>2, Served, Zenon DEF nodes, size, at
<1>7. /\ UNCHANGED <<metaVars, storeVars, done>>
      /\ UNCHANGED <<placed, entries, faults, purged>>
  BY Zenon DEF Write, metaVars
<1>8. /\ MetaType' /\ MetaInv' /\ \A n \in Node : KnownKept(n)
      /\ StoreType' /\ LateInv' /\ Kept
  BY <1>7, MetaSame, StoreSame, Zenon
<1>9. call'[c] \in CallState
  <2>1. call'[c] \in WriteCall
    <3>1. /\ c[1] \in Node /\ f \in FileId /\ nodes \in Nodes /\ at \in Nat
          /\ data \in Content /\ size \in Nat /\ calls \in Nat
      BY <1>1, <1>3, <1>4, <1>5, Zenon
    <3>. QED
      BY <1>6, <3>1, NewWrite, Zenon
  <2>. QED
    BY <2>1, Zenon DEF CallState
<1>10. PICK x : x = [file |-> f, nodes |-> nodes, offset |-> at, data |-> data, size |-> size,
                     id |-> calls, ok |-> {}]
  BY Zenon
<1>11. AsWrite(call'[c]) = x /\ Carried(call'[c]) = {x} /\ x.id = calls /\ x.ok = {}
  BY <1>6, <1>10 DEF AsWrite, Carried
<1>12. CallOK(c, call[c])'
  <2>1. WriteOK(AsWrite(call[c]))'
    <3>1. x.nodes = placed'[x.file] /\ x.ok = {}
      BY <1>4, <1>7, <1>10, Zenon
    <3>. QED
      BY <1>11, <3>1, Zenon DEF WriteOK, NodesOf
  <2>. QED
    <3>1. /\ call'[c].pc = "write" /\ call'[c].at = c[1] /\ call'[c].nodes = nodes
          /\ call'[c].file = f
      BY <1>6
    <3>2. nodes = placed'[f] /\ entries'[c[1]][f] # NULL
      BY <1>3, <1>4, <1>7, Zenon
    <3>. QED
      BY <2>1, <3>1, <3>2, Zenon DEF CallOK
<1>13. /\ call' \in [Caller -> CallState] /\ CallInv'
       /\ \A d \in Caller : d # c => call'[d] = call[d]
  BY <1>6, <1>8, <1>9, <1>12, Others, Zenon
<1>14. TypeOK'
  BY <1>1, <1>7, <1>8, <1>13, Zenon DEF FrontInv, TypeOK
<1>15. DoneInv'
  BY <1>7, <1>8, DoneKept, Zenon DEF DoneInv
<1>16. Writes' \subseteq Writes \cup {x}
  BY <1>7, <1>11, <1>13, Zenon DEF Writes
<1>17. \A w \in Writes : w.id \in Nat /\ w.id < calls /\ w.id # calls
  <2>. SUFFICES ASSUME NEW w \in Writes PROVE w.id \in Nat /\ w.id < calls /\ w.id # calls
    BY Zenon
  <2>1. w.id \in Nat
    BY WritesOK, Zenon DEF WriteRecord
  <2>2. w.id < calls
    BY Zenon DEF FrontInv, IdInv
  <2>3. calls \in Nat
    BY <1>1, Zenon
  <2>. QED
    BY <2>1, <2>2, <2>3
<1>18. IdInv'
  <2>1. \A w \in Writes' : w.id < calls'
    <3>1. calls \in Nat /\ calls' = calls + 1
      BY <1>1, Zenon
    <3>2. \A w \in Writes' : w \in Writes \/ w.id = calls
      BY <1>11, <1>16, Zenon
    <3>. QED
      BY <1>17, <3>1, <3>2
  <2>2. \A v, w \in done' : v.id = w.id => v = w
    BY <1>7, Zenon DEF FrontInv, IdInv
  <2>3. \A v \in done : v.id # calls
    BY <1>17, Zenon DEF Writes
  <2>4. \A d \in Caller : \A v \in Carried(call[d]) : v.id # calls
    BY <1>17, Zenon DEF Writes
  <2>5. ASSUME NEW b \in Caller, NEW w \in Carried(call'[b])
        PROVE  /\ \A v \in done' : v.id # w.id
               /\ \A d \in Caller : \A v \in Carried(call'[d]) : v.id = w.id => b = d
    <3>1. CASE b = c
      BY <1>7, <1>11, <1>13, <2>3, <2>4, <3>1, Zenon
    <3>2. CASE b # c
      <4>1. w \in Carried(call[b])
        BY <1>13, <3>2, Zenon
      <4>. QED
        BY <1>7, <1>11, <1>13, <2>4, <4>1 DEF FrontInv, IdInv
    <3>. QED
      BY <3>1, <3>2, Zenon
  <2>. QED
    BY <2>1, <2>2, <2>5, Zenon DEF IdInv
<1>19. ApartInv'
  <2>. SUFFICES ASSUME NEW v \in Writes', NEW w \in Writes', NEW s \in v.ok \cap w.ok,
                       v.file = w.file, v.id # w.id, Intact(v.file, s)'
                PROVE  Apart(v, w)
    BY Zenon DEF ApartInv, Apart
  <2>1. v \in Writes /\ w \in Writes
    BY <1>11, <1>16, Zenon
  <2>2. Intact(v.file, s)
    BY <1>8, Zenon DEF Intact, Kept
  <2>. QED
    BY <2>1, <2>2, Zenon DEF FrontInv, ApartInv
<1>. QED
  BY <1>8, <1>13, <1>14, <1>15, <1>18, <1>19, Zenon DEF FrontInv
-----------------------------------------------------------------------------
\* Nothing was written, and no request is served.
LEMMA StartInv ==
    ASSUME MetaType, MetaInv,
           call = [c \in Caller |-> Idle],
           store = [s \in StorageNode |-> [f \in FileId |-> NoFile]],
           late = {}, calls = 0, faults = 0, done = {}, purged = {}, lost = {}
    PROVE  FrontInv
<1>1. StoreType
  <2>1. store \in [StorageNode -> [FileId -> File]]
    BY Zenon DEF File
  <2>. QED
    BY <2>1, Zenon DEF StoreType
<1>2. TypeOK
  BY <1>1, Zenon DEF TypeOK, CallState
<1>3. \A c \in Caller : call[c] = Idle /\ Carried(call[c]) = {}
  BY Zenon DEF Carried, Idle
<1>4. Writes = {}
  BY <1>3, Zenon DEF Writes
<1>5. CallInv
  BY <1>3, Zenon DEF CallInv, CallOK, Idle
<1>6. LateInv /\ DoneInv
  BY Zenon DEF LateInv, DoneInv
<1>7. IdInv /\ ApartInv
  BY <1>3, <1>4, Zenon DEF IdInv, ApartInv
<1>. QED
  BY <1>2, <1>5, <1>6, <1>7, Zenon DEF FrontInv

\* The empty system satisfies the invariant.
LEMMA InitInv == Init => FrontInv
<1>. SUFFICES ASSUME Init PROVE FrontInv
  BY Zenon
<1>1. \A f \in FileId : EmptyMap[f] = NULL
  BY Zenon DEF EmptyMap
<1>2. MetaType
  BY Zenon DEF Init, MetaType, EmptyMap
<1>3. MetaInv
  BY <1>1, Zenon DEF Init, MetaInv
<1>. QED
  BY <1>2, <1>3, StartInv, Zenon DEF Init

\* So does the system in which some frontends know of one file.
LEMMA InitCreatedInv == InitCreated => FrontInv
<1>. SUFFICES ASSUME InitCreated PROVE FrontInv
  BY Zenon
<1>1. PICK n \in Active, f \in FileId, p \in Path, known \in SUBSET Node :
        LET e == NewEntry(f, p, FALSE, select_nodes(n))
            apply == [m \in Node |-> m \in known \cup {n}]
        IN
        /\ next_node_idx = [m \in Node |-> 0]
        /\ entries = [m \in Node |-> IF apply[m] THEN [EmptyMap EXCEPT ![f] = e] ELSE EmptyMap]
        /\ next_seq = [m \in Node |-> IF m = n THEN 2 ELSE 1]
        /\ last_seq = [m \in Node |-> IF apply[m] THEN 1 ELSE 0]
        /\ placed = [EmptyMap EXCEPT ![f] = e.nodes]
        /\ learns = {[to |-> m, seq |-> 1, entry |-> e] : m \in {q \in Node : ~ apply[q]}}
        /\ call = [c \in Caller |-> Idle]
        /\ store = [s \in StorageNode |-> [g \in FileId |-> NoFile]]
        /\ late = {}
        /\ calls = 0 /\ faults = 0
        /\ done = {} /\ purged = {} /\ lost = {}
  BY Zenon DEF InitCreated
<1>. DEFINE e == NewEntry(f, p, FALSE, select_nodes(n))
            apply == [m \in Node |-> m \in known \cup {n}]
<1>2. n \in Node /\ next_node_idx[n] = 0
  BY <1>1, FrontendAssumption, Zenon
<1>3. select_nodes(n) \in Nodes
  BY <1>2, SelectNodes
<1>4. e \in Entry /\ e.file = f /\ e.nodes \in Nodes /\ e # NULL
  <2>. DEFINE nodes == select_nodes(n)
  <2>1. nodes \in Seq(StorageNode)
    BY <1>3, Zenon DEF Nodes
  <2>2. e = NewEntry(f, p, FALSE, nodes)
    BY Zenon
  <2>. HIDE DEF nodes, e
  <2>3. e \in Entry /\ e.file = f /\ e.nodes = nodes
    BY <2>1, <2>2, Zenon DEF NewEntry, Entry
  <2>. QED
    BY <2>1, <2>3, NullAssumption, Zenon DEF Nodes
<1>5. /\ entries = [m \in Node |-> IF apply[m] THEN [EmptyMap EXCEPT ![f] = e] ELSE EmptyMap]
      /\ placed = [EmptyMap EXCEPT ![f] = e.nodes]
      /\ learns = {[to |-> m, seq |-> 1, entry |-> e] : m \in {q \in Node : ~ apply[q]}}
  BY <1>1, Zenon
<1>6. /\ next_node_idx \in [Node -> Nat] /\ next_seq \in [Node -> Nat]
      /\ last_seq \in [Node -> Nat]
  BY <1>1, Zenon
<1>. HIDE DEF e, apply
<1>7. /\ EmptyMap = [g \in FileId |-> NULL]
      /\ [EmptyMap EXCEPT ![f] = e] = [g \in FileId |-> IF g = f THEN e ELSE NULL]
      /\ placed = [g \in FileId |-> IF g = f THEN e.nodes ELSE NULL]
  BY <1>5, Zenon DEF EmptyMap
<1>8. /\ EmptyMap \in [FileId -> Entry \cup {NULL}]
      /\ [EmptyMap EXCEPT ![f] = e] \in [FileId -> Entry \cup {NULL}]
      /\ placed \in [FileId -> Nodes \cup {NULL}]
  BY <1>4, <1>7, Zenon
<1>9. entries \in [Node -> [FileId -> Entry \cup {NULL}]]
  BY <1>5, <1>8, Zenon
<1>10. MetaType
  BY <1>4, <1>5, <1>6, <1>8, <1>9 DEF MetaType
<1>11. MetaInv
  <2>1. \A m \in Node, g \in FileId : entries[m][g] # NULL => g = f /\ entries[m][g] = e
    BY <1>5, <1>7, Zenon
  <2>2. \A m \in learns : m.entry = e
    BY <1>5
  <2>3. placed[f] = e.nodes
    BY <1>7, Zenon
  <2>. QED
    BY <1>4, <2>1, <2>2, <2>3, Zenon DEF MetaInv
<1>. QED
  BY <1>10, <1>11, StartInv, Zenon DEF InitCreated
-----------------------------------------------------------------------------
WF == INSTANCE WellFoundedInduction

\* A non-empty set of naturals has a least element.
LEMMA Minimum == LeastExists
<1>. SUFFICES ASSUME NEW T \in SUBSET Nat, T # {}
              PROVE  \E x \in T : \A y \in T : x <= y
  BY Zenon DEF LeastExists
<1>1. PICK x \in T : \A y \in T : ~ (<<y, x>> \in WF!OpToRel(<, Nat))
  BY WF!NatLessThanWellFounded, WF!WFMin, Zenon
<1>2. \A y \in T : ~ (y < x)
  BY <1>1, Zenon DEF WF!OpToRel
<1>. QED
  BY <1>2

\* Every step keeps the invariant.
LEMMA NextInv == FrontInv /\ [Next]_vars => FrontInv'
<1>. SUFFICES ASSUME FrontInv, [Next]_vars PROVE FrontInv'
  BY Zenon
<1>1. ASSUME NEW c \in Caller, ClientRequest(c) PROVE FrontInv'
  <2>1. PICK p \in Path :
          \/ \E op \in Op : Create(c, op, p)
          \/ Rmdir(c, p)
          \/ Remove(c, p)
          \/ \E offset \in Offset, data \in Payload : Write(c, p, offset, data)
          \/ \E offset, size \in Offset : Get(c, p, offset, size)
    BY <1>1, Zenon DEF ClientRequest
  <2>. QED
    BY <2>1, Minimum, CreateStep, RmdirStep, RemoveStep, WriteStep, GetStep, Zenon
<1>2. ASSUME NEW c \in Caller, Step(c) PROVE FrontInv'
  BY <1>2, Minimum, CreateExistsStep, CreateProposeStep, WriteReplicaStep, WriteDecideStep,
     DeleteReplicaStep, DeleteDecideStep, RollbackDoneStep, CommitStep, CommitFailsStep,
     ForwardStep, ReadReplicaStep, ReadFailsStep, Zenon DEF Step
<1>3. CASE UNCHANGED vars
  <2>1. /\ UNCHANGED <<metaVars, storeVars, call, calls, faults, done, purged>>
        /\ UNCHANGED placed /\ faults' \in Nat
    BY <1>3, Zenon DEF vars, metaVars, storeVars, FrontInv, TypeOK
  <2>. QED
    BY <2>1, MetaSame, StoreSame, NoThread, Zenon
<1>. QED
  BY <1>1, <1>2, <1>3, LearnStep, LateRequestStep, StorageRestartsStep, FrontendRestartsStep, Zenon
     DEF Next
-----------------------------------------------------------------------------
Finite == INSTANCE FiniteSetTheorems

\* The library's notions are those of the model.
LEMMA SameNotions ==
    ASSUME NEW S
    PROVE  /\ Finite!IsFiniteSet(S) <=> IsFiniteSet(S)
           /\ Finite!Cardinality(S) = Cardinality(S)
<1>1. Finite!IsFiniteSet(S) <=> IsFiniteSet(S)
  BY Zenon DEF Finite!IsFiniteSet, IsFiniteSet
<1>2. Finite!Cardinality(S) = Cardinality(S)
  BY Zenon DEF Finite!Cardinality, Cardinality
<1>. QED
  BY <1>1, <1>2, Zenon

\* Two quorums among the replicas of a file have a replica in common.
LEMMA Majorities ==
    ASSUME NEW nodes \in Nodes, NEW A, NEW B,
           A \subseteq NodesOf(nodes), B \subseteq NodesOf(nodes),
           Cardinality(A) >= Quorum(nodes), Cardinality(B) >= Quorum(nodes)
    PROVE  A \cap B # {}
<1>. DEFINE U == NodesOf(nodes)
<1>1. Len(nodes) \in Nat /\ DOMAIN nodes = 1 .. Len(nodes)
  BY DEF Nodes
<1>2. IsFiniteSet(1 .. Len(nodes)) /\ Cardinality(1 .. Len(nodes)) = Len(nodes)
  <2>. DEFINE m == Len(nodes)
  <2>1. 1 \in Int /\ m \in Int
    BY <1>1
  <2>. HIDE DEF m
  <2>2. IsFiniteSet(1 .. m) /\ Cardinality(1 .. m) = IF 1 > m THEN 0 ELSE m - 1 + 1
    BY <2>1, SameNotions, Finite!FS_Interval, Zenon
  <2>. QED
    BY <1>1, <2>2 DEF m
<1>3. nodes \in Finite!Surjection(1 .. Len(nodes), U)
  BY <1>1 DEF Nodes, NodesOf, Finite!Surjection
<1>4. IsFiniteSet(U) /\ Cardinality(U) <= Len(nodes)
  BY <1>2, <1>3, SameNotions, Finite!FS_Surjection
<1>5. Cardinality(A) \in Nat /\ Cardinality(B) \in Nat /\ Cardinality(U) \in Nat
  BY <1>4, SameNotions, Finite!FS_Subset, Finite!FS_CardinalityType
<1>6. Quorum(nodes) \in Nat /\ Quorum(nodes) + Quorum(nodes) > Len(nodes)
  BY <1>1 DEF Quorum
<1>7. Cardinality(A) + Cardinality(B) > Cardinality(U)
  BY <1>1, <1>4, <1>5, <1>6
<1>. QED
  BY <1>4, <1>7, SameNotions, Finite!FS_MajoritiesIntersect, Zenon

\* A quorum stays one if nodes of the file are added to it.
LEMMA MoreReplicas ==
    ASSUME NEW nodes \in Nodes, NEW A, NEW B,
           A \subseteq B, B \subseteq NodesOf(nodes), Cardinality(A) >= Quorum(nodes)
    PROVE  Cardinality(B) >= Quorum(nodes)
<1>. DEFINE U == NodesOf(nodes)
<1>1. Len(nodes) \in Nat /\ DOMAIN nodes = 1 .. Len(nodes)
  BY DEF Nodes
<1>2. IsFiniteSet(1 .. Len(nodes))
  BY <1>1, SameNotions, Finite!FS_Interval
<1>3. nodes \in Finite!Surjection(1 .. Len(nodes), U)
  BY <1>1 DEF Nodes, NodesOf, Finite!Surjection
<1>4. IsFiniteSet(U)
  BY <1>2, <1>3, SameNotions, Finite!FS_Surjection, Zenon
<1>5. IsFiniteSet(B)
  BY <1>4, SameNotions, Finite!FS_Subset, Zenon
<1>6. Cardinality(A) \in Nat /\ Cardinality(B) \in Nat /\ Cardinality(A) <= Cardinality(B)
  BY <1>5, SameNotions, Finite!FS_Subset, Finite!FS_CardinalityType
<1>7. Quorum(nodes) \in Nat
  BY <1>1 DEF Quorum
<1>. QED
  BY <1>6, <1>7
-----------------------------------------------------------------------------
\* The inductive invariant holds in all that frontends, storage nodes, clients
\* and failures do, from an empty system and from one with a file that only
\* some of the frontends know.
THEOREM FrontInvariance == (Spec => []FrontInv) /\ (CreatedSpec => []FrontInv)
BY InitInv, InitCreatedInv, NextInv, PTL DEF Spec, CreatedSpec

\* What the invariant says of a write that was acknowledged.
LEMMA DoneWrite ==
    ASSUME FrontInv, NEW w \in done
    PROVE  /\ w.file \in FileId /\ w.nodes \in Nodes /\ w.nodes = placed[w.file]
           /\ w.offset \in Nat /\ w.data \in Content /\ w.ok \subseteq StorageNode
           /\ w.ok \subseteq NodesOf(w.nodes)
           /\ Cardinality(w.ok) >= Quorum(w.nodes)
           /\ \A s \in w.ok : Intact(w.file, s) => Holds(s, w)
BY Zenon DEF FrontInv, TypeOK, WriteRecord, DoneInv, WriteOK, Accepted

\* The invariant implies that acknowledged writes are on a majority of replicas.
LEMMA QuorumHolds == FrontInv => AckedOnQuorum
<1>. SUFFICES ASSUME FrontInv, NEW w \in done, w.file \notin purged
              PROVE  Cardinality({s \in NodesOf(w.nodes) : s \in lost \/ Holds(s, w)})
                        >= Quorum(w.nodes)
  BY Zenon DEF AckedOnQuorum, NodesOf
<1>. DEFINE B == {s \in NodesOf(w.nodes) : s \in lost \/ Holds(s, w)}
<1>1. w.ok \subseteq B /\ B \subseteq NodesOf(w.nodes)
  BY DoneWrite, Zenon DEF Intact
<1>. HIDE DEF B
<1>2. Cardinality(B) >= Quorum(w.nodes)
  BY <1>1, DoneWrite, MoreReplicas, Zenon
<1>. QED
  BY <1>2, Zenon DEF B

\* The invariant implies that acknowledged writes are disjoint.
LEMMA DisjointHolds == FrontInv => AckedDisjoint
<1>. SUFFICES ASSUME FrontInv, NEW v \in done, NEW w \in done,
                     v.file = w.file, v.file \notin purged, v # w, lost = {}
              PROVE  Bytes(v) \cap Bytes(w) = {}
  BY Zenon DEF AckedDisjoint
<1>1. v.nodes = w.nodes
  BY DoneWrite, Zenon
<1>2. v.ok \cap w.ok # {}
  BY <1>1, DoneWrite, Majorities, Zenon
<1>3. PICK s \in v.ok \cap w.ok : TRUE
  BY <1>2, Zenon
<1>4. v.id # w.id /\ v \in Writes /\ w \in Writes
  BY Zenon DEF FrontInv, IdInv, Writes
<1>5. Apart(v, w)
  BY <1>3, <1>4, Zenon DEF FrontInv, ApartInv, Intact
<1>6. /\ v.offset \in Nat /\ w.offset \in Nat /\ Len(v.data) \in Nat /\ Len(w.data) \in Nat
  BY DoneWrite DEF Content
<1>. QED
  BY <1>5, <1>6 DEF Apart, Bytes

\* A position of a file that a write covers, counted from the write's offset.
LEMMA Covered ==
    ASSUME NEW w, NEW p \in Nat, w.offset \in Nat, Len(w.data) \in Nat, p \in Bytes(w)
    PROVE  p - w.offset \in 1 .. Len(w.data) /\ w.offset + (p - w.offset) = p
BY DEF Bytes

\* The positions of a piece of a file are numbers.
LEMMA Position ==
    ASSUME NEW o \in Nat, NEW d \in Content, NEW k \in 1 .. Len(d)
    PROVE  o + k \in Nat /\ Len(d) \in Nat /\ k \in Nat
BY DEF Content

\* A sum less a number.
LEMMA Regrouped ==
    ASSUME NEW a \in Nat, NEW b \in Nat, NEW x \in Nat
    PROVE  a + b - x = (a + b) - x
OBVIOUS

\* The invariant implies that an answer to Get contradicts no acknowledged write.
LEMMA GetHolds == FrontInv => GetSound
<1>. SUFFICES ASSUME FrontInv, NEW c \in Caller, call[c].pc = "answer", NEW w \in done,
                     w.file = call[c].file, w.file \notin purged, lost = {},
                     NEW k \in 1 .. Len(call[c].data), call[c].offset + k \in Bytes(w)
              PROVE  call[c].data[k] = w.data[call[c].offset + k - w.offset]
  BY Zenon DEF GetSound
<1>. DEFINE r == call[c]
<1>1. r \in AnswerCall /\ CallOK(c, r)
  <2>1. r \in CallState /\ r.pc = "answer" /\ CallOK(c, r)
    BY Zenon DEF FrontInv, TypeOK, CallInv
  <2>. HIDE DEF r
  <2>. QED
    BY <2>1, CallKinds, Zenon
<1>2. r.pc = "answer" /\ r.file = w.file /\ k \in 1 .. Len(r.data) /\ r.offset + k \in Bytes(w)
  BY Zenon
<1>3. SUFFICES r.data[k] = w.data[r.offset + k - w.offset]
  BY Zenon
<1>. HIDE DEF r
<1>4. /\ r.offset \in Nat /\ r.data \in Content /\ r.nodes \in Nodes
      /\ r.nodes = placed[w.file] /\ r.from \subseteq NodesOf(w.nodes)
      /\ Cardinality(r.from) >= Quorum(w.nodes)
      /\ \A s \in r.from : Shows(s, w.file, r.offset, r.data)
  <2>1. r.offset \in Nat /\ r.data \in Content /\ r.nodes \in Nodes
    BY <1>1, Zenon DEF AnswerCall
  <2>2. /\ r.nodes = placed[r.file] /\ Cardinality(r.from) >= Quorum(r.nodes)
        /\ \A s \in r.from : /\ s \in NodesOf(r.nodes)
                             /\ Intact(r.file, s) => Shows(s, r.file, r.offset, r.data)
    BY <1>1, <1>2, Zenon DEF CallOK
  <2>3. w.nodes = r.nodes
    BY <1>2, <2>2, DoneWrite, Zenon
  <2>4. \A s : Intact(w.file, s)
    BY Zenon DEF Intact
  <2>. QED
    BY <1>2, <2>1, <2>2, <2>3, <2>4, Zenon
<1>5. r.from \cap w.ok # {}
  <2>1. w.nodes \in Nodes /\ w.ok \subseteq NodesOf(w.nodes)
        /\ Cardinality(w.ok) >= Quorum(w.nodes)
    BY DoneWrite, Zenon
  <2>. QED
    BY <1>4, <2>1, Majorities, Zenon
<1>6. PICK s \in w.ok : s \in r.from
  BY <1>5, Zenon
<1>7. store[s][w.file] \in File
  BY <1>6, DoneWrite, Zenon DEF FrontInv, TypeOK, StoreType
<1>8. Has(store[s][w.file], r.offset, r.data) /\ Has(store[s][w.file], w.offset, w.data)
  BY <1>4, <1>6, DoneWrite, Zenon DEF Intact, Holds, Shows
<1>9. w.offset \in Nat /\ Len(w.data) \in Nat
  <2>1. w \in WriteRecord
    BY Zenon DEF FrontInv, TypeOK
  <2>. QED
    BY <2>1, RecordFields, Zenon
<1>10. r.offset + k \in Nat /\ r.offset \in Nat /\ k \in Nat
  <2>1. r.offset \in Nat /\ r.data \in Content /\ k \in 1 .. Len(r.data)
    BY <1>2, <1>4, Zenon
  <2>. QED
    BY <2>1, Position, Zenon
<1>11. PICK p \in Nat : p = r.offset + k /\ p \in Bytes(w)
  BY <1>2, <1>10, Zenon
<1>12. p - w.offset \in 1 .. Len(w.data) /\ w.offset + (p - w.offset) = p
  BY <1>9, <1>11, Covered, Zenon
<1>13. store[s][w.file][p] = r.data[k]
  BY <1>2, <1>8, <1>11, Zenon DEF Has
<1>14. store[s][w.file][w.offset + (p - w.offset)] = w.data[p - w.offset]
  BY <1>8, <1>12, Zenon DEF Has
<1>15. r.data[k] = w.data[p - w.offset]
  BY <1>12, <1>13, <1>14, Zenon
<1>16. r.offset + k - w.offset = p - w.offset
  <2>1. PICK a \in Nat, b \in Nat, x \in Nat : a = r.offset /\ b = k /\ x = w.offset
    BY <1>9, <1>10, Zenon
  <2>2. a + b - x = (a + b) - x
    BY Regrouped
  <2>. QED
    BY <1>11, <2>1, <2>2, Zenon
<1>. QED
  BY <1>15, <1>16, Zenon

\* handle_write of a storage node takes no write below the end of the file, so
\* that what a majority of replicas has accepted in Write's first phase stays
\* there, whatever other frontends, late requests and failures do.
THEOREM WritesStay == (Spec => []AckedOnQuorum) /\ (CreatedSpec => []AckedOnQuorum)
BY FrontInvariance, QuorumHolds, PTL

\* Two acknowledged writes have a replica in common, which took one of them
\* behind the other.
THEOREM WritesDisjoint == (Spec => []AckedDisjoint) /\ (CreatedSpec => []AckedDisjoint)
BY FrontInvariance, DisjointHolds, PTL

\* The replicas whose answers Get agrees with have one in common with every
\* acknowledged write.
THEOREM GetsSound == (Spec => []GetSound) /\ (CreatedSpec => []GetSound)
BY FrontInvariance, GetHolds, PTL
-----------------------------------------------------------------------------
\* No replica has accepted a write that is about to start.
LEMMA NoneAccepted == Cardinality({}) = 0
BY Finite!FS_EmptySet, SameNotions, Zenon

\* Every step keeps NameInv while clients use one frontend.
LEMMA NextNames ==
    ASSUME OneFrontend
    PROVE  FrontInv /\ NameInv /\ [Next]_vars => NameInv'
<1>. SUFFICES ASSUME FrontInv, NameInv, [Next]_vars PROVE NameInv'
  BY Zenon
<1>1. ASSUME NEW c \in Caller, ClientRequest(c) PROVE NameInv'
  <2>1. PICK p \in Path :
          \/ \E op \in Op : Create(c, op, p)
          \/ Rmdir(c, p)
          \/ Remove(c, p)
          \/ \E offset \in Offset, data \in Payload : Write(c, p, offset, data)
          \/ \E offset, size \in Offset : Get(c, p, offset, size)
    BY <1>1, Zenon DEF ClientRequest
  <2>. QED
    BY <2>1, Minimum, CreateNames, RmdirNames, RemoveNames, WriteNames, GetNames, Zenon
<1>2. ASSUME NEW c \in Caller, Step(c) PROVE NameInv'
  BY <1>2, NoneAccepted, ReadNames, CreateProposeNames, ReplicaNames, WriteDecideNames, DeleteDecideNames,
     CommitNames, CommitFailsNames, Zenon DEF Step
<1>3. ASSUME NEW r \in late, LateRequest(r) PROVE NameInv'
  BY <1>3, SameNames, Zenon DEF LateRequest, metaVars
<1>4. ASSUME NEW s \in StorageNode, StorageRestarts(s) PROVE NameInv'
  BY <1>4, SameNames, Zenon DEF StorageRestarts, metaVars
<1>5. CASE UNCHANGED vars
  BY <1>5, SameNames, Zenon DEF vars, metaVars
<1>. QED
  BY <1>1, <1>2, <1>3, <1>4, <1>5, LearnNames, RestartNames, Zenon DEF Next

\* With one frontend in use: requests that change something have the lock one at a
\* time, and what the frontend knows of the files it knows is the latest, whatever the
\* others have learned or missed and whoever was restarted.
THEOREM NameInvariance ==
    ASSUME OneFrontend
    PROVE  Spec => []NameInv
BY FrontInvariance, InitNames, NextNames, PTL DEF Spec

\* The rollback of a write after a failed proposal deletes no file with acknowledged
\* data: the size that the frontend has seen is 0, and it would know better.
THEOREM RollbacksSafe ==
    ASSUME OneFrontend
    PROVE  Spec => []RollbackSafe
<1>1. NameInv => RollbackSafe
  BY Zenon DEF NameInv, HeldInv, HeldOK, RollbackSafe
<1>. QED
  BY <1>1, NameInvariance, PTL

\* A directory that Rmdir found empty is still empty when its deletion is committed:
\* the lock is held over the proposal, and nobody else adds a child.
THEOREM RmdirsSafe ==
    ASSUME OneFrontend
    PROVE  Spec => RmdirStrandsNothing
<1>1. FrontInv /\ NameInv /\ [Next]_vars =>
        [\A c \in Caller :
            Commit(c) /\ call[c].entry.dir /\ call[c].entry.deleted =>
                ~ directory_has_children(call[c].at, call[c].entry.path)]_vars
  <2>. SUFFICES ASSUME FrontInv, NameInv, NEW c \in Caller, Commit(c),
                       call[c].entry.dir, call[c].entry.deleted
                PROVE  ~ directory_has_children(call[c].at, call[c].entry.path)
    BY Zenon
  <2>1. call[c].pc = "commit" /\ Holding(c)
    BY Zenon DEF Commit, Holding
  <2>2. call[c].at = c[1] /\ HeldOK(c, call[c])
    BY <2>1, AtWork, Zenon
  <2>. QED
    BY <2>1, <2>2, Zenon DEF HeldOK
<1>. QED
  BY <1>1, FrontInvariance, NameInvariance, PTL DEF Spec, RmdirStrandsNothing

\* What a frontend knows of a file never goes back: it applies entries without a look at
\* their version, but proposals and announcements reach it in the order of the numbers.
THEOREM VersionsHold ==
    ASSUME OneFrontend
    PROVE  Spec => VersionsGrow
<1>1. FrontInv /\ NameInv /\ [Next]_vars =>
        [\A n \in Node, f \in FileId :
            entries[n][f] # NULL /\ entries'[n][f] # NULL =>
                /\ entries'[n][f].version >= entries[n][f].version
                /\ entries[n][f].deleted => entries'[n][f].deleted]_vars
  BY VersionStep, Zenon DEF Before
<1>. QED
  BY <1>1, FrontInvariance, NameInvariance, PTL DEF Spec, VersionsGrow
=============================================================================
