--------------------------- MODULE FrontendSteps ----------------------------
(***************************************************************************)
(* The steps of a request at the storage nodes and in the replication of   *)
(* metadata keep the invariant.                                            *)
(***************************************************************************)
EXTENDS FrontendLemmas

\* The end of the replica loop of Remove keeps the invariant.
LEMMA DeleteDecideStep ==
    ASSUME FrontInv, NEW c \in Caller, DeleteDecide(c)
    PROVE  FrontInv'
<1>1. CASE Return(c)
  BY <1>1, ReturnStep, Zenon DEF DeleteDecide
<1>2. CASE Serve(c, [pc |-> "commit", at |-> call[c].at, write |-> NULL,
                     entry |-> Deletion(entries[call[c].at][call[c].file])])
  <2>. DEFINE d == call[c]
              e == Deletion(entries[d.at][d.file])
  <2>1. d \in CallState /\ d.pc = "delete" /\ CallOK(c, d)
    BY Zenon DEF FrontInv, TypeOK, CallInv, DeleteDecide
  <2>2. d.at \in Node /\ d.file \in FileId /\ entries[d.at][d.file] # NULL
    BY <2>1, CallKinds, Zenon DEF CallOK, DeleteCall
  <2>3. e \in Entry /\ e.nodes = placed[e.file]
    <3>1. PICK old \in Entry : old = entries[d.at][d.file] /\ old.nodes = placed[old.file]
      BY <2>2, EntryPlaced, Zenon
    <3>2. e = Deletion(old)
      BY <3>1, Zenon
    <3>. HIDE DEF e
    <3>3. e \in Entry /\ e.file = old.file /\ e.nodes = old.nodes
      BY <3>2, Changed, Zenon
    <3>. QED
      BY <3>1, <3>3, Zenon
  <2>4. /\ UNCHANGED <<metaVars, storeVars, done>>
        /\ purged' = purged /\ placed' = placed /\ faults' = faults /\ calls' = calls
        /\ faults \in Nat /\ purged \subseteq FileId /\ calls \in Nat
    BY Zenon DEF DeleteDecide, metaVars, FrontInv, TypeOK
  <2>. HIDE DEF e
  <2>5. /\ Moves(c) /\ call'[c] \in CallState /\ CallOK(c, call[c])'
        /\ Carried(call'[c]) = {}
    BY <1>2, <2>2, <2>3, <2>4, Proposed, Zenon DEF e
  <2>. QED
    BY <2>4, <2>5, Quiet
<1>. QED
  BY <1>1, <1>2, Zenon DEF DeleteDecide

\* The end of the replica loop of Write, where the answers are counted, keeps the
\* invariant.
LEMMA WriteDecideStep ==
    ASSUME FrontInv, NEW c \in Caller, WriteDecide(c)
    PROVE  FrontInv'
<1>1. CASE Return(c)
  BY <1>1, ReturnStep, Zenon DEF WriteDecide
<1>2. CASE /\ Cardinality(call[c].ok) >= Quorum(call[c].nodes)
           /\ Serve(c, [pc |-> "commit", at |-> call[c].at, write |-> AsWrite(call[c]),
                        entry |-> Grown(entries[call[c].at][call[c].file],
                                        call[c].offset + Len(call[c].data))])
  <2>. DEFINE w == call[c]
              x == AsWrite(w)
              e == Grown(entries[w.at][w.file], w.offset + Len(w.data))
  <2>1. w \in CallState /\ w.pc = "write" /\ CallOK(c, w)
    BY Zenon DEF FrontInv, TypeOK, CallInv, WriteDecide
  <2>2. w \in WriteCall
    BY <2>1, CallKinds, Zenon
  <2>3. /\ w.at \in Node /\ w.file \in FileId /\ entries[w.at][w.file] # NULL
        /\ w.offset + Len(w.data) \in Nat
    BY <2>1, <2>2 DEF CallOK, WriteCall, Content
  <2>4. e \in Entry /\ e.nodes = placed[e.file]
    <3>. DEFINE old == entries[w.at][w.file]
                end == w.offset + Len(w.data)
    <3>1. old \in Entry /\ old.nodes = placed[old.file]
      BY <2>3, EntryPlaced, Zenon
    <3>2. e = Grown(old, end) /\ end \in Nat
      BY <2>3, Zenon
    <3>. HIDE DEF old, end, e
    <3>. QED
      BY <3>1, <3>2, Changed, Zenon
  <2>5. x \in WriteRecord /\ WriteOK(x) /\ Accepted(x)
    BY <1>2, <2>1, <2>2, Zenon DEF CallOK, Accepted, AsWrite, WriteCall, WriteRecord
  <2>6. /\ UNCHANGED <<metaVars, storeVars, done>>
        /\ purged' = purged /\ placed' = placed /\ faults' = faults /\ calls' = calls
        /\ store' = store /\ lost' = lost
        /\ faults \in Nat /\ purged \subseteq FileId /\ calls \in Nat
    BY Zenon DEF WriteDecide, metaVars, storeVars, FrontInv, TypeOK
  <2>. HIDE DEF e, x
  <2>7. Moves(c) /\ call'[c] = [pc |-> "commit", at |-> w.at, write |-> x, entry |-> e]
    BY <1>2, Served, Zenon DEF e, x
  <2>8. call'[c] \in CallState
    BY <2>3, <2>4, <2>5, <2>7 DEF CallState, CommitCall
  <2>9. call'[c].write = x /\ WriteOK(call[c].write)'
    <3>1. StoreType /\ StoreType' /\ Kept
      BY <2>6, StoreSame, Zenon DEF FrontInv, TypeOK
    <3>2. call'[c].write = x
      BY <2>7
    <3>. QED
      BY <2>5, <3>1, <3>2, WriteKept, Zenon
  <2>10. CallOK(c, call[c])'
    BY <2>4, <2>5, <2>6, <2>7, <2>9 DEF CallOK
  <2>11. Carried(call'[c]) \subseteq Carried(call[c])
    BY <2>1, <2>7 DEF Carried, x
  <2>. QED
    BY <2>6, <2>7, <2>8, <2>10, <2>11, Quiet
<1>. QED
  BY <1>1, <1>2, Zenon DEF WriteDecide

\* The end of a rollback keeps the invariant.
LEMMA RollbackDoneStep ==
    ASSUME FrontInv, NEW c \in Caller, RollbackDone(c) \/ NotForwarded(c) \/ Answer(c)
    PROVE  FrontInv'
BY ReturnStep, Zenon DEF RollbackDone, NotForwarded, Answer

\* The node of the next call is one of the file's.
LEMMA NextReplica ==
    ASSUME NEW nodes \in Nodes, NEW i \in Nat \ {0}, i <= Len(nodes)
    PROVE  nodes[i] \in StorageNode /\ nodes[i] \in NodesOf(nodes)
BY DEF Nodes, NodesOf

\* A read starts: nothing is known yet.
LEMMA ReadStarts ==
    ASSUME FrontInv, NEW c \in Caller, NEW n \in Node, NEW f \in FileId,
           entries[n][f] # NULL, NEW g \in GetRequest, StartRead(c, n, f, g),
           UNCHANGED placed
    PROVE  /\ Moves(c) /\ call'[c] \in CallState /\ CallOK(c, call[c])'
           /\ Carried(call'[c]) = {}
<1>. DEFINE e == entries[n][f]
            rest == IF g.offset < e.size THEN e.size - g.offset ELSE 0
            length == IF g.size = 0 THEN rest ELSE g.size
            nodes == e.nodes
<1>1. nodes \in Nodes /\ nodes = placed[f] /\ e.size \in Nat
  BY EntryType, Zenon
<1>2. length \in Nat
  BY <1>1 DEF GetRequest
<1>. HIDE DEF nodes, length
<1>3. Moves(c) /\ call'[c] = [pc |-> "read", at |-> n, file |-> f, nodes |-> nodes, get |-> g,
                              length |-> length, i |-> 1, got |-> {}]
  BY Served, Zenon DEF StartRead, nodes, length
<1>4. /\ call'[c] \in CallState
      /\ call'[c].pc = "read" /\ call'[c].nodes = nodes /\ call'[c].file = f
      /\ call'[c].got = {}
  BY <1>1, <1>2, <1>3, ReadState
<1>5. CallOK(c, call[c])'
  BY <1>1, <1>4, Zenon DEF CallOK
<1>6. Carried(call'[c]) = {}
  BY <1>3 DEF Carried
<1>. QED
  BY <1>3, <1>4, <1>5, <1>6, Zenon

\* A Get that is given up keeps the invariant.
LEMMA ReadFailsStep ==
    ASSUME FrontInv, NEW c \in Caller, ReadFails(c)
    PROVE  FrontInv'
<1>. DEFINE r == call[c]
            left == {p \in Node \ {c[1]} : p > r.at}
<1>1. CASE Return(c)
  BY <1>1, ReturnStep, Zenon DEF ReadFails
<1>2. CASE Serve(c, [pc |-> "forward", get |-> r.get, left |-> left])
  <2>1. r \in ReadCall
    BY CallKinds, Zenon DEF FrontInv, TypeOK, ReadFails
  <2>2. r.get \in GetRequest /\ left \subseteq Node
    BY <2>1, Zenon DEF ReadCall
  <2>. HIDE DEF left
  <2>3. Moves(c) /\ call'[c] = [pc |-> "forward", get |-> r.get, left |-> left]
    BY <1>2, Served, Zenon
  <2>4. call'[c] \in CallState /\ call'[c].pc \in Plain
    BY <2>2, <2>3 DEF CallState, ForwardCall, Plain
  <2>. QED
    BY <2>3, <2>4, PlainStep, Zenon DEF ReadFails
<1>. QED
  BY <1>1, <1>2, Zenon DEF ReadFails, GiveUp

\* A replica's answer is what the replica has; equal answers of a quorum become
\* the answer to the client.
LEMMA ReadReplicaStep ==
    ASSUME FrontInv, NEW c \in Caller, ReadReplica(c)
    PROVE  FrontInv'
<1>. DEFINE r == call[c]
            s == r.nodes[r.i]
            file == store[s][r.file]
<1>1. r \in ReadCall /\ call \in [Caller -> CallState] /\ StoreType /\ CallOK(c, r) /\ r.pc = "read"
  BY CallKinds, Zenon DEF FrontInv, TypeOK, CallInv, ReadReplica
<1>2. /\ r.file \in FileId /\ r.nodes \in Nodes /\ r.get.offset \in Nat /\ r.length \in Nat
      /\ r.i \in Nat \ {0} /\ r.i <= Len(r.nodes) /\ r.got \in Answers
  BY <1>1, Zenon DEF ReadCall, GetRequest, ReadReplica
<1>3. s \in StorageNode /\ s \in NodesOf(r.nodes)
  BY <1>2, NextReplica, Zenon
<1>4. file \in File
  BY <1>1, <1>2, <1>3, Zenon DEF StoreType
<1>5. /\ UNCHANGED <<metaVars, storeVars, done>>
      /\ UNCHANGED <<placed, purged, calls, store, lost>>
      /\ purged \subseteq FileId /\ calls \in Nat /\ faults \in Nat
  BY Zenon DEF ReadReplica, metaVars, storeVars, FrontInv, TypeOK
<1>6. r.nodes = placed[r.file] /\ \A x \in r.got :
          /\ x[1] \in NodesOf(r.nodes)
          /\ Intact(r.file, x[1]) => Shows(x[1], r.file, r.get.offset, x[2])
  BY <1>1, Zenon DEF CallOK
<1>7. ASSUME NEW got \in Answers, faults' \in Nat,
             \A x \in got :
                /\ x[1] \in NodesOf(r.nodes)
                /\ Intact(r.file, x[1]) => Shows(x[1], r.file, r.get.offset, x[2]),
             call' = [call EXCEPT ![c].i = @ + 1, ![c].got = got]
      PROVE  FrontInv'
  <2>. DEFINE y == [r EXCEPT !.i = r.i + 1]
  <2>1. Moves(c) /\ call'[c] = [y EXCEPT !.got = got]
    BY <1>1, <1>7, Zenon DEF Moves
  <2>2. y \in ReadCall /\ y.pc = "read" /\ y.file = r.file /\ y.nodes = r.nodes /\ y.get = r.get
    BY <1>1, <1>2 DEF ReadCall
  <2>. HIDE DEF y
  <2>3. call'[c] \in ReadCall
    BY <2>1, <2>2, Zenon DEF ReadCall
  <2>4. /\ call'[c].pc = "read" /\ call'[c].file = r.file /\ call'[c].nodes = r.nodes
        /\ call'[c].get = r.get /\ call'[c].got = got
    BY <2>1, <2>2, Zenon DEF ReadCall
  <2>5. \A x \in got :
           /\ x[1] \in NodesOf(r.nodes)
           /\ r.file \notin purged' /\ x[1] \notin lost' =>
                 Has(store'[x[1]][r.file], r.get.offset, x[2])
    BY <1>5, <1>7, Zenon DEF Intact, Shows
  <2>6. CallOK(c, call[c])'
    BY <1>5, <1>6, <2>4, <2>5, Zenon DEF CallOK, Intact, Shows, NodesOf
  <2>7. Carried(call'[c]) = {} /\ call'[c] \in CallState
    BY <2>3, <2>4, Zenon DEF Carried, CallState
  <2>8. faults' \in Nat
    BY <1>7, Zenon
  <2>. QED
    BY <1>5, <2>1, <2>6, <2>7, <2>8, QuietRead, Zenon
<1>8. CASE call' = [call EXCEPT ![c].i = @ + 1] /\ Fault
  <2>1. Moves(c) /\ call'[c] = [r EXCEPT !.i = r.i + 1]
    BY <1>1, <1>8, Zenon DEF Moves
  <2>2. call'[c] \in ReadCall
    BY <1>1, <1>2, <2>1 DEF ReadCall
  <2>3. /\ call'[c].pc = "read" /\ call'[c].file = r.file /\ call'[c].nodes = r.nodes
        /\ call'[c].get = r.get /\ call'[c].got = r.got
    BY <1>1, <1>2, <2>1, Zenon DEF ReadCall
  <2>4. CallOK(c, call[c])'
    BY <1>5, <1>6, <2>3, Zenon DEF CallOK, Intact, Shows, NodesOf
  <2>5. Carried(call'[c]) = {} /\ faults' \in Nat
    BY <1>5, <1>8, <2>3, FaultCount, Zenon DEF Carried
  <2>. QED
    BY <1>5, <2>1, <2>2, <2>4, <2>5, QuietRead, Zenon DEF CallState
<1>9. ASSUME NEW data \in ShortReads(file, r.get.offset, r.length),
             NEW got, got = r.got \cup {<<s, data>>}, NoFault \/ Fault,
             IF Cardinality(Gave(got, data)) >= Quorum(r.nodes)
             THEN Serve(c, [pc |-> "answer", file |-> r.file, nodes |-> r.nodes,
                            offset |-> r.get.offset, data |-> data,
                            from |-> Gave(got, data)])
             ELSE call' = [call EXCEPT ![c].i = @ + 1, ![c].got = got]
      PROVE  FrontInv'
  <2>. DEFINE from == Gave(got, data)
  <2>1. data \in Content /\ Has(file, r.get.offset, data)
    BY <1>2, <1>4, ReadOutcome, Zenon
  <2>2. /\ got \in Answers
        /\ \A x \in got :
              /\ x[1] \in NodesOf(r.nodes)
              /\ Intact(r.file, x[1]) => Shows(x[1], r.file, r.get.offset, x[2])
    <3>1. /\ <<s, data>> \in StorageNode \X Content /\ <<s, data>>[1] \in NodesOf(r.nodes)
          /\ Shows(<<s, data>>[1], r.file, r.get.offset, <<s, data>>[2])
      BY <1>3, <2>1, Zenon DEF Shows
    <3>. HIDE DEF s
    <3>. QED
      BY <1>2, <1>6, <1>9, <3>1, Zenon DEF Answers
  <2>3. faults' \in Nat
    <3>1. NoFault \/ Fault
      BY <1>9, Zenon
    <3>. QED
      BY <1>5, <3>1, FaultCount, Zenon
  <2>. HIDE DEF s
  <2>4. CASE call' = [call EXCEPT ![c].i = @ + 1, ![c].got = got]
    BY <1>7, <2>2, <2>3, <2>4, Zenon
  <2>5. CASE /\ Cardinality(from) >= Quorum(r.nodes)
             /\ Serve(c, [pc |-> "answer", file |-> r.file, nodes |-> r.nodes,
                          offset |-> r.get.offset, data |-> data, from |-> from])
    <3>1. from \subseteq StorageNode
      BY Zenon DEF Gave
    <3>2. \A t \in from : /\ t \in NodesOf(r.nodes)
                          /\ Intact(r.file, t) => Shows(t, r.file, r.get.offset, data)
      <4>. SUFFICES ASSUME NEW t \in from
                    PROVE  /\ t \in NodesOf(r.nodes)
                           /\ Intact(r.file, t) => Shows(t, r.file, r.get.offset, data)
        BY Zenon
      <4>1. <<t, data>> \in got /\ <<t, data>>[1] = t /\ <<t, data>>[2] = data
        BY Zenon DEF Gave
      <4>. QED
        BY <2>2, <4>1, Zenon
    <3>. HIDE DEF from
    <3>3. Moves(c) /\ call'[c] = [pc |-> "answer", file |-> r.file, nodes |-> r.nodes,
                                  offset |-> r.get.offset, data |-> data, from |-> from]
      BY <2>5, Served, Zenon
    <3>4. /\ r.file \in FileId /\ r.nodes \in Nodes /\ r.get.offset \in Nat
          /\ data \in Content /\ from \in SUBSET StorageNode
      BY <1>2, <2>1, <3>1, Zenon
    <3>5. /\ call'[c] \in CallState
          /\ call'[c].pc = "answer" /\ call'[c].file = r.file /\ call'[c].nodes = r.nodes
          /\ call'[c].offset = r.get.offset /\ call'[c].data = data /\ call'[c].from = from
      <4>. DEFINE y == [pc |-> "answer", file |-> r.file, nodes |-> r.nodes,
                        offset |-> r.get.offset, data |-> data, from |-> from]
      <4>1. /\ y \in CallState
            /\ y.pc = "answer" /\ y.file = r.file /\ y.nodes = r.nodes
            /\ y.offset = r.get.offset /\ y.data = data /\ y.from = from
        BY <3>4, AnswerState, Zenon
      <4>2. call'[c] = y
        BY <3>3, Zenon
      <4>. HIDE DEF y
      <4>. QED
        BY <4>1, <4>2, Zenon
    <3>6. CallOK(c, call[c])'
      BY <1>5, <1>6, <2>5, <3>2, <3>5, Zenon DEF CallOK, Intact, Shows, NodesOf, Quorum
    <3>7. Carried(call'[c]) = {}
      BY <3>5, Zenon DEF Carried
    <3>. QED
      BY <1>5, <2>3, <3>3, <3>5, <3>6, <3>7, QuietRead, Zenon
  <2>. QED
    BY <1>9, <2>4, <2>5, Zenon
<1>. QED
  BY <1>8, <1>9, Zenon DEF ReadReplica

\* A storage call on one replica: its file is extended, or was purged.
LEMMA StoreStep ==
    ASSUME FrontInv, NEW s \in StorageNode, NEW f \in FileId, NEW new \in File,
           store' = [store EXCEPT ![s][f] = new],
           f \in purged \/ Extends(store[s][f], new),
           UNCHANGED <<placed, purged, lost>>,
           late' \subseteq LateState,
           \A r \in late' : r.op = "DELETE" => r.file \in purged
    PROVE  /\ StoreType' /\ LateInv' /\ Kept
           /\ store'[s][f] = new
<1>1. StoreType
  BY Zenon DEF FrontInv, TypeOK
<1>2. /\ store'[s][f] = new
      /\ \A t \in StorageNode, g \in FileId : t # s \/ g # f => store'[t][g] = store[t][g]
  BY <1>1, Zenon DEF StoreType
<1>3. StoreType' /\ LateInv'
  BY <1>1, Zenon DEF StoreType, LateInv
<1>4. \A t \in StorageNode, g \in FileId : store[t][g] \in File
  BY <1>1, Zenon DEF StoreType
<1>5. \A t \in StorageNode, g \in FileId : g \notin purged => Extends(store[t][g], store'[t][g])
  BY <1>2, <1>4, SizeType, Zenon
<1>. QED
  BY <1>2, <1>3, <1>5, Zenon DEF Kept, Intact

\* What a write's outcome o may be: the file is extended, and has the data behind
\* all that it had if the node said "OK".
Sound(file, offset, data, o) ==
    /\ o.ok \in BOOLEAN /\ o.file \in File /\ Extends(file, o.file)
    /\ o.ok => data # <<>> /\ offset >= Size(file) /\ Has(o.file, offset, data)

\* The write of c was answered by its next replica, which has it if it said "OK":
\* then what it had accepted before ends where this write begins, or earlier.
LEMMA Acceptance ==
    ASSUME FrontInv, NEW c \in Caller, call[c].pc = "write", call[c].i <= Len(call[c].nodes),
           NEW o, Answered(c, o),
           Sound(store[call[c].nodes[call[c].i]][call[c].file], call[c].offset,
                 call[c].data, o),
           late' \subseteq LateState,
           \A r \in late' : r.op = "DELETE" => r.file \in purged,
           UNCHANGED <<metaVars, calls, done, purged, lost>>, faults' \in Nat
    PROVE  FrontInv'
<1>. DEFINE r == call[c]
            s == r.nodes[r.i]
            old == store[s][r.file]
<1>1. r \in WriteCall /\ call \in [Caller -> CallState] /\ CallOK(c, r) /\ StoreType
  BY CallKinds, Zenon DEF FrontInv, TypeOK, CallInv
<1>2. /\ r.file \in FileId /\ r.nodes \in Nodes /\ r.offset \in Nat /\ r.data \in Content
      /\ r.i \in Nat \ {0} /\ r.ok \subseteq StorageNode
  BY <1>1, Zenon DEF WriteCall
<1>3. s \in StorageNode /\ s \in NodesOf(r.nodes)
  BY <1>2, NextReplica, Zenon
<1>4. /\ o.ok \in BOOLEAN /\ o.file \in File /\ Extends(old, o.file) /\ old \in File
      /\ o.ok => r.data # <<>> /\ r.offset >= Size(old) /\ Has(o.file, r.offset, r.data)
  BY <1>1, <1>2, <1>3, Zenon DEF StoreType, Sound
<1>5. /\ store' = [store EXCEPT ![s][r.file] = o.file]
      /\ call' = [call EXCEPT ![c].i = @ + 1, ![c].ok = IF o.ok THEN @ \cup {s} ELSE @]
  BY Zenon DEF Answered
<1>6. UNCHANGED <<metaVars, placed, entries, calls, done, purged, lost>>
  BY Zenon DEF metaVars
<1>. DEFINE ok == IF o.ok THEN r.ok \cup {s} ELSE r.ok
            y == [r EXCEPT !.i = r.i + 1]
<1>7. Moves(c) /\ call'[c] = [y EXCEPT !.ok = ok]
  BY <1>1, <1>5, Zenon DEF Moves
<1>8. ok \subseteq StorageNode
  BY <1>2, <1>3, Zenon
<1>9. y \in WriteCall /\ AsWrite(y) = AsWrite(r) /\ y.pc = "write" /\ y.at = r.at /\ y.file = r.file
  BY <1>1, NextWrite, Zenon
<1>. HIDE DEF s, y, ok, old
<1>10. StoreType' /\ LateInv' /\ Kept /\ store'[s][r.file] = o.file
  <2>. DEFINE f == r.file
              new == o.file
  <2>1. /\ s \in StorageNode /\ f \in FileId /\ new \in File
        /\ store' = [store EXCEPT ![s][f] = new]
        /\ Extends(store[s][f], new)
        /\ UNCHANGED <<placed, purged, lost>>
    BY <1>2, <1>3, <1>4, <1>5, <1>6, Zenon DEF old
  <2>. HIDE DEF f, new
  <2>2. StoreType' /\ LateInv' /\ Kept /\ store'[s][f] = new
    BY <2>1, StoreStep, Zenon
  <2>. QED
    BY <2>2, Zenon DEF f, new
<1>11. MetaType' /\ MetaInv' /\ \A n \in Node : KnownKept(n)
  BY <1>6, MetaSame, Zenon
<1>12. PICK x : x = AsWrite(r)
  BY Zenon
<1>13. PICK z : z = AsWrite(call'[c])
  BY Zenon
<1>14. /\ call'[c] \in WriteCall /\ call'[c].pc = "write" /\ call'[c].at = r.at
       /\ call'[c].file = r.file /\ call'[c].ok = ok /\ call'[c].nodes = r.nodes
       /\ call'[c].offset = r.offset /\ call'[c].data = r.data /\ call'[c].size = r.size
       /\ call'[c].id = r.id
  BY <1>7, <1>8, <1>9, Zenon DEF WriteCall, AsWrite
<1>15. /\ z.file = x.file /\ z.nodes = x.nodes /\ z.offset = x.offset /\ z.data = x.data
       /\ z.id = x.id /\ z.ok = ok /\ x.ok = r.ok
       /\ x.file = r.file /\ x.nodes = r.nodes /\ x.offset = r.offset /\ x.data = r.data
  BY <1>12, <1>13, <1>14, Zenon DEF AsWrite
<1>16. x \in WriteRecord /\ WriteOK(x) /\ x \in Writes /\ Carried(call[c]) = {x}
  <2>1. Carried(call[c]) = {x}
    BY <1>12, Zenon DEF Carried
  <2>2. x \in Writes
    BY <2>1, Zenon DEF Writes
  <2>. QED
    BY <2>1, <2>2, WritesOK, Zenon
<1>17. Carried(call'[c]) = {z}
  BY <1>13, <1>14, Zenon DEF Carried
<1>18. WriteOK(z)'
  <2>1. WriteOK(x)'
    BY <1>1, <1>10, <1>16, WriteKept, Zenon
  <2>2. z.nodes = placed'[z.file] /\ z.ok \subseteq NodesOf(z.nodes)
    <3>1. x.nodes = placed'[x.file] /\ x.ok \subseteq NodesOf(x.nodes)
      BY <2>1, Zenon DEF WriteOK, NodesOf
    <3>2. ok \subseteq r.ok \cup {s}
      BY Zenon DEF ok
    <3>3. ok \subseteq NodesOf(x.nodes)
      BY <1>3, <1>15, <3>1, <3>2
    <3>. QED
      BY <1>15, <3>1, <3>3, Zenon
  <2>3. ASSUME NEW t \in z.ok, Intact(z.file, t)'
        PROVE  z.data # <<>> /\ Has(store'[t][z.file], z.offset, z.data)
    <3>1. CASE t \in x.ok
      BY <1>15, <2>1, <2>3, <3>1, Zenon DEF WriteOK, Holds, Shows, Intact
    <3>2. CASE o.ok /\ t = s
      BY <1>4, <1>10, <1>15, <3>2, Zenon
    <3>. QED
      BY <1>15, <3>1, <3>2, Zenon DEF ok
  <2>. QED
    BY <2>2, <2>3, Zenon DEF WriteOK, Holds, Shows, NodesOf
<1>19. CallOK(c, call[c])'
  <2>1. r.at = c[1] /\ entries[c[1]][r.file] # NULL /\ r.nodes = placed[r.file]
    BY <1>1, Zenon DEF CallOK
  <2>2. WriteOK(AsWrite(call[c]))'
    BY <1>13, <1>18, Zenon
  <2>. QED
    BY <1>6, <1>14, <2>1, <2>2, Zenon DEF CallOK
<1>20. call'[c] \in CallState
  BY <1>14, Zenon DEF CallState
<1>21. /\ call' \in [Caller -> CallState] /\ CallInv'
       /\ \A d \in Caller : d # c => call'[d] = call[d]
  BY <1>7, <1>10, <1>11, <1>19, <1>20, Others, Zenon
<1>22. TypeOK'
  BY <1>6, <1>10, <1>11, <1>21, Zenon DEF FrontInv, TypeOK
<1>23. DoneInv'
  BY <1>6, <1>10, DoneKept, Zenon DEF DoneInv
<1>24. \A w \in Writes' : w \in Writes \/ w = z
  BY <1>6, <1>17, <1>21, Zenon DEF Writes
<1>25. IdInv'
  <2>1. \A w \in Writes' : w.id < calls'
    <3>1. \A w \in Writes : w.id < calls
      BY Zenon DEF FrontInv, IdInv
    <3>2. z.id < calls /\ calls' = calls
      BY <1>6, <1>15, <1>16, <3>1, Zenon
    <3>. QED
      BY <1>24, <3>1, <3>2, Zenon
  <2>2. \A v, w \in done' : v.id = w.id => v = w
    BY <1>6, Zenon DEF FrontInv, IdInv
  <2>3. \A b \in Caller : \A w \in Carried(call'[b]) :
           \E u \in Carried(call[b]) : u.id = w.id
    BY <1>15, <1>16, <1>17, <1>21, Zenon
  <2>4. ASSUME NEW b \in Caller, NEW w \in Carried(call'[b])
        PROVE  /\ \A v \in done' : v.id # w.id
               /\ \A d \in Caller : \A v \in Carried(call'[d]) : v.id = w.id => b = d
    <3>1. PICK u \in Carried(call[b]) : u.id = w.id
      BY <2>3, Zenon
    <3>2. \A v \in done : v.id # u.id
      BY Zenon DEF FrontInv, IdInv
    <3>3. \A d \in Caller : \A v \in Carried(call[d]) : v.id = u.id => b = d
      BY Zenon DEF FrontInv, IdInv
    <3>4. \A v \in done' : v.id # w.id
      BY <1>6, <3>1, <3>2, Zenon
    <3>5. ASSUME NEW d \in Caller, NEW v \in Carried(call'[d]), v.id = w.id
          PROVE  b = d
      <4>1. PICK x1 \in Carried(call[d]) : x1.id = v.id
        BY <2>3, Zenon
      <4>. QED
        BY <3>1, <3>3, <3>5, <4>1, Zenon
    <3>. QED
      BY <3>4, <3>5, Zenon
  <2>. QED
    BY <2>1, <2>2, <2>4, Zenon DEF IdInv
<1>26. ASSUME NEW w \in Writes, w.id # z.id, w.file = z.file, NEW t \in w.ok \cap z.ok,
              Intact(z.file, t)'
       PROVE  Apart(w, z)
  <2>1. Intact(z.file, t) /\ z.file \in FileId /\ t \in StorageNode
    BY <1>2, <1>8, <1>10, <1>15, <1>26, Zenon DEF Intact, Kept
  <2>2. CASE t \in x.ok
    <3>1. Apart(w, x)
      BY <1>15, <1>16, <1>26, <2>1, <2>2, Zenon DEF FrontInv, ApartInv
    <3>. QED
      BY <1>15, <3>1, Zenon DEF Apart
  <2>3. CASE o.ok /\ t = s
    <3>1. w \in WriteRecord /\ WriteOK(w)
      BY WritesOK, Zenon
    <3>2. w.data # <<>> /\ Has(old, w.offset, w.data)
      BY <1>15, <1>26, <2>1, <2>3, <3>1, Zenon DEF WriteOK, Holds, Shows, old
    <3>3. w.offset \in Nat /\ w.data \in Content /\ Len(w.data) \in Nat
      BY <3>1, RecordFields, Zenon
    <3>4. w.offset + Len(w.data) <= Size(old) /\ Size(old) \in Nat
      BY <1>4, <3>2, <3>3, HasWithin, SizeType, Zenon
    <3>5. r.offset >= Size(old) /\ r.offset = z.offset
      BY <1>4, <1>15, <2>3, Zenon
    <3>6. r.offset \in Nat
      BY <1>2, Zenon
    <3>. HIDE DEF r
    <3>7. w.offset + Len(w.data) <= z.offset
      BY <3>3, <3>4, <3>5, <3>6, Below, Zenon
    <3>. QED
      BY <3>7, Zenon DEF Apart
  <2>. QED
    BY <1>15, <1>26, <2>2, <2>3, Zenon DEF ok
<1>27. ApartInv'
  <2>. SUFFICES ASSUME NEW v \in Writes', NEW w \in Writes', NEW t \in v.ok \cap w.ok,
                       v.file = w.file, v.id # w.id, Intact(v.file, t)'
                PROVE  Apart(v, w)
    BY Zenon DEF ApartInv, Apart
  <2>1. Intact(v.file, t)
    BY <1>10, Zenon DEF Intact, Kept
  <2>2. CASE v \in Writes /\ w \in Writes
    BY <2>1, <2>2, Zenon DEF FrontInv, ApartInv
  <2>3. CASE v \in Writes /\ w = z
    BY <1>26, <2>3, Zenon
  <2>4. CASE v = z /\ w \in Writes
    <3>1. Apart(w, v)
      BY <1>26, <2>4, Zenon
    <3>. QED
      BY <3>1, Zenon DEF Apart
  <2>. QED
    BY <1>24, <2>2, <2>3, <2>4, Zenon
<1>. QED
  BY <1>10, <1>11, <1>21, <1>22, <1>23, <1>25, <1>27, Zenon DEF FrontInv

\* One WRITE to a storage node, in time, late, partial or lost, keeps the invariant.
LEMMA WriteReplicaStep ==
    ASSUME FrontInv, NEW c \in Caller, WriteReplica(c)
    PROVE  FrontInv'
<1>. DEFINE w == call[c]
            s == w.nodes[w.i]
            file == store[s][w.file]
<1>1. w \in WriteCall /\ w.pc = "write" /\ w.i <= Len(w.nodes) /\ StoreType /\ LateInv
  BY CallKinds, Zenon DEF FrontInv, TypeOK, WriteReplica
<1>2. /\ w.file \in FileId /\ w.nodes \in Nodes /\ w.offset \in Nat /\ w.data \in Content
      /\ w.i \in Nat \ {0}
  BY <1>1, Zenon DEF WriteCall
<1>3. s \in StorageNode
  BY <1>1, <1>2, NextReplica, Zenon
<1>4. file \in File
  BY <1>1, <1>2, <1>3, Zenon DEF StoreType
<1>5. /\ UNCHANGED <<metaVars, calls, done, purged, lost>> /\ faults \in Nat
      /\ late \subseteq LateState /\ \A r \in late : r.op = "DELETE" => r.file \in purged
  BY <1>1, Zenon DEF WriteReplica, FrontInv, TypeOK, StoreType, LateInv
<1>6. CASE Answered(c, handle_write(file, w.offset, w.data)) /\ NoFault /\ UNCHANGED late
  <2>. DEFINE o == handle_write(file, w.offset, w.data)
  <2>1. Sound(file, w.offset, w.data, o)
    BY <1>2, <1>4, WriteOutcome, Zenon DEF Sound
  <2>. HIDE DEF o
  <2>2. faults' \in Nat /\ late' = late /\ Answered(c, o)
    BY <1>5, <1>6, Zenon DEF NoFault, o
  <2>. QED
    BY <1>1, <1>5, <2>1, <2>2, Acceptance, Zenon
<1>7. CASE (\E o \in WriteFaults(file, w.offset, w.data) : Answered(c, o)) /\ Fault /\ UNCHANGED late
  <2>1. PICK o \in WriteFaults(file, w.offset, w.data) : Answered(c, o)
    BY <1>7, Zenon
  <2>2. Sound(file, w.offset, w.data, o)
    BY <1>2, <1>4, FaultOutcome, Zenon DEF Sound
  <2>3. faults' \in Nat /\ late' = late
    BY <1>5, <1>7, FaultCount, Zenon
  <2>. QED
    BY <1>1, <1>5, <2>1, <2>2, <2>3, Acceptance, Zenon
<1>8. CASE /\ Answered(c, Outcome(FALSE, file)) /\ Fault
           /\ \E k \in 0 .. Len(w.data) :
                 late' = late \cup {[op |-> "WRITE", node |-> s, file |-> w.file,
                                     offset |-> w.offset, data |-> SubSeq(w.data, 1, k)]}
  <2>. DEFINE o == Outcome(FALSE, file)
  <2>1. o.ok = FALSE /\ o.file = file
    BY Zenon DEF Outcome
  <2>2. Sound(file, w.offset, w.data, o)
    BY <1>4, <2>1, SizeType, Zenon DEF Sound
  <2>. HIDE DEF o
  <2>3. faults' \in Nat /\ Answered(c, o)
    <3>1. Answered(c, o) /\ Fault
      BY <1>8, Zenon DEF o
    <3>. QED
      BY <1>5, <3>1 DEF Fault
  <2>4. PICK k \in 0 .. Len(w.data) :
            late' = late \cup {[op |-> "WRITE", node |-> s, file |-> w.file,
                                offset |-> w.offset, data |-> SubSeq(w.data, 1, k)]}
    BY <1>8, Zenon
  <2>5. SubSeq(w.data, 1, k) \in Content
    BY <1>2, Prefix, Zenon
  <2>6. /\ late' \subseteq LateState
        /\ \A r \in late' : r.op = "DELETE" => r.file \in purged
    <3>. DEFINE q == [op |-> "WRITE", node |-> s, file |-> w.file,
                      offset |-> w.offset, data |-> SubSeq(w.data, 1, k)]
    <3>1. q \in LateState /\ q.op = "WRITE"
      BY <1>2, <1>3, <2>5, Zenon DEF LateState
    <3>2. late' = late \cup {q}
      BY <2>4, Zenon
    <3>. HIDE DEF q
    <3>. QED
      BY <1>5, <3>1, <3>2, Zenon
  <2>. QED
    BY <1>1, <1>5, <2>2, <2>3, <2>6, Acceptance, Zenon
<1>. QED
  BY <1>6, <1>7, <1>8, Zenon DEF WriteReplica

\* A deletion was answered; its file is purged.
LEMMA Deleted ==
    ASSUME FrontInv, NEW c \in Caller, call[c].pc \in {"delete", "rollback"},
           call[c].i <= Len(call[c].nodes), NEW o, Answered(c, o), o.file \in File,
           late' \subseteq LateState,
           \A r \in late' : r.op = "DELETE" => r.file \in purged,
           UNCHANGED <<metaVars, calls, done, purged, lost>>, faults' \in Nat
    PROVE  FrontInv'
<1>. DEFINE r == call[c]
            s == r.nodes[r.i]
<1>1. r \in DeleteCall /\ call \in [Caller -> CallState] /\ CallOK(c, r)
  BY CallKinds, Zenon DEF FrontInv, TypeOK, CallInv
<1>2. /\ r.file \in FileId /\ r.nodes \in Nodes /\ r.i \in Nat \ {0} /\ r.ok \subseteq StorageNode
      /\ r.nodes = placed[r.file] /\ r.file \in purged
      /\ r.pc = "delete" => r.at = c[1] /\ entries[c[1]][r.file] # NULL
  BY <1>1, Zenon DEF DeleteCall, CallOK
<1>3. s \in StorageNode
  BY <1>2, NextReplica, Zenon
<1>4. /\ store' = [store EXCEPT ![s][r.file] = o.file]
      /\ call' = [call EXCEPT ![c].i = @ + 1, ![c].ok = IF o.ok THEN @ \cup {s} ELSE @]
  BY Zenon DEF Answered
<1>5. UNCHANGED <<metaVars, placed, entries, calls, done, purged, lost>>
  BY Zenon DEF metaVars
<1>. DEFINE ok == IF o.ok THEN r.ok \cup {s} ELSE r.ok
            y == [r EXCEPT !.i = r.i + 1]
<1>6. Moves(c) /\ call'[c] = [y EXCEPT !.ok = ok]
  BY <1>1, <1>4, Zenon DEF Moves
<1>7. ok \subseteq StorageNode
  BY <1>2, <1>3, Zenon
<1>8. y \in DeleteCall /\ y.pc = r.pc /\ y.at = r.at /\ y.file = r.file /\ y.nodes = r.nodes
  BY <1>1, <1>2 DEF DeleteCall
<1>. HIDE DEF s, y, ok
<1>9. StoreType' /\ LateInv' /\ Kept
  <2>. DEFINE f == r.file
              new == o.file
  <2>1. /\ s \in StorageNode /\ f \in FileId /\ new \in File /\ f \in purged
        /\ store' = [store EXCEPT ![s][f] = new]
        /\ UNCHANGED <<placed, purged, lost>>
    BY <1>2, <1>3, <1>4, <1>5, Zenon
  <2>. HIDE DEF f, new
  <2>. QED
    BY <2>1, StoreStep, Zenon
<1>10. MetaType' /\ MetaInv' /\ \A n \in Node : KnownKept(n)
  BY <1>5, MetaSame, Zenon
<1>11. /\ call'[c] \in DeleteCall /\ call'[c].pc = r.pc /\ call'[c].at = r.at
       /\ call'[c].file = r.file /\ call'[c].nodes = r.nodes
  BY <1>6, <1>7, <1>8, Zenon DEF DeleteCall
<1>12. CallOK(c, call[c])'
  BY <1>2, <1>5, <1>11, Zenon DEF CallOK
<1>13. call'[c] \in CallState /\ Carried(call'[c]) = {}
  BY <1>11, Zenon DEF CallState, Carried
<1>14. /\ call' \in [Caller -> CallState] /\ CallInv'
       /\ \A d \in Caller : d # c => call'[d] = call[d]
  BY <1>6, <1>9, <1>10, <1>12, <1>13, Others, Zenon
<1>15. TypeOK'
  BY <1>5, <1>9, <1>10, <1>14, Zenon DEF FrontInv, TypeOK
<1>16. \A d \in Caller : Carried(call'[d]) \subseteq Carried(call[d])
  BY <1>13, <1>14, Zenon
<1>17. calls' >= calls /\ done' = done
  BY <1>5 DEF FrontInv, TypeOK
<1>. QED
  BY <1>9, <1>10, <1>14, <1>15, <1>16, <1>17, Neutral, Zenon

\* A deletion that runs into a fault leaves the file as it was, or none.
LEMMA DeleteOutcome ==
    ASSUME NEW file \in File, NoFile \in File, NEW o \in DeleteFaults(file)
    PROVE  o.file \in File
BY DEF DeleteFaults, Outcome

\* One DELETE to a storage node keeps the invariant.
LEMMA DeleteReplicaStep ==
    ASSUME FrontInv, NEW c \in Caller, DeleteReplica(c)
    PROVE  FrontInv'
<1>. DEFINE d == call[c]
            s == d.nodes[d.i]
            file == store[s][d.file]
<1>1. /\ d \in DeleteCall /\ d.pc \in {"delete", "rollback"} /\ d.i <= Len(d.nodes)
      /\ StoreType /\ LateInv /\ CallOK(c, d)
  BY CallKinds, Zenon DEF FrontInv, TypeOK, CallInv, DeleteReplica
<1>2. /\ d.file \in FileId /\ d.nodes \in Nodes /\ d.i \in Nat \ {0} /\ d.file \in purged
  BY <1>1, Zenon DEF DeleteCall, CallOK
<1>3. s \in StorageNode
  BY <1>1, <1>2, NextReplica, Zenon
<1>4. file \in File /\ NoFile \in File
  BY <1>1, <1>2, <1>3, Zenon DEF StoreType, File
<1>5. /\ UNCHANGED <<metaVars, calls, done, purged, lost>> /\ faults \in Nat
      /\ late \subseteq LateState /\ \A r \in late : r.op = "DELETE" => r.file \in purged
  BY <1>1, Zenon DEF DeleteReplica, FrontInv, TypeOK, StoreType, LateInv
<1>6. CASE Answered(c, handle_delete(file)) /\ NoFault /\ UNCHANGED late
  <2>. DEFINE o == handle_delete(file)
  <2>1. o.file \in File
    BY <1>4, Zenon DEF handle_delete, Outcome
  <2>. HIDE DEF o
  <2>2. faults' \in Nat /\ late' = late /\ Answered(c, o)
    BY <1>5, <1>6, Zenon DEF NoFault, o
  <2>. QED
    BY <1>1, <1>5, <2>1, <2>2, Deleted, Zenon
<1>7. CASE (\E o \in DeleteFaults(file) : Answered(c, o)) /\ Fault /\ UNCHANGED late
  <2>1. PICK o \in DeleteFaults(file) : Answered(c, o)
    BY <1>7, Zenon
  <2>2. o.file \in File
    BY <1>4, DeleteOutcome, Zenon
  <2>3. faults' \in Nat /\ late' = late
    <3>1. Fault /\ UNCHANGED late
      BY <1>7, Zenon
    <3>2. faults \in Nat
      BY <1>5, Zenon
    <3>. QED
      BY <3>1, <3>2, FaultCount, Zenon
  <2>. QED
    BY <1>1, <1>5, <2>1, <2>2, <2>3, Deleted, Zenon
<1>8. CASE /\ Answered(c, Outcome(TRUE, file)) /\ Fault
           /\ late' = late \cup {[op |-> "DELETE", node |-> s, file |-> d.file]}
  <2>. DEFINE o == Outcome(TRUE, file)
  <2>1. o.file \in File
    BY <1>4, Zenon DEF Outcome
  <2>. HIDE DEF o
  <2>2. faults' \in Nat /\ Answered(c, o)
    <3>1. Answered(c, o) /\ Fault
      BY <1>8, Zenon DEF o
    <3>. QED
      BY <1>5, <3>1 DEF Fault
  <2>3. /\ late' \subseteq LateState
        /\ \A r \in late' : r.op = "DELETE" => r.file \in purged
    <3>. DEFINE q == [op |-> "DELETE", node |-> s, file |-> d.file]
    <3>1. q \in LateState /\ q.file \in purged
      BY <1>2, <1>3, Zenon DEF LateState
    <3>2. late' = late \cup {q}
      BY <1>8, Zenon
    <3>. HIDE DEF q
    <3>. QED
      BY <1>5, <3>1, <3>2, Zenon
  <2>. QED
    BY <1>1, <1>5, <2>1, <2>2, <2>3, Deleted, Zenon
<1>. QED
  BY <1>6, <1>7, <1>8, Zenon DEF DeleteReplica

\* A proposal failed.  The write it was for is rolled back or given up.
LEMMA CommitFailsStep ==
    ASSUME FrontInv, NEW c \in Caller, CommitFails(c)
    PROVE  FrontInv'
<1>. DEFINE r == call[c]
            f == r.entry.file
            nodes == r.entry.nodes
<1>1. r \in CommitCall /\ CallOK(c, r) /\ r.pc = "commit" /\ MetaType /\ MetaInv
  BY CallKinds, Zenon DEF FrontInv, TypeOK, CallInv, CommitFails
<1>2. r.at \in Node /\ f \in FileId /\ nodes \in Nodes /\ nodes = placed[f]
  BY <1>1, Zenon DEF CommitCall, Entry, Nodes, CallOK
<1>3. /\ next_seq' = [next_seq EXCEPT ![r.at] = @ + 1]
      /\ UNCHANGED <<entries, next_node_idx, last_seq, placed, learns, storeVars, calls, done>>
      /\ faults' \in Nat
  <2>1. /\ next_seq' = [next_seq EXCEPT ![r.at] = @ + 1] /\ Fault
        /\ UNCHANGED <<entries, next_node_idx, last_seq, placed, learns, storeVars, calls, done>>
    BY Zenon DEF CommitFails
  <2>2. faults \in Nat
    BY Zenon DEF FrontInv, TypeOK
  <2>3. faults' \in Nat
    BY <2>1, <2>2 DEF Fault
  <2>. QED
    BY <2>1, <2>3, Zenon
<1>4. MetaType' /\ MetaInv' /\ \A n \in Node : KnownKept(n)
  <2>1. next_seq' \in [Node -> Nat]
    BY <1>1, <1>2, <1>3 DEF MetaType
  <2>2. entries' = entries /\ placed' = placed /\ learns' = learns
        /\ next_node_idx' = next_node_idx /\ last_seq' = last_seq
    BY <1>3, Zenon
  <2>3. MetaType'
    BY <1>1, <2>1, <2>2, Zenon DEF MetaType
  <2>4. MetaInv'
    BY <1>1, <2>2, Zenon DEF MetaInv
  <2>5. \A n \in Node : KnownKept(n)
    BY <2>2, Zenon DEF KnownKept
  <2>. QED
    BY <2>3, <2>4, <2>5, Zenon
<1>. HIDE DEF f, nodes
<1>5. \/ Return(c) /\ UNCHANGED purged
      \/ /\ Serve(c, [pc |-> "rollback", at |-> r.at, file |-> f, nodes |-> nodes,
                      i |-> 1, ok |-> {}])
         /\ purged' = purged \cup {f}
  BY Zenon DEF CommitFails, f, nodes
<1>6. purged \subseteq purged' /\ purged' \subseteq FileId
  BY <1>2, <1>5, Zenon DEF FrontInv, TypeOK
<1>7. StoreType' /\ LateInv' /\ Kept
  BY <1>3, <1>6, StoreSame, Zenon
<1>8. /\ Moves(c) /\ call'[c] \in CallState /\ CallOK(c, call[c])'
      /\ Carried(call'[c]) = {}
  <2>1. CASE Return(c)
    <3>1. Moves(c) /\ call'[c] = Idle
      BY <2>1, Served, Zenon DEF Return
    <3>. QED
      BY <3>1 DEF CallState, CallOK, Carried, Idle
  <2>2. CASE /\ Serve(c, [pc |-> "rollback", at |-> r.at, file |-> f, nodes |-> nodes,
                          i |-> 1, ok |-> {}])
             /\ purged' = purged \cup {f}
    <3>1. Moves(c) /\ call'[c] = [pc |-> "rollback", at |-> r.at, file |-> f, nodes |-> nodes,
                                  i |-> 1, ok |-> {}]
      BY <2>2, Served, Zenon
    <3>2. call'[c] \in CallState
      BY <1>2, <3>1 DEF CallState, DeleteCall
    <3>3. CallOK(c, call[c])'
      <4>1. call'[c].pc = "rollback" /\ call'[c].nodes = nodes /\ call'[c].file = f
        BY <3>1
      <4>2. nodes = placed'[f] /\ f \in purged'
        BY <1>2, <1>3, <2>2, Zenon
      <4>. QED
        BY <4>1, <4>2, Zenon DEF CallOK
    <3>4. Carried(call'[c]) = {}
      BY <3>1 DEF Carried
    <3>. QED
      BY <3>1, <3>2, <3>3, <3>4, Zenon
  <2>. QED
    BY <1>5, <2>1, <2>2, Zenon
<1>9. /\ call' \in [Caller -> CallState] /\ CallInv'
      /\ \A d \in Caller : d # c => call'[d] = call[d]
  BY <1>4, <1>7, <1>8, Others, Zenon
<1>10. TypeOK'
  BY <1>3, <1>4, <1>6, <1>7, <1>9, Zenon DEF FrontInv, TypeOK
<1>11. \A d \in Caller : Carried(call'[d]) \subseteq Carried(call[d])
  BY <1>8, <1>9, Zenon
<1>12. calls' >= calls /\ done' = done
  BY <1>3 DEF FrontInv, TypeOK
<1>. QED
  BY <1>4, <1>7, <1>9, <1>10, <1>11, <1>12, Neutral, Zenon

\* An entry is applied at n, and may be announced to others.
LEMMA ApplyEntry ==
    ASSUME FrontInv, NEW n \in Node, NEW e \in Entry, e.nodes = placed[e.file],
           metadata_apply_entry(n, e),
           next_seq' \in [Node -> Nat], last_seq' \in [Node -> Nat],
           learns' \subseteq [to : Node, seq : Nat, entry : Entry],
           \A m \in learns' : m \in learns \/ m.entry = e,
           UNCHANGED <<next_node_idx, placed>>
    PROVE  MetaType' /\ MetaInv' /\ \A m \in Node : KnownKept(m)
<1>1. MetaType /\ MetaInv /\ e.file \in FileId
  BY Zenon DEF FrontInv, TypeOK, Entry
<1>2. /\ entries'[n][e.file] = e
      /\ \A m \in Node, f \in FileId : m # n \/ f # e.file => entries'[m][f] = entries[m][f]
  BY <1>1, Zenon DEF metadata_apply_entry, MetaType
<1>3. entries' \in [Node -> [FileId -> Entry \cup {NULL}]]
  BY <1>1, Zenon DEF metadata_apply_entry, MetaType
<1>4. MetaType'
  BY <1>1, <1>3, Zenon DEF MetaType
<1>5. \A m \in Node, f \in FileId : entries'[m][f] # NULL =>
         entries'[m][f].file = f /\ entries'[m][f].nodes = placed'[f]
  BY <1>1, <1>2 DEF MetaInv
<1>6. \A m \in learns' : m.entry.nodes = placed'[m.entry.file]
  BY <1>1, Zenon DEF MetaInv
<1>7. \A m \in Node : KnownKept(m)
  BY <1>1, <1>2, NullAssumption, Zenon DEF KnownKept
<1>. QED
  BY <1>4, <1>5, <1>6, <1>7, Zenon DEF MetaInv

\* A commit ends the call; its write is acknowledged and stays what it was.
LEMMA CommitStep ==
    ASSUME FrontInv, NEW c \in Caller, Commit(c)
    PROVE  FrontInv'
<1>. DEFINE r == call[c]
            n == r.at
            last == [last_seq EXCEPT ![n] = MaxOf(@, next_seq[n])]
            sent == {[to |-> p, seq |-> next_seq[n], entry |-> r.entry] : p \in Node \ {n}}
<1>1. r \in CommitCall /\ CallOK(c, r) /\ r.pc = "commit" /\ MetaType
  BY CallKinds, Zenon DEF FrontInv, TypeOK, CallInv, Commit
<1>2. /\ n \in Node /\ r.entry \in Entry /\ r.entry.nodes = placed[r.entry.file]
      /\ r.write \in WriteRecord \cup {NULL}
      /\ r.write # NULL => WriteOK(r.write) /\ Accepted(r.write)
  BY <1>1, Zenon DEF CommitCall, CallOK
<1>3. /\ metadata_apply_entry(n, r.entry) /\ next_seq' = [next_seq EXCEPT ![n] = @ + 1]
      /\ last_seq' = last /\ learns' = Deliverable(learns \cup sent, last)
      /\ done' = (IF r.write = NULL THEN done ELSE done \cup {r.write}) /\ Return(c)
      /\ UNCHANGED <<next_node_idx, placed, storeVars, calls, faults, purged>>
  BY Zenon DEF Commit
<1>4. next_seq' \in [Node -> Nat] /\ last_seq' \in [Node -> Nat]
  <2>1. next_seq[n] \in Nat /\ last_seq[n] \in Nat
    BY <1>1, <1>2, Zenon DEF MetaType
  <2>2. MaxOf(last_seq[n], next_seq[n]) \in Nat
    BY <2>1, Zenon DEF MaxOf
  <2>3. next_seq' \in [Node -> Nat]
    <3>1. next_seq \in [Node -> Nat] /\ next_seq' = [next_seq EXCEPT ![n] = @ + 1]
      BY <1>1, <1>3, Zenon DEF MetaType
    <3>. QED
      BY <1>2, <2>1, <3>1
  <2>4. last = [last_seq EXCEPT ![n] = MaxOf(last_seq[n], next_seq[n])]
    BY Zenon
  <2>. HIDE DEF last
  <2>5. last_seq' \in [Node -> Nat]
    BY <1>1, <1>2, <1>3, <2>2, <2>4, Zenon DEF MetaType
  <2>. QED
    BY <2>3, <2>5, Zenon
<1>5. /\ learns' \subseteq [to : Node, seq : Nat, entry : Entry]
      /\ \A m \in learns' : m \in learns \/ m.entry = r.entry
  <2>1. next_seq[n] \in Nat /\ learns \subseteq [to : Node, seq : Nat, entry : Entry]
    BY <1>1, <1>2, Zenon DEF MetaType
  <2>2. \A m \in sent : m \in [to : Node, seq : Nat, entry : Entry] /\ m.entry = r.entry
    BY <1>2, <2>1, Announcements
  <2>3. learns' \subseteq learns \cup sent
    BY <1>3, Zenon DEF Deliverable
  <2>. HIDE DEF sent
  <2>. QED
    BY <2>1, <2>2, <2>3, Zenon
<1>. HIDE DEF last, sent
<1>6. MetaType' /\ MetaInv' /\ \A m \in Node : KnownKept(m)
  BY <1>2, <1>3, <1>4, <1>5, ApplyEntry, Zenon
<1>7. StoreType' /\ LateInv' /\ Kept
  BY <1>3, StoreSame, Zenon
<1>8. Moves(c) /\ call'[c] = Idle
  BY <1>3, Served, Zenon DEF Return
<1>9. call'[c] \in CallState /\ CallOK(c, call[c])' /\ Carried(call'[c]) = {}
  BY <1>8 DEF CallState, CallOK, Carried, Idle
<1>10. /\ call' \in [Caller -> CallState] /\ CallInv'
       /\ \A d \in Caller : d # c => call'[d] = call[d]
  BY <1>6, <1>7, <1>8, <1>9, Others, Zenon
<1>11. done' = done \cup Carried(r) /\ Carried(r) \subseteq WriteRecord
  <2>1. Carried(r) = {r.write} \ {NULL}
    BY <1>1, Zenon DEF Carried
  <2>. QED
    BY <1>2, <1>3, <2>1, Zenon
<1>12. TypeOK'
  BY <1>3, <1>6, <1>7, <1>10, <1>11, Zenon DEF FrontInv, TypeOK
<1>13. DoneInv'
  <2>1. \A w \in done : WriteOK(w)' /\ Accepted(w)'
    BY <1>7, DoneKept, Zenon
  <2>2. \A w \in Carried(r) : w = r.write /\ w # NULL
    BY <1>1, Zenon DEF Carried
  <2>3. \A w \in Carried(r) : WriteOK(w)' /\ Accepted(w)
    BY <1>2, <1>7, <1>11, <2>2, WriteKept, Zenon DEF FrontInv, TypeOK
  <2>. QED
    BY <1>11, <2>1, <2>3, Zenon DEF DoneInv, Accepted, Quorum
<1>14. Writes' \subseteq Writes
  BY <1>9, <1>10, <1>11, Zenon DEF Writes
<1>15. ApartInv'
  BY <1>7, <1>14, ApartKept, Zenon
<1>16. IdInv'
  <2>1. \A w \in Writes' : w.id < calls'
    BY <1>3, <1>14, Zenon DEF FrontInv, IdInv
  <2>2. \A v, w \in done' : v.id = w.id => v = w
    <3>1. \A v, w \in Carried(r) : v = w
      BY <1>1, Zenon DEF Carried
    <3>2. \A v \in done : \A w \in Carried(r) : v.id # w.id
      BY Zenon DEF FrontInv, IdInv
    <3>3. \A v, w \in done : v.id = w.id => v = w
      BY Zenon DEF FrontInv, IdInv
    <3>. QED
      BY <1>11, <3>1, <3>2, <3>3, Zenon
  <2>3. ASSUME NEW b \in Caller, NEW w \in Carried(call'[b])
        PROVE  /\ \A v \in done' : v.id # w.id
               /\ \A d \in Caller : \A v \in Carried(call'[d]) : v.id = w.id => b = d
    <3>1. b # c /\ w \in Carried(call[b])
      BY <1>9, <1>10, <2>3, Zenon
    <3>2. \A v \in done : v.id # w.id
      BY <3>1, Zenon DEF FrontInv, IdInv
    <3>3. \A d \in Caller : \A v \in Carried(call[d]) : v.id = w.id => b = d
      BY <3>1, Zenon DEF FrontInv, IdInv
    <3>4. \A d \in Caller : Carried(call'[d]) \subseteq Carried(call[d])
      BY <1>9, <1>10, Zenon
    <3>. QED
      BY <1>11, <3>1, <3>2, <3>3, <3>4, Zenon
  <2>. QED
    BY <2>1, <2>2, <2>3, Zenon DEF IdInv
<1>. QED
  BY <1>6, <1>7, <1>10, <1>12, <1>13, <1>15, <1>16, Zenon DEF FrontInv
=============================================================================
