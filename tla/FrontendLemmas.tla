--------------------------- MODULE FrontendLemmas ---------------------------
(***************************************************************************)
(* What the operators of StoredFile and Frontend do, and what a step that  *)
(* changes little keeps of the invariant.                                  *)
(***************************************************************************)
EXTENDS FrontendInv, TLAPS

\* File new has every byte of file old, where it was.
Extends(old, new) ==
    /\ Size(old) <= Size(new)
    /\ \A k \in 1 .. Size(old) : new[k] = old[k]

\* A file has a length, and is an extension of itself.
LEMMA SizeType ==
    ASSUME NEW file \in File
    PROVE  Size(file) \in Nat /\ Extends(file, file) /\ Size(NoFile) = 0
BY ByteAssumption DEF File, Content, Size, Extends

\* What a file has, its extensions have.
LEMMA HasKept ==
    ASSUME NEW old \in File, NEW new \in File, Extends(old, new),
           NEW offset \in Nat, NEW data \in Content, Has(old, offset, data)
    PROVE  Has(new, offset, data)
<1>1. Size(old) \in Nat /\ Size(new) \in Nat
  BY SizeType, Zenon
<1>2. Len(data) \in Nat
  BY DEF Content
<1>. QED
  BY <1>1, <1>2 DEF Has, Extends

\* What a file has lies within it.
LEMMA HasWithin ==
    ASSUME NEW file \in File, NEW offset \in Nat, NEW data \in Content,
           data # <<>>, Has(file, offset, data)
    PROVE  offset + Len(data) <= Size(file)
BY DEF Has, Content

\* Two pieces that a file has agree where they overlap.
LEMMA HasAgree ==
    ASSUME NEW file \in File,
           NEW o1 \in Nat, NEW d1 \in Content, Has(file, o1, d1),
           NEW o2 \in Nat, NEW d2 \in Content, Has(file, o2, d2),
           NEW k \in 1 .. Len(d1), o1 + k \in o2 + 1 .. o2 + Len(d2)
    PROVE  d1[k] = d2[o1 + k - o2]
<1>1. Len(d1) \in Nat /\ Len(d2) \in Nat /\ k \in Nat
  BY DEF Content
<1>. DEFINE j == o1 + k - o2
<1>2. j \in 1 .. Len(d2) /\ o2 + j = o1 + k
  BY <1>1
<1>3. file[o1 + k] = d1[k]
  BY <1>1, Zenon DEF Has
<1>4. file[o2 + j] = d2[j]
  BY <1>2, Zenon DEF Has
<1>. QED
  BY <1>2, <1>3, <1>4, Zenon

\* An append extends the file and puts the data at its offset.
LEMMA WrittenFile ==
    ASSUME NEW file \in File, NEW offset \in Nat, NEW data \in Content,
           offset >= Size(file)
    PROVE  /\ Written(file, offset, data) \in File
           /\ Extends(file, Written(file, offset, data))
           /\ Has(Written(file, offset, data), offset, data)
<1>. DEFINE new == Written(file, offset, data)
            n == offset + Len(data)
<1>1. Size(file) \in Nat /\ Len(data) \in Nat /\ n \in Nat
  BY SizeType DEF Content
<1>2. new = [k \in 1 .. n |-> IF k <= Size(file) THEN file[k]
                              ELSE IF k <= offset THEN 0 ELSE data[k - offset]]
  BY Zenon DEF Written
<1>3. \A k \in 1 .. Size(file) : file[k] \in Byte
  BY DEF File, Content, Size
<1>4. \A k \in 1 .. Len(data) : data[k] \in Byte
  BY DEF Content
<1>5. \A k \in 1 .. n : new[k] \in Byte
  <2>. SUFFICES ASSUME NEW k \in 1 .. n PROVE new[k] \in Byte
    BY Zenon
  <2>1. CASE k <= Size(file)
    BY <1>1, <1>2, <1>3, <2>1
  <2>2. CASE ~ k <= Size(file) /\ k <= offset
    BY <1>1, <1>2, <2>2, ByteAssumption, Zenon
  <2>3. CASE ~ k <= Size(file) /\ ~ k <= offset
    <3>1. k - offset \in 1 .. Len(data)
      BY <1>1, <2>3
    <3>. QED
      BY <1>2, <1>4, <2>3, <3>1, Zenon
  <2>. QED
    BY <2>1, <2>2, <2>3, Zenon
<1>6. new \in Seq(Byte) /\ Len(new) = n
  <2>1. new \in [1 .. n -> Byte]
    BY <1>2, <1>5, Zenon
  <2>. QED
    BY <1>1, <2>1
<1>7. new # NoFile /\ Size(new) = n
  BY <1>6, ByteAssumption, Zenon DEF Size
<1>8. Extends(file, new)
  <2>1. Size(file) <= n
    BY <1>1
  <2>2. \A k \in 1 .. Size(file) : new[k] = file[k]
    BY <1>1, <1>2, <2>1
  <2>. QED
    BY <1>7, <2>1, <2>2, Zenon DEF Extends
<1>9. Has(new, offset, data)
  <2>. SUFFICES ASSUME NEW k \in 1 .. Len(data)
                PROVE  offset + k <= Size(new) /\ new[offset + k] = data[k]
    BY Zenon DEF Has
  <2>1. offset + k \in 1 .. n /\ ~ offset + k <= offset /\ (offset + k) - offset = k
    BY <1>1
  <2>2. offset + k <= Size(file) => FALSE
    BY <1>1
  <2>. QED
    BY <1>1, <1>2, <1>7, <2>1, <2>2
<1>. QED
  BY <1>6, <1>8, <1>9, Zenon DEF File, Content

\* A write that a node says "OK" to is in the file, behind all that was there; one
\* that it refuses has taken nothing away.
LEMMA WriteOutcome ==
    ASSUME NEW file \in File, NEW offset \in Nat, NEW data \in Content
    PROVE  LET o == handle_write(file, offset, data)
           IN  /\ o.ok \in BOOLEAN /\ o.file \in File
               /\ Extends(file, o.file)
               /\ o.ok => /\ data # <<>> /\ offset >= Size(file)
                          /\ Has(o.file, offset, data)
<1>. DEFINE o == ServerWrite(file, offset, data)
            h == handle_write(file, offset, data)
<1>1. h = [ok |-> o.ok /\ data # <<>>, file |-> o.file]
  BY Zenon DEF handle_write, Outcome
<1>2. o = IF offset >= Size(file) THEN Outcome(TRUE, Written(file, offset, data))
          ELSE Outcome(FALSE, file)
  BY Zenon DEF ServerWrite, MayWrite
<1>. HIDE DEF o, h
<1>3. h.ok = (o.ok /\ data # <<>>) /\ h.file = o.file
  BY <1>1, Zenon
<1>4. CASE offset >= Size(file)
  <2>1. o.ok = TRUE /\ o.file = Written(file, offset, data)
    BY <1>2, <1>4, Zenon DEF Outcome
  <2>. QED
    BY <1>3, <1>4, <2>1, WrittenFile, Zenon DEF h
<1>5. CASE ~ (offset >= Size(file))
  <2>1. o.ok = FALSE /\ o.file = file
    BY <1>2, <1>5, Zenon DEF Outcome
  <2>. QED
    BY <1>3, <2>1, SizeType, Zenon DEF h
<1>. QED
  BY <1>4, <1>5, Zenon

\* A prefix of a sequence of bytes is one.
LEMMA Prefix ==
    ASSUME NEW data \in Content, NEW k \in 0 .. Len(data)
    PROVE  /\ SubSeq(data, 1, k) \in Content
           /\ Len(SubSeq(data, 1, k)) = k
           /\ \A j \in 1 .. k : SubSeq(data, 1, k)[j] = data[j]
BY DEF Content

\* Nor has a write that ends in a fault.
LEMMA FaultOutcome ==
    ASSUME NEW file \in File, NEW offset \in Nat, NEW data \in Content,
           NEW o \in WriteFaults(file, offset, data)
    PROVE  o.ok = FALSE /\ o.file \in File /\ Extends(file, o.file)
<1>1. CASE o \in {Outcome(FALSE, f) : f \in ServerWriteFails(file)}
  <2>1. PICK f \in ServerWriteFails(file) : o = Outcome(FALSE, f)
    BY <1>1, Zenon
  <2>2. CASE f = file
    BY <2>1, <2>2, SizeType, Zenon DEF Outcome
  <2>3. CASE file = NoFile /\ f = <<>>
    <3>1. <<>> \in File /\ Size(<<>>) = 0
      BY ByteAssumption DEF File, Content, Size
    <3>. QED
      BY <2>1, <2>3, <3>1, SizeType DEF Outcome, Extends
  <2>. QED
    BY <2>1, <2>2, <2>3, Zenon DEF ServerWriteFails
<1>2. CASE \E k \in 0 .. Len(data) :
              o = Outcome(FALSE, handle_write(file, offset, SubSeq(data, 1, k)).file)
  <2>1. PICK k \in 0 .. Len(data) :
              o = Outcome(FALSE, handle_write(file, offset, SubSeq(data, 1, k)).file)
    BY <1>2, Zenon
  <2>2. SubSeq(data, 1, k) \in Content
    BY Prefix, Zenon
  <2>. QED
    BY <2>1, <2>2, WriteOutcome, Zenon DEF Outcome
<1>. QED
  BY <1>1, <1>2, Zenon DEF WriteFaults

\* What a read returns, short or not, is in the file.
LEMMA ReadOutcome ==
    ASSUME NEW file \in File, NEW offset \in Nat, NEW length \in Nat,
           NEW data \in ShortReads(file, offset, length)
    PROVE  data \in Content /\ Has(file, offset, data)
<1>. DEFINE whole == handle_read(file, offset, length)
<1>1. whole \in Content /\ Has(file, offset, whole)
  <2>1. CASE file = NoFile
    <3>1. whole = <<>> /\ <<>> \in Content /\ Len(<<>>) = 0
      BY <2>1 DEF handle_read, Content
    <3>. QED
      BY <3>1 DEF Has
  <2>2. CASE file # NoFile
    <3>. DEFINE end == IF offset + length < Len(file) THEN offset + length ELSE Len(file)
    <3>1. file \in Seq(Byte) /\ Len(file) \in Nat /\ Size(file) = Len(file)
      BY <2>2 DEF File, Content, Size
    <3>2. end \in Nat /\ end <= Len(file)
      BY <3>1
    <3>3. whole = SubSeq(file, offset + 1, end)
      BY <2>2, Zenon DEF handle_read, Slice
    <3>4. \A i \in offset + 1 .. end : i \in 1 .. Len(file)
      BY <3>1, <3>2
    <3>. HIDE DEF end, whole
    <3>5. whole \in Seq(Byte)
      BY <3>1, <3>2, <3>3
    <3>6. Len(whole) = IF offset + 1 <= end THEN end - offset ELSE 0
      BY <3>1, <3>2, <3>3
    <3>7. \A i \in 1 .. end - offset : whole[i] = file[offset + i]
      BY <3>1, <3>2, <3>3
    <3>. SUFFICES ASSUME NEW k \in 1 .. Len(whole)
                  PROVE  offset + k <= Size(file) /\ file[offset + k] = whole[k]
      BY <3>5, Zenon DEF Has, Content
    <3>8. k \in 1 .. end - offset
      BY <3>2, <3>6
    <3>. QED
      BY <3>1, <3>2, <3>7, <3>8
  <2>. QED
    BY <2>1, <2>2, Zenon
<1>2. PICK k \in 0 .. Len(whole) : data = SubSeq(whole, 1, k)
  BY Zenon DEF ShortReads
<1>. HIDE DEF whole
<1>3. /\ data \in Content /\ Len(data) = k
      /\ \A j \in 1 .. k : data[j] = whole[j]
  BY <1>1, <1>2, Prefix, Zenon
<1>4. \A j \in 1 .. k : j \in 1 .. Len(whole)
  BY <1>1 DEF Content
<1>. QED
  BY <1>1, <1>3, <1>4, Zenon DEF Has

\* select_nodes returns registered nodes.
LEMMA SelectNodes ==
    ASSUME NEW n \in Node, next_node_idx[n] \in Nat
    PROVE  select_nodes(n) \in Nodes /\ node_idx_after(n) \in Nat
<1>. DEFINE k == IF Len(Storage) < MAX_REPLICAS THEN Len(Storage) ELSE MAX_REPLICAS
            x == next_node_idx[n]
<1>1. /\ Storage \in Seq(StorageNode) /\ Len(Storage) \in Nat
      /\ MAX_REPLICAS \in Nat /\ MAX_REPLICAS > 0 /\ k \in Nat /\ k <= Len(Storage)
  BY FrontendAssumption
<1>2. \A a \in Nat : \A b \in Nat \ {0} : a % b \in 0 .. b - 1
  OBVIOUS
<1>3. \A i \in 1 .. k : Storage[1 + ((x + i - 1) % Len(Storage))] \in StorageNode
  <2>. SUFFICES ASSUME NEW i \in 1 .. k
                PROVE  Storage[1 + ((x + i - 1) % Len(Storage))] \in StorageNode
    BY Zenon
  <2>1. Len(Storage) \in Nat \ {0} /\ x + i - 1 \in Nat
    BY <1>1
  <2>. DEFINE j == (x + i - 1) % Len(Storage)
  <2>2. j \in 0 .. Len(Storage) - 1
    BY <1>2, <2>1, Zenon
  <2>. HIDE DEF j
  <2>3. 1 + j \in 1 .. Len(Storage)
    BY <1>1, <2>2
  <2>. QED
    BY <1>1, <2>3 DEF j
<1>4. select_nodes(n) = [i \in 1 .. k |-> Storage[1 + ((x + i - 1) % Len(Storage))]]
  BY Zenon DEF select_nodes
<1>5. select_nodes(n) \in Nodes
  <2>1. select_nodes(n) \in [1 .. k -> StorageNode]
    BY <1>3, <1>4, Zenon
  <2>. QED
    BY <1>1, <2>1 DEF Nodes
<1>6. node_idx_after(n) \in Nat
  <2>1. CASE Len(Storage) < MAX_REPLICAS
    BY <2>1, Zenon DEF node_idx_after
  <2>2. CASE ~ (Len(Storage) < MAX_REPLICAS)
    <3>1. x + MAX_REPLICAS \in Nat /\ Len(Storage) \in Nat \ {0}
      BY <1>1, <2>2
    <3>2. (x + MAX_REPLICAS) % Len(Storage) \in 0 .. Len(Storage) - 1
      BY <1>2, <3>1, Zenon
    <3>. QED
      BY <1>1, <2>2, <3>2 DEF node_idx_after
  <2>. QED
    BY <2>1, <2>2, Zenon
<1>. QED
  BY <1>5, <1>6, Zenon
-----------------------------------------------------------------------------
\* What no step takes back: where a file is placed, that it was purged, that a
\* node lost its table, and the bytes that a replica has otherwise.
Kept ==
    /\ \A f \in FileId : placed[f] # NULL => placed'[f] = placed[f]
    /\ purged \subseteq purged' /\ lost \subseteq lost'
    /\ \A s \in StorageNode, f \in FileId : Intact(f, s)' => Extends(store[s][f], store'[s][f])

\* Frontend n still knows the files it knew.
KnownKept(n) == \A f \in FileId : entries[n][f] # NULL => entries'[n][f] # NULL

\* The state of a thread has the form that goes with its pc.
LEMMA CallKinds ==
    ASSUME NEW r \in CallState
    PROVE  /\ r.pc = "idle" => r = Idle
           /\ r.pc \in {"exists", "create"} => r \in CreateCall
           /\ r.pc = "write" => r \in WriteCall
           /\ r.pc \in {"delete", "rollback"} => r \in DeleteCall
           /\ r.pc = "commit" => r \in CommitCall
           /\ r.pc = "forward" => r \in ForwardCall
           /\ r.pc = "read" => r \in ReadCall
           /\ r.pc = "answer" => r \in AnswerCall
<1>1. \A x \in CreateCall : x.pc \in {"exists", "create"}
  BY Zenon DEF CreateCall
<1>2. \A x \in WriteCall : x.pc = "write"
  BY Zenon DEF WriteCall
<1>3. \A x \in DeleteCall : x.pc \in {"delete", "rollback"}
  BY Zenon DEF DeleteCall
<1>4. \A x \in CommitCall : x.pc = "commit"
  BY Zenon DEF CommitCall
<1>5. \A x \in ForwardCall : x.pc = "forward"
  BY Zenon DEF ForwardCall
<1>6. \A x \in ReadCall : x.pc = "read"
  BY Zenon DEF ReadCall
<1>7. \A x \in AnswerCall : x.pc = "answer"
  BY Zenon DEF AnswerCall
<1>8. Idle.pc = "idle"
  BY Zenon DEF Idle
<1>. QED
  BY <1>1, <1>2, <1>3, <1>4, <1>5, <1>6, <1>7, <1>8, Zenon DEF CallState

\* The writes that threads carry are writes.
LEMMA CarriedType ==
    ASSUME NEW r \in CallState
    PROVE  Carried(r) \subseteq WriteRecord
<1>1. CASE r.pc = "write"
  <2>1. r \in WriteCall
    BY <1>1, CallKinds, Zenon
  <2>2. AsWrite(r) \in WriteRecord
    BY <2>1, Zenon DEF AsWrite, WriteCall, WriteRecord
  <2>. QED
    BY <1>1, <2>2, Zenon DEF Carried
<1>2. CASE r.pc = "commit"
  <2>1. r.write \in WriteRecord \cup {NULL}
    BY <1>2, CallKinds, Zenon DEF CommitCall
  <2>. QED
    BY <1>2, <2>1, Zenon DEF Carried
<1>3. CASE r.pc # "write" /\ r.pc # "commit"
  BY <1>3, Zenon DEF Carried
<1>. QED
  BY <1>1, <1>2, <1>3, Zenon

\* Nothing is NULL that is a list of storage nodes.
LEMMA PlacedKept ==
    ASSUME Kept, NEW f \in FileId, placed[f] \in Nodes
    PROVE  placed'[f] = placed[f]
BY FrontendAssumption, Zenon DEF Kept, Nodes

\* Accepted writes stay with the replicas that have accepted them.
LEMMA WriteKept ==
    ASSUME StoreType, StoreType', Kept, NEW w \in WriteRecord, WriteOK(w)
    PROVE  WriteOK(w)'
<1>1. /\ w.file \in FileId /\ w.nodes \in Nodes /\ w.offset \in Nat
      /\ w.data \in Content /\ w.ok \subseteq StorageNode
  BY Zenon DEF WriteRecord
<1>2. w.nodes = placed'[w.file]
  BY <1>1, PlacedKept, Zenon DEF WriteOK
<1>3. ASSUME NEW s \in w.ok, Intact(w.file, s)'
      PROVE  w.data # <<>> /\ Holds(s, w)'
  <2>1. Intact(w.file, s)
    BY <1>3, Zenon DEF Intact, Kept
  <2>2. w.data # <<>> /\ Has(store[s][w.file], w.offset, w.data)
    BY <2>1, Zenon DEF WriteOK, Holds, Shows
  <2>3. Extends(store[s][w.file], store'[s][w.file])
    BY <1>1, <1>3, Zenon DEF Kept
  <2>4. store[s][w.file] \in File /\ store'[s][w.file] \in File
    BY <1>1, Zenon DEF StoreType
  <2>. QED
    BY <1>1, <2>2, <2>3, <2>4, HasKept, Zenon DEF Holds, Shows
<1>. QED
  BY <1>2, <1>3, Zenon DEF WriteOK

\* So do the bytes that a replica has shown.
LEMMA ShowsKept ==
    ASSUME StoreType, StoreType', Kept, NEW s \in StorageNode, NEW f \in FileId,
           NEW offset \in Nat, NEW data \in Content,
           Intact(f, s) => Shows(s, f, offset, data)
    PROVE  Intact(f, s)' => Shows(s, f, offset, data)'
<1>. SUFFICES ASSUME Intact(f, s)'
              PROVE  Shows(s, f, offset, data)'
  BY Zenon
<1>1. Intact(f, s)
  BY Zenon DEF Intact, Kept
<1>2. Extends(store[s][f], store'[s][f])
  BY Zenon DEF Kept
<1>3. store[s][f] \in File /\ store'[s][f] \in File
  BY Zenon DEF StoreType
<1>. QED
  BY <1>1, <1>2, <1>3, HasKept, Zenon DEF Shows

\* What holds of a thread's state goes on to hold while others move.
LEMMA CallKept ==
    ASSUME StoreType, StoreType', Kept, NEW d \in Caller, NEW r \in CallState,
           CallOK(d, r), KnownKept(d[1])
    PROVE  CallOK(d, r)'
<1>1. CASE r.pc = "write"
  <2>1. r \in WriteCall
    BY <1>1, CallKinds, Zenon
  <2>2. r.file \in FileId /\ r.nodes \in Nodes /\ AsWrite(r) \in WriteRecord
    BY <2>1, Zenon DEF WriteCall, AsWrite, WriteRecord
  <2>3. r.nodes = placed'[r.file]
    BY <1>1, <2>2, PlacedKept, Zenon DEF CallOK
  <2>4. r.at = d[1] /\ entries'[d[1]][r.file] # NULL
    BY <1>1, <2>2, Zenon DEF CallOK, KnownKept
  <2>5. WriteOK(AsWrite(r))'
    BY <1>1, <2>2, WriteKept, Zenon DEF CallOK
  <2>. QED
    BY <1>1, <2>3, <2>4, <2>5, Zenon DEF CallOK
<1>2. CASE r.pc \in {"delete", "rollback"}
  <2>1. r \in DeleteCall
    BY <1>2, CallKinds, Zenon
  <2>2. r.file \in FileId /\ r.nodes \in Nodes
    BY <2>1, Zenon DEF DeleteCall
  <2>3. r.nodes = placed'[r.file]
    BY <1>2, <2>2, PlacedKept, Zenon DEF CallOK
  <2>4. r.pc = "delete" => r.at = d[1] /\ entries'[d[1]][r.file] # NULL
    BY <1>2, <2>2, Zenon DEF CallOK, KnownKept
  <2>5. r.file \in purged'
    BY <1>2, Zenon DEF CallOK, Kept
  <2>. QED
    BY <1>2, <2>3, <2>4, <2>5, Zenon DEF CallOK
<1>3. CASE r.pc = "commit"
  <2>1. r \in CommitCall
    BY <1>3, CallKinds, Zenon
  <2>2. r.entry.file \in FileId /\ r.entry.nodes \in Nodes /\ r.write \in WriteRecord \cup {NULL}
    BY <2>1, Zenon DEF CommitCall, Entry, Nodes
  <2>3. r.entry.nodes = placed'[r.entry.file]
    BY <1>3, <2>2, PlacedKept, Zenon DEF CallOK
  <2>4. r.write # NULL => WriteOK(r.write)' /\ Accepted(r.write)
    BY <1>3, <2>2, WriteKept, Zenon DEF CallOK
  <2>. QED
    BY <1>3, <2>3, <2>4, Zenon DEF CallOK, Accepted
<1>4. CASE r.pc = "read"
  <2>1. r \in ReadCall
    BY <1>4, CallKinds, Zenon
  <2>2. /\ r.file \in FileId /\ r.nodes \in Nodes /\ r.get.offset \in Nat
        /\ \A x \in r.got : x[1] \in StorageNode /\ x[2] \in Content
    BY <2>1, Zenon DEF ReadCall, GetRequest, Answers
  <2>3. r.nodes = placed'[r.file]
    BY <1>4, <2>2, PlacedKept, Zenon DEF CallOK
  <2>4. ASSUME NEW x \in r.got
        PROVE  /\ x[1] \in NodesOf(r.nodes)
               /\ Intact(r.file, x[1])' => Shows(x[1], r.file, r.get.offset, x[2])'
    <3>1. /\ x[1] \in NodesOf(r.nodes)
          /\ Intact(r.file, x[1]) => Shows(x[1], r.file, r.get.offset, x[2])
      BY <1>4, Zenon DEF CallOK
    <3>. QED
      BY <2>2, <3>1, ShowsKept, Zenon
  <2>. QED
    BY <1>4, <2>3, <2>4, Zenon DEF CallOK, NodesOf
<1>5. CASE r.pc = "answer"
  <2>1. r \in AnswerCall
    BY <1>5, CallKinds, Zenon
  <2>2. /\ r.file \in FileId /\ r.nodes \in Nodes /\ r.offset \in Nat
        /\ r.data \in Content /\ r.from \subseteq StorageNode
    BY <2>1, Zenon DEF AnswerCall
  <2>3. r.nodes = placed'[r.file]
    BY <1>5, <2>2, PlacedKept, Zenon DEF CallOK
  <2>4. ASSUME NEW s \in r.from
        PROVE  /\ s \in NodesOf(r.nodes)
               /\ Intact(r.file, s)' => Shows(s, r.file, r.offset, r.data)'
    <3>1. /\ s \in NodesOf(r.nodes)
          /\ Intact(r.file, s) => Shows(s, r.file, r.offset, r.data)
      BY <1>5, Zenon DEF CallOK
    <3>. QED
      BY <2>2, <3>1, ShowsKept, Zenon
  <2>5. Cardinality(r.from) >= Quorum(r.nodes)
    BY <1>5, Zenon DEF CallOK
  <2>. QED
    BY <1>5, <2>3, <2>4, <2>5, Zenon DEF CallOK, NodesOf
<1>6. CASE r.pc \notin {"write", "delete", "rollback", "commit", "read", "answer"}
  BY <1>6, Zenon DEF CallOK
<1>. QED
  BY <1>1, <1>2, <1>3, <1>4, <1>5, <1>6, Zenon

\* All writes are records of the form they have to have, and are accepted.
LEMMA WritesOK ==
    ASSUME FrontInv, NEW w \in Writes
    PROVE  w \in WriteRecord /\ WriteOK(w)
<1>1. CASE w \in done
  BY <1>1, Zenon DEF FrontInv, TypeOK, DoneInv
<1>2. ASSUME NEW c \in Caller, w \in Carried(call[c])
      PROVE  w \in WriteRecord /\ WriteOK(w)
  <2>1. call[c] \in CallState /\ CallOK(c, call[c])
    BY Zenon DEF FrontInv, TypeOK, CallInv
  <2>2. w \in WriteRecord
    BY <1>2, <2>1, CarriedType, Zenon
  <2>3. CASE call[c].pc = "write"
    BY <1>2, <2>1, <2>2, <2>3, Zenon DEF Carried, CallOK
  <2>4. CASE call[c].pc = "commit"
    BY <1>2, <2>1, <2>2, <2>4, Zenon DEF Carried, CallOK
  <2>5. CASE call[c].pc # "write" /\ call[c].pc # "commit"
    BY <1>2, <2>5, Zenon DEF Carried
  <2>. QED
    BY <2>3, <2>4, <2>5, Zenon
<1>. QED
  BY <1>1, <1>2, Zenon DEF Writes

\* Acknowledged writes stay accepted.
LEMMA DoneKept ==
    ASSUME FrontInv, Kept, StoreType', NEW w \in done
    PROVE  WriteOK(w)' /\ Accepted(w)'
<1>1. w \in WriteRecord /\ WriteOK(w) /\ Accepted(w) /\ StoreType
  BY Zenon DEF FrontInv, TypeOK, DoneInv
<1>. QED
  BY <1>1, WriteKept, Zenon DEF Accepted, Quorum

\* If there are no new writes, those that are there stay apart.
LEMMA ApartKept ==
    ASSUME FrontInv, Kept, Writes' \subseteq Writes
    PROVE  ApartInv'
<1>. SUFFICES ASSUME NEW v \in Writes, NEW w \in Writes, NEW s \in v.ok \cap w.ok,
                     v.file = w.file, v.id # w.id, Intact(v.file, s)'
              PROVE  Apart(v, w)
  BY Zenon DEF ApartInv, Apart
<1>1. Intact(v.file, s)
  BY Zenon DEF Intact, Kept
<1>. QED
  BY <1>1, Zenon DEF FrontInv, ApartInv

\* A step by which no thread takes up a write and none is acknowledged.
LEMMA Neutral ==
    ASSUME FrontInv, Kept, TypeOK', MetaInv', LateInv', CallInv',
           done' = done, calls' >= calls,
           \A d \in Caller : Carried(call'[d]) \subseteq Carried(call[d])
    PROVE  FrontInv'
<1>1. DoneInv'
  BY DoneKept, Zenon DEF DoneInv, TypeOK
<1>2. Writes' \subseteq Writes
  BY Zenon DEF Writes
<1>3. ApartInv'
  BY <1>2, ApartKept, Zenon
<1>4. IdInv'
  <2>1. \A w \in Writes' : w.id < calls'
    <3>. SUFFICES ASSUME NEW w \in Writes PROVE w.id < calls'
      BY <1>2, Zenon
    <3>1. w.id < calls /\ w.id \in Nat /\ calls \in Nat /\ calls' \in Nat
      BY WritesOK, Zenon DEF FrontInv, IdInv, WriteRecord, TypeOK
    <3>. QED
      BY <3>1
  <2>2. \A v, w \in done' : v.id = w.id => v = w
    BY Zenon DEF FrontInv, IdInv
  <2>3. ASSUME NEW c \in Caller, NEW w \in Carried(call'[c])
        PROVE  /\ \A v \in done' : v.id # w.id
               /\ \A d \in Caller : \A v \in Carried(call'[d]) : v.id = w.id => c = d
    BY Zenon DEF FrontInv, IdInv
  <2>. QED
    BY <2>1, <2>2, <2>3, Zenon DEF IdInv
<1>. QED
  BY <1>1, <1>3, <1>4, Zenon DEF FrontInv

\* Only thread c moves.
Moves(c) == call' = [call EXCEPT ![c] = call'[c]]

\* Then the threads' states hold if the one of c does.
LEMMA Others ==
    ASSUME FrontInv, Kept, StoreType', NEW c \in Caller, Moves(c),
           call'[c] \in CallState, CallOK(c, call[c])',
           \A n \in Node : KnownKept(n)
    PROVE  /\ call' \in [Caller -> CallState]
           /\ CallInv'
           /\ \A d \in Caller : d # c => call'[d] = call[d]
<1>1. call \in [Caller -> CallState] /\ StoreType
  BY Zenon DEF FrontInv, TypeOK
<1>2. \A d \in Caller : d # c => call'[d] = call[d]
  BY <1>1, Zenon DEF Moves
<1>3. call' \in [Caller -> CallState]
  BY <1>1, Zenon DEF Moves
<1>4. ASSUME NEW d \in Caller, d # c
      PROVE  CallOK(d, call[d])'
  <2>1. call'[d] = call[d] /\ call[d] \in CallState
    BY <1>1, <1>2, <1>4, Zenon
  <2>2. CallOK(d, call[d]) /\ KnownKept(d[1])
    BY Zenon DEF FrontInv, CallInv, Caller
  <2>. QED
    BY <1>1, <2>1, <2>2, CallKept, Zenon
<1>5. CallInv'
  BY <1>4, Zenon DEF CallInv
<1>. QED
  BY <1>2, <1>3, <1>5, Zenon

\* The metadata and the store do not change.
LEMMA MetaSame ==
    ASSUME FrontInv, UNCHANGED metaVars
    PROVE  MetaType' /\ MetaInv' /\ \A n \in Node : KnownKept(n)
BY Zenon DEF FrontInv, TypeOK, MetaType, MetaInv, metaVars, KnownKept

\* A step that leaves the storage nodes alone keeps what they have.
LEMMA StoreSame ==
    ASSUME FrontInv, UNCHANGED storeVars, purged \subseteq purged',
           \A f \in FileId : placed[f] # NULL => placed'[f] = placed[f]
    PROVE  StoreType' /\ LateInv' /\ Kept
<1>1. StoreType /\ LateInv
  BY Zenon DEF FrontInv, TypeOK
<1>2. StoreType' /\ LateInv'
  BY <1>1, Zenon DEF StoreType, LateInv, storeVars
<1>3. \A s \in StorageNode, f \in FileId : Extends(store[s][f], store'[s][f])
  BY <1>1, SizeType, Zenon DEF StoreType, storeVars
<1>. QED
  BY <1>2, <1>3, Zenon DEF Kept, storeVars

\* A step of thread c that leaves metadata and storage alone and takes up no
\* write.
LEMMA Quiet ==
    ASSUME FrontInv, NEW c \in Caller, Moves(c),
           UNCHANGED <<metaVars, storeVars, done>>,
           purged \subseteq purged', purged' \subseteq FileId,
           calls' \in Nat, calls' >= calls, faults' \in Nat,
           call'[c] \in CallState, CallOK(c, call[c])',
           Carried(call'[c]) \subseteq Carried(call[c])
    PROVE  FrontInv'
<1>1. MetaType' /\ MetaInv' /\ \A n \in Node : KnownKept(n)
  BY MetaSame, Zenon
<1>2. StoreType' /\ LateInv' /\ Kept
  BY StoreSame, Zenon DEF metaVars
<1>3. /\ call' \in [Caller -> CallState] /\ CallInv'
      /\ \A d \in Caller : d # c => call'[d] = call[d]
  BY <1>1, <1>2, Others, Zenon
<1>4. TypeOK'
  BY <1>1, <1>2, <1>3, Zenon DEF FrontInv, TypeOK
<1>5. \A d \in Caller : Carried(call'[d]) \subseteq Carried(call[d])
  BY <1>3, Zenon
<1>. QED
  BY <1>1, <1>2, <1>3, <1>4, <1>5, Neutral, Zenon

\* A step of a thread that only reads, between two of its states without a write.
LEMMA QuietRead ==
    ASSUME FrontInv, NEW c \in Caller, Moves(c),
           UNCHANGED <<metaVars, storeVars, done, purged, calls>>, faults' \in Nat,
           call'[c] \in CallState, CallOK(c, call[c])', Carried(call'[c]) = {}
    PROVE  FrontInv'
<1>1. purged \subseteq FileId /\ calls \in Nat
  BY Zenon DEF FrontInv, TypeOK
<1>2. purged \subseteq purged' /\ purged' \subseteq FileId /\ calls' \in Nat /\ calls' >= calls
  BY <1>1
<1>. QED
  BY <1>2, Quiet, Zenon

\* Serve sets the state of one thread.
LEMMA Served ==
    ASSUME FrontInv, NEW c \in Caller, NEW r, Serve(c, r)
    PROVE  Moves(c) /\ call'[c] = r
BY Zenon DEF FrontInv, TypeOK, Serve, Moves

\* A thread that waits for a request, or has only looked at the map.
Plain == {"idle", "exists", "create", "forward"}

\* A step to a state in which a thread has decided nothing keeps the invariant.
LEMMA PlainStep ==
    ASSUME FrontInv, NEW c \in Caller, Moves(c),
           UNCHANGED <<metaVars, storeVars, faults, done, purged>>,
           calls' = calls \/ calls' = calls + 1,
           call'[c] \in CallState, call'[c].pc \in Plain
    PROVE  FrontInv'
<1>1. CallOK(c, call[c])'
  BY Zenon DEF CallOK, Plain
<1>2. Carried(call'[c]) = {}
  BY Zenon DEF Carried, Plain
<1>3. calls \in Nat /\ faults \in Nat /\ purged \subseteq FileId
  BY Zenon DEF FrontInv, TypeOK
<1>. QED
  BY <1>1, <1>2, <1>3, Quiet

\* A thread that only returns keeps the invariant.
LEMMA ReturnStep ==
    ASSUME FrontInv, NEW c \in Caller, Return(c),
           UNCHANGED <<metaVars, storeVars, calls, faults, done, purged>>
    PROVE  FrontInv'
<1>1. Moves(c) /\ call'[c] = Idle
  BY Served, Zenon DEF Return
<1>2. Idle \in CallState /\ Idle.pc \in Plain
  BY Zenon DEF CallState, Idle, Plain
<1>. QED
  BY <1>1, <1>2, PlainStep, Zenon

\* The client's request is counted.
LEMMA Requested ==
    ASSUME FrontInv, NEW c \in Caller, NEW op, Request(c, op)
    PROVE  /\ calls' = calls + 1 /\ calls \in Nat /\ calls' \in Nat /\ calls' >= calls
           /\ c[1] \in Node /\ Carried(call[c]) = {}
BY DEF FrontInv, TypeOK, Request, Caller, Carried, Idle

\* The arrival of a Create or Mkdir keeps the invariant.
LEMMA CreateStep ==
    ASSUME FrontInv, NEW c \in Caller, NEW op, NEW p \in Path, Create(c, op, p)
    PROVE  FrontInv'
<1>1. Moves(c) /\ call'[c] = [pc |-> "exists", path |-> p, dir |-> op = "Mkdir"]
  BY Served, Zenon DEF Create
<1>2. calls' = calls + 1
  BY Requested, Zenon DEF Create
<1>3. call'[c] \in CallState /\ call'[c].pc \in Plain
  <2>1. (op = "Mkdir") \in BOOLEAN
    BY Zenon
  <2>2. call'[c] \in CreateCall
    BY <1>1, <2>1 DEF CreateCall
  <2>. QED
    BY <1>1, <2>2 DEF CallState, Plain
<1>. QED
  BY <1>1, <1>2, <1>3, PlainStep, Zenon DEF Create

\* The first look of Create and Mkdir at the map keeps the invariant.
LEMMA CreateExistsStep ==
    ASSUME FrontInv, NEW c \in Caller, CreateExists(c)
    PROVE  FrontInv'
<1>1. CASE Return(c)
  BY <1>1, ReturnStep, Zenon DEF CreateExists
<1>2. CASE call' = [call EXCEPT ![c].pc = "create"]
  <2>1. call \in [Caller -> CallState] /\ call[c].pc = "exists"
    BY Zenon DEF FrontInv, TypeOK, CreateExists
  <2>2. call[c] \in CreateCall
    BY <2>1, CallKinds, Zenon
  <2>3. Moves(c) /\ call'[c] = [call[c] EXCEPT !.pc = "create"]
    BY <1>2, <2>1, Zenon DEF Moves
  <2>4. call'[c] \in CreateCall /\ call'[c].pc = "create"
    BY <2>2, <2>3, Zenon DEF CreateCall
  <2>. QED
    BY <2>3, <2>4, PlainStep, Zenon DEF CreateExists, CallState, Plain
<1>. QED
  BY <1>1, <1>2, Zenon DEF CreateExists

\* An entry that a frontend has is one of the file's, with its nodes.
LEMMA EntryType ==
    ASSUME FrontInv, NEW n \in Node, NEW f \in FileId, entries[n][f] # NULL
    PROVE  /\ entries[n][f] \in Entry /\ entries[n][f].file = f
           /\ entries[n][f].nodes = placed[f] /\ entries[n][f].nodes \in Nodes
           /\ entries[n][f].size \in Nat
BY DEF FrontInv, TypeOK, MetaType, MetaInv, Entry, Nodes

\* A change of metadata without a write is proposed.
LEMMA Proposed ==
    ASSUME FrontInv, NEW c \in Caller, NEW n \in Node, NEW e \in Entry,
           Serve(c, [pc |-> "commit", at |-> n, write |-> NULL, entry |-> e]),
           e.nodes = placed'[e.file]
    PROVE  /\ Moves(c) /\ call'[c] \in CallState /\ CallOK(c, call[c])'
           /\ Carried(call'[c]) = {}
<1>1. /\ Moves(c)
      /\ call'[c] = [pc |-> "commit", at |-> n, write |-> NULL, entry |-> e]
  BY Served
<1>2. call'[c] \in CallState
  BY <1>1 DEF CallState, CommitCall
<1>3. CallOK(c, call[c])'
  <2>1. call'[c].pc = "commit" /\ call'[c].write = NULL /\ call'[c].entry = e
    BY <1>1
  <2>. QED
    BY <2>1, Zenon DEF CallOK
<1>4. Carried(call'[c]) = {}
  BY <1>1 DEF Carried
<1>. QED
  BY <1>1, <1>2, <1>3, <1>4, Zenon

\* The second look of Create and Mkdir, with the choice of the file's nodes,
\* keeps the invariant.
LEMMA CreateProposeStep ==
    ASSUME FrontInv, NEW c \in Caller, NEW f \in FileId, CreatePropose(c, f)
    PROVE  FrontInv'
<1>. DEFINE n == c[1]
            nodes == IF call[c].dir THEN <<>> ELSE select_nodes(n)
            e == NewEntry(f, call[c].path, call[c].dir, nodes)
<1>1. n \in Node /\ MetaType /\ MetaInv /\ call[c] \in CallState
  BY Zenon DEF FrontInv, TypeOK, Caller
<1>2. call[c] \in CreateCall
  BY <1>1, CallKinds, Zenon DEF CreatePropose
<1>3. nodes \in Nodes /\ node_idx_after(n) \in Nat
  <2>1. <<>> \in Nodes
    BY DEF Nodes
  <2>2. next_node_idx[n] \in Nat
    BY <1>1, Zenon DEF MetaType
  <2>3. select_nodes(n) \in Nodes /\ node_idx_after(n) \in Nat
    BY <1>1, <2>2, SelectNodes, Zenon
  <2>. QED
    BY <2>1, <2>3, Zenon
<1>. HIDE DEF nodes, n
<1>4. placed[f] = NULL /\ placed' = [placed EXCEPT ![f] = nodes]
  BY Zenon DEF CreatePropose, nodes, n
<1>5. /\ next_node_idx' = next_node_idx
           \/ next_node_idx' = [next_node_idx EXCEPT ![n] = node_idx_after(n)]
      /\ UNCHANGED <<entries, next_seq, last_seq, learns, storeVars, calls, faults, done, purged>>
  BY Zenon DEF CreatePropose, n
<1>6. \A g \in FileId : placed[g] # NULL => placed'[g] = placed[g]
  BY <1>1, <1>4, Zenon DEF MetaType
<1>7. placed'[f] = nodes /\ placed' \in [FileId -> Nodes \cup {NULL}]
  BY <1>1, <1>3, <1>4, Zenon DEF MetaType
<1>8. MetaType'
  <2>1. next_node_idx' \in [Node -> Nat]
    BY <1>1, <1>3, <1>5, Zenon DEF MetaType
  <2>. QED
    BY <1>1, <1>5, <1>7, <2>1, Zenon DEF MetaType
<1>9. MetaInv' /\ \A m \in Node : KnownKept(m)
  <2>1. \A m \in Node, g \in FileId : entries[m][g] # NULL =>
           entries[m][g].file = g /\ entries[m][g].nodes = placed'[g]
    <3>. SUFFICES ASSUME NEW m \in Node, NEW g \in FileId, entries[m][g] # NULL
                  PROVE  entries[m][g].file = g /\ entries[m][g].nodes = placed'[g]
      BY Zenon
    <3>1. placed[g] \in Nodes /\ entries[m][g].file = g /\ entries[m][g].nodes = placed[g]
      BY EntryType, Zenon
    <3>. QED
      BY <1>6, <3>1, FrontendAssumption, Zenon DEF Nodes
  <2>2. \A m \in learns : m.entry.nodes = placed'[m.entry.file]
    <3>. SUFFICES ASSUME NEW m \in learns PROVE m.entry.nodes = placed'[m.entry.file]
      BY Zenon
    <3>1. m.entry.file \in FileId /\ m.entry.nodes \in Nodes
      BY <1>1, Zenon DEF MetaType, Entry, Nodes
    <3>2. m.entry.nodes = placed[m.entry.file]
      BY <1>1, Zenon DEF MetaInv
    <3>. QED
      BY <1>6, <3>1, <3>2, FrontendAssumption, Zenon DEF Nodes
  <2>. QED
    BY <1>5, <2>1, <2>2, Zenon DEF MetaInv, KnownKept
<1>10. StoreType' /\ LateInv' /\ Kept
  BY <1>5, <1>6, StoreSame, Zenon
<1>11. e \in Entry /\ e.nodes = nodes /\ e.file = f
  BY <1>2, <1>3, Zenon DEF NewEntry, Entry, CreateCall, Nodes
<1>12. /\ Moves(c) /\ call'[c] \in CallState /\ CallOK(c, call[c])'
       /\ Carried(call'[c]) = {}
  <2>1. CASE Return(c)
    <3>1. Moves(c) /\ call'[c] = Idle
      BY <2>1, Served, Zenon DEF Return
    <3>. QED
      BY <3>1 DEF CallState, CallOK, Carried, Idle
  <2>2. CASE Serve(c, [pc |-> "commit", at |-> n, write |-> NULL, entry |-> e])
    <3>. HIDE DEF e
    <3>. QED
      BY <1>1, <1>7, <1>11, <2>2, Proposed, Zenon
  <2>. QED
    BY <2>1, <2>2, Zenon DEF CreatePropose, nodes, n
<1>13. /\ call' \in [Caller -> CallState] /\ CallInv'
       /\ \A d \in Caller : d # c => call'[d] = call[d]
  BY <1>9, <1>10, <1>12, Others, Zenon
<1>14. TypeOK'
  BY <1>5, <1>8, <1>10, <1>13, Zenon DEF FrontInv, TypeOK
<1>15. \A d \in Caller : Carried(call'[d]) \subseteq Carried(call[d])
  BY <1>12, <1>13, Zenon
<1>16. calls' >= calls /\ done' = done
  BY <1>5 DEF FrontInv, TypeOK
<1>. QED
  BY <1>9, <1>10, <1>13, <1>14, <1>15, <1>16, Neutral, Zenon

\* A committed change carries the nodes of its file on.
LEMMA Changed ==
    ASSUME NEW e \in Entry
    PROVE  /\ Deletion(e) \in Entry /\ Deletion(e).file = e.file /\ Deletion(e).nodes = e.nodes
           /\ \A end \in Nat : /\ Grown(e, end) \in Entry /\ Grown(e, end).file = e.file
                               /\ Grown(e, end).nodes = e.nodes
<1>1. e.version \in Nat /\ e.size \in Nat
  BY Zenon DEF Entry
<1>2. ASSUME NEW x \in Entry, NEW k \in Nat
      PROVE  LET y == [x EXCEPT !.version = k]
             IN  y \in Entry /\ y.file = x.file /\ y.nodes = x.nodes
  BY Zenon DEF Entry
<1>3. /\ Deletion(e) \in Entry /\ Deletion(e).file = e.file
      /\ Deletion(e).nodes = e.nodes
  <2>. DEFINE x == [e EXCEPT !.deleted = TRUE]
  <2>1. x \in Entry /\ x.file = e.file /\ x.nodes = e.nodes
    BY Zenon DEF Entry
  <2>2. Deletion(e) = [x EXCEPT !.version = e.version + 1]
    BY Zenon DEF Deletion
  <2>. HIDE DEF x
  <2>. QED
    BY <1>1, <1>2, <2>1, <2>2
<1>4. ASSUME NEW end \in Nat
      PROVE  /\ Grown(e, end) \in Entry /\ Grown(e, end).file = e.file
             /\ Grown(e, end).nodes = e.nodes
  <2>. DEFINE m == MaxOf(e.size, end)
              x == [e EXCEPT !.version = e.version + 1]
  <2>1. m \in Nat
    BY <1>1, Zenon DEF MaxOf
  <2>2. Grown(e, end) = [x EXCEPT !.size = m]
    BY Zenon DEF Grown
  <2>3. x \in Entry /\ x.file = e.file /\ x.nodes = e.nodes
    BY <1>1, <1>2
  <2>. HIDE DEF m, x
  <2>. QED
    BY <2>1, <2>2, <2>3, Zenon DEF Entry
<1>. QED
  BY <1>3, <1>4, Zenon
-----------------------------------------------------------------------------
\* Every set of numbers has a least one.
LeastExists == \A T \in SUBSET Nat : T # {} => \E x \in T : \A y \in T : x <= y

\* A lookup by path returns a live file with that path, or none.
LEMMA Lookup ==
    ASSUME LeastExists, NEW n, NEW p
    PROVE  LET f == metadata_lookup_by_path(n, p)
           IN  f # NULL => f \in Live(n) /\ entries[n][f].path = p
<1>. DEFINE found == {f \in Live(n) : entries[n][f].path = p}
<1>1. CASE found = {}
  BY <1>1, Zenon DEF metadata_lookup_by_path
<1>2. CASE found # {}
  <2>1. found \subseteq Nat
    BY FrontendAssumption, Zenon DEF Live
  <2>2. \E f \in found : \A g \in found : f <= g
    BY <1>2, <2>1, Zenon DEF LeastExists
  <2>3. metadata_lookup_by_path(n, p) = CHOOSE f \in found : \A g \in found : f <= g
    BY <1>2, Zenon DEF metadata_lookup_by_path
  <2>. QED
    BY <2>2, <2>3, Zenon
<1>. QED
  BY <1>1, <1>2, Zenon

\* So the files that Write, Remove and Get are for have an entry.
LEMMA FilesAtKnown ==
    ASSUME LeastExists, NEW n, NEW p, NEW f \in FilesAt(n, p)
    PROVE  f \in FileId /\ entries[n][f] # NULL
BY Lookup DEF FilesAt, Live

-----------------------------------------------------------------------------
\* Facts about fields and numbers, apart from any state.

\* What a write record has.
LEMMA RecordFields ==
    ASSUME NEW w \in WriteRecord
    PROVE  w.offset \in Nat /\ w.data \in Content /\ Len(w.data) \in Nat
BY DEF WriteRecord, Content

\* Something that ends below a file's size ends below what starts above it.
LEMMA Below ==
    ASSUME NEW offset \in Nat, NEW len \in Nat, NEW size \in Nat, NEW next \in Nat,
           offset + len <= size, next >= size
    PROVE  offset + len <= next
OBVIOUS

\* Failures are counted.
LEMMA FaultCount ==
    ASSUME faults \in Nat, Fault \/ NoFault
    PROVE  faults' \in Nat
BY DEF Fault, NoFault

\* What a frontend has of a file names the file's nodes.
LEMMA EntryPlaced ==
    ASSUME FrontInv, NEW n \in Node, NEW f \in FileId, entries[n][f] # NULL
    PROVE  /\ entries[n][f] \in Entry
           /\ entries[n][f].nodes = placed[entries[n][f].file]
BY EntryType

\* The state of a read that starts.
LEMMA ReadState ==
    ASSUME NEW n \in Node, NEW f \in FileId, NEW nodes \in Nodes, NEW g \in GetRequest,
           NEW length \in Nat, NEW r,
           r = [pc |-> "read", at |-> n, file |-> f, nodes |-> nodes, get |-> g,
                length |-> length, i |-> 1, got |-> {}]
    PROVE  /\ r \in CallState
           /\ r.pc = "read" /\ r.nodes = nodes /\ r.file = f /\ r.got = {}
BY DEF CallState, ReadCall, Answers

\* The state of a read that has its majority.
LEMMA AnswerState ==
    ASSUME NEW f \in FileId, NEW nodes \in Nodes, NEW offset \in Nat, NEW data \in Content,
           NEW from \in SUBSET StorageNode
    PROVE  [pc |-> "answer", file |-> f, nodes |-> nodes, offset |-> offset,
            data |-> data, from |-> from] \in CallState
BY DEF CallState, AnswerCall

\* The state of a write that goes on to the next replica.
LEMMA NextWrite ==
    ASSUME NEW r \in WriteCall, NEW y, y = [r EXCEPT !.i = r.i + 1]
    PROVE  y \in WriteCall /\ AsWrite(y) = AsWrite(r) /\ y.pc = "write" /\ y.at = r.at
           /\ y.file = r.file
BY DEF WriteCall, AsWrite

\* What is announced of a commit.
LEMMA Announcements ==
    ASSUME NEW n \in Node, NEW k \in Nat, NEW e \in Entry,
           NEW m \in {[to |-> p, seq |-> k, entry |-> e] : p \in Node \ {n}}
    PROVE  m \in [to : Node, seq : Nat, entry : Entry] /\ m.entry = e
OBVIOUS

\* A failed call is not a success.
LEMMA FailedOutcome == \A file : Outcome(FALSE, file).ok = FALSE
BY DEF Outcome
=============================================================================
