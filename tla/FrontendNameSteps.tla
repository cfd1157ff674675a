-------------------------- MODULE FrontendNameSteps -------------------------
(***************************************************************************)
(* Steps of Frontend when clients use one frontend: each keeps NameInv.    *)
(***************************************************************************)
EXTENDS FrontendLemmas, FrontendNames

(***************************************************************************)
(* One frontend in use: steps that apply no metadata keep NameInv.         *)
(***************************************************************************)
\* What the types say of frontends and calls.
LEMMA Typed ==
    ASSUME FrontInv
    PROVE  MetaType /\ StoreType /\ call \in [Caller -> CallState]
BY Zenon DEF FrontInv, TypeOK

\* One entry of one frontend replaced
LEMMA OneEntry ==
    ASSUME NEW T, NEW m \in [Node -> [FileId -> T]], NEW a \in Node, NEW g \in FileId,
           NEW e, NEW m2, m2 = [m EXCEPT ![a][g] = e]
    PROVE  /\ \A n \in Node, f \in FileId : n # a \/ f # g => m2[n][f] = m[n][f]
           /\ m2[a][g] = e
BY Zenon

\* KnownInv of the next state, spelled out
LEMMA KnownNext ==
    ASSUME \A a \in Active, f \in FileId : entries'[a][f] # NULL =>
              /\ entries'[a][f].dir => entries'[a][f].nodes = <<>>
              /\ \A w \in done' : w.file = f => entries'[a][f].size > 0
              /\ \A n \in Node : entries'[n][f] # NULL => Before(entries'[n][f], entries'[a][f])
              /\ \A m \in learns' : m.entry.file = f =>
                    m.seq < next_seq'[a] /\ Before(m.entry, entries'[a][f])
    PROVE  KnownInv'
BY Zenon DEF KnownInv, Before

\* Before is reflexive and transitive.
LEMMA BeforeOrder ==
    /\ \A d \in Entry : Before(d, d)
    /\ \A d, e, g \in Entry : Before(d, e) /\ Before(e, g) => Before(d, g)
<1>1. \A d \in Entry : d.version \in Nat /\ d.size \in Nat /\ d.deleted \in BOOLEAN
  BY Zenon DEF Entry
<1>. QED
  BY <1>1 DEF Before

\* A file whose id was not drawn is unknown.
LEMMA Undrawn ==
    ASSUME FrontInv, NEW f \in FileId, placed[f] = NULL
    PROVE  Unheard(f)
<1>1. NULL \notin Nodes
  BY FrontendAssumption, Zenon DEF Nodes
<1>2. \A n \in Node : entries[n][f] = NULL
  BY <1>1, EntryType, Zenon
<1>3. \A m \in learns : m.entry.file # f
  <2>1. \A m \in learns : m.entry.nodes = placed[m.entry.file] /\ m.entry.nodes \in Nodes
    BY Zenon DEF FrontInv, TypeOK, MetaType, MetaInv, Entry, Nodes
  <2>. QED
    BY <1>1, <2>1, Zenon
<1>4. \A w \in done : w.file # f
  <2>1. \A w \in done : w.nodes = placed[w.file] /\ w.nodes \in Nodes
    BY Zenon DEF FrontInv, TypeOK, DoneInv, WriteOK, WriteRecord
  <2>. QED
    BY <1>1, <2>1, Zenon
<1>. QED
  BY <1>2, <1>3, <1>4, Zenon DEF Unheard

\* A thread that gets the lock is alone with it.
LEMMA NoHolder ==
    ASSUME NameInv, OneFrontend, NEW c \in Caller, c[1] \in Active, LockFree(c[1])
    PROVE  \A d \in Caller : ~ Holding(d)
<1>. SUFFICES ASSUME NEW d \in Caller, Holding(d) PROVE FALSE
  BY Zenon
<1>1. d[1] \in Active /\ call[d].at = d[1] /\ call[d].pc \in Locked
  BY Zenon DEF NameInv, LockInv, Holding, Locked
<1>2. d[1] = c[1]
  BY <1>1, Zenon DEF OneFrontend
<1>. QED
  BY <1>1, <1>2, Zenon DEF LockFree

Unlocked == {"idle", "exists", "create", "forward", "read", "answer"}

\* Thread c may get this state without a change of the metadata.
Proper(c, r) ==
    \/ r.pc \in Unlocked
    \/ /\ r.pc \in {"write", "delete", "commit", "rollback"}
       /\ r.at = c[1] /\ HeldOK(c, r)
       /\ \A d \in Caller : Holding(d) => d = c

\* A step of a thread that changes no map and sends nothing keeps NameInv, if what
\* the thread has decided is right.
LEMMA QuietNames ==
    ASSUME FrontInv, NameInv, NEW c \in Caller, Moves(c), c[1] \in Active,
           UNCHANGED <<entries, learns, done>>,
           \A a \in Node : next_seq'[a] \in Nat /\ next_seq'[a] >= next_seq[a],
           Proper(c, call'[c])
    PROVE  NameInv'
<1>. USE DEF NameInv
<1>1. \A d \in Caller : d # c => call'[d] = call[d]
  BY Typed, Zenon DEF Moves
<1>2. HeldInv'
  <2>. SUFFICES ASSUME NEW d \in Caller PROVE HeldOK(d, call[d])'
    BY Zenon DEF HeldInv
  <2>1. PICK r : r = call'[d]
    BY Zenon
  <2>2. HeldOK(d, r)
    <3>1. CASE d # c
      BY <1>1, <2>1, <3>1, Zenon DEF HeldInv
    <3>2. CASE d = c /\ r.pc \in Unlocked
      BY <3>2, Zenon DEF Unlocked, HeldOK
    <3>3. CASE d = c /\ r.pc \notin Unlocked
      BY <2>1, <3>3, Zenon DEF Proper
    <3>. QED
      BY <3>1, <3>2, <3>3, Zenon
  <2>. QED
    BY <2>1, <2>2, Zenon DEF HeldOK, Unheard, directory_has_children, Live
<1>3. LockInv'
  <2>1. \A d \in Caller : Holding(d)' => /\ d = c \/ Holding(d)
                                         /\ call'[d].at = d[1]
    BY <1>1, Zenon DEF LockInv, Holding, Proper, Unlocked
  <2>2. \A d, e \in Caller : Holding(d)' /\ Holding(e)' => d = e
    BY <1>1, <2>1, Zenon DEF LockInv, Holding, Proper, Unlocked
  <2>3. \A d \in Caller : call'[d].pc # "idle" => d[1] \in Active
    BY <1>1, Zenon DEF LockInv
  <2>. QED
    BY <2>1, <2>2, <2>3, Zenon DEF LockInv
<1>4. KnownInv'
  <2>1. \A a \in Active : a \in Node /\ next_seq[a] \in Nat
    BY FrontendAssumption, Typed, Zenon DEF MetaType
  <2>2. \A m \in learns : m.seq \in Nat
    BY Typed, Zenon DEF MetaType
  <2>3. \A a \in Active : \A m \in learns : m.seq < next_seq[a] => m.seq < next_seq'[a]
    BY <2>1, <2>2
  <2>. QED
    BY <2>3 DEF KnownInv, Before
<1>5. OrderInv'
  BY Zenon DEF OrderInv, Before
<1>. QED
  BY <1>2, <1>3, <1>4, <1>5, Zenon

\* A step of a storage node, or none
LEMMA SameNames ==
    ASSUME NameInv, UNCHANGED <<entries, learns, next_seq, done, call>>
    PROVE  NameInv'
<1>1. LockInv'
  BY DEF NameInv, LockInv, Holding
<1>2. KnownInv'
  BY DEF NameInv, KnownInv, Before
<1>3. OrderInv'
  BY DEF NameInv, OrderInv, Before
<1>4. HeldInv'
  <2>. SUFFICES ASSUME NEW c \in Caller PROVE HeldOK(c, call[c])'
    BY Zenon DEF HeldInv
  <2>1. HeldOK(c, call[c])
    BY Zenon DEF NameInv, HeldInv
  <2>. QED
    BY <2>1, Zenon DEF HeldOK, Unheard, directory_has_children, Live, Before
<1>. QED
  BY <1>1, <1>2, <1>3, <1>4, Zenon DEF NameInv
-----------------------------------------------------------------------------
\* A thread that is at work is one of the frontend in use.
LEMMA AtWork ==
    ASSUME FrontInv, NameInv, NEW c \in Caller
    PROVE  /\ call[c] \in CallState /\ c[1] \in Node
           /\ call[c].pc # "idle" => c[1] \in Active
           /\ Holding(c) => call[c].at = c[1] /\ \A d \in Caller : Holding(d) => d = c
           /\ HeldOK(c, call[c])
BY Zenon DEF FrontInv, TypeOK, NameInv, LockInv, HeldInv, Caller

\* Steps that leave the metadata and the lock alone
LEMMA UnlockedNames ==
    ASSUME FrontInv, NameInv, NEW c \in Caller, Moves(c), c[1] \in Active,
           UNCHANGED <<metaVars, done>>, call'[c].pc \in Unlocked
    PROVE  NameInv'
<1>1. \A a \in Node : next_seq'[a] \in Nat /\ next_seq'[a] >= next_seq[a]
  BY Typed DEF MetaType, metaVars
<1>. QED
  BY <1>1, QuietNames, Zenon DEF Proper, metaVars

\* The arrival of a Create or Mkdir keeps NameInv.
LEMMA CreateNames ==
    ASSUME FrontInv, NameInv, NEW c \in Caller, NEW op, NEW p, Create(c, op, p)
    PROVE  NameInv'
<1>1. Moves(c) /\ call'[c].pc = "exists"
  BY Served DEF Create
<1>. QED
  BY <1>1, UnlockedNames, Zenon DEF Create, Request, Unlocked

\* The start of a Get keeps NameInv.
LEMMA GetNames ==
    ASSUME FrontInv, NameInv, NEW c \in Caller, NEW p, NEW offset, NEW size,
           Get(c, p, offset, size)
    PROVE  NameInv'
<1>2. \/ \E f, g : StartRead(c, c[1], f, g)
      \/ \E g : Serve(c, [pc |-> "forward", get |-> g, left |-> Node \ {c[1]}])
  BY Zenon DEF Get
<1>3. Moves(c) /\ call'[c].pc \in {"read", "forward"}
  <2>1. ASSUME NEW f, NEW g, StartRead(c, c[1], f, g)
        PROVE  Moves(c) /\ call'[c].pc = "read"
    BY <2>1, Served DEF StartRead
  <2>2. ASSUME NEW g, Serve(c, [pc |-> "forward", get |-> g, left |-> Node \ {c[1]}])
        PROVE  Moves(c) /\ call'[c].pc = "forward"
    BY <2>2, Served
  <2>. QED
    BY <1>2, <2>1, <2>2, Zenon
<1>. QED
  BY <1>3, UnlockedNames, Zenon DEF Get, Request, Unlocked

\* Steps of handlers that do not propose keep NameInv.
LEMMA ReadNames ==
    ASSUME FrontInv, NameInv, NEW c \in Caller,
           \/ CreateExists(c) \/ Forward(c) \/ NotForwarded(c) \/ ReadReplica(c)
           \/ ReadFails(c) \/ Answer(c) \/ RollbackDone(c)
    PROVE  NameInv'
<1>1. call[c] \in CallState /\ UNCHANGED <<metaVars, done>>
  BY AtWork, Zenon DEF CreateExists, Forward, NotForwarded, ReadReplica, ReadFails, Answer, RollbackDone
<1>2. call[c].pc \in {"exists", "forward", "read", "answer", "rollback"}
  BY Zenon DEF CreateExists, Forward, NotForwarded, ReadReplica, ReadFails, Answer, RollbackDone
<1>3. c[1] \in Active
  BY <1>2, AtWork, Zenon
<1>4. Moves(c) /\ call'[c].pc \in Unlocked
  <2>1. ASSUME NEW r, r.pc \in Unlocked, Serve(c, r)
        PROVE  Moves(c) /\ call'[c].pc \in Unlocked
    BY <2>1, Served, Zenon
  <2>2. ASSUME Return(c)
        PROVE  Moves(c) /\ call'[c].pc \in Unlocked
    BY <2>1, <2>2 DEF Return, Idle, Unlocked
  <2>3. CASE CreateExists(c)
    <3>1. CASE call' = [call EXCEPT ![c].pc = "create"]
      <4>1. call[c] \in CreateCall
        BY <1>1, <2>3, CallKinds, Zenon DEF CreateExists
      <4>2. Moves(c) /\ call'[c] = [call[c] EXCEPT !.pc = "create"]
        BY <3>1, Typed, Zenon DEF Moves
      <4>. QED
        BY <4>1, <4>2, Zenon DEF CreateCall, Unlocked
    <3>. QED
      BY <2>2, <2>3, <3>1, Zenon DEF CreateExists
  <2>4. CASE Forward(c)
    <3>1. call[c] \in ForwardCall
      BY <1>1, <2>4, CallKinds, Zenon DEF Forward
    <3>2. ASSUME NEW n, NEW f, NEW g, StartRead(c, n, f, g)
          PROVE  Moves(c) /\ call'[c].pc \in Unlocked
      BY <3>2, Served DEF StartRead, Unlocked
    <3>3. ASSUME NEW x, call' = [call EXCEPT ![c].left = x]
          PROVE  Moves(c) /\ call'[c].pc \in Unlocked
      <4>1. Moves(c) /\ call'[c] = [call[c] EXCEPT !.left = x]
        BY <3>3, Typed, Zenon DEF Moves
      <4>. QED
        BY <3>1, <4>1, Zenon DEF ForwardCall, Unlocked
    <3>4. \/ \E n, f, g : StartRead(c, n, f, g)
          \/ \E x : call' = [call EXCEPT ![c].left = x]
      BY <2>4, Zenon DEF Forward
    <3>. QED
      BY <3>2, <3>3, <3>4, Zenon
  <2>5. CASE ReadReplica(c)
    <3>1. call[c] \in ReadCall
      BY <1>1, <2>5, CallKinds, Zenon DEF ReadReplica
    <3>2. ASSUME NEW got, call' = [call EXCEPT ![c].i = @ + 1, ![c].got = got]
          PROVE  Moves(c) /\ call'[c].pc \in Unlocked
      <4>. DEFINE y == [call[c] EXCEPT !.i = call[c].i + 1]
      <4>1. Moves(c) /\ call'[c] = [y EXCEPT !.got = got]
        BY <3>2, Typed, Zenon DEF Moves
      <4>2. y \in ReadCall
        BY <3>1 DEF ReadCall
      <4>. HIDE DEF y
      <4>. QED
        BY <4>1, <4>2, Zenon DEF ReadCall, Unlocked
    <3>3. ASSUME call' = [call EXCEPT ![c].i = @ + 1]
          PROVE  Moves(c) /\ call'[c].pc \in Unlocked
      <4>1. Moves(c) /\ call'[c] = [call[c] EXCEPT !.i = call[c].i + 1]
        BY <3>3, Typed, Zenon DEF Moves
      <4>. QED
        BY <3>1, <4>1, Zenon DEF ReadCall, Unlocked
    <3>4. ASSUME NEW data, NEW from,
                 Serve(c, [pc |-> "answer", file |-> call[c].file, nodes |-> call[c].nodes,
                           offset |-> call[c].get.offset, data |-> data, from |-> from])
          PROVE  Moves(c) /\ call'[c].pc \in Unlocked
      BY <2>1, <3>4 DEF Unlocked
    <3>. QED
      BY <2>5, <3>2, <3>3, <3>4, Zenon DEF ReadReplica
  <2>6. CASE ReadFails(c)
    BY <2>1, <2>2, <2>6 DEF ReadFails, GiveUp, Unlocked
  <2>. QED
    BY <2>2, <2>3, <2>4, <2>5, <2>6, Zenon DEF NotForwarded, Answer, RollbackDone
<1>. QED
  BY <1>1, <1>3, <1>4, UnlockedNames, Zenon

\* A storage call of a thread that holds the lock has ended.
LEMMA AnsweredNames ==
    ASSUME FrontInv, NameInv, NEW c \in Caller, NEW o, Answered(c, o),
           call[c].pc \in {"write", "delete", "rollback"},
           call[c].pc = "write" /\ o.ok => call[c].data # <<>>,
           UNCHANGED <<metaVars, done>>
    PROVE  NameInv'
<1>1. /\ call \in [Caller -> CallState] /\ call[c] \in CallState
      /\ c[1] \in Active /\ call[c].at = c[1] /\ HeldOK(c, call[c])
      /\ \A d \in Caller : Holding(d) => d = c
  BY AtWork, Typed, Zenon DEF Holding
<1>. DEFINE r == call[c]
            s == r.nodes[r.i]
            ok == IF o.ok THEN r.ok \cup {s} ELSE r.ok
            y == [r EXCEPT !.i = r.i + 1]
<1>2. Moves(c) /\ call'[c] = [y EXCEPT !.ok = ok]
  BY <1>1, Zenon DEF Moves, Answered
<1>3. /\ call'[c].pc = r.pc /\ call'[c].at = r.at /\ call'[c].nodes = r.nodes
      /\ call'[c].file = r.file
      /\ r.pc = "write" => /\ call'[c].data = r.data /\ call'[c].size = r.size
                           /\ call'[c].ok = ok
  <2>1. CASE r.pc = "write"
    <3>1. r \in WriteCall
      BY <1>1, <2>1, CallKinds, Zenon
    <3>2. /\ y \in WriteCall /\ y.pc = r.pc /\ y.at = r.at /\ y.nodes = r.nodes
          /\ y.file = r.file /\ y.data = r.data /\ y.size = r.size
      BY <3>1 DEF WriteCall
    <3>. HIDE DEF y, r, ok
    <3>. QED
      BY <1>2, <3>2, Zenon DEF WriteCall
  <2>2. CASE r.pc \in {"delete", "rollback"}
    <3>1. r \in DeleteCall
      BY <1>1, <2>2, CallKinds, Zenon
    <3>2. /\ y \in DeleteCall /\ y.pc = r.pc /\ y.at = r.at /\ y.nodes = r.nodes
          /\ y.file = r.file
      BY <3>1 DEF DeleteCall
    <3>. HIDE DEF y, r, ok
    <3>. QED
      BY <1>2, <2>2, <3>2, Zenon DEF DeleteCall
  <2>. QED
    BY <2>1, <2>2, Zenon
<1>4. r.pc = "write" => (ok # {} => r.data # <<>>)
  BY <1>1, Zenon DEF HeldOK
<1>. HIDE DEF r, ok, y, s
<1>5. PICK z : z = call'[c]
  BY Zenon
<1>6. HeldOK(c, z)
  BY <1>1, <1>3, <1>4, <1>5, Zenon DEF HeldOK, r
<1>7. Proper(c, z)
  BY <1>1, <1>3, <1>5, <1>6, Zenon DEF Proper, r
<1>8. \A a \in Node : next_seq'[a] \in Nat /\ next_seq'[a] >= next_seq[a]
  BY Typed DEF MetaType, metaVars
<1>. QED
  BY <1>1, <1>2, <1>5, <1>7, <1>8, QuietNames, Zenon DEF metaVars

\* The calls of Write and Remove to storage nodes keep NameInv.
LEMMA ReplicaNames ==
    ASSUME FrontInv, NameInv, NEW c \in Caller, WriteReplica(c) \/ DeleteReplica(c)
    PROVE  NameInv'
<1>1. CASE WriteReplica(c)
  <2>. DEFINE w == call[c]
              s == w.nodes[w.i]
              file == store[s][w.file]
  <2>1. /\ w.pc = "write" /\ w.i <= Len(w.nodes) /\ w \in CallState /\ StoreType
        /\ UNCHANGED <<metaVars, done>>
    BY <1>1, AtWork, Typed, Zenon DEF WriteReplica
  <2>2. w \in WriteCall
    BY <2>1, CallKinds, Zenon
  <2>3. /\ w.file \in FileId /\ w.nodes \in Nodes /\ w.offset \in Nat /\ w.data \in Content
        /\ w.i \in Nat \ {0}
    BY <2>2, Zenon DEF WriteCall
  <2>4. file \in File
    <3>1. s \in StorageNode
      BY <2>1, <2>3 DEF Nodes
    <3>. QED
      BY <2>1, <2>3, <3>1, Zenon DEF StoreType
  <2>5. \E o : Answered(c, o) /\ (o.ok => w.data # <<>>)
    <3>1. CASE Answered(c, handle_write(file, w.offset, w.data))
      BY <2>3, <2>4, <3>1, WriteOutcome, Zenon
    <3>2. CASE \E o \in WriteFaults(file, w.offset, w.data) : Answered(c, o)
      BY <2>3, <2>4, <3>2, FaultOutcome, Zenon
    <3>3. CASE Answered(c, Outcome(FALSE, file))
      BY <3>3, FailedOutcome, Zenon
    <3>. QED
      BY <1>1, <3>1, <3>2, <3>3, Zenon DEF WriteReplica
  <2>. QED
    BY <2>1, <2>5, AnsweredNames, Zenon
<1>2. CASE DeleteReplica(c)
  <2>1. call[c].pc \in {"delete", "rollback"} /\ UNCHANGED <<metaVars, done>>
    BY <1>2, Zenon DEF DeleteReplica
  <2>2. \E o : Answered(c, o)
    BY <1>2, Zenon DEF DeleteReplica
  <2>. QED
    BY <2>1, <2>2, AnsweredNames, Zenon
<1>. QED
  BY <1>1, <1>2, Zenon

-----------------------------------------------------------------------------
\* A thread gets the lock.
LEMMA LockNames ==
    ASSUME FrontInv, NameInv, OneFrontend, NEW c \in Caller, c[1] \in Active,
           LockFree(c[1]), NEW r, Serve(c, r),
           r.pc \in {"write", "delete", "commit", "rollback"}, r.at = c[1], HeldOK(c, r),
           UNCHANGED <<entries, learns, next_seq, done>>
    PROVE  NameInv'
<1>1. Moves(c) /\ call'[c] = r
  BY Served, Zenon
<1>2. Proper(c, r)
  BY NoHolder, Zenon DEF Proper
<1>3. \A a \in Node : next_seq'[a] \in Nat /\ next_seq'[a] >= next_seq[a]
  BY Typed DEF MetaType
<1>. QED
  BY <1>1, <1>2, <1>3, QuietNames, Zenon

\* Write takes the lock with the size that the frontend knows.
LEMMA WriteNames ==
    ASSUME FrontInv, NameInv, OneFrontend, NEW c \in Caller, NEW p, NEW offset, NEW data,
           Write(c, p, offset, data)
    PROVE  NameInv'
<1>1. PICK f \in FilesAt(c[1], p) :
          LET e == entries[c[1]][f] IN
          Serve(c, [pc |-> "write", at |-> c[1], file |-> f, nodes |-> e.nodes,
                    offset |-> IF offset = 0 /\ e.size > 0 THEN e.size ELSE offset,
                    data |-> data, size |-> e.size, id |-> calls,
                    i |-> 1, ok |-> {}])
  BY Zenon DEF Write
<1>. DEFINE e == entries[c[1]][f]
            r == [pc |-> "write", at |-> c[1], file |-> f, nodes |-> e.nodes,
                  offset |-> IF offset = 0 /\ e.size > 0 THEN e.size ELSE offset,
                  data |-> data, size |-> e.size, id |-> calls, i |-> 1, ok |-> {}]
<1>2. Serve(c, r)
  BY <1>1, Zenon
<1>3. e.nodes # <<>>
  BY Zenon DEF FilesAt
<1>4. HeldOK(c, r) /\ r.pc = "write" /\ r.at = c[1]
  BY <1>3, Zenon DEF HeldOK
<1>5. c[1] \in Active /\ LockFree(c[1]) /\ UNCHANGED <<entries, learns, next_seq, done>>
  BY Zenon DEF Write, Request, metaVars
<1>. HIDE DEF r
<1>. QED
  BY <1>2, <1>4, <1>5, LockNames, Zenon

\* Remove takes the lock with a live file.
LEMMA RemoveNames ==
    ASSUME FrontInv, NameInv, OneFrontend, NEW c \in Caller, NEW p, Remove(c, p)
    PROVE  NameInv'
<1>1. PICK f \in FilesAt(c[1], p) :
          Serve(c, [pc |-> "delete", at |-> c[1], file |-> f,
                    nodes |-> entries[c[1]][f].nodes, i |-> 1, ok |-> {}])
  BY Zenon DEF Remove
<1>. DEFINE r == [pc |-> "delete", at |-> c[1], file |-> f,
                  nodes |-> entries[c[1]][f].nodes, i |-> 1, ok |-> {}]
<1>2. entries[c[1]][f].nodes # <<>>
  BY Zenon DEF FilesAt
<1>3. HeldOK(c, r) /\ r.pc = "delete" /\ r.at = c[1]
  BY <1>2, Zenon DEF HeldOK
<1>4. c[1] \in Active /\ LockFree(c[1]) /\ UNCHANGED <<entries, learns, next_seq, done>>
  BY Zenon DEF Remove, Request, metaVars
<1>5. Serve(c, r)
  BY <1>1, Zenon
<1>. HIDE DEF r
<1>. QED
  BY <1>3, <1>4, <1>5, LockNames, Zenon

\* An entry that is proposed comes after the one that is there.
LEMMA ChangedAfter ==
    ASSUME NEW e \in Entry
    PROVE  /\ Before(e, Deletion(e)) /\ Deletion(e).path = e.path /\ Deletion(e).dir = e.dir
           /\ \A end \in Nat : /\ Before(e, Grown(e, end)) /\ Grown(e, end).dir = e.dir
                               /\ Grown(e, end).deleted = e.deleted
                               /\ Grown(e, end).size \in Nat /\ Grown(e, end).size >= end
<1>1. e.version \in Nat /\ e.size \in Nat /\ e.deleted \in BOOLEAN
  BY Zenon DEF Entry
<1>2. ASSUME NEW x \in Entry, NEW k \in Nat
      PROVE  LET y == [x EXCEPT !.version = k]
             IN  /\ y \in Entry /\ y.version = k /\ y.path = x.path /\ y.dir = x.dir
                 /\ y.deleted = x.deleted /\ y.size = x.size
  BY Zenon DEF Entry
<1>3. /\ Deletion(e).version = e.version + 1 /\ Deletion(e).size = e.size
      /\ Deletion(e).deleted = TRUE /\ Deletion(e).path = e.path /\ Deletion(e).dir = e.dir
  <2>. DEFINE x == [e EXCEPT !.deleted = TRUE]
  <2>1. /\ x \in Entry /\ x.version = e.version /\ x.size = e.size /\ x.deleted = TRUE
        /\ x.path = e.path /\ x.dir = e.dir
    BY Zenon DEF Entry
  <2>2. Deletion(e) = [x EXCEPT !.version = e.version + 1]
    BY <2>1, Zenon DEF Deletion
  <2>. HIDE DEF x
  <2>. QED
    BY <1>1, <1>2, <2>1, <2>2
<1>4. ASSUME NEW end \in Nat
      PROVE  /\ Grown(e, end).version = e.version + 1
             /\ Grown(e, end).size = MaxOf(e.size, end)
             /\ Grown(e, end).deleted = e.deleted /\ Grown(e, end).dir = e.dir
  <2>. DEFINE x == [e EXCEPT !.version = e.version + 1]
              m == MaxOf(e.size, end)
  <2>1. /\ x \in Entry /\ x.version = e.version + 1 /\ x.size = e.size
        /\ x.deleted = e.deleted /\ x.dir = e.dir
    BY <1>1, <1>2
  <2>2. Grown(e, end) = [x EXCEPT !.size = m]
    BY <2>1, Zenon DEF Grown
  <2>. HIDE DEF x, m
  <2>3. Grown(e, end).size = m /\ Grown(e, end).version = x.version
        /\ Grown(e, end).deleted = x.deleted /\ Grown(e, end).dir = x.dir
    BY <2>1, <2>2, Zenon DEF Entry
  <2>. QED
    BY <2>1, <2>3, Zenon DEF m
<1>. QED
  BY <1>1, <1>3, <1>4 DEF Before, MaxOf

\* Rmdir proposes the deletion of a directory without live children.
LEMMA RmdirNames ==
    ASSUME FrontInv, NameInv, OneFrontend, LeastExists, NEW c \in Caller, NEW p, Rmdir(c, p)
    PROVE  NameInv'
<1>1. PICK a : a = c[1]
  BY Zenon
<1>2. PICK f : f = metadata_lookup_by_path(a, p)
  BY Zenon
<1>3. /\ a \in Active /\ a \in Node /\ LockFree(a) /\ ~ directory_has_children(a, p)
      /\ UNCHANGED <<entries, learns, next_seq, done>>
  BY <1>1, FrontendAssumption, Zenon DEF Rmdir, Request, metaVars
<1>4. f # NULL
  BY <1>1, <1>2, Zenon DEF Rmdir, path_is_existing_directory
<1>5. f \in FileId /\ entries[a][f] # NULL /\ entries[a][f].path = p
  BY <1>2, <1>4, Lookup, Zenon DEF Live
<1>6. PICK e : e = Deletion(entries[a][f])
  BY Zenon
<1>7. /\ e.file = f /\ Before(entries[a][f], e) /\ e.path = p /\ (e.dir => e.nodes = <<>>)
  <2>1. entries[a][f] \in Entry /\ entries[a][f].file = f
    BY <1>3, <1>5, EntryType, Zenon
  <2>2. entries[a][f].dir => entries[a][f].nodes = <<>>
    BY <1>3, <1>5, Zenon DEF NameInv, KnownInv
  <2>. QED
    BY <1>5, <1>6, <2>1, <2>2, Changed, ChangedAfter, Zenon
<1>. DEFINE r == [pc |-> "commit", at |-> a, write |-> NULL, entry |-> e]
<1>8. Serve(c, r)
  BY <1>1, <1>2, <1>6, Zenon DEF Rmdir
<1>9. HeldOK(c, r) /\ r.pc = "commit" /\ r.at = c[1]
  BY <1>1, <1>3, <1>5, <1>7, Zenon DEF HeldOK
<1>. HIDE DEF r
<1>. QED
  BY <1>1, <1>3, <1>8, <1>9, LockNames, Zenon

\* Create and Mkdir propose a file that nobody has heard of.
LEMMA CreateProposeNames ==
    ASSUME FrontInv, NameInv, OneFrontend, NEW c \in Caller, NEW f \in FileId,
           CreatePropose(c, f)
    PROVE  NameInv'
<1>1. /\ call[c].pc = "create" /\ LockFree(c[1]) /\ placed[f] = NULL
      /\ UNCHANGED <<entries, learns, next_seq, done>>
  BY Zenon DEF CreatePropose
<1>2. c[1] \in Active /\ c[1] \in Node /\ call[c] \in CallState
  BY <1>1, AtWork, Zenon
<1>3. \A a \in Node : next_seq'[a] \in Nat /\ next_seq'[a] >= next_seq[a]
  BY <1>1, Typed DEF MetaType
<1>4. CASE Return(c)
  <2>1. Moves(c) /\ call'[c] = Idle
    BY <1>4, Served, Zenon DEF Return
  <2>2. Proper(c, Idle)
    BY Zenon DEF Proper, Unlocked, Idle
  <2>. QED
    BY <1>1, <1>2, <1>3, <2>1, <2>2, QuietNames, Zenon
<1>5. CASE ~ Return(c)
  <2>1. PICK nodes : nodes = IF call[c].dir THEN <<>> ELSE select_nodes(c[1])
    BY Zenon
  <2>2. PICK e : e = NewEntry(f, call[c].path, call[c].dir, nodes)
    BY Zenon
  <2>. DEFINE r == [pc |-> "commit", at |-> c[1], write |-> NULL, entry |-> e]
  <2>3. Serve(c, r)
    BY <1>5, <2>1, <2>2, Zenon DEF CreatePropose
  <2>4. e.file = f /\ ~ e.deleted /\ (e.dir => e.nodes = <<>>)
    BY <2>1, <2>2, Zenon DEF NewEntry
  <2>5. Unheard(f) /\ entries[c[1]][f] = NULL
    BY <1>1, <1>2, Undrawn, Zenon DEF Unheard
  <2>6. HeldOK(c, r) /\ r.pc = "commit" /\ r.at = c[1]
    BY <2>4, <2>5, Zenon DEF HeldOK
  <2>. HIDE DEF r
  <2>. QED
    BY <1>1, <1>2, <2>3, <2>6, LockNames, Zenon
<1>. QED
  BY <1>4, <1>5, Zenon
-----------------------------------------------------------------------------
\* The thread that has the lock goes on, or gives it back.
LEMMA HolderNames ==
    ASSUME FrontInv, NameInv, NEW c \in Caller, Holding(c), NEW r, Serve(c, r),
           r.pc \in Unlocked \/ (/\ r.pc \in {"write", "delete", "commit", "rollback"}
                                 /\ r.at = c[1] /\ HeldOK(c, r)),
           UNCHANGED <<entries, learns, done>>,
           \A a \in Node : next_seq'[a] \in Nat /\ next_seq'[a] >= next_seq[a]
    PROVE  NameInv'
<1>1. Moves(c) /\ call'[c] = r
  BY Served, Zenon
<1>2. c[1] \in Active /\ \A d \in Caller : Holding(d) => d = c
  BY AtWork, Zenon DEF Holding
<1>3. Proper(c, r)
  BY <1>2, Zenon DEF Proper
<1>. QED
  BY <1>1, <1>2, <1>3, QuietNames, Zenon

\* The metadata that is proposed for a file under the lock
LEMMA HeldEntry ==
    ASSUME FrontInv, NameInv, NEW c \in Caller, call[c].pc \in {"write", "delete"}
    PROVE  /\ c[1] \in Node /\ call[c].at = c[1] /\ call[c].file \in FileId
           /\ entries[c[1]][call[c].file] # NULL
           /\ entries[c[1]][call[c].file] \in Entry
           /\ entries[c[1]][call[c].file].file = call[c].file
           /\ ~ entries[c[1]][call[c].file].dir
<1>1. /\ call[c] \in CallState /\ CallOK(c, call[c]) /\ HeldOK(c, call[c])
      /\ c[1] \in Node /\ c[1] \in Active
  BY AtWork, Zenon DEF FrontInv, CallInv
<1>2. PICK r : r = call[c]
  BY Zenon
<1>3. r.file \in FileId
  BY <1>1, <1>2, CallKinds, Zenon DEF WriteCall, DeleteCall
<1>4. /\ r.at = c[1] /\ entries[c[1]][r.file] # NULL /\ r.nodes # <<>>
      /\ r.nodes = placed[r.file]
  BY <1>1, <1>2, Zenon DEF CallOK, HeldOK
<1>5. /\ entries[c[1]][r.file] \in Entry /\ entries[c[1]][r.file].file = r.file
      /\ entries[c[1]][r.file].nodes = r.nodes
  BY <1>1, <1>3, <1>4, EntryType, Zenon
<1>6. entries[c[1]][r.file].dir => entries[c[1]][r.file].nodes = <<>>
  BY <1>1, <1>3, <1>4, Zenon DEF NameInv, KnownInv
<1>. QED
  BY <1>1, <1>2, <1>3, <1>4, <1>5, <1>6, Zenon

\* Remove proposes the deletion of the file under the lock.
LEMMA DeleteDecideNames ==
    ASSUME FrontInv, NameInv, NEW c \in Caller, DeleteDecide(c)
    PROVE  NameInv'
<1>1. call[c].pc = "delete" /\ UNCHANGED <<entries, learns, next_seq, done>>
  BY Zenon DEF DeleteDecide, metaVars
<1>2. Holding(c) /\ \A a \in Node : next_seq'[a] \in Nat /\ next_seq'[a] >= next_seq[a]
  BY <1>1, Typed DEF Holding, MetaType
<1>3. CASE Return(c)
  BY <1>1, <1>2, <1>3, HolderNames, Zenon DEF Return, Idle, Unlocked
<1>4. CASE ~ Return(c)
  <2>1. PICK f : f = call[c].file
    BY Zenon
  <2>2. PICK e : e = Deletion(entries[c[1]][f])
    BY Zenon
  <2>. DEFINE r == [pc |-> "commit", at |-> c[1], write |-> NULL, entry |-> e]
  <2>3. /\ entries[c[1]][f] # NULL /\ entries[c[1]][f] \in Entry
        /\ entries[c[1]][f].file = f /\ ~ entries[c[1]][f].dir /\ call[c].at = c[1]
    BY <1>1, <2>1, HeldEntry, Zenon
  <2>4. Serve(c, r)
    BY <1>4, <2>1, <2>2, <2>3, Zenon DEF DeleteDecide
  <2>5. e.file = f /\ Before(entries[c[1]][f], e) /\ ~ e.dir
    BY <2>2, <2>3, Changed, ChangedAfter, Zenon
  <2>6. HeldOK(c, r) /\ r.pc = "commit" /\ r.at = c[1]
    BY <2>3, <2>5, Zenon DEF HeldOK
  <2>. HIDE DEF r
  <2>. QED
    BY <1>1, <1>2, <2>4, <2>6, HolderNames, Zenon
<1>. QED
  BY <1>3, <1>4, Zenon
-----------------------------------------------------------------------------
(***************************************************************************)
(* One frontend in use: proposals, announcements and restarts keep         *)
(* NameInv.                                                                *)
(***************************************************************************)
LEMMA CommitFailsNames ==
    ASSUME FrontInv, NameInv, NEW c \in Caller, CommitFails(c)
    PROVE  NameInv'
<1>1. PICK q : q = call[c]
  BY Zenon
<1>2. q.pc = "commit" /\ UNCHANGED <<entries, learns, done>> /\ Holding(c)
  BY <1>1, Zenon DEF CommitFails, Holding
<1>3. /\ q \in CallState /\ HeldOK(c, q) /\ q.at = c[1] /\ c[1] \in Active /\ c[1] \in Node
  BY <1>1, <1>2, AtWork, Zenon
<1>4. \A a \in Node : next_seq'[a] \in Nat /\ next_seq'[a] >= next_seq[a]
  <2>1. next_seq \in [Node -> Nat] /\ next_seq' = [next_seq EXCEPT ![q.at] = @ + 1]
    BY <1>1, Typed, Zenon DEF CommitFails, MetaType
  <2>. QED
    BY <1>3, <2>1
<1>5. CASE Return(c)
  BY <1>2, <1>4, <1>5, HolderNames, Zenon DEF Return, Idle, Unlocked
<1>6. CASE ~ Return(c)
  <2>. DEFINE r == [pc |-> "rollback", at |-> q.at, file |-> q.entry.file,
                    nodes |-> q.entry.nodes, i |-> 1, ok |-> {}]
  <2>1. Serve(c, r) /\ q.write # NULL /\ q.write.size = 0
    BY <1>1, <1>6, Zenon DEF CommitFails
  <2>2. /\ entries[c[1]][q.entry.file] # NULL /\ entries[c[1]][q.entry.file].size = 0
    BY <1>2, <1>3, <2>1, Zenon DEF HeldOK
  <2>3. q.entry.file \in FileId
    BY <1>2, <1>3, CallKinds, Zenon DEF CommitCall, Entry
  <2>4. \A w \in done : w.file # q.entry.file
    BY <1>3, <2>2, <2>3 DEF NameInv, KnownInv
  <2>5. HeldOK(c, r) /\ r.pc = "rollback" /\ r.at = c[1]
    BY <1>3, <2>4, Zenon DEF HeldOK
  <2>. HIDE DEF r
  <2>. QED
    BY <1>2, <1>4, <2>1, <2>5, HolderNames, Zenon
<1>. QED
  BY <1>5, <1>6, Zenon

\* What everybody knows of the file of a proposal comes before the proposal.
LEMMA ProposalAfter ==
    ASSUME FrontInv, NameInv, NEW c \in Caller, call[c].pc = "commit"
    PROVE  LET e == call[c].entry
               a == c[1]
           IN  /\ call[c].at = a /\ a \in Active /\ a \in Node /\ next_seq[a] \in Nat
               /\ e \in Entry /\ e.file \in FileId
               /\ \A n \in Node : entries[n][e.file] # NULL => Before(entries[n][e.file], e)
               /\ \A m \in learns : m.entry.file = e.file =>
                     m.seq < next_seq[a] /\ Before(m.entry, e)
               /\ \A w \in done : w.file = e.file => e.size > 0
<1>1. PICK q, e, a : q = call[c] /\ e = call[c].entry /\ a = c[1]
  BY Zenon
<1>2. /\ q \in CallState /\ HeldOK(c, q) /\ q.at = a /\ a \in Active /\ a \in Node
  BY <1>1, AtWork, Zenon DEF Holding
<1>3. e \in Entry /\ e.file \in FileId /\ e.size \in Nat /\ next_seq[a] \in Nat
  BY <1>1, <1>2, CallKinds, Typed, Zenon DEF CommitCall, Entry, MetaType
<1>4. CASE entries[a][e.file] = NULL
  <2>1. Unheard(e.file)
    BY <1>1, <1>2, <1>4, Zenon DEF HeldOK
  <2>. QED
    BY <1>1, <1>2, <1>3, <2>1, Zenon DEF Unheard
<1>5. CASE entries[a][e.file] # NULL
  <2>1. PICK k : k = entries[a][e.file]
    BY Zenon
  <2>2. k \in Entry /\ k.size \in Nat /\ Before(k, e)
    BY <1>1, <1>2, <1>3, <1>5, <2>1, EntryType, Zenon DEF HeldOK
  <2>3. /\ \A n \in Node : entries[n][e.file] # NULL => Before(entries[n][e.file], k)
        /\ \A m \in learns : m.entry.file = e.file => m.seq < next_seq[a] /\ Before(m.entry, k)
        /\ \A w \in done : w.file = e.file => k.size > 0
    BY <1>2, <1>3, <1>5, <2>1, Zenon DEF NameInv, KnownInv
  <2>4. \A n \in Node : entries[n][e.file] # NULL => entries[n][e.file] \in Entry
    BY <1>3, EntryType, Zenon
  <2>5. \A m \in learns : m.entry \in Entry
    BY Typed, Zenon DEF MetaType
  <2>6. \A d \in Entry : Before(d, k) => Before(d, e)
    BY <1>3, <2>2, BeforeOrder, Zenon
  <2>7. \A n \in Node : entries[n][e.file] # NULL => Before(entries[n][e.file], e)
    BY <2>3, <2>4, <2>6, Zenon
  <2>8. \A m \in learns : m.entry.file = e.file => m.seq < next_seq[a] /\ Before(m.entry, e)
    BY <2>3, <2>5, <2>6, Zenon
  <2>9. \A w \in done : w.file = e.file => e.size > 0
    BY <1>3, <2>2, <2>3 DEF Before
  <2>. QED
    BY <1>1, <1>2, <1>3, <2>7, <2>8, <2>9, Zenon
<1>. QED
  BY <1>4, <1>5, Zenon

\* A proposal is applied at the frontend in use and sent to the others.
LEMMA CommitNames ==
    ASSUME FrontInv, NameInv, OneFrontend, NEW c \in Caller, Commit(c)
    PROVE  NameInv'
<1>1. PICK q, e, a : q = call[c] /\ e = call[c].entry /\ a = c[1]
  BY Zenon
<1>2. q.pc = "commit" /\ Holding(c)
  BY <1>1, Zenon DEF Commit, Holding
<1>3. /\ q.at = a /\ a \in Active /\ a \in Node /\ next_seq[a] \in Nat
      /\ e \in Entry /\ e.file \in FileId
      /\ \A n \in Node : entries[n][e.file] # NULL => Before(entries[n][e.file], e)
      /\ \A m \in learns : m.entry.file = e.file => m.seq < next_seq[a] /\ Before(m.entry, e)
      /\ \A w \in done : w.file = e.file => e.size > 0
  BY <1>1, <1>2, ProposalAfter, Zenon
<1>4. /\ \A b \in Active : b = a
      /\ \A d \in Caller : Holding(d) => d = c
      /\ HeldOK(c, q) /\ call \in [Caller -> CallState]
  BY <1>1, <1>2, <1>3, AtWork, Typed, Zenon DEF OneFrontend
<1>5. /\ entries' = [entries EXCEPT ![a][e.file] = e]
      /\ next_seq' = [next_seq EXCEPT ![a] = @ + 1]
      /\ call' = [call EXCEPT ![c] = Idle]
      /\ done' = IF q.write = NULL THEN done ELSE done \cup {q.write}
  BY <1>1, <1>3, Zenon DEF Commit, metadata_apply_entry, Return, Serve
<1>6. \A m \in learns' : m \in learns \/ (m.to \in Node \ {a} /\ m.seq = next_seq[a] /\ m.entry = e)
  <2>1. learns' \subseteq learns \cup {[to |-> p, seq |-> next_seq[a], entry |-> e] : p \in Node \ {a}}
    BY <1>1, <1>3, Zenon DEF Commit, Deliverable
  <2>2. ASSUME NEW m \in learns', m \notin learns
        PROVE  m.to \in Node \ {a} /\ m.seq = next_seq[a] /\ m.entry = e
    <3>1. PICK p \in Node \ {a} : m = [to |-> p, seq |-> next_seq[a], entry |-> e]
      BY <2>1, <2>2, Zenon
    <3>. QED
      BY <3>1, Zenon
  <2>. QED
    BY <2>2, Zenon
<1>7. /\ \A n \in Node, f \in FileId : n # a \/ f # e.file => entries'[n][f] = entries[n][f]
      /\ entries'[a][e.file] = e
  <2>1. entries \in [Node -> [FileId -> Entry \cup {NULL}]] /\ a \in Node /\ e.file \in FileId
    BY <1>3, Typed, Zenon DEF MetaType
  <2>2. entries' = [entries EXCEPT ![a][e.file] = e]
    BY <1>5, Zenon
  <2>. QED
    BY <2>1, <2>2, OneEntry, Zenon
<1>8. next_seq'[a] = next_seq[a] + 1
  BY <1>3, <1>5, Typed, Zenon DEF MetaType
<1>9. \A w \in done' : w \in done \/ (w.file = e.file /\ e.size > 0)
  BY <1>1, <1>2, <1>4, <1>5, Zenon DEF HeldOK
<1>10. \A d \in Caller : call'[d] = IF d = c THEN Idle ELSE call[d]
  BY <1>4, <1>5, Zenon
<1>11. \A m \in learns : /\ m.to \in Node /\ m.to # a /\ m.seq \in Nat
                         /\ m.entry \in Entry /\ m.entry.file \in FileId
  BY <1>3, Typed, Zenon DEF MetaType, Entry, NameInv, LockInv
<1>12. \A d \in Caller : call'[d].pc \notin {"write", "delete", "commit", "rollback"}
  <2>. SUFFICES ASSUME NEW d \in Caller
                PROVE  call'[d].pc \notin {"write", "delete", "commit", "rollback"}
    BY Zenon
  <2>1. CASE d = c
    <3>1. call'[d] = Idle
      BY <1>10, <2>1, Zenon
    <3>. QED
      BY <3>1 DEF Idle
  <2>2. CASE d # c
    BY <1>4, <1>10, <2>2, Zenon DEF Holding
  <2>. QED
    BY <2>1, <2>2, Zenon
<1>13. LockInv'
  <2>1. \A m \in learns' : m.to \notin Active
    <3>1. \A m \in learns' : m.to # a
      BY <1>6, <1>11, Zenon
    <3>. QED
      BY <1>4, <3>1, Zenon
  <2>2. \A d \in Caller : ~ Holding(d)'
    BY <1>12, Zenon DEF Holding
  <2>3. \A d \in Caller : call'[d].pc # "idle" => d[1] \in Active
    BY <1>10 DEF Idle, NameInv, LockInv
  <2>. QED
    BY <2>1, <2>2, <2>3, Zenon DEF LockInv
<1>14. HeldInv'
  BY <1>12, Zenon DEF HeldInv, HeldOK
<1>15. KnownInv'
  <2>1. ASSUME NEW f \in FileId, f # e.file, entries'[a][f] # NULL
        PROVE  /\ entries'[a][f].dir => entries'[a][f].nodes = <<>>
               /\ \A w \in done' : w.file = f => entries'[a][f].size > 0
               /\ \A n \in Node : entries'[n][f] # NULL => Before(entries'[n][f], entries'[a][f])
               /\ \A m \in learns' : m.entry.file = f =>
                     m.seq < next_seq'[a] /\ Before(m.entry, entries'[a][f])
    <3>1. \A n \in Node : entries'[n][f] = entries[n][f]
      BY <1>7, <2>1, Zenon
    <3>2. /\ entries[a][f].dir => entries[a][f].nodes = <<>>
          /\ \A w \in done : w.file = f => entries[a][f].size > 0
          /\ \A n \in Node : entries[n][f] # NULL => Before(entries[n][f], entries[a][f])
          /\ \A m \in learns : m.entry.file = f =>
                m.seq < next_seq[a] /\ Before(m.entry, entries[a][f])
      BY <1>3, <2>1, <3>1, Zenon DEF NameInv, KnownInv
    <3>3. \A w \in done' : w.file = f => w \in done
      BY <1>9, <2>1, Zenon
    <3>4. \A m \in learns' : m.entry.file = f => m \in learns
      BY <1>6, <2>1, Zenon
    <3>5. \A m \in learns' : m.entry.file = f =>
             m.seq < next_seq'[a] /\ Before(m.entry, entries[a][f])
      BY <1>3, <1>8, <1>11, <3>2, <3>4
    <3>. QED
      BY <1>3, <3>1, <3>2, <3>3, <3>5, Zenon
  <2>2. /\ e.dir => e.nodes = <<>>
        /\ \A w \in done' : w.file = e.file => e.size > 0
        /\ \A n \in Node : entries'[n][e.file] # NULL => Before(entries'[n][e.file], e)
        /\ \A m \in learns' : m.entry.file = e.file => m.seq < next_seq'[a] /\ Before(m.entry, e)
    <3>1. e.dir => e.nodes = <<>>
      BY <1>1, <1>2, <1>4, Zenon DEF HeldOK
    <3>2. Before(e, e)
      BY <1>3, BeforeOrder, Zenon
    <3>3. \A n \in Node : entries'[n][e.file] # NULL => Before(entries'[n][e.file], e)
      BY <1>3, <1>7, <3>2, Zenon
    <3>4. \A m \in learns' : m.entry.file = e.file => m.seq < next_seq'[a] /\ Before(m.entry, e)
      BY <1>3, <1>6, <1>8, <1>11, <3>2
    <3>. QED
      BY <1>3, <1>9, <3>1, <3>3, <3>4, Zenon
  <2>3. ASSUME NEW f \in FileId, entries'[a][f] # NULL
        PROVE  /\ entries'[a][f].dir => entries'[a][f].nodes = <<>>
               /\ \A w \in done' : w.file = f => entries'[a][f].size > 0
               /\ \A n \in Node : entries'[n][f] # NULL => Before(entries'[n][f], entries'[a][f])
               /\ \A m \in learns' : m.entry.file = f =>
                     m.seq < next_seq'[a] /\ Before(m.entry, entries'[a][f])
    BY <1>7, <2>1, <2>2, <2>3, Zenon
  <2>. QED
    BY <1>4, <2>3, KnownNext, Zenon
<1>16. OrderInv'
  <2>1. ASSUME NEW m \in learns'
        PROVE  entries'[m.to][m.entry.file] # NULL =>
                  Before(entries'[m.to][m.entry.file], m.entry)
    <3>1. m.to \in Node /\ m.to # a /\ m.entry.file \in FileId
      BY <1>3, <1>6, <1>11, Zenon
    <3>2. entries'[m.to][m.entry.file] = entries[m.to][m.entry.file]
      BY <1>7, <3>1, Zenon
    <3>3. CASE m \in learns
      BY <3>2, <3>3, Zenon DEF NameInv, OrderInv
    <3>4. CASE m.entry = e
      BY <1>3, <3>1, <3>2, <3>4, Zenon
    <3>. QED
      BY <1>6, <3>3, <3>4, Zenon
  <2>2. ASSUME NEW m \in learns', NEW l \in learns',
               l.to = m.to, l.entry.file = m.entry.file, l.seq < m.seq
        PROVE  Before(l.entry, m.entry)
    <3>1. CASE l \in learns /\ m \in learns
      BY <2>2, <3>1, Zenon DEF NameInv, OrderInv
    <3>2. CASE l \in learns /\ m.entry = e
      BY <1>3, <2>2, <3>2, Zenon
    <3>3. CASE m \in learns /\ l.seq = next_seq[a] /\ l.entry = e
      BY <1>3, <1>11, <2>2, <3>3
    <3>4. CASE l.seq = next_seq[a] /\ m.seq = next_seq[a]
      BY <1>3, <2>2, <3>4
    <3>. QED
      BY <1>6, <3>1, <3>2, <3>3, <3>4, Zenon
  <2>. QED
    BY <2>1, <2>2, Zenon DEF OrderInv, Before
<1>. QED
  BY <1>13, <1>14, <1>15, <1>16, Zenon DEF NameInv

\* The decisions of a thread stay good while its frontend's map stays the same.
LEMMA HeldKept ==
    ASSUME FrontInv, NameInv, NEW c \in Caller, call'[c] = call[c], done' = done,
           c[1] \in Active => \A f \in FileId : entries'[c[1]][f] = entries[c[1]][f],
           \A f \in FileId : Unheard(f) => Unheard(f)'
    PROVE  HeldOK(c, call[c])'
<1>1. PICK r : r = call[c]
  BY Zenon
<1>2. HeldOK(c, r) /\ r \in CallState /\ c[1] \in Node /\ (r.pc # "idle" => c[1] \in Active)
  BY <1>1, AtWork, Zenon
<1>3. HeldOK(c, r)'
  <2>1. CASE r.pc \notin {"write", "delete", "commit", "rollback"}
    BY <2>1, Zenon DEF HeldOK
  <2>2. CASE r.pc = "write"
    <3>1. r.file \in FileId /\ c[1] \in Active
      BY <1>2, <2>2, CallKinds, Zenon DEF WriteCall
    <3>. QED
      BY <1>2, <2>2, <3>1, Zenon DEF HeldOK
  <2>3. CASE r.pc = "commit"
    <3>1. r.entry.file \in FileId /\ c[1] \in Active
      BY <1>2, <2>3, CallKinds, Zenon DEF CommitCall, Entry
    <3>2. \A p : directory_has_children(c[1], p)' <=> directory_has_children(c[1], p)
      BY <3>1, Zenon DEF directory_has_children, Live
    <3>. QED
      BY <1>2, <2>3, <3>1, <3>2, Zenon DEF HeldOK, Before
  <2>4. CASE r.pc \in {"delete", "rollback"}
    BY <1>2, <2>4, Zenon DEF HeldOK
  <2>. QED
    BY <2>1, <2>2, <2>3, <2>4, Zenon
<1>. QED
  BY <1>1, <1>3, Zenon DEF HeldOK

\* What is learned comes after what is known, and is learned by a frontend that is
\* not in use.
LEMMA LearnNames ==
    ASSUME FrontInv, NameInv, NEW m \in learns, Learn(m)
    PROVE  NameInv'
<1>1. PICK n, e : n = m.to /\ e = m.entry
  BY Zenon
<1>2. n \in Node /\ n \notin Active /\ e \in Entry /\ e.file \in FileId
  BY <1>1, Typed, Zenon DEF MetaType, Entry, NameInv, LockInv
<1>3. /\ entries' = [entries EXCEPT ![n][e.file] = e]
      /\ learns' \subseteq {l \in learns : l.to = n => l.seq > m.seq}
      /\ UNCHANGED <<next_seq, call, done>>
  <2>1. last_seq \in [Node -> Nat] /\ \A l \in learns : l.to \in Node /\ l.seq \in Nat
    BY Typed, Zenon DEF MetaType
  <2>2. [last_seq EXCEPT ![m.to] = m.seq][n] = m.seq
    BY <1>1, <1>2, <2>1, Zenon
  <2>. QED
    BY <1>1, <1>2, <2>2, Zenon DEF Learn, metadata_apply_entry, Deliverable
<1>4. \A k \in Node, f \in FileId : entries'[k][f] = IF k = n /\ f = e.file THEN e ELSE entries[k][f]
  BY <1>2, <1>3, Typed, Zenon DEF MetaType
<1>5. \A a \in Active : a \in Node /\ a # n /\ \A f \in FileId : entries'[a][f] = entries[a][f]
  BY <1>2, <1>4, FrontendAssumption, Zenon
<1>6. LockInv'
  BY <1>3, Zenon DEF NameInv, LockInv, Holding
<1>7. KnownInv'
  <2>. SUFFICES ASSUME NEW a \in Active, NEW f \in FileId, entries[a][f] # NULL
                PROVE  /\ entries[a][f].dir => entries[a][f].nodes = <<>>
                       /\ \A w \in done : w.file = f => entries[a][f].size > 0
                       /\ \A k \in Node : entries'[k][f] # NULL => Before(entries'[k][f], entries[a][f])
                       /\ \A l \in learns' : l.entry.file = f =>
                             l.seq < next_seq[a] /\ Before(l.entry, entries[a][f])
    BY <1>3, <1>5, KnownNext
  <2>1. /\ entries[a][f].dir => entries[a][f].nodes = <<>>
        /\ \A w \in done : w.file = f => entries[a][f].size > 0
        /\ \A k \in Node : entries[k][f] # NULL => Before(entries[k][f], entries[a][f])
        /\ \A l \in learns : l.entry.file = f =>
              l.seq < next_seq[a] /\ Before(l.entry, entries[a][f])
    BY Zenon DEF NameInv, KnownInv
  <2>2. f = e.file => Before(e, entries[a][f])
    BY <1>1, <2>1, Zenon
  <2>. QED
    BY <1>3, <1>4, <2>1, <2>2
<1>8. OrderInv'
  <2>1. ASSUME NEW l \in learns', entries'[l.to][l.entry.file] # NULL
        PROVE  Before(entries'[l.to][l.entry.file], l.entry)
    <3>1. l \in learns /\ l.to \in Node /\ l.entry.file \in FileId
      BY <1>3, Typed, Zenon DEF MetaType, Entry
    <3>2. CASE l.to = n /\ l.entry.file = e.file
      <4>1. l.seq > m.seq /\ l.seq \in Nat /\ m.seq \in Nat
        BY <1>3, <3>1, <3>2, Typed, Zenon DEF MetaType
      <4>2. Before(e, l.entry)
        BY <1>1, <3>1, <3>2, <4>1, Zenon DEF NameInv, OrderInv
      <4>. QED
        BY <1>2, <1>4, <3>2, <4>2, Zenon
    <3>3. CASE ~ (l.to = n /\ l.entry.file = e.file)
      BY <1>4, <2>1, <3>1, <3>3, Zenon DEF NameInv, OrderInv
    <3>. QED
      BY <3>2, <3>3, Zenon
  <2>2. \A l, k \in learns' : l.to = k.to /\ l.entry.file = k.entry.file /\ l.seq < k.seq =>
           Before(l.entry, k.entry)
    BY <1>3, Zenon DEF NameInv, OrderInv
  <2>. QED
    BY <2>1, <2>2, Zenon DEF OrderInv, Before
<1>9. HeldInv'
  <2>1. ASSUME NEW c \in Caller PROVE HeldOK(c, call[c])'
    <3>1. c[1] \in Active => \A f \in FileId : entries'[c[1]][f] = entries[c[1]][f]
      BY <1>5, Zenon
    <3>2. \A f \in FileId : Unheard(f) => Unheard(f)'
      BY <1>1, <1>3, <1>4 DEF Unheard
    <3>. QED
      BY <1>3, <3>1, <3>2, HeldKept, Zenon
  <2>. QED
    BY <2>1, Zenon DEF HeldInv
<1>. QED
  BY <1>6, <1>7, <1>8, <1>9, Zenon DEF NameInv

\* A frontend starts again with nothing.
LEMMA RestartNames ==
    ASSUME FrontInv, NameInv, OneFrontend, NEW n \in Node, FrontendRestarts(n)
    PROVE  NameInv'
<1>1. /\ entries' = [entries EXCEPT ![n] = EmptyMap]
      /\ next_seq' = [next_seq EXCEPT ![n] = 1]
      /\ learns' = {m \in learns : m.to # n}
      /\ done' = done
  BY Zenon DEF FrontendRestarts
<1>2. \A c \in Caller : \/ call'[c].pc \in {"idle", "forward"} /\ call[c].pc # "idle"
                        \/ call'[c] = Idle
                        \/ c[1] # n /\ call'[c] = call[c]
  <2>. SUFFICES ASSUME NEW c \in Caller
                PROVE  \/ call'[c].pc \in {"idle", "forward"} /\ call[c].pc # "idle"
                       \/ call'[c] = Idle
                       \/ c[1] # n /\ call'[c] = call[c]
    BY Zenon
  <2>1. call'[c] = IF c[1] = n THEN Idle
                   ELSE IF call[c].pc = "read" /\ call[c].at = n
                   THEN [pc |-> "forward", get |-> call[c].get,
                         left |-> {p \in Node \ {c[1]} : p > n}]
                   ELSE call[c]
    BY Zenon DEF FrontendRestarts
  <2>2. CASE c[1] = n
    BY <2>1, <2>2, Zenon
  <2>3. CASE c[1] # n /\ call[c].pc = "read" /\ call[c].at = n
    <3>1. call'[c] = [pc |-> "forward", get |-> call[c].get,
                      left |-> {p \in Node \ {c[1]} : p > n}]
      BY <2>1, <2>3, Zenon
    <3>2. call'[c].pc = "forward" /\ call[c].pc # "idle"
      BY <2>3, <3>1
    <3>. QED
      BY <3>2, Zenon
  <2>. QED
    BY <2>1, <2>2, <2>3, Zenon
<1>3. \A m \in learns : m.to \in Node /\ m.entry.file \in FileId
  BY Typed, Zenon DEF MetaType, Entry
<1>4. /\ \A k \in Node, f \in FileId : k # n => entries'[k][f] = entries[k][f]
      /\ \A f \in FileId : entries'[n][f] = NULL
      /\ \A k \in Node : k # n => next_seq'[k] = next_seq[k]
  <2>1. /\ entries \in [Node -> [FileId -> Entry \cup {NULL}]] /\ next_seq \in [Node -> Nat]
        /\ entries' = [entries EXCEPT ![n] = EmptyMap] /\ next_seq' = [next_seq EXCEPT ![n] = 1]
    BY <1>1, Typed, Zenon DEF MetaType
  <2>2. entries'[n] = EmptyMap
    BY <2>1, Zenon
  <2>3. \A k \in Node : k # n => entries'[k] = entries[k] /\ next_seq'[k] = next_seq[k]
    BY <2>1, Zenon
  <2>4. \A f \in FileId : EmptyMap[f] = NULL
    BY Zenon DEF EmptyMap
  <2>. QED
    BY <2>2, <2>3, <2>4, Zenon
<1>5. \A a \in Active : a \in Node
  BY FrontendAssumption, Zenon
<1>6. LockInv'
  <2>1. \A c \in Caller : Holding(c)' => Holding(c) /\ call'[c] = call[c]
    BY <1>2 DEF Holding, Idle
  <2>2. \A c \in Caller : call'[c].pc # "idle" => c[1] \in Active
    BY <1>2 DEF Idle, NameInv, LockInv
  <2>. QED
    BY <1>1, <2>1, <2>2, Zenon DEF NameInv, LockInv
<1>7. KnownInv'
  <2>. SUFFICES ASSUME NEW a \in Active, NEW f \in FileId, entries'[a][f] # NULL
                PROVE  /\ entries'[a][f].dir => entries'[a][f].nodes = <<>>
                       /\ \A w \in done' : w.file = f => entries'[a][f].size > 0
                       /\ \A k \in Node : entries'[k][f] # NULL => Before(entries'[k][f], entries'[a][f])
                       /\ \A l \in learns' : l.entry.file = f =>
                             l.seq < next_seq'[a] /\ Before(l.entry, entries'[a][f])
    BY KnownNext, Zenon
  <2>1. a # n /\ entries'[a][f] = entries[a][f] /\ next_seq'[a] = next_seq[a]
    BY <1>4, <1>5, Zenon
  <2>2. \A k \in Node : entries'[k][f] # NULL => entries'[k][f] = entries[k][f]
    BY <1>4, Zenon
  <2>. QED
    BY <1>1, <2>1, <2>2, Zenon DEF NameInv, KnownInv
<1>8. OrderInv'
  <2>1. \A m \in learns' : m \in learns /\ entries'[m.to][m.entry.file] = entries[m.to][m.entry.file]
    BY <1>1, <1>3, <1>4, Zenon
  <2>. QED
    BY <2>1, Zenon DEF NameInv, OrderInv, Before
<1>9. HeldInv'
  <2>1. ASSUME NEW c \in Caller PROVE HeldOK(c, call[c])'
    <3>1. CASE call'[c].pc \in {"idle", "forward"}
      BY <3>1, Zenon DEF HeldOK
    <3>2. CASE c[1] # n /\ call'[c] = call[c]
      <4>1. c[1] \in Active => \A f \in FileId : entries'[c[1]][f] = entries[c[1]][f]
        BY <1>4, <1>5, <3>2, Zenon
      <4>2. \A f \in FileId : Unheard(f) => Unheard(f)'
        BY <1>1, <1>4, Zenon DEF Unheard
      <4>. QED
        BY <1>1, <3>2, <4>1, <4>2, HeldKept, Zenon
    <3>. QED
      BY <1>2, <3>1, <3>2 DEF Idle
  <2>. QED
    BY <2>1, Zenon DEF HeldInv
<1>. QED
  BY <1>6, <1>7, <1>8, <1>9, Zenon DEF NameInv

\* The empty system satisfies NameInv.
LEMMA InitNames == Init => NameInv
<1>. SUFFICES ASSUME Init PROVE NameInv
  BY Zenon
<1>1. /\ \A n \in Node, f \in FileId : entries[n][f] = NULL
      /\ \A c \in Caller : call[c].pc = "idle"
      /\ learns = {}
  BY Zenon DEF Init, EmptyMap, Idle
<1>2. LockInv /\ HeldInv /\ OrderInv
  BY <1>1, Zenon DEF LockInv, Holding, HeldInv, HeldOK, OrderInv
<1>3. KnownInv
  BY <1>1, FrontendAssumption, Zenon DEF KnownInv
<1>. QED
  BY <1>2, <1>3, Zenon DEF NameInv

\* A write that is proposed has bytes, so that its file has a size.
LEMMA WriteDecideNames ==
    ASSUME FrontInv, NameInv, NEW c \in Caller, WriteDecide(c), Cardinality({}) = 0
    PROVE  NameInv'
<1>1. PICK w : w = call[c]
  BY Zenon
<1>2. w.pc = "write" /\ UNCHANGED <<entries, learns, next_seq, done>>
  BY <1>1, Zenon DEF WriteDecide, metaVars
<1>3. Holding(c) /\ \A a \in Node : next_seq'[a] \in Nat /\ next_seq'[a] >= next_seq[a]
  BY <1>1, <1>2, Typed DEF Holding, MetaType
<1>4. CASE Return(c)
  BY <1>2, <1>3, <1>4, HolderNames, Zenon DEF Return, Idle, Unlocked
<1>5. CASE ~ Return(c)
  <2>1. PICK f, end, v : f = w.file /\ end = w.offset + Len(w.data) /\ v = AsWrite(w)
    BY Zenon
  <2>2. PICK e : e = Grown(entries[c[1]][f], end)
    BY Zenon
  <2>. DEFINE r == [pc |-> "commit", at |-> c[1], write |-> v, entry |-> e]
  <2>. HIDE DEF r
  <2>3. /\ entries[c[1]][f] # NULL /\ entries[c[1]][f] \in Entry
        /\ entries[c[1]][f].file = f /\ ~ entries[c[1]][f].dir /\ w.at = c[1]
    BY <1>1, <1>2, <2>1, HeldEntry, Zenon
  <2>4. Serve(c, r) /\ Cardinality(w.ok) >= Quorum(w.nodes)
    BY <1>1, <1>5, <2>1, <2>2, <2>3, Zenon DEF WriteDecide, r
  <2>5. w \in WriteCall /\ HeldOK(c, w)
    BY <1>1, <1>2, AtWork, CallKinds, Zenon
  <2>6. end \in Nat /\ end > 0
    <3>1. w.nodes \in Nodes /\ w.offset \in Nat /\ w.data \in Content
      BY <2>5, Zenon DEF WriteCall
    <3>2. Quorum(w.nodes) \in Nat /\ Quorum(w.nodes) > 0
      <4>1. Len(w.nodes) \in Nat
        BY <3>1 DEF Nodes
      <4>2. \A k \in Nat : k \div 2 + 1 \in Nat /\ k \div 2 + 1 > 0
        OBVIOUS
      <4>. QED
        BY <4>1, <4>2, Zenon DEF Quorum
    <3>3. w.ok # {}
      <4>1. w.ok = {} => Cardinality(w.ok) = 0
        BY Zenon
      <4>2. Cardinality(w.ok) >= Quorum(w.nodes)
        BY <2>4, Zenon
      <4>. QED
        BY <3>2, <4>1, <4>2
    <3>4. w.data # <<>>
      BY <1>2, <2>5, <3>3, Zenon DEF HeldOK
    <3>5. Len(w.data) \in Nat /\ Len(w.data) > 0
      BY <3>1, <3>4 DEF Content
    <3>. QED
      BY <2>1, <3>1, <3>5
  <2>7. /\ e.file = f /\ Before(entries[c[1]][f], e) /\ ~ e.dir
        /\ e.size \in Nat /\ e.size >= end
    <3>1. PICK k : k = entries[c[1]][f]
      BY Zenon
    <3>2. k \in Entry /\ k.file = f /\ ~ k.dir /\ e = Grown(k, end) /\ end \in Nat
      BY <2>2, <2>3, <2>6, <3>1, Zenon
    <3>3. e.file = f /\ Before(k, e) /\ ~ e.dir /\ e.size \in Nat /\ e.size >= end
      BY <3>2, Changed, ChangedAfter, Zenon
    <3>. QED
      BY <3>1, <3>3, Zenon
  <2>8. v.file = f /\ v.size = entries[c[1]][f].size
    BY <1>2, <2>1, <2>5, Zenon DEF AsWrite, HeldOK
  <2>9. HeldOK(c, r) /\ r.pc = "commit" /\ r.at = c[1]
    <3>1. r.pc = "commit" /\ r.at = c[1] /\ r.write = v /\ r.entry = e
      BY Zenon DEF r
    <3>2. e.size > 0
      BY <2>6, <2>7
    <3>. QED
      BY <2>3, <2>7, <2>8, <3>1, <3>2, Zenon DEF HeldOK
  <2>. QED
    BY <1>2, <1>3, <2>4, <2>9, HolderNames, Zenon
<1>. QED
  BY <1>4, <1>5, Zenon

\* Whatever a frontend applies comes after what it knows.
LEMMA VersionStep ==
    ASSUME FrontInv, NameInv, Next, NEW n \in Node, NEW f \in FileId,
           entries[n][f] # NULL, entries'[n][f] # NULL
    PROVE  Before(entries[n][f], entries'[n][f])
<1>1. entries[n][f] \in Entry /\ Before(entries[n][f], entries[n][f])
  BY EntryType, BeforeOrder, Zenon
<1>2. ASSUME NEW c \in Caller, Commit(c) PROVE Before(entries[n][f], entries'[n][f])
  <2>1. PICK e, a : e = call[c].entry /\ a = call[c].at
    BY Zenon
  <2>2. call[c].pc = "commit" /\ entries' = [entries EXCEPT ![a][e.file] = e]
    BY <1>2, <2>1, Zenon DEF Commit, metadata_apply_entry
  <2>3. a \in Node /\ (entries[n][e.file] # NULL => Before(entries[n][e.file], e))
    BY <1>1, <2>1, <2>2, ProposalAfter, Zenon
  <2>4. entries'[n][f] = IF n = a /\ f = e.file THEN e ELSE entries[n][f]
    BY <1>1, <2>2, <2>3, Typed, Zenon DEF MetaType
  <2>. QED
    BY <1>1, <2>3, <2>4, Zenon
<1>3. ASSUME NEW m \in learns, Learn(m) PROVE Before(entries[n][f], entries'[n][f])
  <2>1. PICK e, a : e = m.entry /\ a = m.to
    BY Zenon
  <2>2. entries' = [entries EXCEPT ![a][e.file] = e]
    BY <1>3, <2>1, Zenon DEF Learn, metadata_apply_entry
  <2>3. a \in Node /\ (entries[a][e.file] # NULL => Before(entries[a][e.file], e))
    BY <1>1, <2>1, Typed, Zenon DEF MetaType, NameInv, OrderInv
  <2>4. entries'[n][f] = IF n = a /\ f = e.file THEN e ELSE entries[n][f]
    BY <1>1, <2>2, <2>3, Typed, Zenon DEF MetaType
  <2>. QED
    BY <1>1, <2>3, <2>4, Zenon
<1>4. ASSUME NEW k \in Node, FrontendRestarts(k) PROVE entries'[n][f] = entries[n][f]
  BY <1>1, <1>4, Typed, Zenon DEF FrontendRestarts, EmptyMap, MetaType
<1>5. CASE UNCHANGED entries
  BY <1>1, <1>5, Zenon
<1>6. ASSUME NEW c \in Caller, ClientRequest(c) PROVE UNCHANGED entries
  BY <1>6, Zenon DEF ClientRequest, Create, Rmdir, Remove, Write, Get, metaVars
<1>7. ASSUME NEW c \in Caller, Step(c), ~ Commit(c) PROVE UNCHANGED entries
  BY <1>7, Zenon DEF Step, CreateExists, CreatePropose, WriteReplica, WriteDecide, DeleteReplica,
     DeleteDecide, RollbackDone, CommitFails, Forward, NotForwarded, ReadReplica, ReadFails,
     Answer, metaVars
<1>8. ASSUME NEW r, LateRequest(r) \/ StorageRestarts(r) PROVE UNCHANGED entries
  BY <1>8, Zenon DEF LateRequest, StorageRestarts, metaVars
<1>. QED
  BY <1>1, <1>2, <1>3, <1>4, <1>5, <1>6, <1>7, <1>8, Zenon DEF Next
=============================================================================
