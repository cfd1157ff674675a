---------------------------- MODULE PaxosProofs -----------------------------
(***************************************************************************)
(* What is proved of Paxos, for every cluster: IInv and LogInv hold in     *)
(* every state, the safety properties follow, and Paxos implements         *)
(* CommitLog.  With one call at a time, DurableInv holds too.              *)
(***************************************************************************)
EXTENDS PaxosSteps, PaxosLog

\* The entry that a call gets with its number.
Drawn(c) ==
    [id |-> my_id[c], seq |-> next_sequence_number[c[1]], value |-> my_value[c]]

\* What a call carries, once it has its number, is as before.
CallKept(d) ==
    /\ pc'[d] = pc[d] /\ my_id'[d] = my_id[d]
    /\ my_seq'[d] = my_seq[d] /\ my_value'[d] = my_value[d]

\* The call of c goes on with the number it has.
Carries(c) ==
    /\ pc[c] \notin {"idle", "sequence"} /\ pc'[c] \notin {"idle", "sequence"}
    /\ my_id'[c] = my_id[c] /\ my_seq'[c] = my_seq[c] /\ my_value'[c] = my_value[c]
-----------------------------------------------------------------------------
\* A step of paxos_propose draws the number, keeps what the call carries, or
\* ends the call, and does not touch the other calls.
LEMMA CarryStep ==
    ASSUME TypeOK, NEW c \in Caller,
           Progress(c) \/ Timeout(c) \/ SelfPersistFails(c)
    PROVE  /\ \/ NextSequence(c)
              \/ Carries(c) /\ UNCHANGED next_sequence_number
              \/ /\ pc[c] \notin {"idle", "sequence"} /\ pc'[c] = "idle"
                 /\ UNCHANGED next_sequence_number
           /\ \A d \in Caller \ {c} : CallKept(d)
<1>1. CallType
  BY Zenon DEF TypeOK
<1>2. CASE NextSequence(c)
  BY <1>1, <1>2, Zenon DEF NextSequence, Goto, CallKept, CallType
<1>3. CASE ScanBusySlot(c)
  BY <1>1, <1>3, Zenon DEF ScanBusySlot, Carries, CallKept, CallType
<1>4. ASSUME Return(c), pc[c] \notin {"idle", "sequence"}, UNCHANGED next_sequence_number
      PROVE  /\ pc[c] \notin {"idle", "sequence"} /\ pc'[c] = "idle"
             /\ UNCHANGED next_sequence_number
             /\ \A d \in Caller \ {c} : CallKept(d)
  BY <1>1, <1>4, Zenon DEF Return, Goto, CallKept, CallType
<1>5. ASSUME NEW l \in PC \ {"idle", "sequence"}, Goto(c, l), UNCHANGED localVars,
             pc[c] \notin {"idle", "sequence"}
      PROVE  Carries(c) /\ \A d \in Caller \ {c} : CallKept(d)
  BY <1>1, <1>5, Zenon DEF Goto, localVars, Carries, CallKept, CallType
<1>6. CASE TakeSlot(c)
  BY <1>5, <1>6, Zenon DEF TakeSlot, PC
<1>7. CASE PromiseQuorum(c) \/ SelfAccept(c) \/ SelfPersist(c)
  BY <1>5, <1>7, Zenon DEF PromiseQuorum, SelfAccept, SelfPersist, PC
<1>8. CASE SendAccept(c)
  BY <1>5, <1>8, Zenon DEF SendAccept, PC
<1>9. CASE NoFreeSlot(c) \/ Committed(c)
  BY <1>4, <1>9, Zenon DEF NoFreeSlot, Committed
<1>10. CASE PromiseTimeout(c) \/ CommitTimeout(c) \/ SelfPersistFails(c)
  BY <1>4, <1>10, Zenon DEF PromiseTimeout, CommitTimeout, SelfPersistFails, ReleaseAndFail
<1> QED
  BY <1>2, <1>3, <1>6, <1>7, <1>8, <1>9, <1>10, Zenon DEF Progress, Timeout

\* A handler draws no number.
LEMMA HandlerCounter ==
    ASSUME NEW m \in msgs, HandleMessage(m) \/ HandleAcceptFails(m.dest, m)
    PROVE  UNCHANGED next_sequence_number
<1>1. CASE HandlePrepare(m.dest, m) \/ Accept(m.dest, m) \/ HandleLearn(m.dest, m)
  BY <1>1, Zenon DEF HandlePrepare, Accept, HandleLearn
<1>2. ASSUME NEW s, HandlePromise(s, m) \/ HandleAccepted(s, m) \/ HandleCommit(m.dest, s, m)
      PROVE  UNCHANGED next_sequence_number
  BY <1>2, Zenon DEF HandlePromise, HandleAccepted, HandleCommit
<1> QED
  BY <1>1, <1>2, Zenon DEF HandleMessage, HandleAccept, HandleAcceptFails

\* The entries of calls are as before if every call carries what it did.
LEMMA PendingSame ==
    ASSUME \A d \in Caller : CallKept(d) \/ Carries(d)
                             \/ (d \notin Numbered /\ pc'[d] \in {"idle", "sequence"})
    PROVE  Pending' = Pending
<1>1. ASSUME NEW d \in Caller
      PROVE  /\ d \in Numbered' <=> d \in Numbered
             /\ d \in Numbered => CallEntry(d)' = CallEntry(d)
  BY <1>1, Zenon DEF CallKept, Carries, Numbered, CallEntry
<1>2. Numbered' = Numbered
  BY <1>1, Zenon DEF Numbered
<1>3. \A d \in Numbered : d \in Caller
  BY Zenon DEF Numbered
<1> QED
  BY <1>1, <1>2, <1>3, Zenon DEF Pending

\* The beginning of a call concerns nobody else.
LEMMA StartKeeps ==
    ASSUME TypeOK, NEW c \in Caller, NEW v \in Value, NextProposalId(c, v)
    PROVE  /\ Pending' = Pending
           /\ UNCHANGED <<applied, resultVars, next_sequence_number>>
<1>1. CallType
  BY Zenon DEF TypeOK
<1>2. /\ c \notin Numbered /\ pc'[c] \in {"idle", "sequence"}
      /\ \A d \in Caller \ {c} : CallKept(d)
  BY <1>1, Zenon DEF NextProposalId, Goto, CallKept, Numbered, CallType
<1>3. UNCHANGED <<applied, resultVars, next_sequence_number>>
  BY Zenon DEF NextProposalId, logVars
<1> QED
  BY <1>2, <1>3, PendingSame, Zenon

\* A handler changes no call.
LEMMA HandlerKeeps ==
    ASSUME HandlerStep
    PROVE  Pending' = Pending
<1>1. \A d \in Caller : CallKept(d)
  BY Zenon DEF HandlerStep, localVars, CallKept
<1> QED
  BY <1>1, PendingSame, Zenon

\* The call that draws its number is added.
LEMMA DrawStep ==
    ASSUME TypeOK, NEW c \in Caller, NextSequence(c)
    PROVE  /\ Pending' = Pending \cup {Drawn(c)}
           /\ c \notin Numbered
           /\ UNCHANGED <<applied, resultVars, msgs>>
           /\ next_sequence_number' =
                 [next_sequence_number EXCEPT ![c[1]] = @ + 1]
<1>1. CallType
  BY Zenon DEF TypeOK
<1>2. /\ c \notin Numbered /\ c \in Numbered' /\ CallEntry(c)' = Drawn(c)
      /\ UNCHANGED <<applied, resultVars, msgs>>
      /\ next_sequence_number' = [next_sequence_number EXCEPT ![c[1]] = @ + 1]
  BY <1>1, Zenon DEF NextSequence, Goto, Numbered, CallEntry, Drawn, CallType, logVars
<1>3. ASSUME NEW d \in Caller \ {c}
      PROVE  /\ d \in Numbered' <=> d \in Numbered
             /\ d \in Numbered => CallEntry(d)' = CallEntry(d)
  <2>1. CallKept(d)
    BY CarryStep, Zenon DEF Progress
  <2> QED
    BY <2>1, Zenon DEF CallKept, Numbered, CallEntry
<1>4. Numbered' = Numbered \cup {c}
  BY <1>2, <1>3, Zenon DEF Numbered
<1>5. \A d \in Numbered : d \in Caller \ {c}
  BY <1>2, Zenon DEF Numbered
<1> QED
  BY <1>2, <1>3, <1>4, <1>5, Zenon DEF Pending

\* A call that ends is taken away.
LEMMA EndStep ==
    ASSUME IInv, NEW c \in Caller, Progress(c) \/ Timeout(c) \/ SelfPersistFails(c),
           pc[c] \notin {"idle", "sequence"}, pc'[c] = "idle"
    PROVE  c \in Numbered /\ Pending' = Pending \ {CallEntry(c)}
<1>1. TypeOK /\ CallInv
  BY Zenon DEF IInv
<1>2. c \in Numbered /\ c \notin Numbered'
  BY Zenon DEF Numbered
<1>3. ASSUME NEW d \in Caller \ {c}
      PROVE  /\ d \in Numbered' <=> d \in Numbered
             /\ d \in Numbered => CallEntry(d)' = CallEntry(d) /\ CallEntry(d) # CallEntry(c)
  <2>1. CallKept(d)
    BY <1>1, CarryStep, Zenon
  <2>2. d \in Numbered => my_id[d] # my_id[c]
    BY <1>1, Zenon DEF CallInv, Numbered
  <2> QED
    BY <2>1, <2>2, Zenon DEF CallKept, Numbered, CallEntry
<1>4. Numbered' = Numbered \ {c}
  BY <1>2, <1>3, Zenon DEF Numbered
<1>5. \A d \in Numbered : d \in Caller
  BY Zenon DEF Numbered
<1> QED
  BY <1>2, <1>3, <1>4, <1>5, Zenon DEF Pending

\* Entries are applied by HandleCommit and HandleLearn only.
LEMMA AppliedCases ==
    ASSUME NEW m \in msgs, HandleMessage(m) \/ HandleAcceptFails(m.dest, m)
    PROVE  \/ UNCHANGED <<applied, highest_sequence_committed>>
           \/ \E s \in SlotsOf(m.dest) : HandleCommit(m.dest, s, m)
           \/ HandleLearn(m.dest, m)
<1>1. CASE HandlePrepare(m.dest, m) \/ Accept(m.dest, m)
  BY <1>1, Zenon DEF HandlePrepare, Accept, logVars, seqVars
<1>2. ASSUME NEW s, HandlePromise(s, m) \/ HandleAccepted(s, m)
      PROVE  UNCHANGED <<applied, highest_sequence_committed>>
  BY <1>2, Zenon DEF HandlePromise, HandleAccepted, logVars, seqVars
<1> QED
  BY <1>1, <1>2, Zenon DEF HandleMessage, HandleAccept, HandleAcceptFails
-----------------------------------------------------------------------------
\* A call that has its number is the only one to have applied its id, and only
\* after its commit.
LEMMA AppliedCall ==
    ASSUME IInv, NEW c \in Caller, pc[c] # "idle",
           NEW n \in Node, NEW e \in AppliedEntries(n), e.id = my_id[c]
    PROVE  pc[c] = "commit" /\ committed[Own(c)]
<1>1. CallInv /\ Decided(e.id)
  BY Zenon DEF IInv, ChosenInv, Chosen
<1> QED
  BY <1>1, Zenon DEF CallInv, Decided

\* The ACCEPTED that completes a quorum belongs to a call that waits for it, and
\* what is applied and announced is the entry of that call.
LEMMA CommitEntry ==
    ASSUME IInv, LogInv, NEW m \in msgs, NEW s \in SlotsOf(m.dest),
           HandleCommit(m.dest, s, m)
    PROVE  \E c \in Numbered :
              /\ pc[c] = "commit" /\ c[1] = m.dest /\ my_id[c] = m.id
              /\ Issuer(m.id) = m.dest /\ m.dest \in Node
              /\ CallEntry(c) = [id |-> m.id, seq |-> m.seq, value |-> proposed_value[s]]
              /\ sequence_number[s] = m.seq /\ proposal_id[s] = m.id
<1>1. IssuedInv /\ SlotInv /\ PhaseInv /\ msgs \subseteq Message
  BY Zenon DEF IInv, TypeOK
<1>2. /\ s \in Slot /\ s[1] = m.dest /\ in_use[s] /\ proposal_id[s] = m.id
      /\ m.phase = "ACCEPTED"
  BY Zenon DEF HandleCommit, Matches, SlotsOf
<1>3. PICK c \in Caller : Holding(c) /\ Own(c) = s
  BY <1>1, <1>2, Zenon DEF SlotInv
<1>4. my_id[c] = m.id /\ c[1] = m.dest
  BY <1>1, <1>2, <1>3, Zenon DEF SlotInv, Own
<1>5. pc[c] = "commit" /\ c \in Numbered
  BY <1>1, <1>2, <1>3, <1>4, Zenon DEF PhaseInv, Early, Holding, Numbered
<1>6. Issuer(m.id) = m.dest /\ m.dest \in Node
  BY <1>1, <1>4, <1>5, Zenon DEF IssuedInv, Message
<1>7. /\ m.seq = my_seq[c]
      /\ proposed_value[s] = my_value[c] /\ sequence_number[s] = my_seq[c]
  BY <1>2, <1>3, <1>4, <1>5, Zenon DEF LogInv, CarryInv
<1> QED
  BY <1>2, <1>4, <1>5, <1>6, <1>7, Zenon DEF CallEntry

\* The entries known after a step are those known before, and the one drawn.
LEMMA KnownStep ==
    ASSUME IInv, LogInv, Next
    PROVE  \/ Known' \subseteq Known /\ UNCHANGED next_sequence_number
           \/ \E c \in Caller : NextSequence(c) /\ Known' \subseteq Known \cup {Drawn(c)}
<1>1. TypeOK
  BY Zenon DEF IInv
<1>2. ASSUME NEW x, UNCHANGED applied, Pending' \subseteq Pending \cup {x}
      PROVE  Known' \subseteq Known \cup {x}
  BY <1>2 DEF Known, AppliedEntries
<1>3. ASSUME UNCHANGED applied, Pending' \subseteq Pending
      PROVE  Known' \subseteq Known
  BY <1>3 DEF Known, AppliedEntries
<1>4. ASSUME NEW c \in Caller, NEW v \in Value, NextProposalId(c, v)
      PROVE  Known' \subseteq Known /\ UNCHANGED next_sequence_number
  BY <1>1, <1>3, <1>4, StartKeeps, Zenon
<1>5. ASSUME NEW c \in Caller, Progress(c) \/ Timeout(c) \/ SelfPersistFails(c)
      PROVE  \/ Known' \subseteq Known /\ UNCHANGED next_sequence_number
             \/ NextSequence(c) /\ Known' \subseteq Known \cup {Drawn(c)}
  <2>1. UNCHANGED applied
    BY <1>5, ProposerUnchanged, Zenon DEF ProposerKeeps
  <2>2. CASE NextSequence(c)
    BY <1>1, <1>2, <2>1, <2>2, DrawStep, Zenon
  <2>3. CASE Carries(c) /\ UNCHANGED next_sequence_number
    BY <1>1, <1>3, <1>5, <2>1, <2>3, CarryStep, PendingSame, Zenon
  <2>4. CASE /\ pc[c] \notin {"idle", "sequence"} /\ pc'[c] = "idle"
             /\ UNCHANGED next_sequence_number
    BY <1>3, <1>5, <2>1, <2>4, EndStep, Zenon
  <2> QED
    BY <1>1, <1>5, <2>2, <2>3, <2>4, CarryStep, Zenon
<1>6. ASSUME NEW m \in msgs, HandleMessage(m) \/ HandleAcceptFails(m.dest, m)
      PROVE  Known' \subseteq Known /\ UNCHANGED next_sequence_number
  <2>1. Pending' = Pending /\ UNCHANGED next_sequence_number
    BY <1>6, HandlerFrame, HandlerKeeps, HandlerCounter, Zenon
  <2>2. ASSUME NEW n \in Node, NEW x \in Entry, x \in Known,
               applied' = [applied EXCEPT ![n] = Append(@, x)]
        PROVE  Known' \subseteq Known
    <3>1. \A p \in Node : AppliedEntries(p)' \subseteq AppliedEntries(p) \cup {x}
      <4>1. applied'[n] = Append(applied[n], x) /\ \A p \in Node \ {n} : applied'[p] = applied[p]
        BY <1>1, <2>2, Zenon DEF TypeOK, LogType
      <4>2. AppliedEntries(n)' = AppliedEntries(n) \cup {x}
        BY <1>1, <4>1, AppendEntries, Zenon
      <4>3. \A p \in Node \ {n} : AppliedEntries(p)' = AppliedEntries(p)
        BY <4>1, Zenon DEF AppliedEntries
      <4> QED
        BY <4>2, <4>3, Zenon
    <3> QED
      BY <2>1, <2>2, <3>1 DEF Known
  <2>3. ASSUME NEW s \in SlotsOf(m.dest), HandleCommit(m.dest, s, m)
        PROVE  Known' \subseteq Known
    <3> DEFINE x == [id |-> m.id, seq |-> m.seq, value |-> proposed_value[s]]
    <3>1. x \in Entry
      BY <1>1, Zenon DEF TypeOK, Message, SlotType, SlotsOf, Entry
    <3>2. x \in Known /\ m.dest \in Node
      BY <2>3, CommitEntry, Zenon DEF Known, Pending
    <3>3. applied' = [applied EXCEPT ![m.dest] = Append(@, x)]
      BY <2>3, Zenon DEF HandleCommit
    <3> HIDE DEF x
    <3> QED
      BY <2>2, <3>1, <3>2, <3>3, Zenon
  <2>4. CASE HandleLearn(m.dest, m)
    <3>1. EntryOf(m) \in Entry /\ m.dest \in Node
      BY <1>1, Zenon DEF TypeOK, Message, Entry, EntryOf
    <3>2. EntryOf(m) \in AppliedEntries(Issuer(m.id)) /\ Issuer(m.id) \in Node
      BY <2>4, Zenon DEF HandleLearn, LogInv, CarryInv, IInv, IssuedInv, Issued
    <3>3. EntryOf(m) \in Known
      BY <3>2, Zenon DEF Known
    <3> DEFINE x == EntryOf(m)
    <3>4. applied' = [applied EXCEPT ![m.dest] = Append(@, x)]
      BY <2>4, Zenon DEF HandleLearn
    <3>5. x \in Entry /\ x \in Known
      BY <3>1, <3>3, Zenon
    <3> HIDE DEF x
    <3> QED
      BY <2>1, <2>2, <3>1, <3>4, <3>5, Zenon
  <2> QED
    BY <1>3, <1>6, <2>1, <2>3, <2>4, AppliedCases, Zenon
<1> QED
  BY <1>1, <1>4, <1>5, <1>6, StepCases, Zenon

\* What is known are entries of nodes.
LEMMA KnownType ==
    ASSUME IInv, NEW e \in Known
    PROVE  /\ e \in Entry /\ Issuer(e.id) \in Node
           /\ e.seq \in Nat /\ next_sequence_number[Issuer(e.id)] \in Nat
<1>1. TypeOK /\ IssuedInv
  BY Zenon DEF IInv
<1>2. CASE e \in Pending
  <2>1. PICK c \in Caller : pc[c] # "idle" /\ e = CallEntry(c)
    BY <1>2, Zenon DEF Pending, Numbered
  <2>2. e \in Entry
    BY <1>1, <2>1, Zenon DEF TypeOK, CallType, CallEntry, Entry
  <2>3. Issuer(e.id) \in Node
    BY <1>1, <2>1, Zenon DEF IssuedInv, Issued, CallEntry
  <2> QED
    BY <1>1, <2>2, <2>3, Zenon DEF Entry, TypeOK, NodeType
<1>3. ASSUME NEW n \in Node, e \in AppliedEntries(n)
      PROVE  e \in Entry /\ Issuer(e.id) \in Node
  BY <1>1, <1>3, AppliedType, Zenon DEF IssuedInv, Issued
<1> QED
  BY <1>1, <1>2, <1>3, Zenon DEF Known, Entry, TypeOK, NodeType

\* Entries have numbers of their own among those of their issuer.
LEMMA NumberInvStep ==
    ASSUME IInv, LogInv, Next
    PROVE  NumberInv'
<1>1. TypeOK /\ IssuedInv /\ CallInv /\ NumberInv
  BY Zenon DEF IInv, LogInv
<1>2. CASE Known' \subseteq Known /\ UNCHANGED next_sequence_number
  BY <1>1, <1>2, Zenon DEF NumberInv
<1>3. ASSUME NEW c \in Caller, NextSequence(c), Known' \subseteq Known \cup {Drawn(c)}
      PROVE  NumberInv'
  <2> DEFINE n == c[1]
             x == Drawn(c)
  <2>1. /\ n \in Node /\ next_sequence_number[n] \in Nat
        /\ next_sequence_number' = [next_sequence_number EXCEPT ![n] = @ + 1]
        /\ next_sequence_number \in [Node -> Nat]
        /\ pc[c] = "sequence" /\ c \notin Numbered
    BY <1>1, <1>3, DrawStep, Zenon DEF TypeOK, NodeType, Caller, NextSequence
  <2>2. x.id = my_id[c] /\ x.seq = next_sequence_number[n] /\ Issuer(x.id) = n
    BY <1>1, <2>1, Zenon DEF Drawn, IssuedInv
  <2>3. ASSUME NEW e \in Known
        PROVE  /\ e.seq \in Nat /\ Issuer(e.id) \in Node
               /\ e.seq < next_sequence_number[Issuer(e.id)]
               /\ next_sequence_number[Issuer(e.id)] \in Nat
    BY <1>1, KnownType, Zenon DEF NumberInv
  <2>4. ASSUME NEW e \in Known
        PROVE  e.id # x.id
    <3>1. CASE e \in Pending
      BY <1>1, <2>1, <2>2, <3>1 DEF Pending, Numbered, CallEntry, CallInv
    <3>2. ASSUME NEW p \in Node, e \in AppliedEntries(p), e.id = x.id
          PROVE  FALSE
      BY <2>1, <2>2, <3>2, AppliedCall, Zenon
    <3> QED
      BY <3>1, <3>2, Zenon DEF Known
  <2>5. ASSUME NEW e \in Known, Issuer(e.id) = n
        PROVE  e.seq # x.seq
    BY <2>1, <2>2, <2>3, <2>5
  <2> HIDE DEF x, n
  <2>6. ASSUME NEW e \in Known'
        PROVE  e.seq < next_sequence_number'[Issuer(e.id)]
    <3>1. CASE e \in Known
      BY <2>1, <2>3, <3>1
    <3>2. CASE e = x
      BY <2>1, <2>2, <3>2
    <3> QED
      BY <1>3, <3>1, <3>2, Zenon DEF x
  <2>7. ASSUME NEW e \in Known', NEW f \in Known'
        PROVE  /\ e.id = f.id => e = f
               /\ Issuer(e.id) = Issuer(f.id) /\ e.seq = f.seq => e = f
    <3>1. e \in Known \cup {x} /\ f \in Known \cup {x}
      BY <1>3, Zenon DEF x
    <3>2. CASE e \in Known /\ f \in Known
      BY <1>1, <3>2, Zenon DEF NumberInv
    <3>3. CASE e = x \/ f = x
      BY <2>2, <2>4, <2>5, <3>1, <3>3, Zenon
    <3> QED
      BY <3>1, <3>2, <3>3, Zenon
  <2> QED
    BY <2>6, <2>7, Zenon DEF NumberInv
<1> QED
  BY <1>2, <1>3, KnownStep, Zenon

\* What a step does to the value and the number in a slot.
LEMMA ValueStep ==
    ASSUME TypeOK, Next, NEW s \in Slot
    PROVE  \/ /\ proposed_value'[s] = proposed_value[s]
              /\ sequence_number'[s] = sequence_number[s]
           \/ \E c \in Caller : TakeSlot(c) /\ Own(c) = s
           \/ \E c \in Caller : Frees(c, s)
<1>1. SlotType /\ CallType
  BY Zenon DEF TypeOK
<1> DEFINE Kept == /\ proposed_value'[s] = proposed_value[s]
                   /\ sequence_number'[s] = sequence_number[s]
<1>2. ASSUME UNCHANGED slotVars
      PROVE  Kept
  BY <1>2, Zenon DEF slotVars
<1>3. ASSUME NEW x, Release(x), x # s
      PROVE  Kept
  BY <1>1, <1>3, Zenon DEF Release, SlotType
<1>4. ASSUME NEW c \in Caller, NEW v \in Value, NextProposalId(c, v)
      PROVE  Kept
  BY <1>2, <1>4, Zenon DEF NextProposalId
<1>5. ASSUME NEW c \in Caller, Fails(c)
      PROVE  Kept \/ Frees(c, s)
  BY <1>2, <1>3, <1>5, Zenon DEF Fails, Frees
<1>6. ASSUME NEW c \in Caller, Committed(c)
      PROVE  Kept \/ Frees(c, s)
  <2>1. Holding(c) /\ pc'[c] = "idle" /\ Release(Own(c))
    BY <1>1, <1>6, Zenon DEF Committed, Return, Goto, Holding, CallType
  <2> QED
    BY <1>3, <2>1, Zenon DEF Frees
<1>7. ASSUME NEW c \in Caller, TakeSlot(c)
      PROVE  Kept \/ Own(c) = s
  BY <1>1, <1>7, Zenon DEF TakeSlot, SlotType
<1>8. ASSUME NEW c \in Caller, SendAccept(c)
      PROVE  Kept
  BY <1>8, Zenon DEF SendAccept
<1>9. ASSUME NEW c \in Caller, Progress(c) \/ Timeout(c) \/ SelfPersistFails(c),
             ~ TakeSlot(c), ~ SendAccept(c), Advances(c)
      PROVE  Kept
  <2>1. ~ Return(c)
    BY <1>1, <1>9, Zenon DEF Return, Goto, CallType, Advances
  <2> QED
    BY <1>2, <1>9, <2>1, ProposerUnchanged, Zenon DEF ProposerKeeps
<1>10. ASSUME NEW m \in msgs, NEW x, \/ HandlePromise(x, m) \/ HandleAccepted(x, m)
                                     \/ HandleCommit(m.dest, x, m)
       PROVE  Kept
  BY <1>10, Zenon DEF HandlePromise, HandleAccepted, HandleCommit
<1>11. ASSUME NEW m \in msgs, \/ HandlePrepare(m.dest, m) \/ Accept(m.dest, m)
                              \/ HandleLearn(m.dest, m)
       PROVE  Kept
  BY <1>2, <1>11, Zenon DEF HandlePrepare, Accept, HandleLearn
<1> HIDE DEF Kept
<1>12. ASSUME NEW m \in msgs, HandleMessage(m) \/ HandleAcceptFails(m.dest, m)
       PROVE  Kept
  BY <1>10, <1>11, <1>12, Zenon DEF HandleMessage, HandleAccept, HandleAcceptFails
<1> QED
  BY <1>4, <1>5, <1>6, <1>7, <1>8, <1>9, <1>12, StepCases, Zenon DEF Kept

\* What a step does to the number and the value of a call.
LEMMA LocalStep ==
    ASSUME TypeOK, Next, NEW c \in Caller
    PROVE  \/ CallKept(c) \/ Carries(c) \/ pc'[c] = "idle" \/ NextSequence(c)
           \/ \E v \in Value : NextProposalId(c, v)
<1>1. CallType
  BY Zenon DEF TypeOK
<1>2. ASSUME NEW d \in Caller, NEW v \in Value, NextProposalId(d, v), c # d
      PROVE  CallKept(c)
  BY <1>1, <1>2, Zenon DEF NextProposalId, Goto, CallKept, CallType
<1>3. ASSUME HandlerStep
      PROVE  CallKept(c)
  BY <1>3, Zenon DEF HandlerStep, localVars, CallKept
<1> QED
  BY <1>2, <1>3, CarryStep, StepCases, Zenon

\* A slot has the number and the value of the call that owns it.
LEMMA SlotCarries ==
    ASSUME IInv, LogInv, Next, NEW c \in Caller, Holding(c)'
    PROVE  /\ proposed_value'[Own(c)'] = my_value'[c]
           /\ sequence_number'[Own(c)'] = my_seq'[c]
<1>1. TypeOK /\ SlotInv /\ CallInv /\ CarryInv
  BY Zenon DEF IInv, LogInv
<1>2. Stays(c)
  BY <1>1, CallStep, Zenon DEF Starts, Holding
<1>3. CASE TakeSlot(c)
  <2>1. /\ UNCHANGED localVars /\ Own(c) \in Slot
        /\ proposed_value' = [proposed_value EXCEPT ![Own(c)] = my_value[c]]
        /\ sequence_number' = [sequence_number EXCEPT ![Own(c)] = my_seq[c]]
    BY <1>3, Zenon DEF TakeSlot
  <2>2. Own(c)' = Own(c) /\ my_value'[c] = my_value[c] /\ my_seq'[c] = my_seq[c]
    BY <2>1, Zenon DEF localVars, Own
  <2> QED
    BY <1>1, <2>1, <2>2, Zenon DEF TypeOK, SlotType
<1>4. CASE Holding(c)
  <2>1. /\ Own(c)' = Own(c) /\ Own(c) \in Slot /\ in_use[Own(c)]
        /\ proposal_id[Own(c)] = my_id[c]
    BY <1>1, <1>2, <1>4, Zenon DEF Stays, Own, SlotInv
  <2>2. my_value'[c] = my_value[c] /\ my_seq'[c] = my_seq[c]
    <3>1. ~ NextSequence(c) /\ pc'[c] # "idle" /\ \A v \in Value : ~ NextProposalId(c, v)
      BY <1>4, Zenon DEF NextSequence, NextProposalId, Holding
    <3> QED
      BY <1>1, <3>1, LocalStep, Zenon DEF CallKept, Carries
  <2>3. ASSUME NEW d \in Caller, TakeSlot(d), Own(d) = Own(c)
        PROVE  FALSE
    BY <2>1, <2>3, Zenon DEF TakeSlot
  <2>4. ASSUME NEW d \in Caller, Frees(d, Own(c))
        PROVE  FALSE
    <3>1. my_id[d] = my_id[c] /\ pc[d] # "idle" /\ pc[c] # "idle" /\ pc'[d] = "idle"
      BY <1>1, <1>4, <2>1, <2>4, Zenon DEF Frees, SlotInv, Holding
    <3>2. c = d
      BY <1>1, <3>1, Zenon DEF CallInv
    <3> QED
      BY <3>1, <3>2, Zenon DEF Holding
  <2>5. /\ proposed_value'[Own(c)] = proposed_value[Own(c)]
        /\ sequence_number'[Own(c)] = sequence_number[Own(c)]
    BY <1>1, <2>1, <2>3, <2>4, ValueStep, Zenon
  <2> QED
    BY <1>1, <1>4, <2>1, <2>2, <2>5, Zenon DEF CarryInv
<1> QED
  BY <1>2, <1>3, <1>4, Zenon DEF Stays

\* The messages of phase 2 have the number of the call.
LEMMA MessageCarries ==
    ASSUME IInv, LogInv, Next, NEW c \in Caller, NEW k \in msgs',
           pc'[c] = "commit", k.id = my_id'[c], k.phase \in {"ACCEPT", "ACCEPTED"}
    PROVE  k.seq = my_seq'[c]
<1>1. TypeOK /\ CallInv /\ PhaseInv /\ CarryInv
  BY Zenon DEF IInv, LogInv
<1>2. Stays(c) /\ my_id'[c] = my_id[c] /\ pc[c] # "idle"
  BY <1>1, CallStep, Zenon DEF Starts, Stays
<1>3. CASE SendAccept(c)
  <2>1. Early(c) /\ UNCHANGED localVars
        /\ msgs' = msgs \cup Broadcast(c[1], "ACCEPT", my_id[c], my_seq[c], 0, my_value[c])
    BY <1>3, Zenon DEF SendAccept, Early
  <2>2. k \notin msgs
    BY <1>1, <1>2, <2>1, Zenon DEF PhaseInv
  <2> QED
    BY <2>1, <2>2 DEF Broadcast, localVars
<1>4. CASE pc[c] = "commit" /\ ~ SendAccept(c)
  <2>1. my_seq'[c] = my_seq[c]
    <3>1. ~ NextSequence(c) /\ \A v \in Value : ~ NextProposalId(c, v)
      BY <1>4, Zenon DEF NextSequence, NextProposalId
    <3> QED
      BY <1>1, <3>1, LocalStep, Zenon DEF CallKept, Carries
  <2>2. CASE k \in msgs
    BY <1>1, <1>2, <1>4, <2>1, <2>2, Zenon DEF CarryInv
  <2>3. ASSUME NEW d \in Caller, SendAccept(d), k.id = my_id[d]
        PROVE  FALSE
    BY <1>1, <1>2, <1>4, <2>3, Zenon DEF CallInv, SendAccept
  <2>4. ASSUME NEW m \in msgs, HandleAccept(m.dest, m), k.id = m.id,
               k = Reply(m.dest, m, "ACCEPTED", 0)
        PROVE  k.seq = my_seq[c]
    <3>1. m.phase = "ACCEPT" /\ k.seq = m.seq
      BY <2>4, Zenon DEF HandleAccept, Accept, Reply
    <3> QED
      BY <1>1, <1>2, <1>4, <2>4, <3>1, Zenon DEF CarryInv
  <2> QED
    BY <1>1, <2>1, <2>2, <2>3, <2>4, MsgsStep, Zenon
<1> QED
  BY <1>2, <1>3, <1>4, Zenon DEF Stays

\* What is announced has been applied by its proposer.
LEMMA LearnCarries ==
    ASSUME IInv, LogInv, Next, NEW k \in msgs', k.phase = "LEARN"
    PROVE  EntryOf(k) \in AppliedEntries(Issuer(k.id))' /\ k.dest # Issuer(k.id)
<1>1. TypeOK /\ IssuedInv /\ CarryInv
  BY Zenon DEF IInv, LogInv
<1>2. CASE k \in msgs
  <2>1. EntryOf(k) \in AppliedEntries(Issuer(k.id)) /\ k.dest # Issuer(k.id)
        /\ Issuer(k.id) \in Node
    BY <1>1, <1>2, Zenon DEF CarryInv, IssuedInv, Issued
  <2> QED
    BY <1>1, <2>1, AppliedKept, Zenon
<1>3. ASSUME NEW m \in msgs, NEW s \in SlotsOf(m.dest), HandleCommit(m.dest, s, m),
             k \notin msgs
      PROVE  EntryOf(k) \in AppliedEntries(Issuer(k.id))' /\ k.dest # Issuer(k.id)
  <2> DEFINE x == [id |-> m.id, seq |-> m.seq, value |-> proposed_value[s]]
  <2>1. /\ Issuer(m.id) = m.dest /\ m.dest \in Node
        /\ sequence_number[s] = m.seq /\ proposal_id[s] = m.id
    BY <1>3, CommitEntry, Zenon
  <2>2. k \in Broadcast(m.dest, "LEARN", m.id, m.seq, m.id, proposed_value[s])
    BY <1>3, <2>1, Zenon DEF HandleCommit, Receive
  <2>3. EntryOf(k) = x /\ k.id = m.id /\ k.dest # m.dest
    BY <2>2 DEF Broadcast, EntryOf
  <2>4. x \in Entry
    BY <1>1, Zenon DEF TypeOK, Message, SlotType, SlotsOf, Entry
  <2>5. applied' = [applied EXCEPT ![m.dest] = Append(@, x)]
    BY <1>3, Zenon DEF HandleCommit
  <2> HIDE DEF x
  <2>6. applied'[m.dest] = Append(applied[m.dest], x)
    BY <1>1, <2>1, <2>5, Zenon DEF TypeOK, LogType
  <2>7. x \in AppliedEntries(m.dest)'
    BY <1>1, <2>1, <2>4, <2>6, AppendEntries
  <2> QED
    BY <2>1, <2>3, <2>7, Zenon
<1>4. CASE k \notin msgs
  <2>1. PICK m \in msgs : \E s \in SlotsOf(m.dest) : HandleCommit(m.dest, s, m)
    BY <1>1, <1>4, MsgsStep, Zenon
  <2> QED
    BY <1>3, <1>4, <2>1, Zenon
<1> QED
  BY <1>2, <1>4, Zenon

\* Slots and messages carry the entry of the call.
LEMMA CarryInvStep ==
    ASSUME IInv, LogInv, Next
    PROVE  CarryInv'
<1>1. ASSUME NEW c \in Caller, pc'[c] # "idle"
      PROVE  my_value'[c] \in Value
  <2>1. TypeOK /\ CarryInv
    BY Zenon DEF IInv, LogInv
  <2>2. CASE CallKept(c) \/ Carries(c)
    BY <1>1, <2>1, <2>2, Zenon DEF CarryInv, CallKept, Carries
  <2>3. CASE NextSequence(c)
    BY <2>1, <2>3, Zenon DEF NextSequence, CarryInv
  <2>4. ASSUME NEW v \in Value, NextProposalId(c, v)
        PROVE  my_value'[c] \in Value
    BY <2>1, <2>4, Zenon DEF NextProposalId, TypeOK, CallType
  <2> QED
    BY <1>1, <2>1, <2>2, <2>3, <2>4, LocalStep, Zenon
<1> QED
  BY <1>1, SlotCarries, MessageCarries, LearnCarries, Zenon DEF CarryInv

\* highest_sequence_committed is raised with what is applied.
LEMMA HighestInvStep ==
    ASSUME IInv, LogInv, Next
    PROVE  HighestInv'
<1>1. TypeOK /\ HighestInv
  BY Zenon DEF IInv, LogInv
<1>2. NodeType /\ LogType /\ msgs \subseteq Message
  BY <1>1, Zenon DEF TypeOK
<1>3. ASSUME UNCHANGED <<applied, highest_sequence_committed>>
      PROVE  HighestInv'
  BY <1>1, <1>3, Zenon DEF HighestInv, AppliedEntries
<1>4. ASSUME NEW n \in Node, NEW x \in Entry,
             applied' = [applied EXCEPT ![n] = Append(@, x)],
             NEW h \in Nat, highest_sequence_committed' =
                 [highest_sequence_committed EXCEPT ![n] = h],
             h >= highest_sequence_committed[n], h >= x.seq
      PROVE  HighestInv'
  <2>1. applied'[n] = Append(applied[n], x) /\ \A p \in Node \ {n} : applied'[p] = applied[p]
    BY <1>2, <1>4, Zenon DEF LogType
  <2>2. AppliedEntries(n)' = AppliedEntries(n) \cup {x}
    BY <1>1, <2>1, AppendEntries, Zenon
  <2>3. \A p \in Node \ {n} : AppliedEntries(p)' = AppliedEntries(p)
    BY <2>1, Zenon DEF AppliedEntries
  <2>4. ASSUME NEW e \in AppliedEntries(n)
        PROVE  e.seq <= h
    <3>1. e.seq \in Nat /\ e.seq <= highest_sequence_committed[n]
          /\ highest_sequence_committed[n] \in Nat
      BY <1>1, <1>2, AppliedType, Zenon DEF HighestInv, Entry, NodeType
    <3> QED
      BY <1>4, <3>1
  <2>5. /\ highest_sequence_committed'[n] = h
        /\ \A p \in Node \ {n} :
              highest_sequence_committed'[p] = highest_sequence_committed[p]
    BY <1>2, <1>4, Zenon DEF NodeType
  <2> QED
    BY <1>1, <1>4, <2>2, <2>3, <2>4, <2>5, Zenon DEF HighestInv
<1>5. ASSUME NEW m \in msgs, NEW s \in SlotsOf(m.dest), HandleCommit(m.dest, s, m)
      PROVE  HighestInv'
  <2> DEFINE x == [id |-> m.id, seq |-> m.seq, value |-> proposed_value[s]]
             h == MaxOf(highest_sequence_committed[m.dest], m.seq)
  <2>1. x \in Entry /\ m.dest \in Node /\ m.seq \in Nat /\ x.seq = m.seq
    BY <1>1, Zenon DEF TypeOK, Message, SlotType, SlotsOf, Entry
  <2>2. h \in Nat /\ h >= highest_sequence_committed[m.dest] /\ h >= m.seq
    BY <1>2, <2>1 DEF MaxOf, NodeType
  <2>3. /\ applied' = [applied EXCEPT ![m.dest] = Append(@, x)]
        /\ highest_sequence_committed' = [highest_sequence_committed EXCEPT ![m.dest] = h]
    BY <1>5, Zenon DEF HandleCommit
  <2> HIDE DEF x, h
  <2> QED
    BY <1>4, <2>1, <2>2, <2>3, Zenon
<1>6. ASSUME NEW m \in msgs, HandleLearn(m.dest, m)
      PROVE  HighestInv'
  <2>1. /\ EntryOf(m) \in Entry /\ m.dest \in Node /\ m.seq \in Nat
        /\ EntryOf(m).seq = m.seq
    BY <1>2, Zenon DEF Message, Entry, EntryOf
  <2>2. /\ applied' = [applied EXCEPT ![m.dest] = Append(@, EntryOf(m))]
        /\ highest_sequence_committed' = [highest_sequence_committed EXCEPT ![m.dest] = m.seq]
        /\ m.seq > highest_sequence_committed[m.dest]
        /\ highest_sequence_committed[m.dest] \in Nat
    BY <1>2, <1>6, <2>1, Zenon DEF HandleLearn, NodeType
  <2> DEFINE x == EntryOf(m)
             h == m.seq
  <2>3. /\ x \in Entry /\ h \in Nat /\ h >= highest_sequence_committed[m.dest] /\ h >= x.seq
        /\ applied' = [applied EXCEPT ![m.dest] = Append(@, x)]
        /\ highest_sequence_committed' = [highest_sequence_committed EXCEPT ![m.dest] = h]
    BY <2>1, <2>2
  <2> HIDE DEF x, h
  <2> QED
    BY <1>4, <2>1, <2>3, Zenon
<1>7. ASSUME NEW c \in Caller, Progress(c) \/ Timeout(c) \/ SelfPersistFails(c)
      PROVE  UNCHANGED <<applied, highest_sequence_committed>>
  <2>1. UNCHANGED applied
    BY <1>7, ProposerUnchanged, Zenon DEF ProposerKeeps
  <2>2. CASE NextSequence(c) \/ ScanBusySlot(c) \/ NoFreeSlot(c) \/ PromiseQuorum(c)
             \/ SelfAccept(c) \/ SelfPersist(c)
    BY <2>1, <2>2, Zenon DEF NextSequence, ScanBusySlot, NoFreeSlot, PromiseQuorum,
       SelfAccept, SelfPersist, seqVars
  <2>3. CASE TakeSlot(c) \/ SendAccept(c) \/ Committed(c)
    BY <2>1, <2>3, Zenon DEF TakeSlot, SendAccept, Committed, seqVars
  <2>4. CASE ReleaseAndFail(c)
    BY <2>1, <2>4, Zenon DEF ReleaseAndFail, seqVars
  <2> QED
    BY <1>7, <2>2, <2>3, <2>4, Zenon
    DEF Progress, Timeout, PromiseTimeout, CommitTimeout, SelfPersistFails
<1>8. ASSUME NEW c \in Caller, NEW v \in Value, NextProposalId(c, v)
      PROVE  UNCHANGED <<applied, highest_sequence_committed>>
  BY <1>8, Zenon DEF NextProposalId, logVars, seqVars
<1> QED
  BY <1>1, <1>3, <1>5, <1>6, <1>7, <1>8, AppliedCases, StepCases, Zenon
-----------------------------------------------------------------------------
(***************************************************************************)
(* The steps of Paxos as steps of CommitLog                                *)
(***************************************************************************)
\* The two modules mean the same by issuer and by applied.
LEMMA SameTerms ==
    /\ \A n : Log!AppliedBy(n) = AppliedEntries(n)
    /\ \A id : Log!Issuer(id) = Issuer(id)
    /\ \A id : Log!AppliedAnywhere(id) <=> \E n \in Node : \E e \in AppliedEntries(n) : e.id = id
<1>1. \A n : Log!AppliedBy(n) = AppliedEntries(n)
  BY Zenon DEF Log!AppliedBy, AppliedEntries
<1>2. \A id : Log!Issuer(id) = Issuer(id)
  BY DEF Log!Issuer, Issuer
<1> QED
  BY <1>1, <1>2, Zenon DEF Log!AppliedAnywhere

\* NextSequence is Propose.
LEMMA RefinesPropose ==
    ASSUME IInv, LogInv, NEW c \in Caller, NextSequence(c)
    PROVE  Log!Propose
<1>1. TypeOK /\ IssuedInv /\ CallInv /\ NumberInv /\ CarryInv
  BY Zenon DEF IInv, LogInv
<1>2. /\ Pending' = Pending \cup {Drawn(c)} /\ c \notin Numbered
      /\ UNCHANGED <<applied, succeeded, failed>>
      /\ pc[c] = "sequence" /\ c[1] \in Node
  BY <1>1, DrawStep, Zenon DEF resultVars, NextSequence, Caller
<1> DEFINE x == Drawn(c)
<1>3. /\ x.id = my_id[c] /\ x.seq = next_sequence_number[c[1]]
      /\ x.value = my_value[c] /\ Issuer(x.id) = c[1]
  BY <1>1, <1>2, Zenon DEF Drawn, IssuedInv
<1>4. x \in Log!Entry
  BY <1>1, <1>2, Zenon DEF Log!Entry, Drawn, TypeOK, NodeType, CallType, CarryInv
<1>5. x.id \notin succeeded \cup failed
  BY <1>1, <1>2, <1>3, Zenon DEF CallInv
<1>6. \A n \in Node : \A e \in AppliedEntries(n) : e.id # x.id
  BY <1>2, <1>3, AppliedCall, Zenon
<1>7. \A f \in Pending : f.id # x.id
  <2> SUFFICES ASSUME NEW d \in Numbered PROVE CallEntry(d).id # x.id
    BY Zenon DEF Pending
  <2>1. d \in Caller /\ pc[d] # "idle" /\ d # c /\ CallEntry(d).id = my_id[d]
    BY <1>2, Zenon DEF Numbered, CallEntry
  <2>2. my_id[d] # my_id[c]
    BY <1>1, <1>2, <2>1, Zenon DEF CallInv
  <2> QED
    BY <1>3, <2>1, <2>2, Zenon
<1>8. \A f \in Known : Issuer(f.id) = Issuer(x.id) => f.seq # x.seq
  <2> SUFFICES ASSUME NEW f \in Known, Issuer(f.id) = c[1]
               PROVE  f.seq # x.seq
    BY <1>3, Zenon
  <2>1. f.seq < next_sequence_number[c[1]]
        /\ f.seq \in Nat /\ next_sequence_number[c[1]] \in Nat
    BY <1>1, KnownType, Zenon DEF NumberInv
  <2>2. \A a, b \in Nat : a < b => a # b
    OBVIOUS
  <2>3. x.seq = next_sequence_number[c[1]]
    BY <1>3, Zenon
  <2> HIDE DEF x
  <2> QED
    BY <2>1, <2>2, <2>3, Zenon
<1>9. x \in Pending' \ Pending
  BY <1>2, <1>7, Zenon
<1> HIDE DEF x
<1>10. Pending' = Pending \cup {x}
  BY <1>2, Zenon DEF x
<1>11. /\ Log!Issuer(x.id) \in Node
       /\ ~ Log!AppliedAnywhere(x.id)
       /\ \A f \in Pending \cup UNION {Log!AppliedBy(n) : n \in Node} :
             Log!Issuer(f.id) = Log!Issuer(x.id) => f.seq # x.seq
  BY <1>2, <1>3, <1>6, <1>8, SameTerms, Zenon DEF Known
<1> QED
  BY <1>2, <1>4, <1>5, <1>7, <1>9, <1>10, <1>11, Zenon DEF Log!Propose

\* HandleCommit is Commit of the entry of the call.
LEMMA RefinesCommit ==
    ASSUME IInv, LogInv, NEW m \in msgs, NEW s \in SlotsOf(m.dest),
           HandleCommit(m.dest, s, m)
    PROVE  \E e \in Pending : Log!Commit(e)
<1> DEFINE x == [id |-> m.id, seq |-> m.seq, value |-> proposed_value[s]]
<1>1. x \in Pending /\ Issuer(m.id) = m.dest
  BY CommitEntry, Zenon DEF Pending
<1>2. Pending' = Pending /\ UNCHANGED <<succeeded, failed>>
  <2>1. HandlerStep
    BY HandlerFrame, Zenon DEF HandleMessage
  <2> QED
    BY <2>1, HandlerKeeps, Zenon DEF HandlerStep, resultVars
<1>3. ~ Decided(m.id)
  BY CommitIsFirst, Zenon
<1>4. \A n \in Node : \A e \in AppliedEntries(n) : e.id # m.id
  BY <1>3, Zenon DEF IInv, ChosenInv, Chosen
<1>5. applied' = [applied EXCEPT ![m.dest] = Append(@, x)]
  BY Zenon DEF HandleCommit
<1>6. x.id = m.id
  BY Zenon
<1> HIDE DEF x
<1>7. Log!Commit(x)
  <2>1. ~ Log!AppliedAnywhere(x.id) /\ Log!Issuer(x.id) = m.dest
    BY <1>1, <1>4, <1>6, SameTerms, Zenon
  <2> QED
    BY <1>2, <1>5, <2>1, Zenon DEF Log!Commit, Log!ApplyAt
<1> QED
  BY <1>1, <1>7, Zenon

\* HandleLearn is Learn.
LEMMA RefinesLearn ==
    ASSUME IInv, LogInv, NEW m \in msgs, HandleLearn(m.dest, m)
    PROVE  \E p, n \in Node : \E e \in Log!AppliedBy(p) :
              p = Log!Issuer(e.id) /\ Log!Learn(n, e)
<1>1. TypeOK /\ IssuedInv /\ CarryInv /\ HighestInv
  BY Zenon DEF IInv, LogInv
<1> DEFINE x == EntryOf(m)
<1>2. /\ m.phase = "LEARN" /\ m.dest \in Node
      /\ m.seq \in Nat /\ m.seq > highest_sequence_committed[m.dest]
      /\ highest_sequence_committed[m.dest] \in Nat
      /\ applied' = [applied EXCEPT ![m.dest] = Append(@, x)]
  BY <1>1, Zenon DEF HandleLearn, TypeOK, NodeType, Message
<1>3. /\ x.id = m.id /\ x.seq = m.seq
      /\ x \in AppliedEntries(Issuer(m.id)) /\ Issuer(m.id) \in Node
      /\ m.dest # Issuer(m.id)
  BY <1>1, <1>2, Zenon DEF EntryOf, CarryInv, IssuedInv, Issued
<1>4. Pending' = Pending /\ UNCHANGED <<succeeded, failed>>
  <2>1. HandlerStep
    BY HandlerFrame, Zenon DEF HandleMessage
  <2> QED
    BY <2>1, HandlerKeeps, Zenon DEF HandlerStep, resultVars
<1>5. \A f \in AppliedEntries(m.dest) : f.seq < m.seq
  <2> SUFFICES ASSUME NEW f \in AppliedEntries(m.dest) PROVE f.seq < m.seq
    BY Zenon
  <2>1. f.seq \in Nat /\ f.seq <= highest_sequence_committed[m.dest]
    BY <1>1, <1>2, AppliedType, Zenon DEF HighestInv, Entry
  <2> QED
    BY <1>2, <2>1
<1> HIDE DEF x
<1>6. Log!Learn(m.dest, x)
  <2>1. /\ Log!Issuer(x.id) # m.dest
        /\ \A f \in Log!AppliedBy(m.dest) : f.seq < x.seq
    BY <1>3, <1>5, SameTerms, Zenon
  <2> QED
    BY <1>2, <1>4, <2>1, Zenon DEF Log!Learn, Log!ApplyAt
<1>7. x \in Log!AppliedBy(Issuer(m.id)) /\ Issuer(m.id) = Log!Issuer(x.id)
  BY <1>3, SameTerms, Zenon
<1> QED
  BY <1>2, <1>3, <1>6, <1>7, Zenon

\* A call that returns is ReturnSuccess or ReturnFailure.
LEMMA RefinesReturn ==
    ASSUME IInv, LogInv, NEW c \in Numbered, Fails(c) \/ Committed(c),
           Pending' = Pending \ {CallEntry(c)}, UNCHANGED applied
    PROVE  \E e \in Pending : Log!ReturnSuccess(e) \/ Log!ReturnFailure(e)
<1>1. IssuedInv /\ DoneInv /\ NumberInv
  BY Zenon DEF IInv, LogInv
<1> DEFINE x == CallEntry(c)
<1>2. c \in Caller /\ pc[c] # "idle" /\ x \in Pending /\ x.id = my_id[c] /\ c[1] \in Node
  BY Zenon DEF Numbered, Pending, CallEntry, Caller
<1>3. CASE Committed(c)
  <2>1. /\ pc[c] = "commit" /\ committed[Own(c)]
        /\ succeeded' = succeeded \cup {my_id[c]} /\ UNCHANGED failed
    BY <1>3, Zenon DEF Committed
  <2>2. PICK e \in AppliedEntries(c[1]) : e.id = my_id[c]
    BY <1>1, <1>2, <2>1, Zenon DEF DoneInv
  <2>3. e = x
    BY <1>1, <1>2, <2>2, Zenon DEF NumberInv, Known
  <2>4. Issuer(x.id) = c[1]
    BY <1>1, <1>2, Zenon DEF IssuedInv
  <2> HIDE DEF x
  <2>5. x \in Log!AppliedBy(Log!Issuer(x.id))
    BY <2>2, <2>3, <2>4, SameTerms, Zenon
  <2>6. Pending' = Pending \ {x}
    BY Zenon DEF x
  <2>7. Log!ReturnSuccess(x)
    BY <1>2, <2>1, <2>5, <2>6, Zenon DEF Log!ReturnSuccess
  <2> QED
    BY <1>2, <2>7, Zenon
<1>4. CASE Fails(c)
  <2>1. failed' = failed \cup {my_id[c]} /\ UNCHANGED succeeded
    BY <1>4, Zenon DEF Fails
  <2>2. ~ (pc[c] = "commit" /\ committed[Own(c)])
    BY <1>4, Zenon DEF Fails, Holding
  <2>3. \A n \in Node : \A e \in AppliedEntries(n) : e.id # my_id[c]
    BY <1>2, <2>2, AppliedCall, Zenon
  <2> HIDE DEF x
  <2>4. ~ Log!AppliedAnywhere(x.id)
    BY <1>2, <2>3, SameTerms, Zenon
  <2>5. Pending' = Pending \ {x}
    BY Zenon DEF x
  <2>6. Log!ReturnFailure(x)
    BY <1>2, <2>1, <2>4, <2>5, Zenon DEF Log!ReturnFailure
  <2> QED
    BY <1>2, <2>6, Zenon
<1> QED
  BY <1>3, <1>4, Zenon

\* Every step of Paxos is a step of CommitLog or leaves it as it is.
LEMMA RefinesStep ==
    ASSUME IInv, LogInv, Next
    PROVE  Log!Next \/ UNCHANGED Log!vars
<1>1. TypeOK
  BY Zenon DEF IInv
<1> DEFINE Same == Pending' = Pending /\ UNCHANGED <<applied, succeeded, failed>>
<1>2. ASSUME Same PROVE UNCHANGED Log!vars
  BY <1>2, Zenon DEF Log!vars
<1>3. ASSUME NEW c \in Caller, NEW v \in Value, NextProposalId(c, v)
      PROVE  Same
  BY <1>1, <1>3, StartKeeps, Zenon DEF resultVars
<1>4. ASSUME NEW c \in Caller, Progress(c) \/ Timeout(c) \/ SelfPersistFails(c),
             Advances(c) \/ Fails(c) \/ Committed(c)
      PROVE  Log!Next \/ Same
  <2>1. UNCHANGED applied
    BY <1>4, ProposerUnchanged, Zenon DEF ProposerKeeps
  <2>2. CASE NextSequence(c)
    BY <2>2, RefinesPropose, Zenon DEF Log!Next
  <2>3. CASE Carries(c)
    <3>1. Pending' = Pending
      BY <1>1, <1>4, <2>3, CarryStep, PendingSame, Zenon
    <3>2. ~ Fails(c)
      BY <2>3, Zenon DEF Carries, Fails
    <3>3. ~ Committed(c)
      BY <1>1, <2>3, Zenon DEF Carries, Committed, Return, Goto, TypeOK, CallType
    <3> QED
      BY <1>4, <2>1, <3>1, <3>2, <3>3, Zenon DEF Advances, resultVars
  <2>4. CASE pc[c] \notin {"idle", "sequence"} /\ pc'[c] = "idle"
    <3>1. c \in Numbered /\ Pending' = Pending \ {CallEntry(c)}
      BY <1>4, <2>4, EndStep, Zenon
    <3>2. Fails(c) \/ Committed(c)
      BY <1>4, <2>4, Zenon DEF Advances
    <3> QED
      BY <2>1, <3>1, <3>2, RefinesReturn, Zenon DEF Log!Next
  <2> QED
    BY <1>1, <1>4, <2>2, <2>3, <2>4, CarryStep, Zenon
<1>5. ASSUME NEW m \in msgs, HandleMessage(m) \/ HandleAcceptFails(m.dest, m), HandlerStep
      PROVE  Log!Next \/ Same
  <2>1. CASE UNCHANGED applied
    BY <1>5, <2>1, HandlerKeeps, Zenon DEF HandlerStep, resultVars
  <2>2. ASSUME NEW s \in SlotsOf(m.dest), HandleCommit(m.dest, s, m)
        PROVE  Log!Next
    BY <2>2, RefinesCommit, Zenon DEF Log!Next
  <2>3. CASE HandleLearn(m.dest, m)
    BY <2>3, RefinesLearn, Zenon DEF Log!Next
  <2> QED
    BY <1>5, <2>1, <2>2, <2>3, AppliedCases, Zenon
<1> HIDE DEF Same
<1> QED
  BY <1>1, <1>2, <1>3, <1>4, <1>5, StepCases, Zenon
-----------------------------------------------------------------------------
(***************************************************************************)
(* One call at a time: what is committed is stored by a majority           *)
(***************************************************************************)
\* What a step does to the logs and to highest_sequence_persisted.
LEMMA PersistStep ==
    ASSUME TypeOK, Next
    PROVE  \/ UNCHANGED <<wal, highest_sequence_persisted>>
           \/ \E c \in Caller : SelfPersist(c) \/ SendAccept(c)
           \/ \E m \in msgs : HandleAccept(m.dest, m) \/ HandleLearn(m.dest, m)
<1>1. ASSUME NEW c \in Caller, NEW v \in Value, NextProposalId(c, v)
      PROVE  UNCHANGED <<wal, highest_sequence_persisted>>
  BY <1>1, Zenon DEF NextProposalId, logVars, seqVars
<1>2. ASSUME NEW c \in Caller, Progress(c) \/ Timeout(c) \/ SelfPersistFails(c),
             ~ SelfPersist(c), ~ SendAccept(c)
      PROVE  UNCHANGED <<wal, highest_sequence_persisted>>
  <2>1. CASE NextSequence(c) \/ ScanBusySlot(c) \/ NoFreeSlot(c)
    BY <2>1, Zenon DEF NextSequence, ScanBusySlot, NoFreeSlot, logVars, seqVars
  <2>2. CASE TakeSlot(c) \/ PromiseQuorum(c)
    BY <2>2, Zenon DEF TakeSlot, PromiseQuorum, logVars, seqVars
  <2>3. CASE SelfAccept(c) \/ Committed(c)
    BY <2>3, Zenon DEF SelfAccept, Committed, logVars, seqVars
  <2>4. CASE ReleaseAndFail(c)
    BY <2>4, Zenon DEF ReleaseAndFail, logVars, seqVars
  <2>. QED
    BY <1>2, <2>1, <2>2, <2>3, <2>4, Zenon
    DEF Progress, Timeout, PromiseTimeout, CommitTimeout, SelfPersistFails
<1>3. ASSUME NEW m \in msgs, NEW s, HandlePromise(s, m) \/ HandleAccepted(s, m)
      PROVE  UNCHANGED <<wal, highest_sequence_persisted>>
  BY <1>3, Zenon DEF HandlePromise, HandleAccepted, logVars, seqVars
<1>4. ASSUME NEW m \in msgs, NEW s, HandleCommit(m.dest, s, m)
      PROVE  UNCHANGED <<wal, highest_sequence_persisted>>
  BY <1>4, Zenon DEF HandleCommit
<1>5. ASSUME NEW m \in msgs, HandlePrepare(m.dest, m) \/ HandleAcceptFails(m.dest, m)
      PROVE  UNCHANGED <<wal, highest_sequence_persisted>>
  BY <1>5, Zenon DEF HandlePrepare, HandleAcceptFails, logVars, seqVars
<1>. QED
  BY <1>1, <1>2, <1>3, <1>4, <1>5, StepCases, Zenon DEF HandleMessage

\* persist_callback adds to a log.
LEMMA WalGrows ==
    ASSUME TypeOK, Next, NEW n \in Node
    PROVE  wal[n] \subseteq wal'[n]
<1>1. wal \in [Node -> SUBSET Entry]
  BY Zenon DEF TypeOK, LogType
<1>2. ASSUME NEW p, NEW e, wal' = [wal EXCEPT ![p] = @ \cup {e}]
      PROVE  wal[n] \subseteq wal'[n]
  BY <1>1, <1>2, Zenon
<1>3. ASSUME UNCHANGED wal PROVE wal[n] \subseteq wal'[n]
  BY <1>3, Zenon
<1>4. ASSUME NEW c, SelfPersist(c) PROVE wal[n] \subseteq wal'[n]
  <2>1. PICK e : wal' = [wal EXCEPT ![c[1]] = @ \cup {e}]
    BY <1>4, Zenon DEF SelfPersist
  <2>. QED
    BY <1>2, <2>1, Zenon
<1>5. ASSUME NEW c, SendAccept(c) PROVE wal[n] \subseteq wal'[n]
  BY <1>3, <1>5, Zenon DEF SendAccept
<1>6. ASSUME NEW m, HandleAccept(m.dest, m) \/ HandleLearn(m.dest, m)
      PROVE  wal[n] \subseteq wal'[n]
  <2>1. wal' = wal \/ wal' = [wal EXCEPT ![m.dest] = @ \cup {EntryOf(m)}]
    BY <1>6, Zenon DEF HandleAccept, HandleLearn
  <2>. QED
    BY <1>2, <1>3, <2>1, Zenon
<1>. QED
  BY <1>3, <1>4, <1>5, <1>6, PersistStep, Zenon

\* highest_sequence_persisted of a node is raised to what the node is to store.
LEMMA PersistedStep ==
    ASSUME TypeOK, Next, NEW n \in Node
    PROVE  \/ highest_sequence_persisted'[n] = highest_sequence_persisted[n]
           \/ \E c \in Caller :
                 /\ SendAccept(c) /\ n = c[1]
                 /\ highest_sequence_persisted'[n] =
                       MaxOf(highest_sequence_persisted[n], my_seq[c])
           \/ \E m \in msgs :
                 /\ HandleAccept(m.dest, m) \/ HandleLearn(m.dest, m)
                 /\ n = m.dest
                 /\ highest_sequence_persisted'[n] =
                       MaxOf(highest_sequence_persisted[n], m.seq)
<1>1. highest_sequence_persisted \in [Node -> Nat]
  BY Zenon DEF TypeOK, NodeType
<1>2. ASSUME NEW p, NEW k, highest_sequence_persisted' =
                [highest_sequence_persisted EXCEPT ![p] = MaxOf(@, k)]
      PROVE  \/ highest_sequence_persisted'[n] = highest_sequence_persisted[n]
             \/ n = p /\ highest_sequence_persisted'[n] =
                            MaxOf(highest_sequence_persisted[n], k)
  BY <1>1, <1>2, Zenon
<1>3. ASSUME NEW c, SelfPersist(c)
      PROVE  highest_sequence_persisted'[n] = highest_sequence_persisted[n]
  BY <1>3, Zenon DEF SelfPersist, seqVars
<1>4. ASSUME NEW c, SendAccept(c)
      PROVE  highest_sequence_persisted' =
                [highest_sequence_persisted EXCEPT ![c[1]] = MaxOf(@, my_seq[c])]
  BY <1>4, Zenon DEF SendAccept
<1>5. ASSUME NEW m, HandleAccept(m.dest, m) \/ HandleLearn(m.dest, m)
      PROVE  highest_sequence_persisted' =
                [highest_sequence_persisted EXCEPT ![m.dest] = MaxOf(@, m.seq)]
  BY <1>5, Zenon DEF HandleAccept, HandleLearn
<1>6. ASSUME UNCHANGED <<wal, highest_sequence_persisted>>
      PROVE  highest_sequence_persisted'[n] = highest_sequence_persisted[n]
  BY <1>6, Zenon
<1>7. CASE UNCHANGED <<wal, highest_sequence_persisted>>
  BY <1>6, <1>7, Zenon
<1>8. ASSUME NEW c \in Caller, SelfPersist(c) \/ SendAccept(c)
      PROVE  \/ highest_sequence_persisted'[n] = highest_sequence_persisted[n]
             \/ /\ SendAccept(c) /\ n = c[1]
                /\ highest_sequence_persisted'[n] =
                      MaxOf(highest_sequence_persisted[n], my_seq[c])
  BY <1>2, <1>3, <1>4, <1>8, Zenon
<1>9. ASSUME NEW m \in msgs, HandleAccept(m.dest, m) \/ HandleLearn(m.dest, m)
      PROVE  \/ highest_sequence_persisted'[n] = highest_sequence_persisted[n]
             \/ /\ n = m.dest
                /\ highest_sequence_persisted'[n] =
                      MaxOf(highest_sequence_persisted[n], m.seq)
  BY <1>2, <1>5, <1>9, Zenon
<1>. QED
  BY <1>7, <1>8, <1>9, PersistStep, Zenon

\* Only a client of a proposer begins a call.
LEMMA ActiveStep ==
    ASSUME IInv, ActiveInv, Next
    PROVE  ActiveInv'
<1>. SUFFICES ASSUME NEW c \in Caller, pc'[c] # "idle", pc[c] = "idle"
              PROVE  c \in Proposers \X Thread
  BY Zenon DEF ActiveInv
<1>1. TypeOK /\ CallType
  BY Zenon DEF IInv, TypeOK
<1>2. ASSUME NEW d \in Proposers \X Thread, NEW v \in Value, NextProposalId(d, v)
      PROVE  c \in Proposers \X Thread
  <2>1. CASE d = c
    BY <2>1, Zenon
  <2>2. CASE d # c
    BY <1>1, <1>2, <2>2, Zenon DEF NextProposalId, Goto, CallType
  <2>. QED
    BY <2>1, <2>2, Zenon
<1>3. ASSUME NEW d \in Caller, Progress(d) \/ Timeout(d) \/ SelfPersistFails(d)
      PROVE  FALSE
  <2>1. CASE d = c
    BY <1>1, <1>3, <2>1, ProposerFrame, Zenon DEF Advances, Stays, Fails, Committed
  <2>2. CASE d # c
    BY <1>1, <1>3, <2>2, ProposerFrame, Zenon
  <2>. QED
    BY <2>1, <2>2, Zenon
<1>4. ASSUME NEW m \in msgs, HandleMessage(m) \/ HandleAcceptFails(m.dest, m)
      PROVE  FALSE
  BY <1>4, HandlerFrame, Zenon DEF HandlerStep
<1>. QED
  BY <1>2, <1>3, <1>4, Zenon DEF Next

\* While one call is served it is the only one.
LEMMA OnlyCall ==
    ASSUME OneCaller, ActiveInv, NEW c \in Caller, NEW d \in Caller,
           c \in Proposers \X Thread \/ pc[c] # "idle", pc[d] # "idle"
    PROVE  c = d
BY Zenon DEF OneCaller, ActiveInv

\* A message of phase 2 or 3 that is sent carries the entry of a call.
LEMMA NewMessage ==
    ASSUME IInv, LogInv, Next, NEW k \in msgs', k \notin msgs, k.phase \in {"ACCEPT", "LEARN"}
    PROVE  \E c \in Numbered :
              /\ k.id = my_id[c] /\ k.seq = my_seq[c] /\ k.value = my_value[c]
              /\ k.phase = "ACCEPT" => SendAccept(c)
<1>1. TypeOK
  BY Zenon DEF IInv
<1>2. ASSUME NEW c \in Caller, SendAccept(c), k.phase = "ACCEPT",
             k \in Broadcast(c[1], "ACCEPT", my_id[c], my_seq[c], 0, my_value[c])
      PROVE  /\ c \in Numbered
             /\ k.id = my_id[c] /\ k.seq = my_seq[c] /\ k.value = my_value[c]
  BY <1>2 DEF Broadcast, SendAccept, Numbered
<1>3. ASSUME NEW m \in msgs, NEW s \in SlotsOf(m.dest), HandleCommit(m.dest, s, m),
             k.phase = "LEARN"
      PROVE  \E c \in Numbered :
                k.id = my_id[c] /\ k.seq = my_seq[c] /\ k.value = my_value[c]
  <2>1. PICK c \in Numbered :
            /\ CallEntry(c) = [id |-> m.id, seq |-> m.seq, value |-> proposed_value[s]]
            /\ sequence_number[s] = m.seq /\ proposal_id[s] = m.id
    BY <1>3, CommitEntry, Zenon
  <2>2. my_id[c] = m.id /\ my_seq[c] = m.seq /\ my_value[c] = proposed_value[s]
    BY <2>1, Zenon DEF CallEntry
  <2>3. k \in Broadcast(m.dest, "LEARN", m.id, m.seq, m.id, proposed_value[s])
    BY <1>3, <2>1, Zenon DEF HandleCommit, Receive
  <2>4. k.id = m.id /\ k.seq = m.seq /\ k.value = proposed_value[s]
    BY <2>3 DEF Broadcast
  <2>. QED
    BY <2>2, <2>4, Zenon
<1>4. CASE k.phase = "ACCEPT"
  <2>1. PICK c \in Caller :
            SendAccept(c) /\ k \in Broadcast(c[1], "ACCEPT", my_id[c], my_seq[c], 0, my_value[c])
    BY <1>1, <1>4, MsgsStep, Zenon
  <2>. QED
    BY <1>2, <1>4, <2>1, Zenon
<1>5. CASE k.phase = "LEARN"
  <2>1. PICK m \in msgs : \E s \in SlotsOf(m.dest) : HandleCommit(m.dest, s, m)
    BY <1>1, <1>5, MsgsStep, Zenon
  <2>. QED
    BY <1>3, <1>5, <2>1, Zenon
<1>. QED
  BY <1>4, <1>5, Zenon

\* A call has an entry of its own, with a number below its node's counter.
LEMMA CallNumber ==
    ASSUME IInv, LogInv, NEW c \in Numbered
    PROVE  /\ c \in Caller /\ c[1] \in Node /\ pc[c] # "idle"
           /\ my_seq[c] \in Nat /\ my_seq[c] < next_sequence_number[c[1]]
<1>1. c \in Caller /\ pc[c] # "idle"
  BY Zenon DEF Numbered
<1>2. c[1] \in Node
  BY <1>1, Zenon DEF Caller
<1>3. my_seq[c] \in Nat
  BY <1>1, Zenon DEF IInv, TypeOK, CallType
<1>4. Issuer(my_id[c]) = c[1]
  BY <1>1, Zenon DEF IInv, IssuedInv
<1>5. CallEntry(c) \in Known
  BY Zenon DEF Known, Pending
<1>6. CallEntry(c).seq = my_seq[c] /\ CallEntry(c).id = my_id[c]
  BY Zenon DEF CallEntry
<1>7. NumberInv
  BY Zenon DEF LogInv
<1>8. CallEntry(c).seq < next_sequence_number[Issuer(CallEntry(c).id)]
  BY <1>5, <1>7, Zenon DEF NumberInv
<1>. QED
  BY <1>1, <1>2, <1>3, <1>4, <1>6, <1>8, Zenon

\* The counter of a node does not go back.
LEMMA CounterGrows ==
    ASSUME TypeOK, Next, NEW n \in Node
    PROVE  /\ next_sequence_number[n] \in Nat /\ next_sequence_number'[n] \in Nat
           /\ next_sequence_number'[n] >= next_sequence_number[n]
<1>1. next_sequence_number \in [Node -> Nat]
  BY Zenon DEF TypeOK, NodeType
<1>2. ASSUME UNCHANGED next_sequence_number
      PROVE  next_sequence_number'[n] = next_sequence_number[n]
  BY <1>2, Zenon
<1>3. ASSUME NEW c \in Caller, NextSequence(c)
      PROVE  next_sequence_number'[n] \in {next_sequence_number[n], next_sequence_number[n] + 1}
  BY <1>1, <1>3, Zenon DEF NextSequence
<1>4. ASSUME NEW c \in Caller, NEW v \in Value, NextProposalId(c, v)
      PROVE  UNCHANGED next_sequence_number
  BY <1>4, Zenon DEF NextProposalId
<1>5. ASSUME NEW c \in Caller, Progress(c) \/ Timeout(c) \/ SelfPersistFails(c)
      PROVE  NextSequence(c) \/ UNCHANGED next_sequence_number
  BY <1>5, CarryStep, Zenon
<1>6. UNCHANGED next_sequence_number \/ \E c \in Caller : NextSequence(c)
  BY <1>4, <1>5, HandlerCounter, StepCases, Zenon
<1>7. next_sequence_number'[n] \in {next_sequence_number[n], next_sequence_number[n] + 1}
  BY <1>2, <1>3, <1>6, Zenon
<1>. QED
  BY <1>1, <1>7

\* Numbers in logs and messages stay below the counter.
LEMMA BelowCounter ==
    ASSUME OneCaller, IInv, LogInv, ActiveInv, FreshInv, Next,
           NEW c \in Proposers \X Thread
    PROVE  /\ \A n \in Node : highest_sequence_persisted'[n] < next_sequence_number'[c[1]]
           /\ \A k \in msgs' : k.phase \in {"ACCEPT", "LEARN"} =>
                 k.seq < next_sequence_number'[c[1]]
<1>0. c \in Caller /\ c[1] \in Node
  <2>1. Proposers \subseteq Node
    BY NodeAssumption
  <2>. QED
    BY <2>1, Zenon DEF Caller
<1>1. TypeOK /\ c \in Caller /\ c[1] \in Node
  BY <1>0, Zenon DEF IInv
<1>2. /\ next_sequence_number[c[1]] \in Nat /\ next_sequence_number'[c[1]] \in Nat
      /\ next_sequence_number'[c[1]] >= next_sequence_number[c[1]]
  BY <1>1, CounterGrows, Zenon
<1>3. ASSUME NEW d \in Numbered
      PROVE  my_seq[d] \in Nat /\ my_seq[d] < next_sequence_number[c[1]]
  <2>1. d \in Caller /\ pc[d] # "idle" /\ my_seq[d] \in Nat
        /\ my_seq[d] < next_sequence_number[d[1]]
    BY CallNumber, Zenon
  <2>2. d = c
    BY <1>1, <2>1, OnlyCall, Zenon
  <2>. QED
    BY <2>1, <2>2, Zenon
<1>4. \A m \in msgs : m.seq \in Nat /\ m.dest \in Node
  BY <1>1, Zenon DEF TypeOK, Message
<1>5. ASSUME NEW n \in Node
      PROVE  highest_sequence_persisted'[n] < next_sequence_number'[c[1]]
  <2>1. /\ highest_sequence_persisted[n] \in Nat
        /\ highest_sequence_persisted[n] < next_sequence_number[c[1]]
    BY <1>1, Zenon DEF FreshInv, TypeOK, NodeType
  <2>2. ASSUME NEW j \in Nat, j < next_sequence_number[c[1]],
               highest_sequence_persisted'[n] = MaxOf(highest_sequence_persisted[n], j)
        PROVE  highest_sequence_persisted'[n] < next_sequence_number'[c[1]]
    BY <1>2, <2>1, <2>2 DEF MaxOf
  <2>3. CASE highest_sequence_persisted'[n] = highest_sequence_persisted[n]
    BY <1>2, <2>1, <2>3
  <2>4. ASSUME NEW d \in Caller, SendAccept(d), highest_sequence_persisted'[n] =
                  MaxOf(highest_sequence_persisted[n], my_seq[d])
        PROVE  highest_sequence_persisted'[n] < next_sequence_number'[c[1]]
    <3>1. d \in Numbered
      BY <2>4, Zenon DEF SendAccept, Numbered
    <3>. QED
      BY <1>3, <2>2, <2>4, <3>1, Zenon
  <2>5. ASSUME NEW m \in msgs, HandleAccept(m.dest, m) \/ HandleLearn(m.dest, m),
               highest_sequence_persisted'[n] = MaxOf(highest_sequence_persisted[n], m.seq)
        PROVE  highest_sequence_persisted'[n] < next_sequence_number'[c[1]]
    <3>1. m.phase \in {"ACCEPT", "LEARN"}
      BY <2>5, Zenon DEF HandleAccept, Accept, HandleLearn
    <3>2. m.seq < next_sequence_number[c[1]]
      BY <3>1, Zenon DEF FreshInv
    <3>. QED
      BY <1>4, <2>2, <2>5, <3>2, Zenon
  <2>. QED
    BY <1>1, <2>3, <2>4, <2>5, PersistedStep, Zenon
<1>6. ASSUME NEW k \in msgs', k.phase \in {"ACCEPT", "LEARN"}
      PROVE  k.seq < next_sequence_number'[c[1]]
  <2>1. CASE k \in msgs
    <3>1. k.seq < next_sequence_number[c[1]]
      BY <1>6, <2>1, Zenon DEF FreshInv
    <3>. QED
      BY <1>2, <1>4, <2>1, <3>1
  <2>2. CASE k \notin msgs
    <3>1. PICK d \in Numbered : k.seq = my_seq[d]
      BY <1>6, <2>2, NewMessage, Zenon
    <3>. QED
      BY <1>2, <1>3, <3>1
  <2>. QED
    BY <2>1, <2>2, Zenon
<1>. QED
  BY <1>5, <1>6, Zenon

\* A call that has its number keeps it, or has just drawn it.
LEMMA NumberedStep ==
    ASSUME TypeOK, Next, NEW c \in Numbered'
    PROVE  /\ c \in Caller /\ pc'[c] # "idle" /\ pc[c] # "idle"
           /\ \/ NextSequence(c)
              \/ /\ c \in Numbered
                 /\ my_id'[c] = my_id[c] /\ my_seq'[c] = my_seq[c]
                 /\ my_value'[c] = my_value[c]
                 /\ pc[c] = "commit" => pc'[c] = "commit"
<1>1. c \in Caller /\ pc'[c] \notin {"idle", "sequence"}
  BY Zenon DEF Numbered
<1>2. ASSUME NEW v \in Value, NextProposalId(c, v) PROVE FALSE
  BY <1>1, <1>2, Zenon DEF NextProposalId, Goto, TypeOK, CallType
<1>3. CallKept(c) \/ Carries(c) \/ NextSequence(c)
  BY <1>1, <1>2, LocalStep, Zenon
<1>4. pc[c] # "idle"
  BY <1>1, <1>3, Zenon DEF CallKept, Carries, NextSequence
<1>5. pc[c] = "commit" => pc'[c] = "commit"
  BY <1>1, <1>4, CallStep, Zenon DEF Starts, Stays
<1>6. CASE CallKept(c)
  BY <1>1, <1>4, <1>5, <1>6, Zenon DEF CallKept, Numbered
<1>7. CASE Carries(c)
  BY <1>1, <1>4, <1>5, <1>7, Zenon DEF Carries, Numbered
<1>. QED
  BY <1>1, <1>3, <1>4, <1>6, <1>7, Zenon

\* A commit is not withdrawn while the call lasts.
LEMMA CommittedStays ==
    ASSUME IInv, IInv', Next, NEW c \in Caller, pc'[c] # "idle",
           my_id'[c] = my_id[c], Decided(my_id[c])
    PROVE  pc'[c] = "commit" /\ committed'[Own(c)']
<1>0. PICK id : id = my_id[c]
  BY Zenon
<1>1. Decided(id)'
  BY <1>0, DecidedKept, Zenon
<1>2. CallInv'
  BY Zenon DEF IInv
<1>3. id \notin succeeded'
  BY <1>0, <1>2, Zenon DEF CallInv
<1>4. PICK d \in Caller : pc'[d] = "commit" /\ my_id'[d] = id /\ committed'[Own(d)']
  BY <1>1, <1>3, Zenon DEF Decided
<1>5. d = c
  BY <1>0, <1>2, <1>4, Zenon DEF CallInv
<1>. QED
  BY <1>4, <1>5, Zenon

\* The messages of earlier calls have lower numbers.
LEMMA MessagesBelow ==
    ASSUME OneCaller, IInv, LogInv, ActiveInv, FreshInv, Next,
           NEW c \in Numbered', NEW k \in msgs',
           k.phase \in {"ACCEPT", "LEARN"}, k.id # my_id'[c]
    PROVE  k.seq < my_seq'[c]
<1>1. TypeOK
  BY Zenon DEF IInv
<1>2. c \in Caller /\ pc[c] # "idle" /\ c \in Proposers \X Thread
  BY <1>1, NumberedStep, Zenon DEF ActiveInv
<1>3. CASE NextSequence(c)
  <2>1. my_seq'[c] = next_sequence_number[c[1]] /\ msgs' = msgs
    BY <1>1, <1>2, <1>3, Zenon DEF NextSequence, TypeOK, CallType
  <2>2. k.seq < next_sequence_number[c[1]]
    BY <1>2, <2>1, Zenon DEF FreshInv
  <2>. QED
    BY <2>1, <2>2, Zenon
<1>4. CASE c \in Numbered /\ my_id'[c] = my_id[c] /\ my_seq'[c] = my_seq[c]
  <2>1. CASE k \in msgs
    <3>1. k.seq < my_seq[c]
      BY <1>4, <2>1, Zenon DEF FreshInv
    <3>. QED
      BY <1>4, <3>1, Zenon
  <2>2. CASE k \notin msgs
    <3>1. PICK d \in Numbered : k.id = my_id[d]
      BY <2>2, NewMessage, Zenon
    <3>2. d = c
      BY <1>2, <3>1, OnlyCall, Zenon DEF Numbered
    <3>. QED
      BY <1>4, <3>1, <3>2, Zenon
  <2>. QED
    BY <2>1, <2>2, Zenon
<1>. QED
  BY <1>1, <1>3, <1>4, NumberedStep, Zenon

\* A log that has reached the number of a call got there by that call.
LEMMA LogsBelow ==
    ASSUME OneCaller, IInv, IInv', LogInv, ActiveInv, FreshInv, Next,
           NEW c \in Numbered', NEW n \in Node,
           highest_sequence_persisted'[n] >= my_seq'[c]
    PROVE  /\ pc'[c] = "commit"
           /\ <<n, my_id'[c]>> \in accepts' \/ committed'[Own(c)']
<1>1. TypeOK /\ PhaseInv /\ ChosenInv
  BY Zenon DEF IInv
<1>2. c \in Caller /\ pc[c] # "idle" /\ pc'[c] # "idle" /\ c \in Proposers \X Thread
  BY <1>1, NumberedStep, Zenon DEF ActiveInv
<1>3. /\ highest_sequence_persisted[n] \in Nat
      /\ \A m \in msgs : m.seq \in Nat
  BY <1>1, Zenon DEF TypeOK, NodeType, Message
<1>4. ASSUME NextSequence(c) PROVE FALSE
  <2>1. /\ my_seq'[c] = next_sequence_number[c[1]]
        /\ highest_sequence_persisted' = highest_sequence_persisted
    BY <1>1, <1>2, <1>4, Zenon DEF NextSequence, TypeOK, CallType, seqVars
  <2>2. highest_sequence_persisted[n] < next_sequence_number[c[1]]
    BY <1>2, Zenon DEF FreshInv
  <2>3. next_sequence_number[c[1]] \in Nat
    BY <1>1, <1>2, Zenon DEF TypeOK, NodeType, Caller
  <2>. QED
    BY <1>3, <2>1, <2>2, <2>3
<1>5. /\ c \in Numbered /\ my_id'[c] = my_id[c] /\ my_seq'[c] = my_seq[c]
      /\ pc[c] = "commit" => pc'[c] = "commit"
  BY <1>1, <1>4, NumberedStep, Zenon
<1>6. my_seq[c] \in Nat
  BY <1>5, CallNumber, Zenon
<1>7. ASSUME highest_sequence_persisted[n] >= my_seq[c]
      PROVE  /\ pc'[c] = "commit"
             /\ <<n, my_id'[c]>> \in accepts' \/ committed'[Own(c)']
  <2>1. pc[c] = "commit" /\ (<<n, my_id[c]>> \in accepts \/ committed[Own(c)])
    BY <1>5, <1>7, Zenon DEF FreshInv
  <2>2. CASE <<n, my_id[c]>> \in accepts
    <3>1. n \in Acceptors(my_id[c])
      BY <2>2, Zenon DEF Acceptors
    <3>2. PICK id : id = my_id[c]
      BY Zenon
    <3>3. n \in Acceptors(id)'
      BY <3>1, <3>2, HeardStep, Zenon
    <3>. QED
      BY <1>5, <2>1, <3>2, <3>3, Zenon DEF Acceptors
  <2>3. CASE committed[Own(c)]
    <3>1. Decided(my_id[c])
      BY <1>2, <2>1, <2>3, Zenon DEF Decided
    <3>. QED
      BY <1>2, <1>5, <3>1, CommittedStays, Zenon
  <2>. QED
    BY <2>1, <2>2, <2>3, Zenon
<1>8. CASE highest_sequence_persisted'[n] = highest_sequence_persisted[n]
  BY <1>5, <1>7, <1>8, Zenon
<1>9. ASSUME NEW d \in Caller, SendAccept(d), n = d[1]
      PROVE  pc'[c] = "commit" /\ <<n, my_id'[c]>> \in accepts'
  <2>1. pc[d] = "persisted" /\ pc' = [pc EXCEPT ![d] = "commit"]
        /\ accepts' = accepts \cup {<<d[1], my_id[d]>>}
    BY <1>9, Zenon DEF SendAccept, Goto
  <2>2. d = c
    BY <1>2, <2>1, OnlyCall, Zenon
  <2>. QED
    BY <1>1, <1>2, <1>5, <1>9, <2>1, <2>2, Zenon DEF TypeOK, CallType
<1>10. ASSUME NEW m \in msgs, HandleAccept(m.dest, m) \/ HandleLearn(m.dest, m), n = m.dest,
              m.seq >= my_seq[c]
       PROVE  /\ pc'[c] = "commit"
              /\ <<n, my_id'[c]>> \in accepts' \/ committed'[Own(c)']
  <2>1. /\ m.phase \in {"ACCEPT", "LEARN"}
        /\ m.phase = "ACCEPT" => accepts' = accepts \cup {<<n, m.id>>}
    BY <1>10, Zenon DEF HandleAccept, Accept, HandleLearn
  <2>2. ~ (m.seq < my_seq[c])
    BY <1>3, <1>6, <1>10
  <2>3. m.id = my_id[c]
    BY <1>5, <2>1, <2>2, Zenon DEF FreshInv
  <2>4. pc[c] = "commit"
    BY <1>1, <1>2, <2>1, <2>3, Zenon DEF PhaseInv, Early
  <2>5. CASE m.phase = "ACCEPT"
    BY <1>5, <2>1, <2>3, <2>4, <2>5, Zenon
  <2>6. CASE m.phase = "LEARN"
    <3>1. Decided(my_id[c])
      BY <1>1, <2>3, <2>6, Zenon DEF ChosenInv, Chosen
    <3>. QED
      BY <1>2, <1>5, <3>1, CommittedStays, Zenon
  <2>. QED
    BY <2>1, <2>5, <2>6, Zenon
<1>11. ASSUME NEW m \in msgs, HandleAccept(m.dest, m) \/ HandleLearn(m.dest, m), n = m.dest,
              highest_sequence_persisted'[n] = MaxOf(highest_sequence_persisted[n], m.seq)
       PROVE  highest_sequence_persisted[n] >= my_seq[c] \/ m.seq >= my_seq[c]
  BY <1>3, <1>5, <1>6, <1>11, Zenon DEF MaxOf
<1>12. CASE \E m \in msgs :
               /\ HandleAccept(m.dest, m) \/ HandleLearn(m.dest, m)
               /\ n = m.dest
               /\ highest_sequence_persisted'[n] =
                     MaxOf(highest_sequence_persisted[n], m.seq)
  BY <1>7, <1>10, <1>11, <1>12, Zenon
<1>13. CASE \E d \in Caller : SendAccept(d) /\ n = d[1]
  BY <1>9, <1>13, Zenon
<1>. QED
  BY <1>1, <1>8, <1>12, <1>13, PersistedStep, Zenon

\* With one call at a time, a step keeps FreshInv.
LEMMA FreshStep ==
    ASSUME OneCaller, IInv, IInv', LogInv, ActiveInv, FreshInv, Next
    PROVE  FreshInv'
<1>1. \A c \in Proposers \X Thread :
          /\ \A n \in Node : highest_sequence_persisted'[n] < next_sequence_number'[c[1]]
          /\ \A m \in msgs' : m.phase \in {"ACCEPT", "LEARN"} =>
                m.seq < next_sequence_number'[c[1]]
  BY BelowCounter, Zenon
<1>2. \A c \in Numbered' : \A m \in msgs' :
          m.phase \in {"ACCEPT", "LEARN"} /\ m.id # my_id'[c] => m.seq < my_seq'[c]
  BY MessagesBelow, Zenon
<1>3. \A c \in Numbered' : \A n \in Node :
          highest_sequence_persisted'[n] >= my_seq'[c] =>
             /\ pc'[c] = "commit"
             /\ <<n, my_id'[c]>> \in accepts' \/ committed'[Own(c)']
  BY LogsBelow, Zenon
<1>. QED
  BY <1>1, <1>2, <1>3, Zenon DEF FreshInv

\* Only persist_callback takes a call to "persisted".
LEMMA PersistedBy ==
    ASSUME TypeOK, Next, NEW c \in Caller, pc'[c] = "persisted"
    PROVE  CallKept(c) \/ SelfPersist(c)
<1>1. pc \in [Caller -> PC]
  BY Zenon DEF TypeOK, CallType
<1>2. ASSUME NEW d \in Caller, NEW v \in Value, NextProposalId(d, v)
      PROVE  CallKept(c)
  <2>1. d # c
    BY <1>1, <1>2, Zenon DEF NextProposalId, Goto
  <2>. QED
    BY <1>2, <2>1, Zenon DEF NextProposalId, Goto, CallKept, TypeOK, CallType
<1>3. ASSUME NEW d \in Caller, Progress(d) \/ Timeout(d) \/ SelfPersistFails(d)
      PROVE  CallKept(c) \/ SelfPersist(c)
  <2>1. CASE d # c
    BY <1>3, <2>1, CarryStep, Zenon
  <2>2. ASSUME d = c, ScanBusySlot(c)
        PROVE  FALSE
    BY <2>2, Zenon DEF ScanBusySlot
  <2>3. ASSUME NextSequence(c) \/ TakeSlot(c) \/ PromiseQuorum(c)
               \/ SelfAccept(c) \/ SendAccept(c)
        PROVE  FALSE
    BY <1>1, <2>3, Zenon DEF NextSequence, TakeSlot, PromiseQuorum, SelfAccept, SendAccept, Goto
  <2>4. ASSUME NoFreeSlot(c) \/ Committed(c) \/ ReleaseAndFail(c)
        PROVE  FALSE
    BY <1>1, <2>4, Zenon DEF NoFreeSlot, Committed, ReleaseAndFail, Return, Goto
  <2>. QED
    BY <1>3, <2>1, <2>2, <2>3, <2>4, Zenon
    DEF Progress, Timeout, PromiseTimeout, CommitTimeout, SelfPersistFails
<1>4. ASSUME HandlerStep PROVE CallKept(c)
  BY <1>4, Zenon DEF HandlerStep, CallKept, localVars
<1>. QED
  BY <1>2, <1>3, <1>4, StepCases, Zenon

\* A call that waits for the commit was waiting, or sends ACCEPT.
LEMMA CommitBy ==
    ASSUME TypeOK, Next, NEW c \in Caller, pc'[c] = "commit"
    PROVE  /\ c \in Numbered /\ pc[c] # "idle"
           /\ my_id'[c] = my_id[c] /\ CallEntry(c)' = CallEntry(c)
           /\ my_value'[c] = my_value[c]
           /\ pc[c] = "commit" \/ SendAccept(c)
<1>1. Stays(c)
  BY CallStep, Zenon DEF Starts
<1>2. pc[c] = "commit" \/ SendAccept(c)
  BY <1>1, Zenon DEF Stays
<1>3. ~ NextSequence(c)
  BY <1>2, Zenon DEF NextSequence, SendAccept
<1>4. c \in Numbered'
  BY Zenon DEF Numbered
<1>5. /\ c \in Numbered /\ pc[c] # "idle"
      /\ my_id'[c] = my_id[c] /\ my_seq'[c] = my_seq[c] /\ my_value'[c] = my_value[c]
  BY <1>3, <1>4, NumberedStep, Zenon
<1>. QED
  BY <1>2, <1>5, Zenon DEF CallEntry

\* The ACCEPT of a call carries its value.
LEMMA ValueSent ==
    ASSUME OneCaller, IInv, LogInv, ActiveInv, StoredInv, Next,
           NEW c \in Caller, pc'[c] = "commit",
           NEW k \in msgs', k.phase = "ACCEPT", k.id = my_id'[c]
    PROVE  k.value = my_value'[c]
<1>1. TypeOK /\ PhaseInv
  BY Zenon DEF IInv
<1>2. /\ c \in Numbered /\ pc[c] # "idle" /\ c \in Proposers \X Thread
      /\ my_id'[c] = my_id[c] /\ my_value'[c] = my_value[c]
      /\ pc[c] = "commit" \/ SendAccept(c)
  BY <1>1, CommitBy, Zenon DEF ActiveInv
<1>3. CASE k \in msgs
  <2>1. pc[c] = "commit"
    BY <1>1, <1>2, <1>3, Zenon DEF PhaseInv, Early
  <2>. QED
    BY <1>2, <1>3, <2>1, Zenon DEF StoredInv
<1>4. CASE k \notin msgs
  <2>1. PICK d \in Numbered : k.value = my_value[d]
    BY <1>4, NewMessage, Zenon
  <2>2. d = c
    BY <1>2, OnlyCall, Zenon DEF Numbered
  <2>. QED
    BY <1>2, <2>1, <2>2, Zenon
<1>. QED
  BY <1>3, <1>4, Zenon

\* The acceptor that answers an ACCEPT while its call waits has stored it: its
\* highest_sequence_persisted is still below the number.
LEMMA AcceptorStores ==
    ASSUME IInv, LogInv, FreshInv, StoredInv, NEW m \in msgs, HandleAccept(m.dest, m),
           NEW c \in Numbered, pc[c] = "commit", m.id = my_id[c], ~ committed[Own(c)]
    PROVE  CallEntry(c) \in wal'[m.dest]
<1>1. TypeOK /\ AcceptInv /\ CarryInv /\ c \in Caller
  BY Zenon DEF IInv, LogInv, Numbered
<1>2. m \in Message /\ m.phase = "ACCEPT"
  BY <1>1, Zenon DEF TypeOK, HandleAccept, Accept
<1>3. m.dest \in Node /\ m.seq \in Nat
  BY <1>2, Zenon DEF Message
<1>4. <<m.dest, my_id[c]>> \notin accepts
  BY <1>1, <1>2, Zenon DEF AcceptInv
<1>5. m.seq = my_seq[c] /\ m.value = my_value[c]
  BY <1>1, <1>2, Zenon DEF CarryInv, StoredInv
<1>6. ~ (highest_sequence_persisted[m.dest] >= my_seq[c])
  BY <1>3, <1>4, Zenon DEF FreshInv
<1>7. NewSequence(m.dest, m)
  BY <1>1, <1>3, <1>5, <1>6 DEF NewSequence, TypeOK, NodeType
<1>8. wal' = [wal EXCEPT ![m.dest] = @ \cup {EntryOf(m)}]
  BY <1>7, Zenon DEF HandleAccept
<1>9. EntryOf(m) = CallEntry(c)
  BY <1>5, Zenon DEF EntryOf, CallEntry
<1>. QED
  BY <1>1, <1>3, <1>8, <1>9, Zenon DEF TypeOK, LogType

\* Who has accepted the operation of a call that waits has stored it.
LEMMA AcceptorsHave ==
    ASSUME OneCaller, IInv, IInv', LogInv, ActiveInv, FreshInv, StoredInv, Next,
           NEW c \in Caller, pc'[c] = "commit", ~ committed'[Own(c)'],
           NEW a \in Node, <<a, my_id[c]>> \in accepts'
    PROVE  CallEntry(c) \in wal'[a]
<1>1. TypeOK /\ PhaseInv
  BY Zenon DEF IInv
<1>2. /\ c \in Numbered /\ pc[c] # "idle" /\ c \in Proposers \X Thread
      /\ my_id'[c] = my_id[c]
      /\ pc[c] = "commit" \/ SendAccept(c)
  BY <1>1, CommitBy, Zenon DEF ActiveInv
<1>3. ASSUME pc[c] = "commit" PROVE ~ committed[Own(c)]
  <2>1. ASSUME committed[Own(c)] PROVE Decided(my_id[c])
    BY <1>3, <2>1, Zenon DEF Decided
  <2>. QED
    BY <1>2, <2>1, CommittedStays, Zenon
<1>4. wal[a] \subseteq wal'[a]
  BY <1>1, WalGrows, Zenon
<1>5. CASE <<a, my_id[c]>> \in accepts
  <2>1. pc[c] = "commit"
    BY <1>1, <1>2, <1>5, Zenon DEF PhaseInv, Early
  <2>2. CallEntry(c) \in wal[a]
    BY <1>3, <1>5, <2>1, Zenon DEF StoredInv, Acceptors
  <2>. QED
    BY <1>4, <2>2, Zenon
<1>6. ASSUME NEW d \in Caller, SendAccept(d), <<a, my_id[c]>> = <<d[1], my_id[d]>>
      PROVE  CallEntry(c) \in wal'[a]
  <2>1. pc[d] = "persisted"
    BY <1>6, Zenon DEF SendAccept
  <2>2. d = c
    BY <1>2, <2>1, OnlyCall, Zenon
  <2>3. CallEntry(c) \in wal[c[1]] /\ a = c[1]
    BY <1>6, <2>1, <2>2, Zenon DEF StoredInv
  <2>. QED
    BY <1>4, <2>3, Zenon
<1>7. ASSUME NEW m \in msgs, HandleAccept(m.dest, m), <<a, my_id[c]>> = <<m.dest, m.id>>
      PROVE  CallEntry(c) \in wal'[a]
  <2>1. a = m.dest /\ m.id = my_id[c] /\ m.phase = "ACCEPT"
    BY <1>7, Zenon DEF HandleAccept, Accept
  <2>2. pc[c] = "commit"
    BY <1>1, <1>2, <2>1, Zenon DEF PhaseInv, Early
  <2>. QED
    BY <1>2, <1>3, <1>7, <2>1, <2>2, AcceptorStores, Zenon
<1>. QED
  BY <1>1, <1>5, <1>6, <1>7, AcceptsStep, Zenon

\* With one call at a time, a step keeps StoredInv.
LEMMA StoredStep ==
    ASSUME OneCaller, IInv, IInv', LogInv, ActiveInv, FreshInv, StoredInv, Next
    PROVE  StoredInv'
<1>1. TypeOK
  BY Zenon DEF IInv
<1>2. ASSUME NEW c \in Caller, pc'[c] = "persisted"
      PROVE  CallEntry(c)' \in wal'[c[1]]
  <2>1. c[1] \in Node
    BY Zenon DEF Caller
  <2>2. CASE CallKept(c)
    <3>1. CallEntry(c)' = CallEntry(c) /\ CallEntry(c) \in wal[c[1]]
      BY <1>2, <2>2, Zenon DEF CallKept, CallEntry, StoredInv
    <3>. QED
      BY <1>1, <2>1, <3>1, WalGrows, Zenon
  <2>3. CASE SelfPersist(c)
    <3>1. CallEntry(c)' = CallEntry(c)
      BY <2>3, Zenon DEF SelfPersist, localVars, CallEntry
    <3>2. wal' = [wal EXCEPT ![c[1]] = @ \cup {CallEntry(c)}]
      BY <2>3, Zenon DEF SelfPersist, CallEntry
    <3>. QED
      BY <1>1, <2>1, <3>1, <3>2, Zenon DEF TypeOK, LogType
  <2>. QED
    BY <1>1, <1>2, <2>2, <2>3, PersistedBy, Zenon
<1>3. ASSUME NEW c \in Caller, pc'[c] = "commit", ~ committed'[Own(c)'],
             NEW a \in Node, <<a, my_id'[c]>> \in accepts'
      PROVE  CallEntry(c)' \in wal'[a]
  BY <1>1, <1>3, AcceptorsHave, CommitBy, Zenon
<1>. QED
  BY <1>2, <1>3, ValueSent, Zenon DEF StoredInv, Acceptors

\* The log files that hold e.
StoredBy(e) == {p \in Node : e \in wal[p]}

\* What is in a majority of the logs stays there.
LEMMA StoredKept ==
    ASSUME Counting, TypeOK, Next, NEW e, Cardinality(StoredBy(e)) >= QuorumSize
    PROVE  Cardinality(StoredBy(e)') >= QuorumSize
<1>1. StoredBy(e) \subseteq StoredBy(e)' /\ StoredBy(e)' \subseteq Node
  BY WalGrows, Zenon DEF StoredBy
<1>2. /\ Cardinality(StoredBy(e)) \in Nat /\ Cardinality(StoredBy(e)') \in Nat
      /\ Cardinality(StoredBy(e)) <= Cardinality(StoredBy(e)')
  BY <1>1, Zenon DEF Counting
<1>3. QuorumSize \in Nat
  BY DEF Counting, QuorumSize
<1>. QED
  BY <1>2, <1>3

\* The ACCEPTED that completes the quorum finds the entry in a majority of logs.
LEMMA CommitStored ==
    ASSUME Counting, IInv, LogInv, StoredInv, Next,
           NEW m \in msgs, NEW s \in SlotsOf(m.dest), HandleCommit(m.dest, s, m),
           NEW c \in Numbered, pc[c] = "commit", my_id[c] = m.id
    PROVE  Cardinality(StoredBy(CallEntry(c))) >= QuorumSize
<1>0. PICK e, id : e = CallEntry(c) /\ id = m.id
  BY Zenon
<1>1. c \in Caller /\ ~ committed[Own(c)]
  BY CommitIsFirst, Zenon DEF Numbered, Decided
<1>2. \A a \in Acceptors(id) : e \in wal[a]
  BY <1>0, <1>1, Zenon DEF StoredInv
<1>3. accepts' = accepts
  BY Zenon DEF HandleCommit
<1>4. Cardinality(Acceptors(id)) >= QuorumSize
  <2>1. Acceptors(id)' = Acceptors(id)
    BY <1>3, Zenon DEF Acceptors
  <2>2. Chosen(id)'
    BY <1>0, CommitChooses, Zenon
  <2>. QED
    BY <2>1, <2>2, Zenon DEF Chosen, QuorumSize
<1>5. Acceptors(id) \subseteq StoredBy(e) /\ StoredBy(e) \subseteq Node
  BY <1>2, Zenon DEF Acceptors, StoredBy
<1>6. /\ Cardinality(Acceptors(id)) \in Nat /\ Cardinality(StoredBy(e)) \in Nat
      /\ Cardinality(Acceptors(id)) <= Cardinality(StoredBy(e))
  BY <1>5, Zenon DEF Counting
<1>7. QuorumSize \in Nat
  BY DEF Counting, QuorumSize
<1>8. Cardinality(StoredBy(e)) >= QuorumSize
  BY <1>4, <1>6, <1>7
<1>. QED
  BY <1>0, <1>8, Zenon

\* A step keeps CommittedDurable.
LEMMA DurableStep ==
    ASSUME Counting, IInv, LogInv, LogInv', StoredInv, CommittedDurable, Next
    PROVE  CommittedDurable'
<1>. SUFFICES ASSUME NEW n \in Node, NEW e \in AppliedEntries(n)'
              PROVE  Cardinality(StoredBy(e)') >= QuorumSize
  BY Zenon DEF CommittedDurable, StoredBy, QuorumSize
<1>1. TypeOK /\ CarryInv /\ IssuedInv /\ NumberInv'
  BY Zenon DEF IInv, LogInv
<1>2. \A p \in Node : \A f \in AppliedEntries(p) : Cardinality(StoredBy(f)) >= QuorumSize
  BY Zenon DEF CommittedDurable, StoredBy
<1>3. ASSUME NEW f \in Known', f.id = e.id PROVE e = f
  <2>1. e \in Known'
    BY Zenon DEF Known
  <2>. QED
    BY <1>1, <1>3, <2>1, Zenon DEF NumberInv
<1>4. CASE e \in AppliedEntries(n)
  BY <1>1, <1>2, <1>4, StoredKept, Zenon
<1>5. ASSUME NEW m \in msgs, HandleLearn(m.dest, m), e.id = m.id
      PROVE  Cardinality(StoredBy(e)') >= QuorumSize
  <2>1. m.phase = "LEARN"
    BY <1>5, Zenon DEF HandleLearn
  <2>2. Issuer(m.id) \in Node /\ EntryOf(m) \in AppliedEntries(Issuer(m.id))
    BY <1>1, <2>1, Zenon DEF CarryInv, IssuedInv, Issued
  <2>3. PICK p \in Node : EntryOf(m) \in AppliedEntries(p)
    BY <2>2, Zenon
  <2>4. EntryOf(m) \in Known'
    <3>1. EntryOf(m) \in AppliedEntries(p)'
      BY <1>1, <2>3, AppliedKept, Zenon
    <3>. QED
      BY <3>1, Zenon DEF Known
  <2>5. EntryOf(m) = e
    BY <1>3, <1>5, <2>4, Zenon DEF EntryOf
  <2>. QED
    BY <1>1, <1>2, <2>3, <2>5, StoredKept, Zenon
<1>6. ASSUME NEW m \in msgs, NEW s \in SlotsOf(m.dest), HandleCommit(m.dest, s, m),
             e.id = m.id
      PROVE  Cardinality(StoredBy(e)') >= QuorumSize
  <2>1. PICK c \in Numbered : pc[c] = "commit" /\ my_id[c] = m.id
    BY <1>6, CommitEntry, Zenon
  <2>2. UNCHANGED <<pc, my_id, my_seq, my_value>>
    BY <1>6, Zenon DEF HandleCommit, localVars
  <2>3. CallEntry(c) \in Known'
    BY <2>2, Zenon DEF Known, Pending, Numbered, CallEntry
  <2>4. CallEntry(c).id = m.id
    BY <2>1, Zenon DEF CallEntry
  <2>5. e = CallEntry(c)
    BY <1>3, <1>6, <2>3, <2>4, Zenon
  <2>6. Cardinality(StoredBy(e)) >= QuorumSize
    BY <1>6, <2>1, <2>5, CommitStored, Zenon
  <2>. QED
    BY <1>1, <2>6, StoredKept, Zenon
<1>. QED
  BY <1>1, <1>4, <1>5, <1>6, AppliedStep, Zenon
-----------------------------------------------------------------------------
(***************************************************************************)
(* The theorems                                                            *)
(***************************************************************************)
Finite == INSTANCE FiniteSetTheorems

\* The library's notions are those of the model.
LEMMA SameNotions ==
    ASSUME NEW S
    PROVE  /\ Finite!IsFiniteSet(S) <=> IsFiniteSet(S)
           /\ Finite!Cardinality(S) = Cardinality(S)
<1>1. Finite!IsFiniteSet(S) <=> IsFiniteSet(S)
  BY Zenon DEF Finite!IsFiniteSet, IsFiniteSet
<1>2. Finite!Cardinality(S) = Cardinality(S)
  BY Zenon DEF Finite!Cardinality, Cardinality
<1> QED
  BY <1>1, <1>2, Zenon

\* Sets of nodes are finite, and counting them is monotone.
LEMMA CountNodes == Counting
<1> SUFFICES ASSUME NEW S \in SUBSET Node, NEW T \in SUBSET S
             PROVE  /\ Cardinality(S) \in Nat /\ Cardinality(T) \in Nat
                    /\ Cardinality(T) <= Cardinality(S)
                    /\ \A x \in S \ T : Cardinality(T) + 1 <= Cardinality(S)
  BY Zenon DEF Counting
<1>1. IsFiniteSet(S) /\ IsFiniteSet(T)
  <2>1. IsFiniteSet(Node)
    BY NodeAssumption
  <2>2. IsFiniteSet(S)
    BY <2>1, SameNotions, Finite!FS_Subset, Zenon
  <2> QED
    BY <2>2, SameNotions, Finite!FS_Subset, Zenon
<1>2. ASSUME NEW x \in S \ T
      PROVE  Cardinality(T) + 1 <= Cardinality(S)
  <2>1. T \cup {x} \in SUBSET S
    BY <1>2, Zenon
  <2>2. Cardinality(T \cup {x}) = Cardinality(T) + 1
    BY <1>1, <1>2, SameNotions, Finite!FS_AddElement, Zenon
  <2>3. Cardinality(T \cup {x}) <= Cardinality(S)
    BY <1>1, <2>1, SameNotions, Finite!FS_Subset
  <2> QED
    BY <2>2, <2>3, Zenon
<1>3. Cardinality(S) \in Nat /\ Cardinality(T) \in Nat
  BY <1>1, SameNotions, Finite!FS_CardinalityType, Zenon
<1>4. Cardinality(T) <= Cardinality(S)
  BY <1>1, SameNotions, Finite!FS_Subset, Zenon
<1> QED
  BY <1>2, <1>3, <1>4, Zenon

\* The inductive invariant of the protocol.
THEOREM Invariance == Spec => []IInv
<1>1. IInv /\ [Next]_vars => IInv'
  BY CountNodes, StepIInv, Zenon
<1> QED
  BY <1>1, InitIInv, PTL DEF Spec

\* paxos_handle_message applies nothing without a majority of acceptors.
THEOREM CommitNeedsQuorum == Spec => []CommitHasQuorum
<1>1. IInv => CommitHasQuorum
  BY Zenon DEF IInv, ChosenInv, Chosen, Acceptors, CommitHasQuorum
<1> QED
  BY <1>1, Invariance, PTL

\* paxos_propose never returns -1 for an operation that any node applies.
THEOREM FailureIsFinal == Spec => []FailedNeverApplied
<1>1. IInv => FailedNeverApplied
  <2> SUFFICES ASSUME IInv, NEW n \in Node, NEW e \in AppliedEntries(n)
               PROVE  e.id \notin failed
    BY Zenon DEF FailedNeverApplied
  <2>1. Decided(e.id)
    BY Zenon DEF IInv, ChosenInv, Chosen
  <2> QED
    BY <2>1, Zenon DEF IInv, CallInv, Decided
<1> QED
  BY <1>1, Invariance, PTL

\* Whether a node hears of a commit as proposer or by LEARN, once is all.
THEOREM NothingTwice == Spec => []AppliedOnce
<1>1. IInv => AppliedOnce
  BY Zenon DEF IInv, LearnInv
<1> QED
  BY <1>1, Invariance, PTL

\* A call that returned 0 left its operation applied on its own node.
THEOREM SuccessMeansApplied == Spec => []SuccessApplied
<1>1. IInv => SuccessApplied
  BY Zenon DEF IInv, DoneInv
<1> QED
  BY <1>1, Invariance, PTL

\* The numbers, slots and messages of the protocol are consistent in every state.
THEOREM LogInvariance == Spec => [](IInv /\ LogInv)
<1>1. Init => LogInv
  <2> SUFFICES ASSUME Init PROVE LogInv
    BY Zenon
  <2>1. /\ msgs = {} /\ \A c \in Caller : pc[c] = "idle"
        /\ \A n \in Node : AppliedEntries(n) = {}
    BY DEF Init, AppliedEntries
  <2>2. Known = {}
    BY <2>1, Zenon DEF Known, Pending, Numbered
  <2> QED
    BY <2>1, <2>2, Zenon DEF LogInv, NumberInv, CarryInv, HighestInv, Holding
<1>2. IInv /\ LogInv /\ Next => LogInv'
  BY NumberInvStep, CarryInvStep, HighestInvStep, Zenon DEF LogInv
<1>3. LogInv /\ UNCHANGED vars => LogInv'
  <2> SUFFICES ASSUME LogInv, UNCHANGED vars PROVE LogInv'
    BY Zenon
  <2>1. UNCHANGED <<next_sequence_number, highest_sequence_committed, pc, my_id, my_seq,
            my_slot, my_value, sequence_number, proposed_value, msgs, applied>>
    BY Zenon DEF vars, seqVars, slotVars, localVars, logVars
  <2>2. Known' = Known
    BY <2>1 DEF Known, Pending, Numbered, CallEntry, AppliedEntries
  <2>3. NumberInv' /\ HighestInv'
    BY <2>1, <2>2, Zenon DEF LogInv, NumberInv, HighestInv, AppliedEntries
  <2>4. CarryInv'
    BY <2>1, Zenon DEF LogInv, CarryInv, Holding, Own, AppliedEntries
  <2> QED
    BY <2>3, <2>4, Zenon DEF LogInv
<1>4. IInv /\ IInv' /\ LogInv /\ [Next]_vars => LogInv'
  BY <1>2, <1>3, Zenon
<1> QED
  BY <1>1, <1>4, Invariance, PTL DEF Spec

\* Nodes that have applied the same number of the same proposer have applied the
\* same operation, whether they heard of it as proposer or by LEARN.
THEOREM ProposersAgree == Spec => []ProposerAgreement
<1>1. LogInv => ProposerAgreement
  BY Zenon DEF LogInv, NumberInv, Known, ProposerAgreement
<1> QED
  BY <1>1, LogInvariance, PTL

\* paxos_propose keeps what CommitLog promises, for every cluster and whatever
\* the network and the logs do.
THEOREM Refinement == Spec => ImplementsLog
<1>1. Init => Log!Init
  BY Zenon DEF Init, Log!Init, Pending, Numbered
<1>2. UNCHANGED vars => UNCHANGED Log!vars
  BY Zenon DEF vars, localVars, logVars, resultVars, Log!vars, Pending, Numbered, CallEntry
<1>3. IInv /\ LogInv /\ [Next]_vars => [Log!Next]_(Log!vars)
  BY <1>2, RefinesStep, Zenon
<1> QED
  BY <1>1, <1>3, LogInvariance, PTL DEF Spec, ImplementsLog, Log!Spec

\* One call at a time keeps numbers, messages and logs in one order.
THEOREM DurableInvariance ==
    ASSUME OneCaller
    PROVE  Spec => []DurableInv
<1>1. Init => DurableInv
  <2>. SUFFICES ASSUME Init PROVE DurableInv
    BY Zenon
  <2>1. /\ msgs = {} /\ \A c \in Caller : pc[c] = "idle"
        /\ \A n \in Node : AppliedEntries(n) = {}
    BY DEF Init, AppliedEntries
  <2>2. \A n \in Node : highest_sequence_persisted[n] = 0 /\ next_sequence_number[n] = 1
    BY Zenon DEF Init
  <2>3. \A c \in Proposers \X Thread : c[1] \in Node
    <3>1. Proposers \subseteq Node
      BY NodeAssumption
    <3>. QED
      BY <3>1, Zenon
  <2>4. ActiveInv /\ StoredInv /\ CommittedDurable
    BY <2>1, Zenon DEF ActiveInv, StoredInv, CommittedDurable
  <2>5. FreshInv
    BY <2>1, <2>2, <2>3 DEF FreshInv, Numbered
  <2>. QED
    BY <2>4, <2>5, Zenon DEF DurableInv
<1>2. IInv /\ IInv' /\ LogInv /\ LogInv' /\ DurableInv /\ Next => DurableInv'
  BY CountNodes, ActiveStep, FreshStep, StoredStep, DurableStep, Zenon DEF DurableInv
<1>3. DurableInv /\ UNCHANGED vars => DurableInv'
  <2>. SUFFICES ASSUME DurableInv, UNCHANGED vars PROVE DurableInv'
    BY Zenon
  <2>1. UNCHANGED <<next_sequence_number, highest_sequence_persisted, pc, my_id, my_seq,
            my_slot, my_value, committed, msgs, applied, wal, accepts>>
    BY Zenon DEF vars, seqVars, slotVars, localVars, logVars
  <2>2. ActiveInv' /\ FreshInv'
    BY <2>1, Zenon DEF DurableInv, ActiveInv, FreshInv, Numbered, Own
  <2>3. StoredInv'
    BY <2>1, Zenon DEF DurableInv, StoredInv, Own, CallEntry, Acceptors
  <2>4. CommittedDurable'
    <3>1. CommittedDurable
      BY Zenon DEF DurableInv
    <3>2. \A n \in Node : AppliedEntries(n)' = AppliedEntries(n)
      BY <2>1, Zenon DEF AppliedEntries
    <3>. QED
      BY <2>1, <3>1, <3>2, Zenon DEF CommittedDurable, QuorumSize
  <2>. QED
    BY <2>2, <2>3, <2>4, Zenon DEF DurableInv
<1>4. (IInv /\ LogInv) /\ (IInv /\ LogInv)' /\ DurableInv /\ [Next]_vars => DurableInv'
  BY <1>2, <1>3, Zenon
<1>. QED
  BY <1>1, <1>4, LogInvariance, PTL DEF Spec

\* While one client at a time is inside paxos_propose, whatever a node has applied
\* is in the log files of a majority.
THEOREM CommitsDurable ==
    ASSUME OneCaller
    PROVE  Spec => []CommittedDurable
<1>1. DurableInv => CommittedDurable
  BY Zenon DEF DurableInv
<1>. QED
  BY <1>1, DurableInvariance, PTL
=============================================================================
