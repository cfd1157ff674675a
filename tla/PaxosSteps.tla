----------------------------- MODULE PaxosSteps -----------------------------
(***************************************************************************)
(* Steps of Paxos, for every cluster, every number of proposer threads and *)
(* slots, and every number of calls: their types, what each can change,    *)
(* variable by variable, and that each keeps the conjuncts of IInv.        *)
(***************************************************************************)
EXTENDS PaxosInv, TLAPS

\* A broadcast consists of messages.
LEMMA BroadcastType ==
    ASSUME NEW n \in Node, NEW phase \in Phase, NEW id \in Nat,
           NEW seq \in Nat, NEW acc \in Nat, NEW v \in MaybeValue
    PROVE  Broadcast(n, phase, id, seq, acc, v) \subseteq Message
BY DEF Broadcast, Message

\* What a broadcast message is.
LEMMA BroadcastMember ==
    ASSUME NEW n, NEW phase, NEW id, NEW seq, NEW acc, NEW v,
           NEW k \in Broadcast(n, phase, id, seq, acc, v)
    PROVE  k.id = id /\ k.phase = phase /\ k.dest \in Node \ {n}
BY DEF Broadcast

\* A log to which an entry is appended.
LEMMA EntryAppended ==
    ASSUME NEW log \in [Node -> Seq(Entry)], NEW n \in Node, NEW e \in Entry
    PROVE  [log EXCEPT ![n] = Append(@, e)] \in [Node -> Seq(Entry)]
OBVIOUS

\* A reply is a message.
LEMMA ReplyType ==
    ASSUME NEW n \in Node, NEW m \in Message, NEW acc \in Nat,
           NEW phase \in Phase
    PROVE  Reply(n, m, phase, acc) \in Message
BY Zenon DEF Reply, Message, MaybeValue

\* Node ids fit in 16 bits, so an issued id is above every id seen before
\* and its low bits name its node.
LEMMA ProposalIdFacts ==
    ASSUME NEW n \in Node, NEW h \in Nat
    PROVE  /\ ProposalId(n, h) \in Nat
           /\ ProposalId(n, h) > h
           /\ Issuer(ProposalId(n, h)) = n
<1>1. n \in Nat /\ n < 65536
  BY NodeAssumption
<1>2. n % 65536 = n
  BY <1>1
<1>3. PICK b \in Nat : b = Ballot(h) /\ h < (b + 1) * 65536
  BY DEF Ballot
<1>4. ProposalId(n, h) = (b + 1) * 65536 + n
  BY <1>2, <1>3 DEF ProposalId
<1>5. ((b + 1) * 65536 + n) % 65536 = n
  BY <1>1
<1> QED
  BY <1>1, <1>3, <1>4, <1>5 DEF Issuer

\* A step that leaves the variables of a group alone keeps their types.
LEMMA NodeTypeUnchanged ==
    NodeType /\ UNCHANGED <<acceptorVars, next_sequence_number, seqVars>> => NodeType'
BY Zenon DEF NodeType, acceptorVars, seqVars

\* A step that leaves the slot pool alone keeps its type.
LEMMA SlotTypeUnchanged == SlotType /\ UNCHANGED slotVars => SlotType'
BY Zenon DEF SlotType, slotVars

\* A step that leaves the threads alone keeps the type of their locals.
LEMMA CallTypeUnchanged == CallType /\ UNCHANGED <<pc, localVars>> => CallType'
BY Zenon DEF CallType, localVars

\* A step that leaves the logs and the results alone keeps their type.
LEMMA LogTypeUnchanged == LogType /\ UNCHANGED <<logVars, resultVars>> => LogType'
BY Zenon DEF LogType, logVars, resultVars

\* Moving a thread to another critical section of paxos_propose keeps pc typed.
LEMMA GotoType ==
    ASSUME CallType, NEW c \in Caller, NEW l \in PC, Goto(c, l),
           UNCHANGED localVars
    PROVE  CallType'
BY Zenon DEF CallType, Goto, localVars

\* A return from paxos_propose keeps the type of the locals.
LEMMA ReturnType ==
    ASSUME CallType, NEW c \in Caller, Return(c)
    PROVE  CallType'
BY Zenon DEF CallType, Return, Goto, PC, MaybeValue

\* paxos_release_proposal_slot keeps the type of the slot pool.
LEMMA ReleaseType ==
    ASSUME SlotType, NEW s, Release(s)
    PROVE  SlotType'
BY Zenon DEF SlotType, Release, MaybeValue

\* Type correctness is preserved by the steps of paxos_propose.
LEMMA TypeProposer ==
    ASSUME TypeOK, NEW c \in Caller,
           Progress(c) \/ Timeout(c) \/ SelfPersistFails(c)
    PROVE  TypeOK'
<1>1. NodeType /\ SlotType /\ CallType /\ msgs \subseteq Message /\ LogType
  BY Zenon DEF TypeOK
<1>2. /\ c[1] \in Node
      /\ my_id[c] \in Nat /\ my_seq[c] \in Nat
      /\ my_slot[c] \in Nat /\ my_value[c] \in MaybeValue
  BY <1>1, Zenon DEF Caller, CallType
<1>3. CASE ReleaseAndFail(c)
  <2>1. NodeType'
    BY <1>1, <1>3, NodeTypeUnchanged, Zenon DEF ReleaseAndFail
  <2>2. SlotType' /\ CallType'
    BY <1>1, <1>3, ReleaseType, ReturnType, Zenon DEF ReleaseAndFail
  <2>3. LogType'
    BY <1>1, <1>2, <1>3, Zenon DEF ReleaseAndFail, LogType, logVars
  <2> QED
    BY <1>1, <1>3, <2>1, <2>2, <2>3, Zenon DEF ReleaseAndFail, TypeOK
<1>4. CASE NextSequence(c)
  <2>1. NodeType'
    BY <1>1, <1>2, <1>4 DEF NextSequence, NodeType, acceptorVars, seqVars
  <2>2. CallType'
    BY <1>1, <1>2, <1>4, Zenon DEF NextSequence, Goto, PC, CallType, NodeType
  <2> QED
    BY <1>1, <1>4, <2>1, <2>2, SlotTypeUnchanged, LogTypeUnchanged, Zenon
    DEF NextSequence, TypeOK
<1>5. CASE ScanBusySlot(c)
  <2>1. CallType'
    BY <1>1, <1>2, <1>5 DEF ScanBusySlot, CallType
  <2> QED
    BY <1>1, <1>5, <2>1, NodeTypeUnchanged, SlotTypeUnchanged, LogTypeUnchanged, Zenon
    DEF ScanBusySlot, TypeOK
<1>6. CASE NoFreeSlot(c)
  <2>1. LogType'
    BY <1>1, <1>2, <1>6, Zenon DEF NoFreeSlot, LogType, logVars
  <2> QED
    BY <1>1, <1>6, <2>1, NodeTypeUnchanged, SlotTypeUnchanged, ReturnType, Zenon
    DEF NoFreeSlot, TypeOK
<1>7. CASE TakeSlot(c)
  <2>1. msgs' \subseteq Message
    <3>1. Broadcast(c[1], "PREPARE", my_id[c], my_seq[c], 0, NULL) \subseteq Message
      BY <1>2, BroadcastType, Zenon DEF Phase, MaybeValue
    <3> QED
      BY <1>1, <1>7, <3>1, Zenon DEF TakeSlot
  <2>2. SlotType'
    BY <1>1, <1>2, <1>7, Zenon DEF TakeSlot, SlotType
  <2>3. CallType'
    BY <1>1, <1>7, GotoType, Zenon DEF TakeSlot, PC
  <2> QED
    BY <1>1, <1>7, <2>1, <2>2, <2>3, NodeTypeUnchanged, LogTypeUnchanged, Zenon
    DEF TakeSlot, TypeOK
<1>8. CASE PromiseQuorum(c)
  <2>1. CallType'
    BY <1>1, <1>8, GotoType, Zenon DEF PromiseQuorum, PC
  <2> QED
    BY <1>1, <1>8, <2>1, NodeTypeUnchanged, SlotTypeUnchanged, LogTypeUnchanged, Zenon
    DEF PromiseQuorum, TypeOK
<1>9. CASE SelfAccept(c)
  <2>1. NodeType'
    BY <1>1, <1>2, <1>9, Zenon DEF SelfAccept, NodeType, acceptorVars, seqVars
  <2>2. CallType'
    BY <1>1, <1>9, GotoType, Zenon DEF SelfAccept, PC
  <2> QED
    BY <1>1, <1>9, <2>1, <2>2, SlotTypeUnchanged, LogTypeUnchanged, Zenon
    DEF SelfAccept, TypeOK
<1>10. CASE SelfPersist(c)
  <2>1. LogType'
    <3>1. [id |-> my_id[c], seq |-> my_seq[c], value |-> my_value[c]] \in Entry
      BY <1>2, Zenon DEF Entry
    <3> QED
      BY <1>1, <1>2, <1>10, <3>1, Zenon DEF SelfPersist, LogType, resultVars
  <2>2. CallType'
    BY <1>1, <1>10, GotoType, Zenon DEF SelfPersist, PC
  <2> QED
    BY <1>1, <1>10, <2>1, <2>2, NodeTypeUnchanged, SlotTypeUnchanged, Zenon
    DEF SelfPersist, TypeOK
<1>11. CASE SendAccept(c)
  <2>1. msgs' \subseteq Message
    <3>1. Broadcast(c[1], "ACCEPT", my_id[c], my_seq[c], 0, my_value[c])
              \subseteq Message
      BY <1>2, BroadcastType, Zenon DEF Phase
    <3> QED
      BY <1>1, <1>11, <3>1, Zenon DEF SendAccept
  <2>2. NodeType'
    BY <1>1, <1>2, <1>11, Zenon DEF SendAccept, NodeType, MaxOf, acceptorVars
  <2>3. LogType'
    BY <1>1, <1>2, <1>11 DEF SendAccept, LogType, resultVars
  <2>4. SlotType'
    BY <1>1, <1>11, Zenon DEF SendAccept, SlotType
  <2>5. CallType'
    BY <1>1, <1>11, GotoType, Zenon DEF SendAccept, PC
  <2> QED
    BY <1>11, <2>1, <2>2, <2>3, <2>4, <2>5, Zenon DEF TypeOK
<1>12. CASE Committed(c)
  <2>1. LogType'
    BY <1>1, <1>2, <1>12, Zenon DEF Committed, LogType, logVars
  <2> QED
    BY <1>1, <1>12, <2>1, NodeTypeUnchanged, ReleaseType, ReturnType, Zenon
    DEF Committed, TypeOK
<1> QED
  BY <1>3, <1>4, <1>5, <1>6, <1>7, <1>8, <1>9, <1>10, <1>11, <1>12, Zenon
  DEF Progress, Timeout, PromiseTimeout, CommitTimeout, SelfPersistFails

\* Type correctness is preserved by paxos_handle_message.
LEMMA TypeHandler ==
    ASSUME TypeOK, NEW m \in msgs,
           HandleMessage(m) \/ HandleAcceptFails(m.dest, m)
    PROVE  TypeOK'
<1>1. NodeType /\ SlotType /\ CallType /\ msgs \subseteq Message /\ LogType
  BY Zenon DEF TypeOK
<1>2. PICK n \in Node : n = m.dest
  BY <1>1, Zenon DEF Message
<1>3. /\ m \in Message /\ m.id \in Nat /\ m.seq \in Nat
      /\ m.value \in MaybeValue
      /\ EntryOf(m) \in Entry
  BY <1>1, Zenon DEF Message, EntryOf, Entry
<1>4. CASE HandlePrepare(n, m)
  <2>1. msgs' \subseteq Message
    <3>1. Reply(n, m, "PROMISE", last_accepted_proposal[n]) \in Message
      BY <1>1, <1>3, ReplyType, Zenon DEF Phase, NodeType
    <3> QED
      BY <1>1, <1>4, <3>1, Zenon DEF HandlePrepare, Receive
  <2>2. NodeType'
    BY <1>1, <1>3, <1>4, Zenon DEF HandlePrepare, NodeType, seqVars
  <2> QED
    BY <1>1, <1>4, <2>1, <2>2, SlotTypeUnchanged, CallTypeUnchanged,
       LogTypeUnchanged, Zenon DEF HandlePrepare, TypeOK
<1>5. ASSUME NEW s \in Slot, HandlePromise(s, m) PROVE TypeOK'
  <2>1. SlotType'
    BY <1>1, <1>5 DEF HandlePromise, SlotType
  <2> QED
    BY <1>1, <1>5, <2>1, NodeTypeUnchanged, CallTypeUnchanged, LogTypeUnchanged, Zenon
    DEF HandlePromise, Receive, TypeOK
<1>6. CASE HandleAccept(n, m)
  <2>1. msgs' \subseteq Message
    <3>1. Reply(n, m, "ACCEPTED", 0) \in Message
      BY <1>3, ReplyType, Zenon DEF Phase
    <3> QED
      BY <1>1, <1>6, <3>1, Zenon DEF HandleAccept, Receive
  <2>2. LogType'
    BY <1>1, <1>3, <1>6 DEF HandleAccept, Accept, LogType, resultVars
  <2>3. NodeType'
    BY <1>1, <1>3, <1>6, Zenon DEF HandleAccept, Accept, MaxOf, NodeType
  <2> QED
    BY <1>1, <1>6, <2>1, <2>2, <2>3, SlotTypeUnchanged, CallTypeUnchanged, Zenon
    DEF HandleAccept, Accept, TypeOK
<1>7. CASE HandleAcceptFails(n, m)
  <2>1. NodeType'
    BY <1>1, <1>3, <1>7, Zenon DEF HandleAcceptFails, Accept, NodeType
  <2>2. LogType'
    BY <1>1, <1>7, Zenon DEF HandleAcceptFails, Accept, LogType, resultVars
  <2> QED
    BY <1>1, <1>7, <2>1, <2>2, SlotTypeUnchanged, CallTypeUnchanged, Zenon
    DEF HandleAcceptFails, Accept, Receive, TypeOK
<1>8. ASSUME NEW s \in Slot, HandleAccepted(s, m) PROVE TypeOK'
  <2>1. SlotType'
    BY <1>1, <1>8 DEF HandleAccepted, SlotType
  <2> QED
    BY <1>1, <1>8, <2>1, NodeTypeUnchanged, CallTypeUnchanged, LogTypeUnchanged, Zenon
    DEF HandleAccepted, Receive, TypeOK
<1>9. ASSUME NEW s \in Slot, HandleCommit(n, s, m) PROVE TypeOK'
  <2>1. /\ proposal_id[s] \in Nat /\ sequence_number[s] \in Nat
        /\ proposed_value[s] \in MaybeValue
    BY <1>1, Zenon DEF SlotType
  <2>2. msgs' \subseteq Message
    <3>1. Broadcast(n, "LEARN", proposal_id[s], sequence_number[s],
                    proposal_id[s], proposed_value[s]) \subseteq Message
      BY <2>1, BroadcastType, Zenon DEF Phase
    <3> QED
      BY <1>1, <1>9, <3>1, Zenon DEF HandleCommit, Receive
  <2>3. LogType'
    <3>1. [id |-> m.id, seq |-> m.seq, value |-> proposed_value[s]] \in Entry
      BY <1>3, <2>1, Zenon DEF Entry
    <3>2. /\ applied' = [applied EXCEPT ![n] = Append(@,
                [id |-> m.id, seq |-> m.seq, value |-> proposed_value[s]])]
          /\ UNCHANGED <<wal, accepts, succeeded, failed>>
      BY <1>9, Zenon DEF HandleCommit, resultVars
    <3>3. applied' \in [Node -> Seq(Entry)]
      BY <1>1, <3>1, <3>2, EntryAppended, Zenon DEF LogType
    <3> QED
      BY <1>1, <3>2, <3>3, Zenon DEF LogType
  <2>4. NodeType'
    BY <1>1, <1>3, <1>9, Zenon DEF HandleCommit, MaxOf, NodeType, acceptorVars
  <2>5. SlotType'
    BY <1>1, <1>9 DEF HandleCommit, SlotType
  <2> QED
    BY <1>1, <1>9, <2>2, <2>3, <2>4, <2>5, CallTypeUnchanged, Zenon
    DEF HandleCommit, TypeOK
<1>10. CASE HandleLearn(n, m)
  <2>1. LogType'
    BY <1>1, <1>3, <1>10 DEF HandleLearn, LogType, resultVars
  <2>2. NodeType'
    BY <1>1, <1>3, <1>10, Zenon DEF HandleLearn, MaxOf, NodeType, acceptorVars
  <2> QED
    BY <1>1, <1>10, <2>1, <2>2, SlotTypeUnchanged, CallTypeUnchanged, Zenon
    DEF HandleLearn, Receive, TypeOK
<1> QED
  BY <1>2, <1>4, <1>5, <1>6, <1>7, <1>8, <1>9, <1>10, Zenon DEF HandleMessage, SlotsOf

\* TypeOK is preserved by every step.
LEMMA TypeInductive == TypeOK /\ [Next]_vars => TypeOK'
<1> SUFFICES ASSUME TypeOK, [Next]_vars PROVE TypeOK'
  BY Zenon
<1>1. NodeType /\ SlotType /\ CallType /\ msgs \subseteq Message /\ LogType
  BY Zenon DEF TypeOK
<1>2. ASSUME NEW c \in Proposers \X Thread, NEW v \in Value,
             NextProposalId(c, v)
      PROVE  TypeOK'
  <2>1. c \in Caller /\ c[1] \in Node
    <3>1. Proposers \subseteq Node
      BY NodeAssumption
    <3> QED
      BY <3>1, Zenon DEF Caller
  <2>2. ProposalId(c[1], highest_proposal_seen[c[1]]) \in Nat
    BY <1>1, <2>1, ProposalIdFacts, Zenon DEF NodeType
  <2>3. NodeType'
    BY <1>1, <1>2, <2>1, <2>2, Zenon DEF NextProposalId, NodeType, seqVars
  <2>4. CallType'
    BY <1>1, <1>2, <2>1, <2>2, Zenon DEF NextProposalId, Goto, CallType, PC, MaybeValue
  <2> QED
    BY <1>1, <1>2, <2>3, <2>4, SlotTypeUnchanged, LogTypeUnchanged, Zenon
    DEF NextProposalId, TypeOK
<1>3. CASE UNCHANGED vars
  BY <1>1, <1>3, NodeTypeUnchanged, SlotTypeUnchanged, CallTypeUnchanged,
     LogTypeUnchanged, Zenon DEF vars, TypeOK
<1> QED
  BY <1>2, <1>3, TypeProposer, TypeHandler, Zenon DEF Next

\* The fields of every node, slot, call and message keep their types.
THEOREM TypeCorrect == Spec => []TypeOK
<1>1. Init => TypeOK
  <2> SUFFICES ASSUME Init PROVE TypeOK
    BY Zenon
  <2>1. NodeType
    BY Zenon DEF Init, NodeType
  <2>2. SlotType
    BY Zenon DEF Init, SlotType, MaybeValue
  <2>3. CallType
    BY Zenon DEF Init, CallType, PC, MaybeValue
  <2>4. LogType
    BY DEF Init, LogType
  <2>5. msgs \subseteq Message
    BY Zenon DEF Init
  <2> QED
    BY <2>1, <2>2, <2>3, <2>4, <2>5, Zenon DEF TypeOK
<1> QED
  BY <1>1, TypeInductive, PTL DEF Spec
-----------------------------------------------------------------------------
\* The call of thread c begins, with an id nobody has seen.
Starts(c) ==
    /\ pc[c] = "idle"
    /\ pc'[c] = "sequence"
    /\ my_id'[c] \in Nat
    /\ Issuer(my_id'[c]) = c[1]
    /\ my_id'[c] > highest_proposal_seen[c[1]]
    /\ my_id'[c] = highest_proposal_seen'[c[1]]
    /\ \A d \in Caller \ {c} : pc'[d] = pc[d]

\* The call of thread c goes on.
Stays(c) ==
    /\ pc[c] # "idle"
    /\ my_id'[c] = my_id[c]
    /\ pc[c] = "commit" => pc'[c] = "commit"
    /\ Holding(c) => my_slot'[c] = my_slot[c] /\ Holding(c)'
    /\ Holding(c)' => Holding(c) \/ TakeSlot(c)
    /\ pc'[c] = "commit" => pc[c] = "commit" \/ SendAccept(c)

\* The call of thread c returns -1, with or without a slot to release.
Fails(c) ==
    /\ pc[c] # "idle"
    /\ pc'[c] = "idle"
    /\ failed' = failed \cup {my_id[c]}
    /\ UNCHANGED succeeded
    /\ IF Holding(c) THEN Release(Own(c)) /\ ~ (pc[c] = "commit" /\ committed[Own(c)])
                     ELSE UNCHANGED slotVars

\* A handler runs: the threads and the owners of slots are as before.
HandlerStep ==
    UNCHANGED <<pc, localVars, in_use, proposal_id, resultVars>>

\* The thread c moves on with its call.
Advances(c) ==
    /\ Stays(c)
    /\ pc'[c] # "idle"
    /\ UNCHANGED resultVars
-----------------------------------------------------------------------------
\* A handler of paxos_handle_message moves no thread and returns no call.
LEMMA HandlerFrame ==
    ASSUME NEW m \in msgs, HandleMessage(m) \/ HandleAcceptFails(m.dest, m)
    PROVE  HandlerStep
<1>1. CASE HandlePrepare(m.dest, m)
  BY <1>1, Zenon DEF HandlePrepare, HandlerStep, slotVars
<1>2. ASSUME NEW s \in Slot, HandlePromise(s, m) PROVE HandlerStep
  BY <1>2, Zenon DEF HandlePromise, HandlerStep
<1>3. CASE Accept(m.dest, m)
  BY <1>3, Zenon DEF Accept, HandlerStep, slotVars
<1>4. ASSUME NEW s \in Slot, HandleAccepted(s, m) PROVE HandlerStep
  BY <1>4, Zenon DEF HandleAccepted, HandlerStep
<1>5. ASSUME NEW s \in Slot, HandleCommit(m.dest, s, m) PROVE HandlerStep
  BY <1>5, Zenon DEF HandleCommit, HandlerStep
<1>6. CASE HandleLearn(m.dest, m)
  BY <1>6, Zenon DEF HandleLearn, HandlerStep, slotVars
<1> QED
  BY <1>1, <1>2, <1>3, <1>4, <1>5, <1>6, Zenon
  DEF HandleMessage, SlotsOf, HandleAccept, HandleAcceptFails

\* What a step of paxos_propose does to its own call.
LEMMA ProposerFrame ==
    ASSUME TypeOK, NEW c \in Caller,
           Progress(c) \/ Timeout(c) \/ SelfPersistFails(c)
    PROVE  /\ Advances(c) \/ Fails(c) \/ Committed(c)
           /\ \A d \in Caller \ {c} :
                 pc'[d] = pc[d] /\ my_id'[d] = my_id[d] /\ my_slot'[d] = my_slot[d]
<1>1. CallType
  BY Zenon DEF TypeOK
<1> DEFINE Others == \A d \in Caller \ {c} :
              pc'[d] = pc[d] /\ my_id'[d] = my_id[d] /\ my_slot'[d] = my_slot[d]
<1>2. CASE NextSequence(c)
  BY <1>1, <1>2, Zenon DEF NextSequence, Goto, Advances, Stays, Holding, CallType
<1>3. CASE ScanBusySlot(c)
  BY <1>1, <1>3, Zenon DEF ScanBusySlot, Advances, Stays, Holding, CallType
<1>4. CASE NoFreeSlot(c)
  BY <1>1, <1>4, Zenon DEF NoFreeSlot, Return, Goto, Fails, Holding, CallType
<1>5. CASE TakeSlot(c)
  <2>1. pc' = [pc EXCEPT ![c] = "promises"] /\ pc[c] = "scan"
        /\ UNCHANGED <<my_id, my_slot, resultVars>>
    BY <1>5, Zenon DEF TakeSlot, Goto, localVars
  <2> QED
    BY <1>1, <1>5, <2>1, Zenon DEF Advances, Stays, Holding, CallType
<1>6. CASE PromiseQuorum(c)
  BY <1>1, <1>6, Zenon DEF PromiseQuorum, Goto, localVars, Advances, Stays, Holding, CallType
<1>7. CASE SelfAccept(c)
  BY <1>1, <1>7, Zenon DEF SelfAccept, Goto, localVars, Advances, Stays, Holding, CallType
<1>8. CASE SelfPersist(c)
  BY <1>1, <1>8, Zenon DEF SelfPersist, Goto, localVars, Advances, Stays, Holding, CallType
<1>9. CASE SendAccept(c)
  <2>1. pc' = [pc EXCEPT ![c] = "commit"] /\ pc[c] = "persisted"
        /\ UNCHANGED <<my_id, my_slot, resultVars>>
    BY <1>9, Zenon DEF SendAccept, Goto, localVars
  <2> QED
    BY <1>1, <1>9, <2>1, Zenon DEF Advances, Stays, Holding, CallType
<1>10. CASE Committed(c)
  BY <1>1, <1>10, Zenon DEF Committed, Return, Goto, CallType
<1>11. CASE PromiseTimeout(c) \/ CommitTimeout(c) \/ SelfPersistFails(c)
  BY <1>1, <1>11, Zenon DEF PromiseTimeout, CommitTimeout, SelfPersistFails,
     ReleaseAndFail, Return, Goto, Fails, Holding, CallType
<1> QED
  BY <1>2, <1>3, <1>4, <1>5, <1>6, <1>7, <1>8, <1>9, <1>10, <1>11, Zenon
  DEF Progress, Timeout

\* What a step of paxos_propose leaves alone.
ProposerKeeps(c) ==
    /\ UNCHANGED applied
    /\ UNCHANGED accepts \/ SendAccept(c)
    /\ UNCHANGED highest_proposal_seen \/ SelfAccept(c)
    /\ UNCHANGED msgs \/ TakeSlot(c) \/ SendAccept(c)
    /\ UNCHANGED slotVars \/ TakeSlot(c) \/ SendAccept(c) \/ Return(c)

\* Every step of paxos_propose is of that kind.
LEMMA ProposerUnchanged ==
    ASSUME NEW c, Progress(c) \/ Timeout(c) \/ SelfPersistFails(c)
    PROVE  ProposerKeeps(c)
<1>1. CASE NextSequence(c)
  BY <1>1, Zenon DEF NextSequence, ProposerKeeps, acceptorVars, logVars
<1>2. CASE ScanBusySlot(c)
  BY <1>2, Zenon DEF ScanBusySlot, ProposerKeeps, acceptorVars, logVars
<1>3. CASE NoFreeSlot(c)
  BY <1>3, Zenon DEF NoFreeSlot, ProposerKeeps, acceptorVars, logVars
<1>4. CASE TakeSlot(c)
  BY <1>4, Zenon DEF TakeSlot, ProposerKeeps, acceptorVars, logVars
<1>5. CASE PromiseQuorum(c)
  BY <1>5, Zenon DEF PromiseQuorum, ProposerKeeps, acceptorVars, logVars
<1>6. CASE SelfAccept(c)
  BY <1>6, Zenon DEF SelfAccept, ProposerKeeps, logVars
<1>7. CASE SelfPersist(c)
  BY <1>7, Zenon DEF SelfPersist, ProposerKeeps, acceptorVars
<1>8. CASE SendAccept(c)
  BY <1>8, Zenon DEF SendAccept, ProposerKeeps, acceptorVars
<1>9. CASE Committed(c)
  BY <1>9, Zenon DEF Committed, ProposerKeeps, acceptorVars, logVars
<1>10. CASE ReleaseAndFail(c)
  BY <1>10, Zenon DEF ReleaseAndFail, ProposerKeeps, acceptorVars, logVars
<1>11. CASE PromiseTimeout(c) \/ CommitTimeout(c) \/ SelfPersistFails(c)
  BY <1>10, <1>11, Zenon DEF PromiseTimeout, CommitTimeout, SelfPersistFails
<1> QED
  BY <1>1, <1>2, <1>3, <1>4, <1>5, <1>6, <1>7, <1>8, <1>9, <1>11, Zenon DEF Progress, Timeout

\* A step of the system begins a call, is a step of a call, or is a handler.
LEMMA StepCases ==
    ASSUME TypeOK, Next
    PROVE  \/ \E c \in Caller, v \in Value : NextProposalId(c, v) /\ Starts(c)
           \/ \E c \in Caller : /\ Progress(c) \/ Timeout(c) \/ SelfPersistFails(c)
                                /\ Advances(c) \/ Fails(c) \/ Committed(c)
           \/ \E m \in msgs : /\ HandleMessage(m) \/ HandleAcceptFails(m.dest, m)
                              /\ HandlerStep
<1>1. NodeType /\ CallType
  BY Zenon DEF TypeOK
<1>2. ASSUME NEW c \in Proposers \X Thread, NEW v \in Value, NextProposalId(c, v)
      PROVE  c \in Caller /\ Starts(c)
  <2>1. c \in Caller /\ c[1] \in Node
    <3>1. Proposers \subseteq Node
      BY NodeAssumption
    <3> QED
      BY <3>1, Zenon DEF Caller
  <2> DEFINE id == ProposalId(c[1], highest_proposal_seen[c[1]])
  <2>2. id \in Nat /\ id > highest_proposal_seen[c[1]] /\ Issuer(id) = c[1]
    BY <1>1, <2>1, ProposalIdFacts, Zenon DEF NodeType
  <2>3. /\ pc[c] = "idle" /\ pc'[c] = "sequence" /\ my_id'[c] = id
        /\ highest_proposal_seen'[c[1]] = id
        /\ \A d \in Caller \ {c} : pc'[d] = pc[d]
    <3> HIDE DEF id
    <3>1. /\ pc[c] = "idle" /\ pc' = [pc EXCEPT ![c] = "sequence"]
          /\ my_id' = [my_id EXCEPT ![c] = id]
          /\ highest_proposal_seen' = [highest_proposal_seen EXCEPT ![c[1]] = id]
      BY <1>2, Zenon DEF NextProposalId, Goto, id
    <3> QED
      BY <1>1, <2>1, <3>1, Zenon DEF CallType, NodeType
  <2> HIDE DEF id
  <2> QED
    BY <2>1, <2>2, <2>3, Zenon DEF Starts
<1> QED
  BY <1>2, ProposerFrame, HandlerFrame, Zenon DEF Next

\* What a step does to the call of a given thread.
LEMMA CallStep ==
    ASSUME TypeOK, Next, NEW c \in Caller
    PROVE  \/ Starts(c)
           \/ Stays(c) /\ pc'[c] # "idle"
           \/ pc'[c] = "idle" /\ (pc[c] = "idle" \/ Fails(c) \/ Committed(c))
<1>1. CallType
  BY Zenon DEF TypeOK
<1>2. ASSUME NEW d \in Caller, c # d,
             pc'[c] = pc[c], my_id'[c] = my_id[c], my_slot'[c] = my_slot[c]
      PROVE  \/ Stays(c) /\ pc'[c] # "idle"
             \/ pc'[c] = "idle" /\ pc[c] = "idle"
  BY <1>2, Zenon DEF Stays, Holding
<1>3. ASSUME NEW d \in Caller, NEW v \in Value, NextProposalId(d, v), c # d
      PROVE  pc'[c] = pc[c] /\ my_id'[c] = my_id[c] /\ my_slot'[c] = my_slot[c]
  BY <1>1, <1>3, Zenon DEF NextProposalId, Goto, CallType
<1>4. CASE HandlerStep
  BY <1>4, Zenon DEF HandlerStep, localVars, Stays, Holding
<1>5. ASSUME NEW d \in Caller, Progress(d) \/ Timeout(d) \/ SelfPersistFails(d),
             Advances(d) \/ Fails(d) \/ Committed(d)
      PROVE  \/ Stays(c) /\ pc'[c] # "idle"
             \/ pc'[c] = "idle" /\ (pc[c] = "idle" \/ Fails(c) \/ Committed(c))
  <2>1. CASE c # d
    BY <1>2, <1>5, <2>1, ProposerFrame, Zenon
  <2>2. CASE c = d /\ Committed(d)
    BY <1>1, <2>2, Zenon DEF Committed, Return, Goto, CallType
  <2>3. CASE c = d /\ (Advances(d) \/ Fails(d))
    BY <2>3, Zenon DEF Advances, Fails
  <2> QED
    BY <1>5, <2>1, <2>2, <2>3, Zenon
<1> QED
  BY <1>2, <1>3, <1>4, <1>5, StepCases, Zenon

\* highest_proposal_seen never goes down.
LEMMA SeenStep ==
    ASSUME TypeOK, Next, NEW n \in Node
    PROVE  /\ highest_proposal_seen'[n] \in Nat
           /\ highest_proposal_seen'[n] >= highest_proposal_seen[n]
<1>1. NodeType /\ CallType /\ msgs \subseteq Message
  BY Zenon DEF TypeOK
<1> DEFINE Mono == highest_proposal_seen'[n] >= highest_proposal_seen[n]
<1>2. NodeType'
  BY TypeInductive, Zenon DEF TypeOK
<1>3. ASSUME NEW c \in Caller, NEW v \in Value, NextProposalId(c, v), Starts(c)
      PROVE  Mono
  <2>1. \/ highest_proposal_seen'[n] = highest_proposal_seen[n]
        \/ n = c[1]
    BY <1>1, <1>3, Zenon DEF NextProposalId, NodeType
  <2> QED
    BY <1>1, <1>3, <2>1 DEF Starts, NodeType
<1>4. ASSUME NEW c \in Caller, Progress(c) \/ Timeout(c) \/ SelfPersistFails(c)
      PROVE  Mono
  <2>1. CASE SelfAccept(c)
    BY <1>1, <2>1 DEF SelfAccept, NodeType, CallType, acceptorVars
  <2>2. CASE ~ SelfAccept(c)
    <3>1. highest_proposal_seen' = highest_proposal_seen
      BY <1>4, <2>2, ProposerUnchanged, Zenon DEF ProposerKeeps
    <3> QED
      BY <1>1, <3>1 DEF NodeType
  <2> QED
    BY <2>1, <2>2, Zenon
<1>5. ASSUME NEW m \in msgs, HandleMessage(m) \/ HandleAcceptFails(m.dest, m)
      PROVE  Mono
  <2>1. m.id \in Nat /\ m.dest \in Node
    BY <1>1, Zenon DEF Message
  <2>2. CASE HandlePrepare(m.dest, m)
    BY <1>1, <2>1, <2>2 DEF HandlePrepare, NodeType
  <2>3. CASE Accept(m.dest, m)
    BY <1>1, <2>1, <2>3 DEF Accept, NodeType
  <2>4. CASE UNCHANGED acceptorVars
    BY <1>1, <2>4 DEF acceptorVars, NodeType
  <2>5. ASSUME NEW s, HandlePromise(s, m) \/ HandleAccepted(s, m) \/ HandleCommit(m.dest, s, m)
        PROVE  UNCHANGED acceptorVars
    BY <2>5, Zenon DEF HandlePromise, HandleAccepted, HandleCommit
  <2>6. ASSUME HandleLearn(m.dest, m)
        PROVE  UNCHANGED acceptorVars
    BY <2>6, Zenon DEF HandleLearn
  <2> QED
    BY <1>5, <2>2, <2>3, <2>4, <2>5, <2>6, Zenon
    DEF HandleMessage, HandleAccept, HandleAcceptFails
<1> QED
  BY <1>2, <1>3, <1>4, <1>5, StepCases, Zenon DEF NodeType

\* An id that was issued stays so; the id of a new call was not.
LEMMA IssuedKept ==
    ASSUME TypeOK, Next, NEW id \in Nat, Issued(id)
    PROVE  Issued(id)'
<1>1. /\ Issuer(id) \in Node /\ id <= highest_proposal_seen[Issuer(id)]
      /\ highest_proposal_seen[Issuer(id)] \in Nat
  BY Zenon DEF Issued, TypeOK, NodeType
<1>2. /\ highest_proposal_seen'[Issuer(id)] \in Nat
      /\ highest_proposal_seen'[Issuer(id)] >= highest_proposal_seen[Issuer(id)]
  BY <1>1, SeenStep, Zenon
<1> QED
  BY <1>1, <1>2 DEF Issued

\* The id paxos_next_proposal_id draws is above every id its node has issued.
LEMMA FreshId ==
    ASSUME TypeOK, NEW c \in Caller, Starts(c)
    PROVE  ~ Issued(my_id'[c]) /\ Issued(my_id[c])'
<1>1. c[1] \in Node /\ highest_proposal_seen[c[1]] \in Nat
  BY Zenon DEF TypeOK, NodeType, Caller
<1> QED
  BY <1>1 DEF Starts, Issued

\* The messages a step of paxos_propose sends: PREPARE or ACCEPT.
LEMMA ProposerSends ==
    ASSUME NEW c \in Caller, Progress(c) \/ Timeout(c) \/ SelfPersistFails(c)
    PROVE  \/ UNCHANGED msgs
           \/ /\ TakeSlot(c)
              /\ msgs' = msgs \cup
                    Broadcast(c[1], "PREPARE", my_id[c], my_seq[c], 0, NULL)
           \/ /\ SendAccept(c)
              /\ msgs' = msgs \cup
                    Broadcast(c[1], "ACCEPT", my_id[c], my_seq[c], 0, my_value[c])
<1>1. CASE TakeSlot(c)
  BY <1>1, Zenon DEF TakeSlot
<1>2. CASE SendAccept(c)
  BY <1>2, Zenon DEF SendAccept
<1>3. CASE ~ TakeSlot(c) /\ ~ SendAccept(c)
  BY <1>3, ProposerUnchanged, Zenon DEF ProposerKeeps
<1> QED
  BY <1>1, <1>2, <1>3, Zenon

\* Where a message sent by a step comes from.
LEMMA MsgsStep ==
    ASSUME TypeOK, Next, NEW k, k \in msgs', k \notin msgs
    PROVE  \/ \E c \in Caller :
                 TakeSlot(c) /\ k.phase = "PREPARE" /\ k.id = my_id[c]
           \/ \E c \in Caller :
                 /\ SendAccept(c) /\ k.phase = "ACCEPT" /\ k.id = my_id[c]
                 /\ k \in Broadcast(c[1], "ACCEPT", my_id[c], my_seq[c], 0, my_value[c])
           \/ \E m \in msgs :
                 /\ HandlePrepare(m.dest, m) /\ k.phase = "PROMISE" /\ k.id = m.id
           \/ \E m \in msgs :
                 /\ HandleAccept(m.dest, m) /\ k.phase = "ACCEPTED" /\ k.id = m.id
                 /\ k = Reply(m.dest, m, "ACCEPTED", 0)
           \/ \E m \in msgs : \E s \in SlotsOf(m.dest) :
                 /\ HandleCommit(m.dest, s, m) /\ k.phase = "LEARN" /\ k.id = m.id
<1>1. ASSUME NEW c \in Caller, NEW v \in Value, NextProposalId(c, v)
      PROVE  FALSE
  BY <1>1, Zenon DEF NextProposalId
<1>2. ASSUME NEW c \in Caller, Progress(c) \/ Timeout(c) \/ SelfPersistFails(c)
      PROVE  \/ TakeSlot(c) /\ k.phase = "PREPARE" /\ k.id = my_id[c]
             \/ /\ SendAccept(c) /\ k.phase = "ACCEPT" /\ k.id = my_id[c]
                /\ k \in Broadcast(c[1], "ACCEPT", my_id[c], my_seq[c], 0, my_value[c])
  BY <1>2, ProposerSends DEF Broadcast
<1>3. ASSUME NEW m \in msgs, HandlePrepare(m.dest, m)
      PROVE  k.phase = "PROMISE" /\ k.id = m.id
  BY <1>3 DEF HandlePrepare, Receive, Reply
<1>4. ASSUME NEW m \in msgs, HandleAccept(m.dest, m)
      PROVE  /\ k.phase = "ACCEPTED" /\ k.id = m.id
             /\ k = Reply(m.dest, m, "ACCEPTED", 0)
  BY <1>4 DEF HandleAccept, Receive, Reply
<1>5. ASSUME NEW m \in msgs, NEW s \in SlotsOf(m.dest), HandleCommit(m.dest, s, m)
      PROVE  k.phase = "LEARN" /\ k.id = m.id
  BY <1>5 DEF HandleCommit, Receive, Broadcast, Matches
<1>6. ASSUME NEW m \in msgs, NEW s, HandlePromise(s, m) \/ HandleAccepted(s, m)
      PROVE  FALSE
  BY <1>6, Zenon DEF HandlePromise, HandleAccepted, Receive
<1>7. ASSUME NEW m \in msgs, HandleLearn(m.dest, m) \/ HandleAcceptFails(m.dest, m)
      PROVE  FALSE
  BY <1>7, Zenon DEF HandleLearn, HandleAcceptFails, Receive
<1> QED
  BY <1>1, <1>2, <1>3, <1>4, <1>5, <1>6, <1>7, StepCases, Zenon DEF HandleMessage

\* accepts only grows, by SendAccept or HandleAccept.
LEMMA AcceptsStep ==
    ASSUME TypeOK, Next
    PROVE  \/ UNCHANGED accepts
           \/ \E c \in Caller :
                 SendAccept(c) /\ accepts' = accepts \cup {<<c[1], my_id[c]>>}
           \/ \E m \in msgs :
                 HandleAccept(m.dest, m) /\ accepts' = accepts \cup {<<m.dest, m.id>>}
<1>1. ASSUME NEW c \in Caller, NEW v \in Value, NextProposalId(c, v)
      PROVE  UNCHANGED accepts
  BY <1>1, Zenon DEF NextProposalId, logVars
<1>2. ASSUME NEW c \in Caller, Progress(c) \/ Timeout(c) \/ SelfPersistFails(c),
             ~ SendAccept(c)
      PROVE  UNCHANGED accepts
  BY <1>2, ProposerUnchanged, Zenon DEF ProposerKeeps
<1>3. ASSUME NEW m \in msgs, NEW s, HandlePromise(s, m) \/ HandleAccepted(s, m)
                                     \/ HandleCommit(m.dest, s, m)
      PROVE  UNCHANGED accepts
  BY <1>3, Zenon DEF HandlePromise, HandleAccepted, HandleCommit, logVars
<1>4. ASSUME NEW m \in msgs, HandlePrepare(m.dest, m) \/ HandleLearn(m.dest, m)
                             \/ HandleAcceptFails(m.dest, m)
      PROVE  UNCHANGED accepts
  BY <1>4, Zenon DEF HandlePrepare, HandleLearn, HandleAcceptFails, logVars
<1>5. ASSUME NEW c, SendAccept(c)
      PROVE  accepts' = accepts \cup {<<c[1], my_id[c]>>}
  BY <1>5, Zenon DEF SendAccept
<1>6. ASSUME NEW m, HandleAccept(m.dest, m)
      PROVE  accepts' = accepts \cup {<<m.dest, m.id>>}
  BY <1>6, Zenon DEF HandleAccept
<1> QED
  BY <1>1, <1>2, <1>3, <1>4, <1>5, <1>6, StepCases, Zenon DEF HandleMessage

\* What a node has applied are entries.
LEMMA AppliedType ==
    ASSUME TypeOK, NEW n \in Node
    PROVE  AppliedEntries(n) \subseteq Entry
<1>1. applied[n] \in Seq(Entry)
  BY Zenon DEF TypeOK, LogType
<1>2. \A i \in 1 .. Len(applied[n]) : applied[n][i] \in Entry
  BY <1>1
<1> QED
  BY <1>2, Zenon DEF AppliedEntries

\* The entries of a node only grow, by appending.
LEMMA AppliedGrows ==
    ASSUME TypeOK, Next, NEW n \in Node
    PROVE  \/ applied'[n] = applied[n]
           \/ \E x \in Entry :
                 /\ applied'[n] = Append(applied[n], x)
                 /\ \/ \E m \in msgs : \E s \in SlotsOf(m.dest) :
                          HandleCommit(m.dest, s, m) /\ x.id = m.id /\ n = m.dest
                    \/ \E m \in msgs :
                          HandleLearn(m.dest, m) /\ x.id = m.id /\ n = m.dest
<1>1. LogType /\ msgs \subseteq Message
  BY Zenon DEF TypeOK
<1>2. ASSUME UNCHANGED applied
      PROVE  applied'[n] = applied[n]
  BY <1>2, Zenon
<1>3. ASSUME NEW d \in Node, NEW x \in Entry,
             applied' = [applied EXCEPT ![d] = Append(@, x)]
      PROVE  applied'[n] = applied[n] \/ (applied'[n] = Append(applied[n], x) /\ n = d)
  BY <1>1, <1>3, Zenon DEF LogType
<1>4. ASSUME NEW c \in Caller, NEW v \in Value, NextProposalId(c, v)
      PROVE  UNCHANGED applied
  BY <1>4, Zenon DEF NextProposalId, logVars
<1>5. ASSUME NEW c \in Caller, Progress(c) \/ Timeout(c) \/ SelfPersistFails(c)
      PROVE  UNCHANGED applied
  BY <1>5, ProposerUnchanged, Zenon DEF ProposerKeeps
<1>6. ASSUME NEW m \in msgs, NEW s, HandlePromise(s, m) \/ HandleAccepted(s, m)
      PROVE  UNCHANGED applied
  BY <1>6, Zenon DEF HandlePromise, HandleAccepted, logVars
<1>7. ASSUME NEW m \in msgs, HandlePrepare(m.dest, m) \/ Accept(m.dest, m)
      PROVE  UNCHANGED applied
  BY <1>7, Zenon DEF HandlePrepare, Accept, logVars
<1>8. ASSUME NEW m \in msgs, NEW s \in SlotsOf(m.dest), HandleCommit(m.dest, s, m)
      PROVE  \/ applied'[n] = applied[n]
             \/ \E x \in Entry : /\ applied'[n] = Append(applied[n], x)
                                 /\ x.id = m.id /\ n = m.dest
  <2> DEFINE x == [id |-> m.id, seq |-> m.seq, value |-> proposed_value[s]]
  <2>1. x \in Entry /\ m.dest \in Node
    BY <1>1, Zenon DEF Message, Entry, TypeOK, SlotType, SlotsOf
  <2>2. applied' = [applied EXCEPT ![m.dest] = Append(@, x)]
    BY <1>8, Zenon DEF HandleCommit
  <2>3. x.id = m.id
    BY Zenon
  <2> HIDE DEF x
  <2> QED
    BY <1>3, <2>1, <2>2, <2>3, Zenon
<1>9. ASSUME NEW m \in msgs, HandleLearn(m.dest, m)
      PROVE  \/ applied'[n] = applied[n]
             \/ \E x \in Entry : /\ applied'[n] = Append(applied[n], x)
                                 /\ x.id = m.id /\ n = m.dest
  <2>1. EntryOf(m) \in Entry /\ m.dest \in Node /\ EntryOf(m).id = m.id
    BY <1>1, Zenon DEF Message, Entry, EntryOf
  <2>2. applied' = [applied EXCEPT ![m.dest] = Append(@, EntryOf(m))]
    BY <1>9, Zenon DEF HandleLearn
  <2> QED
    BY <1>3, <2>1, <2>2, Zenon
<1> QED
  BY <1>2, <1>4, <1>5, <1>6, <1>7, <1>8, <1>9, StepCases, ZenonT(30)
  DEF HandleMessage, HandleAccept, HandleAcceptFails

\* What a list of entries holds after an Append.
LEMMA AppendEntries ==
    ASSUME TypeOK, NEW n \in Node, NEW x \in Entry,
           applied'[n] = Append(applied[n], x)
    PROVE  /\ AppliedEntries(n)' = AppliedEntries(n) \cup {x}
           /\ Len(applied'[n]) = Len(applied[n]) + 1
           /\ Len(applied[n]) \in Nat
           /\ \A j \in 1 .. Len(applied[n]) : applied'[n][j] = applied[n][j]
           /\ applied'[n][Len(applied[n]) + 1] = x
<1>1. applied[n] \in Seq(Entry)
  BY Zenon DEF TypeOK, LogType
<1>2. /\ Len(applied'[n]) = Len(applied[n]) + 1
      /\ Len(applied[n]) \in Nat
      /\ \A j \in 1 .. Len(applied[n]) : applied'[n][j] = applied[n][j]
      /\ applied'[n][Len(applied[n]) + 1] = x
  BY <1>1
<1>3. 1 .. Len(applied'[n]) = (1 .. Len(applied[n])) \cup {Len(applied[n]) + 1}
  BY <1>2
<1> QED
  BY <1>2, <1>3 DEF AppliedEntries

\* An entry a step applies comes from HandleCommit or HandleLearn.
LEMMA AppliedStep ==
    ASSUME TypeOK, Next, NEW n \in Node, NEW e, e \in AppliedEntries(n)'
    PROVE  \/ e \in AppliedEntries(n)
           \/ \E m \in msgs : \E s \in SlotsOf(m.dest) :
                 HandleCommit(m.dest, s, m) /\ e.id = m.id /\ n = m.dest
           \/ \E m \in msgs :
                 HandleLearn(m.dest, m) /\ e.id = m.id /\ n = m.dest
<1>1. CASE applied'[n] = applied[n]
  BY <1>1, Zenon DEF AppliedEntries
<1>2. ASSUME NEW x \in Entry, applied'[n] = Append(applied[n], x)
      PROVE  e \in AppliedEntries(n) \/ e = x
  BY <1>2, AppendEntries
<1>3. CASE applied'[n] # applied[n] /\ e \notin AppliedEntries(n)
  <2>1. PICK x \in Entry :
           /\ applied'[n] = Append(applied[n], x)
           /\ \/ \E m \in msgs : \E s \in SlotsOf(m.dest) :
                    HandleCommit(m.dest, s, m) /\ x.id = m.id /\ n = m.dest
              \/ \E m \in msgs : HandleLearn(m.dest, m) /\ x.id = m.id /\ n = m.dest
    BY <1>3, AppliedGrows, Zenon
  <2>2. e = x
    BY <1>2, <1>3, <2>1, Zenon
  <2> QED
    BY <2>1, <2>2, Zenon
<1> QED
  BY <1>1, <1>3, Zenon

\* What a node has applied stays applied.
LEMMA AppliedKept ==
    ASSUME TypeOK, Next, NEW n \in Node
    PROVE  AppliedEntries(n) \subseteq AppliedEntries(n)'
<1>1. CASE applied'[n] = applied[n]
  BY <1>1, Zenon DEF AppliedEntries
<1>2. ASSUME NEW x \in Entry, applied'[n] = Append(applied[n], x)
      PROVE  AppliedEntries(n) \subseteq AppliedEntries(n)'
  BY <1>2, AppendEntries, Zenon
<1> QED
  BY <1>1, <1>2, AppliedGrows, Zenon

\* A call that returns puts its id on record.
LEMMA ResultStep ==
    ASSUME TypeOK, Next
    PROVE  \/ UNCHANGED resultVars
           \/ \E c \in Caller : Fails(c)
           \/ \E c \in Caller : Committed(c)
<1>1. ASSUME NEW c \in Caller, NEW v \in Value, NextProposalId(c, v)
      PROVE  UNCHANGED resultVars
  BY <1>1, Zenon DEF NextProposalId
<1> QED
  BY <1>1, StepCases, Zenon DEF Advances, HandlerStep

\* The owner of s, and what has been decided there, is as before.
SlotKept(s) ==
    /\ in_use'[s] = in_use[s]
    /\ proposal_id'[s] = proposal_id[s]
    /\ committed'[s] = committed[s]
    /\ completed'[s] = completed[s]

\* The call of c returns and gives s back.
Frees(c, s) == Holding(c) /\ Own(c) = s /\ pc'[c] = "idle" /\ Release(s)

\* What a step does to a given slot.
LEMMA SlotStep ==
    ASSUME TypeOK, Next, NEW s \in Slot
    PROVE  \/ SlotKept(s) /\ accept_count'[s] = accept_count[s]
           \/ \E c \in Caller : TakeSlot(c) /\ Own(c) = s
           \/ \E c \in Caller : Frees(c, s)
           \/ \E c \in Caller : SendAccept(c) /\ Own(c) = s /\ SlotKept(s)
           \/ \E m \in msgs : HandleAccepted(s, m) /\ SlotKept(s)
           \/ \E m \in msgs : HandleCommit(m.dest, s, m) /\ s[1] = m.dest
<1>1. SlotType /\ CallType
  BY Zenon DEF TypeOK
<1> DEFINE Kept == SlotKept(s) /\ accept_count'[s] = accept_count[s]
<1>2. ASSUME UNCHANGED slotVars
      PROVE  Kept
  BY <1>2, Zenon DEF slotVars, SlotKept
<1>3. ASSUME NEW x, Release(x), x # s
      PROVE  Kept
  BY <1>1, <1>3, Zenon DEF Release, SlotKept, SlotType
<1>4. ASSUME NEW c \in Caller, NEW v \in Value, NextProposalId(c, v)
      PROVE  Kept
  BY <1>2, <1>4, Zenon DEF NextProposalId
<1>5. ASSUME NEW c \in Caller, Fails(c)
      PROVE  Kept \/ Frees(c, s)
  BY <1>2, <1>3, <1>5, Zenon DEF Fails, Frees
<1>6. ASSUME NEW c \in Caller, Committed(c)
      PROVE  Kept \/ Frees(c, s)
  <2>1. Holding(c) /\ pc'[c] = "idle" /\ Release(Own(c))
    BY <1>1, <1>6, Zenon DEF Committed, Return, Goto, Holding, CallType
  <2> QED
    BY <1>3, <2>1, Zenon DEF Frees
<1>7. ASSUME NEW c \in Caller, TakeSlot(c)
      PROVE  Kept \/ Own(c) = s
  BY <1>1, <1>7, Zenon DEF TakeSlot, SlotKept, SlotType
<1>8. ASSUME NEW c \in Caller, SendAccept(c)
      PROVE  Kept \/ (Own(c) = s /\ SlotKept(s))
  BY <1>1, <1>8, Zenon DEF SendAccept, SlotKept, SlotType
<1>9. ASSUME NEW c \in Caller, Progress(c) \/ Timeout(c) \/ SelfPersistFails(c),
             ~ TakeSlot(c), ~ SendAccept(c), ~ Committed(c), ~ Fails(c), Advances(c)
      PROVE  Kept
  <2>1. pc'[c] # "idle"
    BY <1>9, Zenon DEF Advances
  <2>2. ~ Return(c)
    BY <1>1, <2>1, Zenon DEF Return, Goto, CallType
  <2>3. UNCHANGED slotVars
    BY <1>9, <2>2, ProposerUnchanged, Zenon DEF ProposerKeeps
  <2> QED
    BY <1>2, <2>3, Zenon
<1>10. ASSUME NEW m \in msgs, NEW x \in SlotsOf(m.dest),
              HandlePromise(x, m) \/ HandleAccepted(x, m)
       PROVE  Kept \/ (HandleAccepted(s, m) /\ SlotKept(s))
  BY <1>1, <1>10, Zenon DEF HandlePromise, HandleAccepted, SlotKept, SlotType
<1>11. ASSUME NEW m \in msgs, NEW x \in SlotsOf(m.dest), HandleCommit(m.dest, x, m)
       PROVE  Kept \/ (HandleCommit(m.dest, s, m) /\ s[1] = m.dest)
  <2>1. x # s => Kept
    BY <1>1, <1>11, Zenon DEF HandleCommit, SlotKept, SlotType
  <2> QED
    BY <1>11, <2>1, Zenon DEF SlotsOf
<1>12. ASSUME NEW m \in msgs, \/ HandlePrepare(m.dest, m) \/ Accept(m.dest, m)
                              \/ HandleLearn(m.dest, m)
       PROVE  Kept
  BY <1>2, <1>12, Zenon DEF HandlePrepare, Accept, HandleLearn
<1> HIDE DEF Kept
<1>13. ASSUME NEW m \in msgs, HandleMessage(m) \/ HandleAcceptFails(m.dest, m)
       PROVE  \/ Kept \/ (HandleAccepted(s, m) /\ SlotKept(s))
              \/ (HandleCommit(m.dest, s, m) /\ s[1] = m.dest)
  BY <1>10, <1>11, <1>12, <1>13, Zenon DEF HandleMessage, HandleAccept, HandleAcceptFails
<1> QED
  BY <1>4, <1>5, <1>6, <1>7, <1>8, <1>9, <1>13, StepCases, Zenon DEF Kept
-----------------------------------------------------------------------------
(***************************************************************************)
(* A step of Paxos keeps every conjunct of IInv.                           *)
(***************************************************************************)
\* Every id in sight stays an issued one.
LEMMA IssuedStep ==
    ASSUME IInv, Next
    PROVE  IssuedInv'
<1>1. TypeOK /\ IssuedInv
  BY Zenon DEF IInv
<1>2. CallType /\ LogType /\ msgs \subseteq Message
  BY <1>1, Zenon DEF TypeOK
<1>3. ASSUME NEW c \in Caller, pc'[c] # "idle"
      PROVE  Issued(my_id[c])' /\ Issuer(my_id'[c]) = c[1]
  <2>1. CASE Starts(c)
    BY <1>1, <2>1, FreshId, Zenon DEF Starts
  <2>2. CASE Stays(c)
    <3>1. my_id[c] \in Nat /\ Issued(my_id[c]) /\ Issuer(my_id[c]) = c[1]
      BY <1>1, <1>2, <2>2, Zenon DEF Stays, IssuedInv, CallType
    <3>2. my_id'[c] = my_id[c]
      BY <2>2, Zenon DEF Stays
    <3> QED
      BY <1>1, <3>1, <3>2, IssuedKept, Zenon DEF Issued
  <2> QED
    BY <1>1, <1>3, <2>1, <2>2, CallStep, Zenon
<1>4. ASSUME NEW c \in Caller, pc[c] # "idle"
      PROVE  my_id[c] \in Nat /\ Issued(my_id[c])
  BY <1>1, <1>2, <1>4, Zenon DEF IssuedInv, CallType
<1>5. ASSUME NEW m \in msgs
      PROVE  m.id \in Nat /\ Issued(m.id)
  BY <1>1, <1>2, Zenon DEF IssuedInv, Message
<1>6. ASSUME NEW id \in Nat, Issued(id)
      PROVE  Issued(id)'
  BY <1>1, <1>6, IssuedKept, Zenon
<1>7. ASSUME NEW k, k \in msgs'
      PROVE  Issued(k.id)'
  <2>1. \/ k \in msgs
        \/ \E c \in Caller : k.id = my_id[c] /\ pc[c] # "idle"
        \/ \E m \in msgs : k.id = m.id
    BY <1>1, <1>7, MsgsStep, Zenon DEF TakeSlot, SendAccept
  <2> QED
    BY <1>4, <1>5, <1>6, <2>1, Zenon DEF Issued
<1>8. ASSUME NEW a, a \in accepts'
      PROVE  Issued(a[2])'
  <2>1. \/ a \in accepts
        \/ \E c \in Caller : a[2] = my_id[c] /\ pc[c] # "idle"
        \/ \E m \in msgs : a[2] = m.id
    <3>1. ASSUME NEW c, SendAccept(c) PROVE pc[c] # "idle"
      BY <3>1, Zenon DEF SendAccept
    <3>2. ASSUME NEW p, NEW id, accepts' = accepts \cup {<<p, id>>}
          PROVE  a \in accepts \/ a[2] = id
      BY <1>8, <3>2
    <3>3. UNCHANGED accepts => a \in accepts
      BY <1>8, Zenon
    <3> QED
      BY <1>1, <3>1, <3>2, <3>3, AcceptsStep, Zenon
  <2>2. a \in accepts => a[2] \in Nat /\ Issued(a[2])
    BY <1>1, <1>2, Zenon DEF IssuedInv, LogType
  <2> QED
    BY <1>4, <1>5, <1>6, <2>1, <2>2, Zenon DEF Issued
<1>9. ASSUME NEW id, id \in succeeded' \cup failed'
      PROVE  Issued(id)'
  <2>1. \/ id \in succeeded \cup failed
        \/ \E c \in Caller : id = my_id[c] /\ pc[c] # "idle"
    BY <1>1, <1>9, ResultStep, Zenon DEF resultVars, Fails, Committed
  <2>2. id \in succeeded \cup failed => id \in Nat /\ Issued(id)
    BY <1>1, <1>2, Zenon DEF IssuedInv, LogType
  <2> QED
    BY <1>4, <1>6, <2>1, <2>2, Zenon DEF Issued
<1>10. ASSUME NEW n \in Node, NEW e, e \in AppliedEntries(n)'
       PROVE  Issued(e.id)'
  <2>1. e \in AppliedEntries(n) \/ \E m \in msgs : e.id = m.id
    BY <1>1, <1>10, AppliedStep, Zenon
  <2>2. e \in AppliedEntries(n) => e.id \in Nat /\ Issued(e.id)
    BY <1>1, AppliedType, Zenon DEF IssuedInv, Entry
  <2> QED
    BY <1>5, <1>6, <2>1, <2>2, Zenon DEF Issued
<1> QED
  BY <1>3, <1>7, <1>8, <1>9, <1>10, Zenon DEF IssuedInv

\* No id is used by two calls, or again after its call returned.
LEMMA CallInvStep ==
    ASSUME IInv, Next
    PROVE  CallInv'
<1>1. TypeOK /\ IssuedInv /\ CallInv
  BY Zenon DEF IInv
<1>2. ASSUME NEW c \in Caller, pc'[c] # "idle"
      PROVE  \/ Starts(c) /\ ~ Issued(my_id'[c])
             \/ pc[c] # "idle" /\ my_id'[c] = my_id[c] /\ Issued(my_id[c])
  BY <1>1, <1>2, CallStep, FreshId, Zenon DEF Stays, IssuedInv
<1>3. ASSUME NEW c \in Caller, NEW d \in Caller,
             pc'[c] # "idle", pc'[d] # "idle", my_id'[c] = my_id'[d]
      PROVE  c = d
  <2>1. CASE Starts(c) /\ Starts(d)
    BY <1>3, <2>1, Zenon DEF Starts
  <2>2. CASE pc[c] # "idle" /\ my_id'[c] = my_id[c]
             /\ pc[d] # "idle" /\ my_id'[d] = my_id[d]
    BY <1>1, <1>3, <2>2, Zenon DEF CallInv
  <2> QED
    BY <1>2, <1>3, <2>1, <2>2, Zenon
<1>4. ASSUME NEW id, id \in succeeded' \cup failed', id \notin succeeded \cup failed
      PROVE  \E c \in Caller : pc[c] # "idle" /\ pc'[c] = "idle" /\ id = my_id[c]
  <2>1. ASSUME NEW c \in Caller, Committed(c)
        PROVE  pc[c] # "idle" /\ pc'[c] = "idle" /\ succeeded' = succeeded \cup {my_id[c]}
               /\ failed' = failed
    BY <1>1, <2>1, Zenon DEF Committed, Return, Goto, TypeOK, CallType
  <2> QED
    BY <1>1, <1>4, <2>1, ResultStep, Zenon DEF resultVars, Fails
<1>5. ASSUME NEW c \in Caller, pc'[c] # "idle", my_id'[c] \in succeeded' \cup failed'
      PROVE  FALSE
  <2>1. CASE my_id'[c] \in succeeded \cup failed
    BY <1>1, <1>2, <1>5, <2>1, Zenon DEF IssuedInv, CallInv
  <2>2. ASSUME NEW d \in Caller, pc[d] # "idle", pc'[d] = "idle", my_id'[c] = my_id[d]
        PROVE  FALSE
    <3>1. Issued(my_id[d])
      BY <1>1, <2>2, Zenon DEF IssuedInv
    <3>2. pc[c] # "idle" /\ my_id'[c] = my_id[c]
      BY <1>2, <1>5, <2>2, <3>1, Zenon
    <3> QED
      BY <1>1, <1>5, <2>2, <3>2, Zenon DEF CallInv
  <2> QED
    BY <1>4, <1>5, <2>1, <2>2, Zenon
<1>6. succeeded' \cap failed' = {}
  <2>1. ASSUME NEW c \in Caller, Fails(c)
        PROVE  succeeded' \cap failed' = {}
    BY <1>1, <2>1, Zenon DEF Fails, CallInv
  <2>2. ASSUME NEW c \in Caller, Committed(c)
        PROVE  succeeded' \cap failed' = {}
    BY <1>1, <2>2, Zenon DEF Committed, CallInv
  <2>3. CASE UNCHANGED resultVars
    BY <1>1, <2>3, Zenon DEF resultVars, CallInv
  <2> QED
    BY <1>1, <2>1, <2>2, <2>3, ResultStep, Zenon
<1> QED
  BY <1>3, <1>5, <1>6, Zenon DEF CallInv

\* Slots and their owners keep corresponding.
LEMMA SlotInvStep ==
    ASSUME IInv, Next
    PROVE  SlotInv'
<1>1. TypeOK /\ CallInv /\ SlotInv /\ PhaseInv
  BY Zenon DEF IInv
<1>2. CallType /\ SlotType
  BY <1>1, Zenon DEF TypeOK
<1>3. ASSUME NEW c \in Caller, NEW d \in Caller, Holding(c), Holding(d),
             Own(c) = Own(d)
      PROVE  c = d
  BY <1>1, <1>3 DEF SlotInv, CallInv, Holding
<1>4. ASSUME NEW c \in Caller, Holding(c), Stays(c)
      PROVE  /\ Own(c)' = Own(c) /\ Own(c) \in Slot /\ in_use[Own(c)]
             /\ proposal_id[Own(c)] = my_id[c] /\ my_id'[c] = my_id[c]
             /\ committed[Own(c)] => pc[c] = "commit" /\ completed[Own(c)]
  BY <1>1, <1>4, Zenon DEF Stays, SlotInv, Own
<1>5. ASSUME NEW c \in Caller, Holding(c)'
      PROVE  /\ Own(c)' \in Slot
             /\ in_use'[Own(c)']
             /\ proposal_id'[Own(c)'] = my_id'[c]
             /\ committed'[Own(c)'] => pc'[c] = "commit" /\ completed'[Own(c)']
  <2>1. Stays(c) /\ pc'[c] # "idle" /\ (Holding(c) \/ TakeSlot(c))
    BY <1>1, <1>5, CallStep, Zenon DEF Holding, Starts, Stays
  <2>2. CASE TakeSlot(c)
    <3>1. Own(c)' = Own(c) /\ my_id' = my_id /\ Own(c) \in Slot
      BY <2>2, Zenon DEF TakeSlot, Own, localVars
    <3>2. /\ in_use'[Own(c)] /\ proposal_id'[Own(c)] = my_id[c]
          /\ ~ committed'[Own(c)]
      BY <1>2, <2>2, <3>1, Zenon DEF TakeSlot, SlotType
    <3> QED
      BY <3>1, <3>2, Zenon
  <2>3. CASE Holding(c)
    <3> DEFINE s == Own(c)
    <3>1. /\ Own(c)' = s /\ s \in Slot /\ in_use[s] /\ proposal_id[s] = my_id[c]
          /\ my_id'[c] = my_id[c]
          /\ committed[s] => pc[c] = "commit" /\ completed[s]
      BY <1>4, <2>1, <2>3, Zenon
    <3>2. SlotKept(s) \/ \E m \in msgs : HandleCommit(m.dest, s, m)
      <4>1. ASSUME NEW d \in Caller, TakeSlot(d), Own(d) = s
            PROVE  FALSE
        BY <3>1, <4>1, Zenon DEF TakeSlot
      <4>2. ASSUME NEW d \in Caller, Frees(d, s)
            PROVE  FALSE
        BY <1>3, <2>1, <2>3, <4>2, Zenon DEF Frees
      <4> HIDE DEF s
      <4> QED
        BY <1>1, <3>1, <4>1, <4>2, SlotStep, Zenon
    <3>3. CASE SlotKept(s)
      BY <2>1, <3>1, <3>3, Zenon DEF SlotKept, Stays
    <3>4. ASSUME NEW m \in msgs, HandleCommit(m.dest, s, m)
          PROVE  /\ in_use'[s] /\ proposal_id'[s] = my_id[c]
                 /\ pc'[c] = "commit" /\ completed'[s]
      <4>1. m.phase = "ACCEPTED" /\ m.id = my_id[c]
        BY <3>1, <3>4, Zenon DEF HandleCommit, Matches
      <4>2. pc[c] = "commit"
        BY <1>1, <2>3, <4>1, Zenon DEF PhaseInv, Early, Holding
      <4> HIDE DEF s
      <4>3. /\ in_use' = in_use /\ proposal_id' = proposal_id
            /\ completed'[s]
        BY <1>2, <3>1, <3>4, Zenon DEF HandleCommit, SlotType
      <4> QED
        BY <2>1, <3>1, <4>2, <4>3, Zenon DEF Stays
    <3> HIDE DEF s
    <3> QED
      BY <3>1, <3>2, <3>3, <3>4, Zenon
  <2> QED
    BY <2>1, <2>2, <2>3, Zenon
<1>6. ASSUME NEW s \in Slot, in_use'[s]
      PROVE  \E c \in Caller : Holding(c)' /\ Own(c)' = s
  <2>1. ASSUME NEW c \in Caller, TakeSlot(c), Own(c) = s
        PROVE  Holding(c)' /\ Own(c)' = s
    BY <1>2, <2>1, Zenon DEF TakeSlot, Own, Goto, Holding, localVars, CallType
  <2>2. ASSUME NEW c \in Caller, Frees(c, s)
        PROVE  FALSE
    BY <1>2, <1>6, <2>2, Zenon DEF Frees, Release, SlotType
  <2>3. CASE in_use[s]
    <3>1. PICK c \in Caller : Holding(c) /\ Own(c) = s
      BY <1>1, <2>3, Zenon DEF SlotInv
    <3>2. Stays(c)
      <4>1. ASSUME Fails(c)
            PROVE  Frees(c, s)
        BY <3>1, <4>1, Zenon DEF Fails, Frees
      <4>2. ASSUME Committed(c)
            PROVE  Frees(c, s)
        BY <1>2, <3>1, <4>2, Zenon DEF Committed, Return, Goto, CallType, Frees
      <4> QED
        BY <1>1, <2>2, <3>1, <4>1, <4>2, CallStep, Zenon DEF Starts, Holding
    <3> QED
      BY <1>4, <3>1, <3>2, Zenon DEF Stays
  <2>4. CASE ~ in_use[s]
    <3>1. ASSUME NEW m, HandleCommit(m.dest, s, m)
          PROVE  FALSE
      BY <2>4, <3>1, Zenon DEF HandleCommit, Matches
    <3>2. ~ SlotKept(s)
      BY <1>6, <2>4, Zenon DEF SlotKept
    <3> QED
      BY <1>1, <2>1, <2>2, <3>1, <3>2, SlotStep, Zenon
  <2> QED
    BY <2>3, <2>4, Zenon
<1> QED
  BY <1>5, <1>6, Zenon DEF SlotInv

\* Phase 2 of an id does not begin before its caller sends ACCEPT.
LEMMA PhaseInvStep ==
    ASSUME IInv, Next
    PROVE  PhaseInv'
<1>1. TypeOK /\ IssuedInv /\ CallInv /\ PhaseInv
  BY Zenon DEF IInv
<1> SUFFICES ASSUME NEW c \in Caller, Early(c)'
             PROVE  /\ \A k \in msgs' :
                          k.phase \in {"ACCEPT", "ACCEPTED", "LEARN"}
                          => k.id # my_id'[c]
                    /\ \A a \in accepts' : a[2] # my_id'[c]
  BY Zenon DEF PhaseInv
<1>2. \/ ~ Issued(my_id'[c])
      \/ Early(c) /\ my_id'[c] = my_id[c]
  BY <1>1, CallStep, FreshId, Zenon DEF Stays, Early
<1>3. ASSUME NEW m \in msgs, m.phase \in {"ACCEPT", "ACCEPTED", "LEARN"}
      PROVE  m.id # my_id'[c]
  BY <1>1, <1>2, <1>3, Zenon DEF IssuedInv, PhaseInv
<1>4. ASSUME NEW d \in Caller, SendAccept(d)
      PROVE  my_id[d] # my_id'[c]
  <2>1. pc[d] # "idle" /\ Issued(my_id[d])
    BY <1>1, <1>4, Zenon DEF SendAccept, IssuedInv
  <2>2. pc'[d] = "commit"
    BY <1>1, <1>4, Zenon DEF SendAccept, Goto, TypeOK, CallType
  <2>3. c # d
    BY <2>2, Zenon DEF Early
  <2> QED
    BY <1>1, <1>2, <2>1, <2>3, Zenon DEF CallInv, Early
<1>5. ASSUME NEW k, k \in msgs', k.phase \in {"ACCEPT", "ACCEPTED", "LEARN"}
      PROVE  k.id # my_id'[c]
  <2>1. ASSUME NEW m \in msgs, HandleAccept(m.dest, m)
        PROVE  m.phase = "ACCEPT"
    BY <2>1, Zenon DEF HandleAccept, Accept
  <2>2. ASSUME NEW m \in msgs, NEW s, HandleCommit(m.dest, s, m)
        PROVE  m.phase = "ACCEPTED"
    BY <2>2, Zenon DEF HandleCommit
  <2>3. CASE k \in msgs
    BY <1>3, <1>5, <2>3, Zenon
  <2>4. CASE k \notin msgs
    <3>1. k.phase # "PREPARE" /\ k.phase # "PROMISE"
      BY <1>5, Zenon
    <3>2. \/ \E d \in Caller : SendAccept(d) /\ k.id = my_id[d]
          \/ \E m \in msgs : m.phase \in {"ACCEPT", "ACCEPTED", "LEARN"} /\ k.id = m.id
      <4>1. ASSUME NEW m \in msgs, HandleAccept(m.dest, m)
            PROVE  m.phase \in {"ACCEPT", "ACCEPTED", "LEARN"}
        BY <2>1, <4>1, Zenon
      <4>2. ASSUME NEW m \in msgs, NEW s, HandleCommit(m.dest, s, m)
            PROVE  m.phase \in {"ACCEPT", "ACCEPTED", "LEARN"}
        BY <2>2, <4>2, Zenon
      <4> QED
        BY <1>1, <1>5, <2>4, <3>1, <4>1, <4>2, MsgsStep, Zenon
    <3> QED
      BY <1>3, <1>4, <3>2, Zenon
  <2> QED
    BY <2>3, <2>4, Zenon
<1>6. ASSUME NEW a, a \in accepts'
      PROVE  a[2] # my_id'[c]
  <2>1. CASE a \in accepts
    BY <1>1, <1>2, <2>1, Zenon DEF IssuedInv, PhaseInv
  <2>2. ASSUME NEW m \in msgs, HandleAccept(m.dest, m)
        PROVE  m.id # my_id'[c]
    BY <1>3, <2>2, Zenon DEF HandleAccept, Accept
  <2>3. ASSUME NEW p, NEW id, accepts' = accepts \cup {<<p, id>>}, id # my_id'[c]
        PROVE  a \in accepts \/ a[2] # my_id'[c]
    BY <1>6, <2>3
  <2>4. UNCHANGED accepts => a \in accepts
    BY <1>6, Zenon
  <2> QED
    BY <1>1, <1>4, <2>1, <2>2, <2>3, <2>4, AcceptsStep, Zenon
<1> QED
  BY <1>5, <1>6, Zenon

\* An acceptor gets one ACCEPT for an id and answers it once.
LEMMA AcceptInvStep ==
    ASSUME IInv, Next
    PROVE  AcceptInv'
<1>1. TypeOK /\ PhaseInv /\ AcceptInv
  BY Zenon DEF IInv
<1>2. accepts \subseteq accepts'
  BY <1>1, AcceptsStep, Zenon
<1>3. ASSUME NEW c \in Caller, SendAccept(c)
      PROVE  /\ \A m \in msgs : m.phase \in {"ACCEPT", "ACCEPTED"} => m.id # my_id[c]
             /\ \A a \in accepts : a[2] # my_id[c]
  BY <1>1, <1>3, Zenon DEF SendAccept, PhaseInv, Early
<1>4. ASSUME NEW m \in msgs, HandleAccept(m.dest, m)
      PROVE  /\ m.phase = "ACCEPT"
             /\ msgs' = (msgs \ {m}) \cup {Reply(m.dest, m, "ACCEPTED", 0)}
             /\ <<m.dest, m.id>> \notin accepts
             /\ accepts' = accepts \cup {<<m.dest, m.id>>}
  BY <1>1, <1>4, Zenon DEF HandleAccept, Accept, Receive, AcceptInv
<1>5. ASSUME NEW k, k \in msgs', k.phase = "ACCEPT", k \notin msgs
      PROVE  \E c \in Caller :
                /\ SendAccept(c) /\ k.id = my_id[c]
                /\ k \in Broadcast(c[1], "ACCEPT", my_id[c], my_seq[c], 0, my_value[c])
  BY <1>1, <1>5, MsgsStep, Zenon
<1>6. ASSUME NEW k, k \in msgs', k.phase = "ACCEPTED", k \notin msgs
      PROVE  \E m \in msgs :
                HandleAccept(m.dest, m) /\ k = Reply(m.dest, m, "ACCEPTED", 0)
  BY <1>1, <1>6, MsgsStep, Zenon
<1>7. ASSUME NEW k, k \in msgs', k.phase = "ACCEPT"
      PROVE  <<k.dest, k.id>> \notin accepts'
  <2>1. CASE k \in msgs
    <3>1. <<k.dest, k.id>> \notin accepts
      BY <1>1, <1>7, <2>1, Zenon DEF AcceptInv
    <3>2. ASSUME NEW c \in Caller, SendAccept(c)
          PROVE  <<k.dest, k.id>> # <<c[1], my_id[c]>>
      BY <1>3, <1>7, <2>1, <3>2, Zenon
    <3>3. ASSUME NEW m \in msgs, HandleAccept(m.dest, m)
          PROVE  <<k.dest, k.id>> # <<m.dest, m.id>>
      <4>1. k # m
        <5>1. (Reply(m.dest, m, "ACCEPTED", 0)).phase = "ACCEPTED"
          BY Zenon DEF Reply
        <5> QED
          BY <1>4, <1>7, <3>3, <5>1, Zenon
      <4> QED
        BY <1>1, <1>4, <1>7, <2>1, <3>3, <4>1, Zenon DEF AcceptInv
    <3>4. ASSUME NEW a, accepts' = accepts \cup {a}, <<k.dest, k.id>> # a
          PROVE  <<k.dest, k.id>> \notin accepts'
      BY <3>1, <3>4, Zenon
    <3> QED
      BY <1>1, <3>1, <3>2, <3>3, <3>4, AcceptsStep, Zenon
  <2>2. CASE k \notin msgs
    <3>1. PICK c \in Caller :
                /\ SendAccept(c) /\ k.id = my_id[c]
                /\ k \in Broadcast(c[1], "ACCEPT", my_id[c], my_seq[c], 0, my_value[c])
      BY <1>5, <1>7, <2>2, Zenon
    <3>2. k.dest # c[1]
      BY <3>1 DEF Broadcast
    <3>3. accepts' = accepts \cup {<<c[1], my_id[c]>>}
      BY <3>1, Zenon DEF SendAccept
    <3> QED
      BY <1>3, <3>1, <3>2, <3>3, Zenon
  <2> QED
    BY <2>1, <2>2, Zenon
<1>8. ASSUME NEW k, k \in msgs', k.phase = "ACCEPTED"
      PROVE  <<k.sender, k.id>> \in accepts'
  <2>1. CASE k \in msgs
    BY <1>1, <1>2, <1>8, <2>1, Zenon DEF AcceptInv
  <2>2. CASE k \notin msgs
    BY <1>4, <1>6, <1>8, <2>2 DEF Reply
  <2> QED
    BY <2>1, <2>2, Zenon
<1>9. ASSUME NEW m, NEW k, m \in msgs', k \in msgs',
             m.phase = "ACCEPT", k.phase = "ACCEPT", m.dest = k.dest, m.id = k.id
      PROVE  m = k
  <2>1. CASE m \in msgs /\ k \in msgs
    BY <1>1, <1>9, <2>1, Zenon DEF AcceptInv
  <2>2. CASE m \notin msgs /\ k \notin msgs
    <3>1. PICK c \in Caller :
                /\ SendAccept(c) /\ k.id = my_id[c]
                /\ k \in Broadcast(c[1], "ACCEPT", my_id[c], my_seq[c], 0, my_value[c])
      BY <1>5, <1>9, <2>2, Zenon
    <3>2. msgs' = msgs \cup
             Broadcast(c[1], "ACCEPT", my_id[c], my_seq[c], 0, my_value[c])
      BY <3>1, Zenon DEF SendAccept
    <3> QED
      BY <1>9, <2>2, <3>2 DEF Broadcast
  <2> QED
    BY <1>3, <1>5, <1>9, <2>1, <2>2
<1>10. ASSUME NEW m, NEW k, m \in msgs', k \in msgs',
              m.phase = "ACCEPTED", k.phase = "ACCEPTED",
              m.sender = k.sender, m.id = k.id
       PROVE  m = k
  <2>1. CASE m \in msgs /\ k \in msgs
    BY <1>1, <1>10, <2>1, Zenon DEF AcceptInv
  <2>2. ASSUME NEW x, NEW y, x \in msgs', x \notin msgs, y \in msgs,
               x.phase = "ACCEPTED", y.phase = "ACCEPTED",
               x.sender = y.sender, x.id = y.id
        PROVE  FALSE
    <3>1. PICK r \in msgs :
             HandleAccept(r.dest, r) /\ x = Reply(r.dest, r, "ACCEPTED", 0)
      BY <1>6, <2>2, Zenon
    <3>2. x.sender = r.dest /\ x.id = r.id
      BY <3>1, Zenon DEF Reply
    <3> QED
      BY <1>1, <1>4, <2>2, <3>1, <3>2, Zenon DEF AcceptInv
  <2>3. CASE m \notin msgs /\ k \notin msgs
    <3>1. PICK r \in msgs :
             HandleAccept(r.dest, r) /\ m = Reply(r.dest, r, "ACCEPTED", 0)
      BY <1>6, <1>10, <2>3, Zenon
    <3>2. msgs' = (msgs \ {r}) \cup {m}
      BY <1>4, <3>1, Zenon
    <3> QED
      BY <1>10, <2>3, <3>2, Zenon
  <2> QED
    BY <1>10, <2>1, <2>2, <2>3, Zenon
<1> QED
  BY <1>7, <1>8, <1>9, <1>10, Zenon DEF AcceptInv
-----------------------------------------------------------------------------
\* The acceptors of id whose ACCEPTED has arrived or was not needed.
Heard(id) == Acceptors(id) \ InFlight(id)

\* An acceptor that was heard stays so.
LEMMA HeardStep ==
    ASSUME IInv, Next, NEW id
    PROVE  Acceptors(id) \subseteq Acceptors(id)' /\ Heard(id) \subseteq Heard(id)'
<1>1. TypeOK /\ AcceptInv
  BY Zenon DEF IInv
<1>2. accepts \subseteq accepts'
  BY <1>1, AcceptsStep, Zenon
<1>3. ASSUME NEW a \in Heard(id), a \in InFlight(id)'
      PROVE  FALSE
  <2>1. PICK k : k \in msgs' /\ k.phase = "ACCEPTED" /\ k.id = id /\ k.sender = a
    BY <1>3, Zenon DEF InFlight
  <2>2. a \in Node /\ <<a, id>> \in accepts /\ k \notin msgs
    BY <1>3, <2>1, Zenon DEF Heard, Acceptors, InFlight
  <2>3. PICK m \in msgs :
           HandleAccept(m.dest, m) /\ k = Reply(m.dest, m, "ACCEPTED", 0)
    BY <1>1, <2>1, <2>2, MsgsStep, Zenon
  <2>4. m.phase = "ACCEPT" /\ m.dest = a /\ m.id = id
    BY <2>1, <2>3, Zenon DEF HandleAccept, Accept, Reply
  <2> QED
    BY <1>1, <2>2, <2>4, Zenon DEF AcceptInv
<1> QED
  BY <1>2, <1>3, Zenon DEF Heard, Acceptors

\* A decision is final.
LEMMA DecidedKept ==
    ASSUME IInv, Next, NEW id, Decided(id)
    PROVE  Decided(id)'
<1>1. TypeOK /\ SlotInv /\ CallInv
  BY Zenon DEF IInv
<1>2. CASE id \in succeeded
  <2>1. succeeded \subseteq succeeded'
    BY <1>1, ResultStep, Zenon DEF resultVars, Fails, Committed
  <2> QED
    BY <1>2, <2>1, Zenon DEF Decided
<1>3. ASSUME NEW c \in Caller, pc[c] = "commit", my_id[c] = id, committed[Own(c)]
      PROVE  Decided(id)'
  <2>1. CASE Committed(c)
    BY <1>3, <2>1, Zenon DEF Committed, Decided
  <2>2. CASE Stays(c)
    <3>1. pc'[c] = "commit" /\ my_id'[c] = id /\ Own(c)' = Own(c)
      BY <1>3, <2>2, Zenon DEF Stays, Own, Holding
    <3>2. committed'[Own(c)']
      <4>1. SlotInv'
        BY SlotInvStep, Zenon
      <4>2. Own(c) \in Slot /\ in_use[Own(c)] /\ completed[Own(c)]
        BY <1>1, <1>3, Zenon DEF SlotInv, Holding
      <4>3. in_use'[Own(c)]
        BY <3>1, <4>1, Zenon DEF SlotInv, Holding
      <4>4. ASSUME NEW d \in Caller, Frees(d, Own(c))
            PROVE  FALSE
        BY <1>1, <4>2, <4>3, <4>4, Zenon DEF Frees, Release, TypeOK, SlotType
      <4>5. ASSUME NEW m, HandleCommit(m.dest, Own(c), m)
            PROVE  FALSE
        BY <4>2, <4>5, Zenon DEF HandleCommit, Matches
      <4>6. ASSUME NEW d \in Caller, TakeSlot(d), Own(d) = Own(c)
            PROVE  FALSE
        BY <4>2, <4>6, Zenon DEF TakeSlot
      <4>7. SlotKept(Own(c))
        BY <1>1, <4>2, <4>4, <4>5, <4>6, SlotStep, Zenon
      <4> QED
        BY <1>3, <3>1, <4>7, Zenon DEF SlotKept
    <3> QED
      BY <3>1, <3>2, Zenon DEF Decided
  <2>3. ~ Fails(c)
    BY <1>3, Zenon DEF Fails, Holding
  <2> QED
    BY <1>1, <1>3, <2>1, <2>2, <2>3, CallStep, Zenon DEF Starts
<1> QED
  BY <1>2, <1>3, Zenon DEF Decided

\* The ACCEPTED that completes the quorum is the first to decide its id.
LEMMA CommitIsFirst ==
    ASSUME IInv, NEW m \in msgs, NEW s \in SlotsOf(m.dest),
           HandleCommit(m.dest, s, m)
    PROVE  ~ Decided(m.id)
<1>1. CallInv /\ SlotInv
  BY Zenon DEF IInv
<1>2. s \in Slot /\ in_use[s] /\ proposal_id[s] = m.id /\ ~ completed[s]
  BY Zenon DEF HandleCommit, Matches, SlotsOf
<1>3. PICK c \in Caller : Holding(c) /\ Own(c) = s
  BY <1>1, <1>2, Zenon DEF SlotInv
<1>4. my_id[c] = m.id /\ ~ committed[s]
  BY <1>1, <1>2, <1>3, Zenon DEF SlotInv
<1> QED
  BY <1>1, <1>3, <1>4, Zenon DEF Decided, CallInv, Holding

\* A node applies an id once.
LEMMA LearnInvStep ==
    ASSUME IInv, Next
    PROVE  LearnInv'
<1>1. TypeOK /\ ChosenInv /\ LearnInv
  BY Zenon DEF IInv
<1>2. msgs \subseteq Message /\ LogType
  BY <1>1, Zenon DEF TypeOK
<1>3. ASSUME NEW m \in msgs, NEW s \in SlotsOf(m.dest), HandleCommit(m.dest, s, m)
      PROVE  /\ \A n \in Node : \A e \in AppliedEntries(n) : e.id # m.id
             /\ \A k \in msgs : k.phase = "LEARN" => k.id # m.id
             /\ \A n \in Node \ {m.dest} : AppliedEntries(n)' = AppliedEntries(n)
             /\ \E v, q : \A k \in msgs' \ msgs :
                   k \in Broadcast(m.dest, "LEARN", m.id, q, m.id, v)
  <2>1. ~ Decided(m.id)
    BY <1>3, CommitIsFirst, Zenon
  <2>2. \A n \in Node \ {m.dest} : applied'[n] = applied[n]
    BY <1>2, <1>3, Zenon DEF HandleCommit, LogType
  <2>3. \A k \in msgs' \ msgs : k \in Broadcast(m.dest, "LEARN", m.id,
             sequence_number[s], m.id, proposed_value[s])
    BY <1>3, Zenon DEF HandleCommit, Matches, Receive
  <2> QED
    BY <1>1, <2>1, <2>2, <2>3, Zenon DEF ChosenInv, Chosen, AppliedEntries
<1>4. ASSUME NEW m \in msgs, HandleLearn(m.dest, m)
      PROVE  /\ m.phase = "LEARN" /\ msgs' = msgs \ {m} /\ m.dest \in Node
             /\ \A e \in AppliedEntries(m.dest) : e.id # m.id
  BY <1>1, <1>2, <1>4, Zenon DEF HandleLearn, Receive, LearnInv, Message
<1>5. AppliedOnce'
  <2> SUFFICES ASSUME NEW n \in Node,
                      NEW i \in 1 .. Len(applied'[n]), NEW j \in 1 .. Len(applied'[n]),
                      applied'[n][i].id = applied'[n][j].id
               PROVE  i = j
    BY Zenon DEF AppliedOnce
  <2>1. CASE applied'[n] = applied[n]
    BY <1>1, <2>1, Zenon DEF LearnInv, AppliedOnce
  <2>2. ASSUME NEW x \in Entry, applied'[n] = Append(applied[n], x),
               \A e \in AppliedEntries(n) : e.id # x.id
        PROVE  i = j
    <3> DEFINE len == Len(applied[n])
    <3>1. /\ len \in Nat
          /\ \A k \in 1 .. len : applied'[n][k] = applied[n][k]
          /\ applied'[n][len + 1] = x
          /\ i \in 1 .. len \/ i = len + 1
          /\ j \in 1 .. len \/ j = len + 1
      BY <1>1, <2>2, AppendEntries
    <3>2. \A k \in 1 .. len : applied[n][k].id # x.id
      BY <2>2, Zenon DEF AppliedEntries
    <3>3. i \in 1 .. len /\ j \in 1 .. len => i = j
      BY <1>1, <3>1, SMTT(30) DEF LearnInv, AppliedOnce
    <3> HIDE DEF len
    <3> QED
      BY <3>1, <3>2, <3>3, Zenon
  <2>3. CASE applied'[n] # applied[n]
    <3>1. PICK x \in Entry :
             /\ applied'[n] = Append(applied[n], x)
             /\ \/ \E m \in msgs : \E s \in SlotsOf(m.dest) :
                      HandleCommit(m.dest, s, m) /\ x.id = m.id /\ n = m.dest
                \/ \E m \in msgs : HandleLearn(m.dest, m) /\ x.id = m.id /\ n = m.dest
      BY <1>1, <2>3, AppliedGrows, Zenon
    <3>2. \A e \in AppliedEntries(n) : e.id # x.id
      <4>1. ASSUME NEW m \in msgs, NEW s \in SlotsOf(m.dest), x.id = m.id,
                   HandleCommit(m.dest, s, m)
            PROVE  \A e \in AppliedEntries(n) : e.id # x.id
        <5>1. \A d \in Node : \A e \in AppliedEntries(d) : e.id # m.id
          BY <1>3, <4>1, Zenon
        <5> QED
          BY <4>1, <5>1, Zenon
      <4>2. ASSUME NEW m \in msgs, HandleLearn(m.dest, m), x.id = m.id, n = m.dest
            PROVE  \A e \in AppliedEntries(n) : e.id # x.id
        <5>1. \A e \in AppliedEntries(m.dest) : e.id # m.id
          BY <1>4, <4>2, Zenon
        <5> QED
          BY <4>2, <5>1, Zenon
      <4> QED
        BY <3>1, <4>1, <4>2, Zenon
    <3> QED
      BY <2>2, <3>1, <3>2, Zenon
  <2> QED
    BY <2>1, <2>3, Zenon
<1>6. ASSUME NEW k, k \in msgs', k.phase = "LEARN",
             NEW e, e \in AppliedEntries(k.dest)', e.id = k.id
      PROVE  FALSE
  <2>1. CASE k \in msgs
    <3>1. k.dest \in Node /\ e \notin AppliedEntries(k.dest)
      BY <1>1, <1>2, <1>6, <2>1, Zenon DEF LearnInv, Message
    <3>2. ASSUME NEW m \in msgs, HandleLearn(m.dest, m), e.id = m.id, k.dest = m.dest
          PROVE  FALSE
      BY <1>1, <1>4, <1>6, <2>1, <3>2, Zenon DEF LearnInv
    <3>3. ASSUME NEW m \in msgs, NEW s \in SlotsOf(m.dest), HandleCommit(m.dest, s, m),
                 e.id = m.id
          PROVE  FALSE
      BY <1>3, <1>6, <2>1, <3>3, Zenon
    <3> QED
      BY <1>1, <1>6, <3>1, <3>2, <3>3, AppliedStep, Zenon
  <2>2. CASE k \notin msgs
    <3>1. PICK m \in msgs : \E s \in SlotsOf(m.dest) : HandleCommit(m.dest, s, m)
      BY <1>1, <1>6, <2>2, MsgsStep, Zenon
    <3>2. k.id = m.id /\ k.dest \in Node \ {m.dest}
      <4>1. PICK v, q : \A l \in msgs' \ msgs :
                l \in Broadcast(m.dest, "LEARN", m.id, q, m.id, v)
        BY <1>3, <3>1, Zenon
      <4>2. k \in Broadcast(m.dest, "LEARN", m.id, q, m.id, v)
        BY <1>6, <2>2, <4>1, Zenon
      <4> QED
        BY <4>2, BroadcastMember
    <3> QED
      BY <1>3, <1>6, <3>1, <3>2, Zenon
  <2> QED
    BY <2>1, <2>2, Zenon
<1>7. ASSUME NEW k, NEW l, k \in msgs', l \in msgs', k.phase = "LEARN",
             l.phase = "LEARN", k.dest = l.dest, k.id = l.id
      PROVE  k = l
  <2>1. CASE k \in msgs /\ l \in msgs
    BY <1>1, <1>7, <2>1, Zenon DEF LearnInv
  <2>2. CASE k \notin msgs \/ l \notin msgs
    <3>1. PICK m \in msgs : \E s \in SlotsOf(m.dest) : HandleCommit(m.dest, s, m)
      BY <1>1, <1>7, <2>2, MsgsStep, ZenonT(30)
    <3>2. k \in msgs => k.id # m.id
      BY <1>3, <1>7, <3>1, Zenon
    <3>3. l \in msgs => l.id # m.id
      BY <1>3, <1>7, <3>1, Zenon
    <3>4. PICK v, q : \A x \in msgs' \ msgs :
                         x \in Broadcast(m.dest, "LEARN", m.id, q, m.id, v)
      BY <1>3, <3>1, Zenon
    <3>5. \A x \in msgs' \ msgs : x.id = m.id
      BY <3>4 DEF Broadcast
    <3>6. k \notin msgs /\ l \notin msgs
      BY <1>7, <2>2, <3>2, <3>3, <3>5, Zenon
    <3> QED
      BY <1>7, <3>4, <3>6 DEF Broadcast
  <2> QED
    BY <2>1, <2>2, Zenon
<1> QED
  BY <1>5, <1>6, <1>7, Zenon DEF LearnInv

\* The proposer's node applies what the proposer decides.
LEMMA DoneInvStep ==
    ASSUME IInv, Next
    PROVE  DoneInv'
<1>1. TypeOK /\ IssuedInv /\ SlotInv /\ DoneInv
  BY Zenon DEF IInv
<1>2. ASSUME NEW n \in Node, NEW id, \E e \in AppliedEntries(n) : e.id = id
      PROVE  \E e \in AppliedEntries(n)' : e.id = id
  BY <1>1, <1>2, AppliedKept, Zenon
<1>3. ASSUME NEW id, id \in succeeded'
      PROVE  \E e \in AppliedEntries(Issuer(id))' : e.id = id
  <2>1. CASE id \in succeeded
    BY <1>1, <1>2, <2>1, Zenon DEF IssuedInv, Issued, DoneInv, SuccessApplied
  <2>2. ASSUME NEW c \in Caller, Committed(c), id = my_id[c]
        PROVE  \E e \in AppliedEntries(Issuer(id))' : e.id = id
    <3>1. pc[c] = "commit" /\ committed[Own(c)]
      BY <2>2, Zenon DEF Committed
    <3>2. \E e \in AppliedEntries(c[1]) : e.id = id
      BY <1>1, <2>2, <3>1, Zenon DEF DoneInv
    <3>3. Issuer(id) = c[1] /\ c[1] \in Node
      BY <1>1, <2>2, <3>1, Zenon DEF IssuedInv, Caller
    <3> QED
      BY <1>2, <3>2, <3>3, Zenon
  <2> QED
    BY <1>1, <1>3, <2>1, <2>2, ResultStep, Zenon DEF resultVars, Fails, Committed
<1>4. ASSUME NEW c \in Caller, pc'[c] = "commit", committed'[Own(c)']
      PROVE  \E e \in AppliedEntries(c[1])' : e.id = my_id'[c]
  <2>1. Stays(c) /\ my_id'[c] = my_id[c] /\ c[1] \in Node
    BY <1>1, <1>4, CallStep, Zenon DEF Starts, Stays, Caller
  <2>2. ~ SendAccept(c)
    BY <1>1, <1>4, Zenon DEF SendAccept, SlotInv, Holding, Own, localVars
  <2>3. pc[c] = "commit" /\ Own(c)' = Own(c) /\ Own(c) \in Slot /\ in_use[Own(c)]
        /\ proposal_id[Own(c)] = my_id[c]
    BY <1>1, <1>4, <2>1, <2>2, Zenon DEF Stays, Holding, Own, SlotInv
  <2>4. CASE committed[Own(c)]
    BY <1>1, <1>2, <2>1, <2>3, <2>4, Zenon DEF DoneInv
  <2>5. ASSUME NEW m \in msgs, HandleCommit(m.dest, Own(c), m), Own(c)[1] = m.dest
        PROVE  \E e \in AppliedEntries(c[1])' : e.id = my_id[c]
    <3>1. m.dest = c[1] /\ m.id = my_id[c]
      BY <2>3, <2>5, Zenon DEF HandleCommit, Matches, Own
    <3> DEFINE x == [id |-> m.id, seq |-> m.seq, value |-> proposed_value[Own(c)]]
    <3>2. applied' = [applied EXCEPT ![m.dest] = Append(@, x)]
      BY <2>5, Zenon DEF HandleCommit
    <3>3. x \in Entry /\ x.id = m.id
      BY <1>1, <2>3, Zenon DEF TypeOK, SlotType, Message, Entry
    <3> HIDE DEF x
    <3>4. applied'[c[1]] = Append(applied[c[1]], x)
      BY <1>1, <2>1, <3>1, <3>2, Zenon DEF TypeOK, LogType
    <3> QED
      BY <1>1, <2>1, <3>1, <3>3, <3>4, AppendEntries, Zenon
  <2>6. ASSUME ~ committed[Own(c)]
        PROVE  ~ SlotKept(Own(c))
    BY <1>4, <2>3, <2>6, Zenon DEF SlotKept
  <2>7. ASSUME NEW d \in Caller, Frees(d, Own(c))
        PROVE  FALSE
    BY <1>1, <1>4, <2>3, <2>7, Zenon DEF Frees, Release, TypeOK, SlotType
  <2>8. ASSUME NEW d \in Caller, TakeSlot(d), Own(d) = Own(c)
        PROVE  FALSE
    BY <2>3, <2>8, Zenon DEF TakeSlot
  <2> QED
    BY <1>1, <2>1, <2>3, <2>4, <2>5, <2>6, <2>7, <2>8, SlotStep, Zenon
<1>5. SuccessApplied'
  BY <1>3, Zenon DEF SuccessApplied
<1> QED
  BY <1>4, <1>5, Zenon DEF DoneInv

\* IInv holds at the start and every step keeps it.
LEMMA InitIInv == Init => IInv
<1> SUFFICES ASSUME Init PROVE IInv
  BY Zenon
<1>1. TypeOK
  <2>1. NodeType
    BY Zenon DEF Init, NodeType
  <2>2. SlotType
    BY Zenon DEF Init, SlotType, MaybeValue
  <2>3. CallType
    BY Zenon DEF Init, CallType, PC, MaybeValue
  <2>4. LogType
    BY DEF Init, LogType
  <2>5. msgs \subseteq Message
    BY Zenon DEF Init
  <2> QED
    BY <2>1, <2>2, <2>3, <2>4, <2>5, Zenon DEF TypeOK
<1>2. /\ msgs = {} /\ accepts = {} /\ succeeded = {} /\ failed = {}
      /\ \A c \in Caller : pc[c] = "idle"
      /\ \A s \in Slot : ~ in_use[s]
      /\ \A n \in Node : AppliedEntries(n) = {} /\ Len(applied[n]) = 0
  BY DEF Init, AppliedEntries
<1>3. IssuedInv /\ CallInv
  BY <1>2, Zenon DEF IssuedInv, CallInv
<1>4. SlotInv /\ CountInv
  BY <1>2, Zenon DEF SlotInv, CountInv, Holding
<1>5. PhaseInv /\ AcceptInv /\ ChosenInv
  BY <1>2, Zenon DEF PhaseInv, AcceptInv, ChosenInv
<1>6. LearnInv /\ DoneInv
  BY <1>2 DEF LearnInv, AppliedOnce, DoneInv, SuccessApplied
<1> QED
  BY <1>1, <1>3, <1>4, <1>5, <1>6, Zenon DEF IInv

\* A stuttering step keeps the invariant.
LEMMA StutterIInv == IInv /\ UNCHANGED vars => IInv'
<1> SUFFICES ASSUME IInv, UNCHANGED vars PROVE IInv'
  BY Zenon
<1>1. TypeOK'
  BY TypeInductive, Zenon DEF IInv
<1>2. UNCHANGED <<highest_proposal_seen, pc, my_id, my_slot, in_use, completed,
          committed, proposal_id, accept_count, msgs, accepts, succeeded, failed,
          applied>>
  BY Zenon DEF vars, acceptorVars, slotVars, localVars, logVars, resultVars
<1>3. IssuedInv' /\ CallInv'
  BY <1>2, Zenon DEF IInv, IssuedInv, CallInv, Issued, AppliedEntries
<1>4. SlotInv' /\ PhaseInv'
  BY <1>2, Zenon DEF IInv, SlotInv, PhaseInv, Holding, Early, Own
<1>5. AcceptInv' /\ CountInv'
  BY <1>2, Zenon DEF IInv, AcceptInv, CountInv, Holding, Own, Acceptors, InFlight
<1>6. ChosenInv'
  <2>1. ASSUME NEW id, Chosen(id)
        PROVE  Chosen(id)'
    BY <1>2, <2>1, Zenon DEF Chosen, Decided, Own, Acceptors, QuorumSize
  <2>2. ChosenInv
    BY Zenon DEF IInv
  <2> QED
    BY <1>2, <2>1, <2>2, Zenon DEF ChosenInv, AppliedEntries
<1>7. LearnInv'
  <2>1. LearnInv
    BY Zenon DEF IInv
  <2> QED
    BY <1>2, <2>1 DEF LearnInv, AppliedOnce, AppliedEntries
<1>8. DoneInv'
  <2>1. DoneInv
    BY Zenon DEF IInv
  <2> QED
    BY <1>2, <2>1 DEF DoneInv, SuccessApplied, Own, AppliedEntries
<1> QED
  BY <1>1, <1>3, <1>4, <1>5, <1>6, <1>7, <1>8, Zenon DEF IInv
-----------------------------------------------------------------------------
(***************************************************************************)
(* Counting: what a slot has counted, and what a majority has decided      *)
(***************************************************************************)
\* Sets of nodes are finite, and counting them is monotone.  CountNodes shows it.
Counting ==
    \A S \in SUBSET Node : \A T \in SUBSET S :
        /\ Cardinality(S) \in Nat /\ Cardinality(T) \in Nat
        /\ Cardinality(T) <= Cardinality(S)
        /\ \A x \in S \ T : Cardinality(T) + 1 <= Cardinality(S)

\* accept_count of a slot counts different acceptors.
LEMMA CountInvStep ==
    ASSUME Counting, IInv, Next
    PROVE  CountInv'
<1>1. TypeOK /\ CallInv /\ SlotInv /\ PhaseInv /\ AcceptInv /\ CountInv
  BY Zenon DEF IInv
<1>2. CallType /\ SlotType /\ msgs \subseteq Message
  BY <1>1, Zenon DEF TypeOK
<1> SUFFICES ASSUME NEW c \in Caller, Holding(c)'
             PROVE  accept_count'[Own(c)'] <= Cardinality(Heard(my_id[c])')
  BY Zenon DEF CountInv, Heard
<1>3. Stays(c) /\ my_id'[c] = my_id[c] /\ (Holding(c) \/ TakeSlot(c))
  BY <1>1, CallStep, Zenon DEF Holding, Starts, Stays
<1>0. PICK id : id = my_id[c]
  BY Zenon
<1> DEFINE H == Heard(id)
           K == Heard(id)'
<1>4. K = Heard(my_id[c])'
  BY <1>0, <1>3, Zenon DEF Heard, Acceptors, InFlight
<1>5. H \subseteq K /\ K \subseteq Node
  <2>1. H \subseteq K
    BY HeardStep, Zenon
  <2>2. K \subseteq Node
    BY Zenon DEF Heard, Acceptors
  <2> QED
    BY <2>1, <2>2, Zenon
<1>6. /\ Cardinality(H) \in Nat /\ Cardinality(K) \in Nat
      /\ Cardinality(H) <= Cardinality(K)
      /\ \A x \in K \ H : Cardinality(H) + 1 <= Cardinality(K)
  BY <1>5, Zenon DEF Counting
<1>7. CASE TakeSlot(c)
  <2>1. accept_count'[Own(c)'] = 0
    BY <1>2, <1>7, Zenon DEF TakeSlot, Own, localVars, SlotType
  <2> QED
    BY <1>4, <1>6, <2>1
<1>8. CASE Holding(c)
  <2> DEFINE s == Own(c)
  <2>1. /\ Own(c)' = s /\ s \in Slot /\ in_use[s] /\ proposal_id[s] = id
        /\ accept_count[s] \in Nat /\ accept_count[s] <= Cardinality(H)
    BY <1>0, <1>1, <1>2, <1>3, <1>8, Zenon DEF Stays, SlotInv, Own, CountInv, Heard, SlotType
  <2>2. ASSUME NEW d \in Caller, TakeSlot(d), Own(d) = s
        PROVE  FALSE
    BY <2>1, <2>2, Zenon DEF TakeSlot
  <2>3. ASSUME NEW d \in Caller, Holding(d), Own(d) = s
        PROVE  c = d
    <3>1. my_id[c] = my_id[d]
      BY <1>1, <1>8, <2>3, Zenon DEF SlotInv
    <3>2. pc[c] # "idle" /\ pc[d] # "idle"
      BY <1>8, <2>3 DEF Holding
    <3> QED
      BY <1>1, <3>1, <3>2, Zenon DEF CallInv
  <2>4. ASSUME NEW d \in Caller, Frees(d, s)
        PROVE  FALSE
    BY <2>3, <2>4, Zenon DEF Frees, Holding
  <2>5. ASSUME NEW d \in Caller, SendAccept(d), Own(d) = s
        PROVE  accept_count'[s] <= Cardinality(K)
    <3>1. d = c
      BY <2>3, <2>5, Zenon DEF SendAccept, Holding
    <3>2. accept_count'[s] = 1
      BY <1>2, <2>1, <2>5, Zenon DEF SendAccept, SlotType
    <3>3. c[1] \in Node /\ <<c[1], id>> \in accepts' /\ <<c[1], id>> \notin accepts
      BY <1>0, <1>1, <2>5, <3>1, Zenon DEF SendAccept, PhaseInv, Early, Caller
    <3>4. \A k \in msgs' : k.phase = "ACCEPTED" => k.id # id
      <4>1. msgs' = msgs \cup
              Broadcast(c[1], "ACCEPT", my_id[c], my_seq[c], 0, my_value[c])
        BY <2>5, <3>1, Zenon DEF SendAccept
      <4>2. \A k \in Broadcast(c[1], "ACCEPT", my_id[c], my_seq[c], 0, my_value[c]) :
              k.phase # "ACCEPTED"
        BY DEF Broadcast
      <4>3. Early(c)
        BY <2>5, <3>1, Zenon DEF SendAccept, Early
      <4>4. \A k \in msgs : k.phase = "ACCEPTED" => k.id # id
        BY <1>0, <1>1, <4>3, Zenon DEF PhaseInv
      <4> QED
        BY <4>1, <4>2, <4>4, Zenon
    <3>5. c[1] \in K \ H
      BY <3>3, <3>4, Zenon DEF Heard, Acceptors, InFlight
    <3> HIDE DEF s, H, K
    <3> QED
      BY <1>6, <3>2, <3>5
  <2>6. ASSUME NEW m \in msgs, HandleAccepted(s, m) \/ HandleCommit(m.dest, s, m)
        PROVE  accept_count'[s] <= Cardinality(K)
    <3>1. m.phase = "ACCEPTED" /\ m.id = id /\ m.sender \in Node
      BY <1>2, <2>1, <2>6, Zenon DEF HandleAccepted, HandleCommit, Matches, Message
    <3>2. accept_count'[s] = accept_count[s] + 1
      BY <1>2, <2>1, <2>6, Zenon DEF HandleAccepted, HandleCommit, SlotType
    <3>3. m.sender \notin H
      BY <3>1, Zenon DEF Heard, InFlight
    <3>4. <<m.sender, id>> \in accepts'
      BY <1>1, <3>1, AcceptsStep, Zenon DEF AcceptInv
    <3>5. ASSUME NEW k, k \in msgs', k.phase = "ACCEPTED", k.id = id, k.sender = m.sender
          PROVE  FALSE
      <4>1. k \in msgs /\ k # m
        <5>1. CASE HandleAccepted(s, m)
          BY <3>5, <5>1, Zenon DEF HandleAccepted, Receive
        <5>2. CASE HandleCommit(m.dest, s, m)
          <6>1. PICK e, q, v : msgs' = (msgs \ {m}) \cup Broadcast(m.dest, "LEARN", e, q, e, v)
            BY <5>2, Zenon DEF HandleCommit, Receive
          <6>2. \A x \in Broadcast(m.dest, "LEARN", e, q, e, v) : x.phase = "LEARN"
            BY DEF Broadcast
          <6>3. k \in msgs \ {m} \/ k \in Broadcast(m.dest, "LEARN", e, q, e, v)
            BY <3>5, <6>1, Zenon
          <6> QED
            BY <3>5, <6>2, <6>3, Zenon
        <5> QED
          BY <2>6, <5>1, <5>2, Zenon
      <4> QED
        BY <1>1, <3>1, <3>5, <4>1, Zenon DEF AcceptInv
    <3>6. m.sender \in K \ H
      BY <3>1, <3>3, <3>4, <3>5, Zenon DEF Heard, Acceptors, InFlight
    <3> HIDE DEF s, H, K
    <3> QED
      BY <1>6, <2>1, <3>2, <3>6
  <2> HIDE DEF s, H, K
  <2>7. \/ accept_count'[s] = accept_count[s]
        \/ \E d \in Caller : SendAccept(d) /\ Own(d) = s
        \/ \E m \in msgs : HandleAccepted(s, m) \/ HandleCommit(m.dest, s, m)
    <3>1. s \in Slot /\ TypeOK
      BY <1>1, <2>1, Zenon
    <3> QED
      BY <2>2, <2>4, <3>1, SlotStep, Zenon
  <2>8. ASSUME accept_count'[s] = accept_count[s]
        PROVE  accept_count'[s] <= Cardinality(K)
    BY <1>6, <2>1, <2>8
  <2>9. accept_count'[s] <= Cardinality(K)
    BY <2>5, <2>6, <2>7, <2>8, Zenon
  <2> QED
    BY <1>4, <2>1, <2>9, Zenon
<1> QED
  BY <1>3, <1>7, <1>8, Zenon

\* A chosen id stays chosen.
LEMMA ChosenKept ==
    ASSUME Counting, IInv, Next, NEW id, Chosen(id)
    PROVE  Chosen(id)'
<1>1. Acceptors(id) \subseteq Acceptors(id)' /\ Acceptors(id)' \subseteq Node
  BY HeardStep, Zenon DEF Acceptors
<1>2. /\ Cardinality(Acceptors(id)) \in Nat /\ Cardinality(Acceptors(id)') \in Nat
      /\ Cardinality(Acceptors(id)) <= Cardinality(Acceptors(id)')
  BY <1>1, Zenon DEF Counting
<1>3. QuorumSize \in Nat
  BY DEF Counting, QuorumSize
<1> QED
  BY <1>2, <1>3, DecidedKept DEF Chosen, QuorumSize

\* The ACCEPTED that completes the quorum makes its id a chosen one: the
\* owner of the slot is still waiting, and each ACCEPTED counted came from
\* another acceptor.
LEMMA CommitChooses ==
    ASSUME Counting, IInv, Next, NEW m \in msgs, NEW s \in SlotsOf(m.dest),
           HandleCommit(m.dest, s, m)
    PROVE  Chosen(m.id)'
<1>1. TypeOK /\ SlotInv /\ PhaseInv
  BY Zenon DEF IInv
<1>2. SlotType /\ msgs \subseteq Message
  BY <1>1, Zenon DEF TypeOK
<1>0. PICK id : id = m.id
  BY Zenon
<1>3. s \in Slot /\ in_use[s] /\ proposal_id[s] = id /\ m.phase = "ACCEPTED"
  BY <1>0, Zenon DEF HandleCommit, Matches, SlotsOf
<1>4. PICK c \in Caller : Holding(c) /\ Own(c) = s
  BY <1>1, <1>3, Zenon DEF SlotInv
<1>5. my_id[c] = id /\ pc[c] = "commit"
  <2>1. my_id[c] = id
    BY <1>1, <1>3, <1>4, Zenon DEF SlotInv
  <2>2. ~ Early(c)
    BY <1>0, <1>1, <1>3, <2>1, Zenon DEF PhaseInv
  <2> QED
    BY <1>4, <2>1, <2>2, Zenon DEF Early, Holding
<1>6. UNCHANGED <<pc, my_id, my_slot>>
  BY Zenon DEF HandleCommit, localVars
<1>7. committed'[s] /\ accept_count'[s] = accept_count[s] + 1
  BY <1>2, <1>3, Zenon DEF HandleCommit, SlotType
<1>8. Decided(id)'
  BY <1>4, <1>5, <1>6, <1>7, Zenon DEF Decided, Own
<1>9. Cardinality(Acceptors(id)') >= QuorumSize
  <2>1. QuorumSize \in Nat
    BY DEF Counting, QuorumSize
  <2>2. accept_count'[s] \in Nat /\ accept_count'[s] >= QuorumSize
    <3>1. paxos_check_quorum(accept_count[s] + 1)
      BY Zenon DEF HandleCommit
    <3>2. accept_count[s] \in Nat
      BY <1>2, <1>3, Zenon DEF SlotType
    <3> QED
      BY <1>7, <2>1, <3>1, <3>2 DEF paxos_check_quorum
  <2>3. accept_count'[s] <= Cardinality(Heard(id)')
    <3>1. CountInv'
      BY CountInvStep, Zenon
    <3>2. Holding(c)' /\ Own(c)' = s /\ my_id'[c] = id
      BY <1>4, <1>5, <1>6, Zenon DEF Holding, Own
    <3> QED
      BY <3>1, <3>2, Zenon DEF CountInv, Heard, Acceptors, InFlight
  <2>4. /\ Cardinality(Heard(id)') \in Nat /\ Cardinality(Acceptors(id)') \in Nat
        /\ Cardinality(Heard(id)') <= Cardinality(Acceptors(id)')
    <3>1. Heard(id)' \subseteq Acceptors(id)' /\ Acceptors(id)' \subseteq Node
      BY Zenon DEF Heard, Acceptors
    <3> QED
      BY <3>1, Zenon DEF Counting
  <2> QED
    BY <2>1, <2>2, <2>3, <2>4
<1>10. Chosen(id)'
  BY <1>8, <1>9, Zenon DEF Chosen, QuorumSize
<1> QED
  BY <1>0, <1>10, Zenon

\* Only chosen ids are applied and announced.
LEMMA ChosenInvStep ==
    ASSUME Counting, IInv, Next
    PROVE  ChosenInv'
<1>1. TypeOK /\ ChosenInv
  BY Zenon DEF IInv
<1>2. ASSUME NEW n \in Node, NEW e, e \in AppliedEntries(n)'
      PROVE  Chosen(e.id)'
  <2>1. CASE e \in AppliedEntries(n)
    BY <1>1, <2>1, ChosenKept, Zenon DEF ChosenInv
  <2>2. ASSUME NEW m \in msgs, NEW s \in SlotsOf(m.dest), HandleCommit(m.dest, s, m),
               e.id = m.id
        PROVE  Chosen(e.id)'
    <3>1. Chosen(m.id)'
      BY <2>2, CommitChooses, Zenon
    <3> QED
      BY <2>2, <3>1, Zenon
  <2>3. ASSUME NEW m \in msgs, HandleLearn(m.dest, m), e.id = m.id
        PROVE  Chosen(e.id)'
    <3>1. Chosen(m.id)
      BY <1>1, <2>3, Zenon DEF HandleLearn, ChosenInv
    <3> QED
      BY <2>3, <3>1, ChosenKept, Zenon
  <2> QED
    BY <1>1, <1>2, <2>1, <2>2, <2>3, AppliedStep, Zenon
<1>3. ASSUME NEW k, k \in msgs', k.phase = "LEARN"
      PROVE  Chosen(k.id)'
  <2>1. CASE k \in msgs
    BY <1>1, <1>3, <2>1, ChosenKept, Zenon DEF ChosenInv
  <2>2. CASE k \notin msgs
    <3>1. PICK m \in msgs : \E s \in SlotsOf(m.dest) :
             HandleCommit(m.dest, s, m) /\ k.id = m.id
      BY <1>1, <1>3, <2>2, MsgsStep, Zenon
    <3>2. Chosen(m.id)'
      BY <3>1, CommitChooses, Zenon
    <3> QED
      BY <3>1, <3>2, Zenon
  <2> QED
    BY <2>1, <2>2, Zenon
<1> QED
  BY <1>2, <1>3, Zenon DEF ChosenInv

\* Every step keeps the invariant.
LEMMA StepIInv ==
    ASSUME Counting, IInv, [Next]_vars
    PROVE  IInv'
<1>1. CASE UNCHANGED vars
  BY <1>1, StutterIInv, Zenon
<1>2. CASE Next
  <2>1. TypeOK'
    BY <1>2, TypeInductive, Zenon DEF IInv
  <2> QED
    BY <1>2, <2>1, IssuedStep, CallInvStep, SlotInvStep, PhaseInvStep, AcceptInvStep,
       CountInvStep, ChosenInvStep, LearnInvStep, DoneInvStep, Zenon DEF IInv
<1> QED
  BY <1>1, <1>2, Zenon
=============================================================================
