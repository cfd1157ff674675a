------------------------------- MODULE Paxos -------------------------------
(***************************************************************************)
(* The replication protocol of distributed_core/src/paxos.c: a cluster of  *)
(* metadata nodes, each with the proposer threads that run paxos_propose   *)
(* and the event-loop thread that runs paxos_handle_message.               *)
(*                                                                         *)
(* A handler holds state_lock from its first to its last line, so it is    *)
(* one step.  paxos_propose takes and drops the locks several times, and   *)
(* each critical section is a step of its own: pc names the section the    *)
(* thread enters next.  Messages are addressed, are received at most once  *)
(* (they travel over TCP) and in any order (a reconnect loses the order of *)
(* a pair); one that is never received is a lost one.                      *)
(*                                                                         *)
(* The nodes do not crash here.  A definition with an underscored suffix,  *)
(* such as Matches_AnyId, is a broken variant of the one it precedes: it   *)
(* is used nowhere, and some property fails if it takes the other's place. *)
(***************************************************************************)
EXTENDS Integers, FiniteSets, Sequences

CONSTANTS
    Node,         \* node ids of the cluster (paxos_node_t.node_id)
    Proposers,    \* the nodes whose clients submit operations
    Thread,       \* threads that may be inside paxos_propose on one node
    MaxProposals, \* max_proposals: size of the slot pool of a node
    Value,        \* serialized metadata operations
    NULL,         \* the NULL value pointer
    MaxCalls      \* bound: calls of paxos_propose in a behaviour

ASSUME NodeAssumption ==
    /\ Node \subseteq Nat /\ IsFiniteSet(Node)
    /\ \A n \in Node : n < 65536
    /\ Proposers \subseteq Node

ASSUME PoolAssumption == MaxProposals \in Nat

ASSUME ValueAssumption == NULL \notin Value

VARIABLES
    highest_proposal_seen,      \* per node: the highest id seen or issued
    last_accepted_proposal,     \* per node: reported in PROMISE
    next_sequence_number,       \* per node: the LOCAL log sequence counter
    highest_sequence_persisted, \* per node
    highest_sequence_committed, \* per node
    (* active_proposals, a field of paxos_proposal_t each: *)
    in_use,
    completed,
    committed,
    proposal_id,
    sequence_number,
    proposed_value,
    promise_count,
    accept_count,
    (* the locals of paxos_propose, per thread: *)
    pc,                         \* the critical section it enters next
    my_id,
    my_seq,
    my_slot,                    \* index of the slot looked at or owned
    my_value,
    msgs,                       \* messages sent and not yet received
    wal,                        \* per node: entries persist_callback stored
    applied,                    \* per node: entries in the order applied
    accepts,                    \* history: <<node, id>> counted as an accept
    succeeded,                  \* history: ids whose paxos_propose returned 0
    failed                      \* history: ids whose paxos_propose returned -1

acceptorVars == <<highest_proposal_seen, last_accepted_proposal>>
seqVars == <<highest_sequence_persisted, highest_sequence_committed>>
slotVars == <<in_use, completed, committed, proposal_id, sequence_number,
              proposed_value, promise_count, accept_count>>
localVars == <<my_id, my_seq, my_slot, my_value>>
logVars == <<wal, applied, accepts>>
resultVars == <<succeeded, failed>>
vars == <<acceptorVars, seqVars, next_sequence_number, slotVars, pc, localVars,
          msgs, logVars, resultVars>>
-----------------------------------------------------------------------------
\* A slot <<n, i>> of node n, a thread <<n, t>> of node n.
Slot == Node \X (1 .. MaxProposals)
Caller == Node \X Thread

PC == {"idle", "sequence", "scan", "promises", "accept", "persist",
       "persisted", "commit"}

Phase == {"PREPARE", "PROMISE", "ACCEPT", "ACCEPTED", "LEARN"}

MaybeValue == Value \cup {NULL}

Entry == [id : Nat, seq : Nat, value : MaybeValue]

Message ==
    [phase : Phase, id : Nat, seq : Nat, sender : Node, dest : Node,
     accepted_id : Nat, value : MaybeValue]

NodeType ==
    /\ highest_proposal_seen \in [Node -> Nat]
    /\ last_accepted_proposal \in [Node -> Nat]
    /\ next_sequence_number \in [Node -> Nat]
    /\ highest_sequence_persisted \in [Node -> Nat]
    /\ highest_sequence_committed \in [Node -> Nat]

SlotType ==
    /\ in_use \in [Slot -> BOOLEAN]
    /\ completed \in [Slot -> BOOLEAN]
    /\ committed \in [Slot -> BOOLEAN]
    /\ proposal_id \in [Slot -> Nat]
    /\ sequence_number \in [Slot -> Nat]
    /\ proposed_value \in [Slot -> MaybeValue]
    /\ promise_count \in [Slot -> Nat]
    /\ accept_count \in [Slot -> Nat]

CallType ==
    /\ pc \in [Caller -> PC]
    /\ my_id \in [Caller -> Nat]
    /\ my_seq \in [Caller -> Nat]
    /\ my_slot \in [Caller -> Nat]
    /\ my_value \in [Caller -> MaybeValue]

LogType ==
    /\ wal \in [Node -> SUBSET Entry]
    /\ applied \in [Node -> Seq(Entry)]
    /\ accepts \subseteq Node \X Nat
    /\ succeeded \subseteq Nat
    /\ failed \subseteq Nat

\* The type invariant.
TypeOK == NodeType /\ SlotType /\ CallType /\ msgs \subseteq Message /\ LogType

Init ==
    /\ highest_proposal_seen = [n \in Node |-> 0]
    /\ last_accepted_proposal = [n \in Node |-> 0]
    /\ next_sequence_number = [n \in Node |-> 1]
    /\ highest_sequence_persisted = [n \in Node |-> 0]
    /\ highest_sequence_committed = [n \in Node |-> 0]
    /\ in_use = [s \in Slot |-> FALSE]
    /\ completed = [s \in Slot |-> FALSE]
    /\ committed = [s \in Slot |-> FALSE]
    /\ proposal_id = [s \in Slot |-> 0]
    /\ sequence_number = [s \in Slot |-> 0]
    /\ proposed_value = [s \in Slot |-> NULL]
    /\ promise_count = [s \in Slot |-> 0]
    /\ accept_count = [s \in Slot |-> 0]
    /\ pc = [c \in Caller |-> "idle"]
    /\ my_id = [c \in Caller |-> 0]
    /\ my_seq = [c \in Caller |-> 0]
    /\ my_slot = [c \in Caller |-> 0]
    /\ my_value = [c \in Caller |-> NULL]
    /\ msgs = {}
    /\ wal = [n \in Node |-> {}]
    /\ applied = [n \in Node |-> <<>>]
    /\ accepts = {}
    /\ succeeded = {}
    /\ failed = {}
-----------------------------------------------------------------------------
MaxOf(a, b) == IF a > b THEN a ELSE b

\* node->quorum_size
QuorumSize == Cardinality(Node) \div 2 + 1

paxos_check_quorum(count) == count >= QuorumSize

Ballot(id) == id \div 65536

\* Id issued after h: (ballot << 16) | (node_id & 0xFFFF).
ProposalId(n, h) == (Ballot(h) + 1) * 65536 + (n % 65536)

\* broadcast_callback: one copy to every peer, none to the node itself.
Broadcast(n, phase, id, seq, acc, v) ==
    {[phase |-> phase, id |-> id, seq |-> seq, sender |-> n, dest |-> p,
      accepted_id |-> acc, value |-> v] : p \in Node \ {n}}

\* The response handle_network_message sends back to the sender of m.
Reply(n, m, phase, acc) ==
    [phase |-> phase, id |-> m.id, seq |-> m.seq, sender |-> n,
     dest |-> m.sender, accepted_id |-> acc, value |-> NULL]
-----------------------------------------------------------------------------
(***************************************************************************)
(* paxos_propose, run by thread c of node c[1]                             *)
(***************************************************************************)
Goto(c, l) == pc' = [pc EXCEPT ![c] = l]

\* The slot thread c looks at, or owns.
Own(c) == <<c[1], my_slot[c]>>

\* The id is released as if it were a pointer.
Release_NullId(s) ==
    /\ in_use' = [in_use EXCEPT ![s] = FALSE]
    /\ completed' = [completed EXCEPT ![s] = FALSE]
    /\ committed' = [committed EXCEPT ![s] = FALSE]
    /\ proposal_id' = [proposal_id EXCEPT ![s] = NULL]
    /\ sequence_number' = [sequence_number EXCEPT ![s] = 0]
    /\ proposed_value' = [proposed_value EXCEPT ![s] = NULL]
    /\ promise_count' = [promise_count EXCEPT ![s] = 0]
    /\ accept_count' = [accept_count EXCEPT ![s] = 0]

\* paxos_release_proposal_slot
Release(s) ==
    /\ in_use' = [in_use EXCEPT ![s] = FALSE]
    /\ completed' = [completed EXCEPT ![s] = FALSE]
    /\ committed' = [committed EXCEPT ![s] = FALSE]
    /\ proposal_id' = [proposal_id EXCEPT ![s] = 0]
    /\ sequence_number' = [sequence_number EXCEPT ![s] = 0]
    /\ proposed_value' = [proposed_value EXCEPT ![s] = NULL]
    /\ promise_count' = [promise_count EXCEPT ![s] = 0]
    /\ accept_count' = [accept_count EXCEPT ![s] = 0]

\* The locals die with the call.
Return(c) ==
    /\ Goto(c, "idle")
    /\ my_id' = [my_id EXCEPT ![c] = 0]
    /\ my_seq' = [my_seq EXCEPT ![c] = 0]
    /\ my_slot' = [my_slot EXCEPT ![c] = 0]
    /\ my_value' = [my_value EXCEPT ![c] = NULL]

\* Release the slot under its lock and return -1.
ReleaseAndFail(c) ==
    /\ Release(Own(c))
    /\ Return(c)
    /\ failed' = failed \cup {my_id[c]}
    /\ UNCHANGED <<acceptorVars, seqVars, next_sequence_number, msgs, logVars,
                   succeeded>>

\* Calls of paxos_propose so far: returned or under way.
Calls == Cardinality(succeeded) + Cardinality(failed) +
         Cardinality({c \in Caller : pc[c] # "idle"})

\* A client calls paxos_propose, which draws a proposal id.
NextProposalId(c, v) ==
    LET id == ProposalId(c[1], highest_proposal_seen[c[1]]) IN
    /\ pc[c] = "idle"
    /\ Calls < MaxCalls
    /\ highest_proposal_seen' = [highest_proposal_seen EXCEPT ![c[1]] = id]
    /\ my_id' = [my_id EXCEPT ![c] = id]
    /\ my_value' = [my_value EXCEPT ![c] = v]
    /\ Goto(c, "sequence")
    /\ UNCHANGED <<last_accepted_proposal, seqVars, next_sequence_number,
                   slotVars, my_seq, my_slot, msgs, logVars, resultVars>>

\* The counter is read and not raised.
NextSequence_NoIncrement(c) ==
    /\ pc[c] = "sequence"
    /\ my_seq' = [my_seq EXCEPT ![c] = next_sequence_number[c[1]]]
    /\ my_slot' = [my_slot EXCEPT ![c] = 1]
    /\ Goto(c, "scan")
    /\ UNCHANGED <<acceptorVars, seqVars, next_sequence_number, slotVars, my_id,
                   my_value, msgs, logVars, resultVars>>

\* sequence = next_sequence_number++, in a critical section of its own.
NextSequence(c) ==
    /\ pc[c] = "sequence"
    /\ my_seq' = [my_seq EXCEPT ![c] = next_sequence_number[c[1]]]
    /\ my_slot' = [my_slot EXCEPT ![c] = 1]
    /\ next_sequence_number' = [next_sequence_number EXCEPT ![c[1]] = @ + 1]
    /\ Goto(c, "scan")
    /\ UNCHANGED <<acceptorVars, seqVars, slotVars, my_id, my_value, msgs,
                   logVars, resultVars>>

\* The search for a free slot looks at one slot under that slot's lock.
ScanBusySlot(c) ==
    /\ pc[c] = "scan"
    /\ Own(c) \in Slot
    /\ in_use[Own(c)]
    /\ my_slot' = [my_slot EXCEPT ![c] = @ + 1]
    /\ UNCHANGED <<acceptorVars, seqVars, next_sequence_number, slotVars, pc,
                   my_id, my_seq, my_value, msgs, logVars, resultVars>>

\* "No free proposal slots"
NoFreeSlot(c) ==
    /\ pc[c] = "scan"
    /\ Own(c) \notin Slot
    /\ Return(c)
    /\ failed' = failed \cup {my_id[c]}
    /\ UNCHANGED <<acceptorVars, seqVars, next_sequence_number, slotVars, msgs,
                   logVars, succeeded>>

\* The slot is taken whether it is free or not.
TakeSlot_InUse(c) ==
    LET s == Own(c) IN
    /\ pc[c] = "scan"
    /\ s \in Slot
    /\ in_use' = [in_use EXCEPT ![s] = TRUE]
    /\ completed' = [completed EXCEPT ![s] = FALSE]
    /\ committed' = [committed EXCEPT ![s] = FALSE]
    /\ proposal_id' = [proposal_id EXCEPT ![s] = my_id[c]]
    /\ sequence_number' = [sequence_number EXCEPT ![s] = my_seq[c]]
    /\ proposed_value' = [proposed_value EXCEPT ![s] = my_value[c]]
    /\ promise_count' = [promise_count EXCEPT ![s] = 1]
    /\ accept_count' = [accept_count EXCEPT ![s] = 0]
    /\ msgs' = msgs \cup Broadcast(c[1], "PREPARE", my_id[c], my_seq[c], 0, NULL)
    /\ Goto(c, "promises")
    /\ UNCHANGED <<acceptorVars, seqVars, next_sequence_number, localVars,
                   logVars, resultVars>>

\* The free slot is filled, then PREPARE is broadcast.  A broadcast_callback
\* that fails (it does so before the first copy is sent) and the release that
\* follows are a PREPARE nobody receives and PromiseTimeout.
TakeSlot(c) ==
    LET s == Own(c) IN
    /\ pc[c] = "scan"
    /\ s \in Slot
    /\ ~ in_use[s]
    /\ in_use' = [in_use EXCEPT ![s] = TRUE]
    /\ completed' = [completed EXCEPT ![s] = FALSE]
    /\ committed' = [committed EXCEPT ![s] = FALSE]
    /\ proposal_id' = [proposal_id EXCEPT ![s] = my_id[c]]
    /\ sequence_number' = [sequence_number EXCEPT ![s] = my_seq[c]]
    /\ proposed_value' = [proposed_value EXCEPT ![s] = my_value[c]]
    /\ promise_count' = [promise_count EXCEPT ![s] = 1]
    /\ accept_count' = [accept_count EXCEPT ![s] = 0]
    /\ msgs' = msgs \cup Broadcast(c[1], "PREPARE", my_id[c], my_seq[c], 0, NULL)
    /\ Goto(c, "promises")
    /\ UNCHANGED <<acceptorVars, seqVars, next_sequence_number, localVars,
                   logVars, resultVars>>

\* paxos_wait_for_condition(..., false) finds a promise quorum.
PromiseQuorum(c) ==
    /\ pc[c] = "promises"
    /\ paxos_check_quorum(promise_count[Own(c)])
    /\ Goto(c, "accept")
    /\ UNCHANGED <<acceptorVars, seqVars, next_sequence_number, slotVars,
                   localVars, msgs, logVars, resultVars>>

\* The deadline passes; the late look under the slot lock still finds none.
PromiseTimeout(c) ==
    /\ pc[c] = "promises"
    /\ ~ paxos_check_quorum(promise_count[Own(c)])
    /\ ReleaseAndFail(c)

\* The proposer accepts its own proposal, unless it has seen a higher one
\* since: it goes on in both cases.
SelfAccept(c) ==
    /\ pc[c] = "accept"
    /\ IF my_id[c] >= highest_proposal_seen[c[1]]
       THEN /\ highest_proposal_seen' =
                  [highest_proposal_seen EXCEPT ![c[1]] = my_id[c]]
            /\ last_accepted_proposal' =
                  [last_accepted_proposal EXCEPT ![c[1]] = my_id[c]]
       ELSE UNCHANGED acceptorVars
    /\ Goto(c, "persist")
    /\ UNCHANGED <<seqVars, next_sequence_number, slotVars, localVars, msgs,
                   logVars, resultVars>>

\* persist_callback, called without a lock.
SelfPersist(c) ==
    /\ pc[c] = "persist"
    /\ wal' = [wal EXCEPT ![c[1]] = @ \cup
                 {[id |-> my_id[c], seq |-> my_seq[c], value |-> my_value[c]]}]
    /\ Goto(c, "persisted")
    /\ UNCHANGED <<acceptorVars, seqVars, next_sequence_number, slotVars,
                   localVars, msgs, applied, accepts, resultVars>>

SelfPersistFails(c) ==
    /\ pc[c] = "persist"
    /\ ReleaseAndFail(c)

\* highest_sequence_persisted is raised, the proposer counts itself and
\* broadcasts ACCEPT.  A broadcast_callback that fails is an ACCEPT nobody
\* receives and CommitTimeout.
SendAccept(c) ==
    /\ pc[c] = "persisted"
    /\ highest_sequence_persisted' =
          [highest_sequence_persisted EXCEPT ![c[1]] = MaxOf(@, my_seq[c])]
    /\ accept_count' = [accept_count EXCEPT ![Own(c)] = 1]
    /\ accepts' = accepts \cup {<<c[1], my_id[c]>>}
    /\ msgs' = msgs \cup
          Broadcast(c[1], "ACCEPT", my_id[c], my_seq[c], 0, my_value[c])
    /\ Goto(c, "commit")
    /\ UNCHANGED <<acceptorVars, highest_sequence_committed,
                   next_sequence_number, in_use, completed, committed,
                   proposal_id, sequence_number, proposed_value, promise_count,
                   localVars, wal, applied, resultVars>>

\* paxos_wait_for_condition(..., true) sees committed; the slot is released
\* and paxos_propose returns 0.
Committed(c) ==
    /\ pc[c] = "commit"
    /\ committed[Own(c)]
    /\ Release(Own(c))
    /\ Return(c)
    /\ succeeded' = succeeded \cup {my_id[c]}
    /\ UNCHANGED <<acceptorVars, seqVars, next_sequence_number, msgs, logVars,
                   failed>>

\* The call fails and leaves the slot as it is.
CommitTimeout_KeepsSlot(c) ==
    /\ pc[c] = "commit"
    /\ ~ committed[Own(c)]
    /\ Return(c)
    /\ failed' = failed \cup {my_id[c]}
    /\ UNCHANGED <<acceptorVars, seqVars, next_sequence_number, slotVars, msgs,
                   logVars, succeeded>>

CommitTimeout(c) ==
    /\ pc[c] = "commit"
    /\ ~ committed[Own(c)]
    /\ ReleaseAndFail(c)
-----------------------------------------------------------------------------
(***************************************************************************)
(* paxos_handle_message, under state_lock.  A message that a handler acts  *)
(* on is removed from msgs.  One that it ignores changes nothing and is    *)
(* ignored for good (a lower id, a slot gone, a sequence already there),   *)
(* so there is no step for that and the message stays in msgs.             *)
(***************************************************************************)
\* A message may be received again.
Receive_Again(m, replies) == msgs' = msgs \cup replies

Receive(m, replies) == msgs' = (msgs \ {m}) \cup replies

\* PAXOS_PHASE_PREPARE: a lower id gets no answer.
HandlePrepare(n, m) ==
    /\ m.phase = "PREPARE"
    /\ m.id > highest_proposal_seen[n]
    /\ highest_proposal_seen' = [highest_proposal_seen EXCEPT ![n] = m.id]
    /\ Receive(m, {Reply(n, m, "PROMISE", last_accepted_proposal[n])})
    /\ UNCHANGED <<last_accepted_proposal, seqVars, next_sequence_number,
                   slotVars, pc, localVars, logVars, resultVars>>

\* The answer is counted for whatever proposal is in the slot.
Matches_AnyId(s, m) == in_use[s] /\ ~ completed[s]

\* The answer is counted after the proposal is completed.
Matches_Completed(s, m) == proposal_id[s] = m.id /\ in_use[s]

\* The slot a PROMISE or an ACCEPTED is for.
Matches(s, m) == proposal_id[s] = m.id /\ in_use[s] /\ ~ completed[s]

\* PAXOS_PHASE_PROMISE: counted; accepted_id is not looked at.
HandlePromise(s, m) ==
    /\ m.phase = "PROMISE"
    /\ Matches(s, m)
    /\ promise_count' = [promise_count EXCEPT ![s] = @ + 1]
    /\ Receive(m, {})
    /\ UNCHANGED <<acceptorVars, seqVars, next_sequence_number, in_use,
                   completed, committed, proposal_id, sequence_number,
                   proposed_value, accept_count, pc, localVars, logVars,
                   resultVars>>

\* What m asks to be stored or applied.
EntryOf(m) == [id |-> m.id, seq |-> m.seq, value |-> m.value]

\* PAXOS_PHASE_ACCEPT, first lines: the proposal is not below the promise.
Accept(n, m) ==
    /\ m.phase = "ACCEPT"
    /\ m.id >= highest_proposal_seen[n]
    /\ highest_proposal_seen' = [highest_proposal_seen EXCEPT ![n] = m.id]
    /\ last_accepted_proposal' = [last_accepted_proposal EXCEPT ![n] = m.id]
    /\ UNCHANGED <<highest_sequence_committed, next_sequence_number, slotVars,
                   pc, localVars, applied, resultVars>>

\* persist_callback runs only for a sequence above the highest persisted one.
NewSequence(n, m) == m.seq > highest_sequence_persisted[n]

\* Acknowledged without the log.
HandleAccept_NotPersisted(n, m) ==
    /\ Accept(n, m)
    /\ highest_sequence_persisted' =
          [highest_sequence_persisted EXCEPT ![n] = MaxOf(@, m.seq)]
    /\ accepts' = accepts \cup {<<n, m.id>>}
    /\ Receive(m, {Reply(n, m, "ACCEPTED", 0)})
    /\ UNCHANGED wal

\* PAXOS_PHASE_ACCEPT: persisted if need be, and acknowledged.
HandleAccept(n, m) ==
    /\ Accept(n, m)
    /\ wal' = IF NewSequence(n, m)
              THEN [wal EXCEPT ![n] = @ \cup {EntryOf(m)}] ELSE wal
    /\ highest_sequence_persisted' =
          [highest_sequence_persisted EXCEPT ![n] = MaxOf(@, m.seq)]
    /\ accepts' = accepts \cup {<<n, m.id>>}
    /\ Receive(m, {Reply(n, m, "ACCEPTED", 0)})

\* Acknowledged although persist_callback failed.
HandleAcceptFails_Acks(n, m) ==
    /\ Accept(n, m)
    /\ NewSequence(n, m)
    /\ Receive(m, {Reply(n, m, "ACCEPTED", 0)})
    /\ UNCHANGED <<wal, highest_sequence_persisted, accepts>>

\* PAXOS_PHASE_ACCEPT: persist_callback fails, there is no answer.
HandleAcceptFails(n, m) ==
    /\ Accept(n, m)
    /\ NewSequence(n, m)
    /\ Receive(m, {})
    /\ UNCHANGED <<wal, highest_sequence_persisted, accepts>>

\* PAXOS_PHASE_ACCEPTED short of a quorum: counted.
HandleAccepted(s, m) ==
    /\ m.phase = "ACCEPTED"
    /\ Matches(s, m)
    /\ ~ paxos_check_quorum(accept_count[s] + 1)
    /\ accept_count' = [accept_count EXCEPT ![s] = @ + 1]
    /\ Receive(m, {})
    /\ UNCHANGED <<acceptorVars, seqVars, next_sequence_number, in_use,
                   completed, committed, proposal_id, sequence_number,
                   proposed_value, promise_count, pc, localVars, logVars,
                   resultVars>>

\* Committed and broadcast, but not applied by the proposer itself.
HandleCommit_NotApplied(n, s, m) ==
    /\ m.phase = "ACCEPTED"
    /\ Matches(s, m)
    /\ paxos_check_quorum(accept_count[s] + 1)
    /\ accept_count' = [accept_count EXCEPT ![s] = @ + 1]
    /\ committed' = [committed EXCEPT ![s] = TRUE]
    /\ completed' = [completed EXCEPT ![s] = TRUE]
    /\ highest_sequence_committed' =
          [highest_sequence_committed EXCEPT ![n] = MaxOf(@, m.seq)]
    /\ Receive(m, Broadcast(n, "LEARN", proposal_id[s], sequence_number[s],
                            proposal_id[s], proposed_value[s]))
    /\ UNCHANGED <<acceptorVars, highest_sequence_persisted,
                   next_sequence_number, in_use, proposal_id, sequence_number,
                   proposed_value, promise_count, pc, localVars, logVars,
                   resultVars>>

\* PAXOS_PHASE_ACCEPTED that completes the quorum: the value is committed,
\* applied and broadcast in LEARN under the slot lock.
HandleCommit(n, s, m) ==
    /\ m.phase = "ACCEPTED"
    /\ Matches(s, m)
    /\ paxos_check_quorum(accept_count[s] + 1)
    /\ accept_count' = [accept_count EXCEPT ![s] = @ + 1]
    /\ committed' = [committed EXCEPT ![s] = TRUE]
    /\ completed' = [completed EXCEPT ![s] = TRUE]
    /\ highest_sequence_committed' =
          [highest_sequence_committed EXCEPT ![n] = MaxOf(@, m.seq)]
    /\ applied' = [applied EXCEPT ![n] = Append(@,
          [id |-> m.id, seq |-> m.seq, value |-> proposed_value[s]])]
    /\ Receive(m, Broadcast(n, "LEARN", proposal_id[s], sequence_number[s],
                            proposal_id[s], proposed_value[s]))
    /\ UNCHANGED <<acceptorVars, highest_sequence_persisted,
                   next_sequence_number, in_use, proposal_id, sequence_number,
                   proposed_value, promise_count, pc, localVars, wal, accepts,
                   resultVars>>

\* PAXOS_PHASE_LEARN: only a sequence above the highest committed one; the
\* result of persist_callback is not looked at.
HandleLearn(n, m) ==
    /\ m.phase = "LEARN"
    /\ m.seq > highest_sequence_committed[n]
    /\ \/ /\ NewSequence(n, m)
          /\ wal' \in {wal, [wal EXCEPT ![n] = @ \cup {EntryOf(m)}]}
       \/ /\ ~ NewSequence(n, m)
          /\ wal' = wal
    /\ highest_sequence_persisted' =
          [highest_sequence_persisted EXCEPT ![n] = MaxOf(@, m.seq)]
    /\ applied' = [applied EXCEPT ![n] = Append(@, EntryOf(m))]
    /\ highest_sequence_committed' =
          [highest_sequence_committed EXCEPT ![n] = m.seq]
    /\ Receive(m, {})
    /\ UNCHANGED <<acceptorVars, next_sequence_number, slotVars, pc, localVars,
                   accepts, resultVars>>
-----------------------------------------------------------------------------
\* A step of paxos_propose that is neither a deadline nor a failed log write.
Progress(c) ==
    \/ NextSequence(c)
    \/ ScanBusySlot(c)
    \/ NoFreeSlot(c)
    \/ TakeSlot(c)
    \/ PromiseQuorum(c)
    \/ SelfAccept(c)
    \/ SelfPersist(c)
    \/ SendAccept(c)
    \/ Committed(c)

\* The second wait has no deadline.
Timeout_PromiseOnly(c) == PromiseTimeout(c)

Timeout(c) == PromiseTimeout(c) \/ CommitTimeout(c)

SlotsOf(n) == {s \in Slot : s[1] = n}

HandleMessage(m) ==
    \/ HandlePrepare(m.dest, m)
    \/ \E s \in SlotsOf(m.dest) : HandlePromise(s, m)
    \/ HandleAccept(m.dest, m)
    \/ \E s \in SlotsOf(m.dest) : HandleAccepted(s, m) \/ HandleCommit(m.dest, s, m)
    \/ HandleLearn(m.dest, m)

Next ==
    \/ \E c \in Proposers \X Thread, v \in Value : NextProposalId(c, v)
    \/ \E c \in Caller : Progress(c) \/ Timeout(c) \/ SelfPersistFails(c)
    \/ \E m \in msgs : HandleMessage(m) \/ HandleAcceptFails(m.dest, m)

Spec == Init /\ [][Next]_vars

(***************************************************************************)
(* Fairness: a thread inside paxos_propose keeps running, and the deadline *)
(* of pthread_cond_timedwait passes.  Nothing is assumed of the network.   *)
(***************************************************************************)
Fairness == \A c \in Caller : WF_vars(Progress(c) \/ Timeout(c))

FairSpec == Spec /\ Fairness
-----------------------------------------------------------------------------
(***************************************************************************)
(* Properties                                                              *)
(***************************************************************************)
AppliedEntries(n) == {applied[n][i] : i \in 1 .. Len(applied[n])}

\* The node that issued an id: the low 16 bits.
Issuer(id) == id % 65536

\* Nothing is applied on any node before a majority of the nodes has counted
\* as accepting it: HandleAccepted commits on paxos_check_quorum only, and
\* each ACCEPTED it counts comes from a different node.
CommitHasQuorum ==
    \A n \in Node : \A e \in AppliedEntries(n) :
        Cardinality({a \in Node : <<a, e.id>> \in accepts}) >= QuorumSize

\* An operation whose paxos_propose returned -1 is applied nowhere, then or
\* later: the commit flag and the release of the slot are decided under one
\* lock, so an ACCEPTED that races the timeout either wins or finds no slot.
\* The callers rely on it when they undo their work after a failure.
FailedNeverApplied ==
    \A n \in Node : \A e \in AppliedEntries(n) : e.id \notin failed

\* When paxos_propose returns 0 the caller's own node has applied the
\* operation: the next lookup on that node sees it.
SuccessApplied ==
    \A id \in succeeded : \E e \in AppliedEntries(Issuer(id)) : e.id = id

\* A node never applies the same proposal twice, whether it learns of the
\* commit as its proposer or by LEARN.
AppliedOnce ==
    \A n \in Node : \A i, j \in 1 .. Len(applied[n]) :
        applied[n][i].id = applied[n][j].id => i = j

\* Two nodes that applied the same sequence number of the same proposer
\* applied the same operation.
ProposerAgreement ==
    \A n, p \in Node : \A e \in AppliedEntries(n), f \in AppliedEntries(p) :
        e.seq = f.seq /\ Issuer(e.id) = Issuer(f.id) => e = f

\* What the documentation promises of the log: whoever applied a sequence
\* number applied the same operation.
LogAgreement ==
    \A n, p \in Node : \A e \in AppliedEntries(n), f \in AppliedEntries(p) :
        e.seq = f.seq => e.value = f.value

\* Whatever a node has applied is in the log files of a majority of the nodes.
CommittedDurable ==
    \A n \in Node : \A e \in AppliedEntries(n) :
        Cardinality({p \in Node : e \in wal[p]}) >= QuorumSize

\* Every call of paxos_propose returns.
ProposeReturns ==
    \A c \in Caller : pc[c] # "idle" ~> pc[c] = "idle"
=============================================================================
