------------------------------ MODULE PaxosLog ------------------------------
(***************************************************************************)
(* Paxos implements CommitLog: the refinement mapping, and the invariant   *)
(* about numbers and values that this needs beyond IInv.                   *)
(***************************************************************************)
EXTENDS PaxosInv

\* Calls that have drawn their sequence number.
Numbered == {c \in Caller : pc[c] \notin {"idle", "sequence"}}

CallEntry(c) == [id |-> my_id[c], seq |-> my_seq[c], value |-> my_value[c]]

\* The entries of calls that have not returned.
Pending == {CallEntry(c) : c \in Numbered}

Log == INSTANCE CommitLog WITH pending <- Pending

\* The callers of paxos_propose may rely on CommitLog: however messages are
\* lost, delayed and reordered and whichever log write fails, each step of the
\* code is one of its steps, or none of the callers' concern.
ImplementsLog == Log!Spec
-----------------------------------------------------------------------------
\* Entries that calls carry or nodes have applied.
Known == Pending \cup UNION {AppliedEntries(n) : n \in Node}

\* The numbers of an issuer are below its counter, and no two of its entries
\* share an id or a number.
NumberInv ==
    /\ \A e \in Known : e.seq < next_sequence_number[Issuer(e.id)]
    /\ \A e, f \in Known :
          /\ e.id = f.id => e = f
          /\ Issuer(e.id) = Issuer(f.id) /\ e.seq = f.seq => e = f

\* A slot and the messages of phase 2 carry the entry of the call.
CarryInv ==
    /\ \A c \in Caller : pc[c] # "idle" => my_value[c] \in Value
    /\ \A c \in Caller : Holding(c) =>
          /\ proposed_value[Own(c)] = my_value[c]
          /\ sequence_number[Own(c)] = my_seq[c]
    /\ \A c \in Caller : \A m \in msgs :
          /\ pc[c] = "commit" /\ m.id = my_id[c]
          /\ m.phase \in {"ACCEPT", "ACCEPTED"}
          => m.seq = my_seq[c]
    /\ \A m \in msgs : m.phase = "LEARN" =>
          /\ EntryOf(m) \in AppliedEntries(Issuer(m.id))
          /\ m.dest # Issuer(m.id)

\* highest_sequence_committed bounds what a node has applied.
HighestInv ==
    \A n \in Node : \A e \in AppliedEntries(n) :
        e.seq <= highest_sequence_committed[n]

\* What paxos_propose draws, the slot holds and the messages carry belongs together,
\* on every node.
LogInv == NumberInv /\ CarryInv /\ HighestInv
-----------------------------------------------------------------------------
(***************************************************************************)
(* One call of paxos_propose at a time in the whole cluster, which is what *)
(* g_coordinator_lock makes of clients that use one frontend.  Ids and     *)
(* numbers are then drawn in one order.                                    *)
(***************************************************************************)
OneCaller == \A c, d \in Proposers \X Thread : c = d

\* Only proposers call paxos_propose.
ActiveInv == \A c \in Caller : pc[c] # "idle" => c \in Proposers \X Thread

\* The number of a call is above those in every log and in every message that
\* can raise them, but for what comes of the call itself.
FreshInv ==
    /\ \A c \in Proposers \X Thread :
          /\ \A n \in Node : highest_sequence_persisted[n] < next_sequence_number[c[1]]
          /\ \A m \in msgs : m.phase \in {"ACCEPT", "LEARN"} =>
                m.seq < next_sequence_number[c[1]]
    /\ \A c \in Numbered : \A m \in msgs :
          m.phase \in {"ACCEPT", "LEARN"} /\ m.id # my_id[c] => m.seq < my_seq[c]
    /\ \A c \in Numbered : \A n \in Node :
          highest_sequence_persisted[n] >= my_seq[c] =>
             /\ pc[c] = "commit"
             /\ <<n, my_id[c]>> \in accepts \/ committed[Own(c)]

\* Until the commit, whoever has accepted the operation of a call has stored it.
StoredInv ==
    \A c \in Caller :
        /\ pc[c] = "persisted" => CallEntry(c) \in wal[c[1]]
        /\ pc[c] = "commit" =>
              /\ \A m \in msgs : m.phase = "ACCEPT" /\ m.id = my_id[c] =>
                    m.value = my_value[c]
              /\ ~ committed[Own(c)] =>
                    \A a \in Acceptors(my_id[c]) : CallEntry(c) \in wal[a]

\* The inductive invariant behind CommittedDurable, with one call at a time: the
\* test of highest_sequence_persisted by which an acceptor skips persist_callback
\* never skips an operation that may still be committed.
DurableInv == ActiveInv /\ FreshInv /\ StoredInv /\ CommittedDurable
=============================================================================
