------------------------------ MODULE PaxosInv ------------------------------
(***************************************************************************)
(* The inductive invariant behind the safety properties of Paxos.          *)
(***************************************************************************)
EXTENDS Paxos

\* id has been issued: its low bits name a node that has seen it.
Issued(id) ==
    /\ Issuer(id) \in Node
    /\ id <= highest_proposal_seen[Issuer(id)]

\* The thread owns a slot.
Holding(c) ==
    pc[c] \in {"promises", "accept", "persist", "persisted", "commit"}

\* The call is under way and has not sent ACCEPT yet.
Early(c) == pc[c] \notin {"idle", "commit"}

\* The commit of id is irrevocable: its caller got 0 or is about to.
Decided(id) ==
    \/ id \in succeeded
    \/ \E c \in Caller :
          pc[c] = "commit" /\ my_id[c] = id /\ committed[Own(c)]

Acceptors(id) == {a \in Node : <<a, id>> \in accepts}

\* Nodes with an ACCEPTED for id on its way.
InFlight(id) ==
    {a \in Node : \E m \in msgs :
        m.phase = "ACCEPTED" /\ m.id = id /\ m.sender = a}
-----------------------------------------------------------------------------
\* Every id in the system was issued by the node it names.
IssuedInv ==
    /\ \A c \in Caller :
          pc[c] # "idle" => Issued(my_id[c]) /\ Issuer(my_id[c]) = c[1]
    /\ \A m \in msgs : Issued(m.id)
    /\ \A a \in accepts : Issued(a[2])
    /\ \A id \in succeeded \cup failed : Issued(id)
    /\ \A n \in Node : \A e \in AppliedEntries(n) : Issued(e.id)

\* Calls under way have ids of their own, which have not returned.
CallInv ==
    /\ \A c, d \in Caller :
          pc[c] # "idle" /\ pc[d] # "idle" /\ my_id[c] = my_id[d] => c = d
    /\ \A c \in Caller : pc[c] # "idle" => my_id[c] \notin succeeded \cup failed
    /\ succeeded \cap failed = {}

\* Slots in use and the threads that own them correspond.
SlotInv ==
    /\ \A c \in Caller : Holding(c) =>
          /\ Own(c) \in Slot
          /\ in_use[Own(c)]
          /\ proposal_id[Own(c)] = my_id[c]
          /\ committed[Own(c)] => pc[c] = "commit" /\ completed[Own(c)]
    /\ \A s \in Slot : in_use[s] => \E c \in Caller : Holding(c) /\ Own(c) = s

\* Nothing of phase 2 exists before the caller sends ACCEPT.
PhaseInv ==
    \A c \in Caller : Early(c) =>
        /\ \A m \in msgs :
              m.phase \in {"ACCEPT", "ACCEPTED", "LEARN"} => m.id # my_id[c]
        /\ \A a \in accepts : a[2] # my_id[c]

\* An acceptor is sent one ACCEPT and sends one ACCEPTED for an id.
AcceptInv ==
    /\ \A m \in msgs : m.phase = "ACCEPT" => <<m.dest, m.id>> \notin accepts
    /\ \A m \in msgs : m.phase = "ACCEPTED" => <<m.sender, m.id>> \in accepts
    /\ \A m, k \in msgs :
          /\ m.phase = "ACCEPT" /\ k.phase = "ACCEPT"
          /\ m.dest = k.dest /\ m.id = k.id
          => m = k
    /\ \A m, k \in msgs :
          /\ m.phase = "ACCEPTED" /\ k.phase = "ACCEPTED"
          /\ m.sender = k.sender /\ m.id = k.id
          => m = k

\* accept_count never exceeds the number of distinct acceptors heard.
CountInv ==
    \A c \in Caller : Holding(c) =>
        accept_count[Own(c)] <=
            Cardinality(Acceptors(my_id[c]) \ InFlight(my_id[c]))

\* id is decided and has its quorum.
Chosen(id) == Decided(id) /\ Cardinality(Acceptors(id)) >= QuorumSize

\* What is applied or announced is chosen.
ChosenInv ==
    /\ \A n \in Node : \A e \in AppliedEntries(n) : Chosen(e.id)
    /\ \A m \in msgs : m.phase = "LEARN" => Chosen(m.id)

\* An id that is announced to a node is announced once, and is news to it.
LearnInv ==
    /\ AppliedOnce
    /\ \A m \in msgs : m.phase = "LEARN" =>
          \A e \in AppliedEntries(m.dest) : e.id # m.id
    /\ \A m, k \in msgs :
          /\ m.phase = "LEARN" /\ k.phase = "LEARN"
          /\ m.dest = k.dest /\ m.id = k.id
          => m = k

\* The proposer applies what it decides.
DoneInv ==
    /\ SuccessApplied
    /\ \A c \in Caller : pc[c] = "commit" /\ committed[Own(c)] =>
          \E e \in AppliedEntries(c[1]) : e.id = my_id[c]

\* The inductive invariant.
IInv ==
    /\ TypeOK
    /\ IssuedInv
    /\ CallInv
    /\ SlotInv
    /\ PhaseInv
    /\ AcceptInv
    /\ CountInv
    /\ ChosenInv
    /\ LearnInv
    /\ DoneInv
=============================================================================
