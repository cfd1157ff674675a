----------------------------- MODULE CommitLog -----------------------------
(***************************************************************************)
(* What paxos_propose promises its callers, whatever the messages do: an   *)
(* operation gets a number, is applied once by the node that issued it or  *)
(* by nobody, and other nodes learn what its issuer applied, each in       *)
(* growing order of the numbers and possibly with holes.  The caller is    *)
(* told 0 when its own node has applied the operation and -1 when no node  *)
(* has or ever will.                                                       *)
(*                                                                         *)
(* There is no promise that all nodes apply the same: two issuers use the  *)
(* same numbers.  Paxos implements this specification; Frontend is built   *)
(* on it.                                                                  *)
(***************************************************************************)
EXTENDS Naturals, Sequences

CONSTANTS
    Node,
    Value

VARIABLES
    pending,    \* entries whose paxos_propose has not returned
    applied,    \* per node: the entries it applied, in order
    succeeded,  \* ids whose call returned 0
    failed      \* ids whose call returned -1

vars == <<pending, applied, succeeded, failed>>

Entry == [id : Nat, seq : Nat, value : Value]

\* The node that issued an id is in its low 16 bits.
Issuer(id) == id % 65536

AppliedBy(n) == {applied[n][i] : i \in 1 .. Len(applied[n])}

AppliedAnywhere(id) == \E n \in Node : \E e \in AppliedBy(n) : e.id = id

Init ==
    /\ pending = {}
    /\ applied = [n \in Node |-> <<>>]
    /\ succeeded = {}
    /\ failed = {}
-----------------------------------------------------------------------------
\* The id is new, and so is the number among those of the issuer.
Propose ==
    \E e \in pending' \ pending :
        /\ e \in Entry
        /\ Issuer(e.id) \in Node
        /\ e.id \notin succeeded \cup failed
        /\ ~ AppliedAnywhere(e.id)
        /\ \A f \in pending : f.id # e.id
        /\ \A f \in pending \cup UNION {AppliedBy(n) : n \in Node} :
              Issuer(f.id) = Issuer(e.id) => f.seq # e.seq
        /\ pending' = pending \cup {e}
        /\ UNCHANGED <<applied, succeeded, failed>>

ApplyAt(n, e) == applied' = [applied EXCEPT ![n] = Append(@, e)]

Commit(e) ==
    /\ ~ AppliedAnywhere(e.id)
    /\ ApplyAt(Issuer(e.id), e)
    /\ UNCHANGED <<pending, succeeded, failed>>

\* Only what its issuer has applied, and only above everything that n has.
Learn(n, e) ==
    /\ Issuer(e.id) # n
    /\ \A f \in AppliedBy(n) : f.seq < e.seq
    /\ ApplyAt(n, e)
    /\ UNCHANGED <<pending, succeeded, failed>>

ReturnSuccess(e) ==
    /\ e \in AppliedBy(Issuer(e.id))
    /\ pending' = pending \ {e}
    /\ succeeded' = succeeded \cup {e.id}
    /\ UNCHANGED <<applied, failed>>

ReturnFailure(e) ==
    /\ ~ AppliedAnywhere(e.id)
    /\ pending' = pending \ {e}
    /\ failed' = failed \cup {e.id}
    /\ UNCHANGED <<applied, succeeded>>

Next ==
    \/ Propose
    \/ \E e \in pending : Commit(e) \/ ReturnSuccess(e) \/ ReturnFailure(e)
    \/ \E p, n \in Node : \E e \in AppliedBy(p) : p = Issuer(e.id) /\ Learn(n, e)

Spec == Init /\ [][Next]_vars
=============================================================================
