--------------------------- MODULE NetworkEngine ---------------------------
(***************************************************************************)
(* The connections of a metadata node, distributed_core/src/               *)
(* network_engine.c: the peers' sockets under peers_lock, the event loop   *)
(* that reads and closes them, and the threads that send.                  *)
(*                                                                         *)
(* Descriptors are numbers that the process gives out again, the lowest    *)
(* first, so that a number outlives the connection it was the name of.     *)
(* What a message says is left out.  A recv is one message for the handler *)
(* whatever else came with it.                                             *)
(***************************************************************************)
EXTENDS Integers, Sequences

CONSTANTS
    Peer,           \* node ids of the peers, in the order they are added
    Thread,         \* threads that propose
    Fd,             \* bound: descriptors that sockets may get
    MAX_PENDING_CONNECTIONS

VARIABLES
    sock,           \* per descriptor: what it is connected to
    broken,         \* descriptors whose other end is gone
    added,          \* peers 1 .. num_peers
    peers,          \* per peer: socket_fd and connected
    inbound_fds,
    peers_lock,     \* the thread that holds it for writing
    sending,        \* per thread: its network_engine_send
    loop,           \* the event loop
    sent            \* history: sends that succeeded, and where they went

vars == <<sock, broken, added, peers, inbound_fds, peers_lock, sending, loop, sent>>

\* A free descriptor, a connection to a peer, an accepted one, and one of another
\* part of the process: gRPC, or storage_interface_connect.
FREE == <<"free">>
To(p) == <<"peer", p>>
CLIENT == <<"client">>
OTHERS == <<"others">>

LOOP == "loop"
NOBODY == "nobody"
Sender == Thread \cup {LOOP}

Down == [fd |-> -1, connected |-> FALSE]
Idle == [pc |-> "idle"]

Init ==
    /\ sock = [f \in Fd |-> FREE] /\ broken = {}
    /\ added = {} /\ peers = [p \in Peer |-> Down]
    /\ inbound_fds = <<>>
    /\ peers_lock = NOBODY
    /\ sending = [t \in Sender |-> Idle]
    /\ loop = [pc |-> "poll"]
    /\ sent = {}
-----------------------------------------------------------------------------
\* socket and connect, or accept: the lowest free descriptor is taken.
Open(f, what) ==
    /\ sock[f] = FREE
    /\ \A g \in Fd : g < f => sock[g] # FREE
    /\ sock' = [sock EXCEPT ![f] = what]

\* close(f), whatever f is by now
Close(f) ==
    /\ sock' = [sock EXCEPT ![f] = FREE]
    /\ broken' = broken \ {f}

\* network_connect_peer, under peers_lock
network_connect_peer(p) ==
    \E f \in Fd :
        /\ Open(f, To(p))
        /\ peers' = [peers EXCEPT ![p] = [fd |-> f, connected |-> TRUE]]

\* The connection may fail; the peer is added all the same.
network_engine_add_peer(p) ==
    /\ peers_lock = NOBODY
    /\ p \notin added /\ \A q \in Peer : q < p => q \in added
    /\ added' = added \cup {p}
    /\ network_connect_peer(p) \/ UNCHANGED <<sock, peers>>
    /\ UNCHANGED <<broken, inbound_fds, peers_lock, sending, loop, sent>>
-----------------------------------------------------------------------------
(***************************************************************************)
(* network_engine_send, by a proposer or, with an answer, by the loop      *)
(***************************************************************************)
\* The lock is taken and the peer connected if it is not.  (If that fails the
\* send is over.)
SendBegin(t, p) ==
    /\ sending[t] = Idle /\ peers_lock = NOBODY
    /\ p \in added
    /\ IF t = LOOP
       THEN loop.pc = "handle" /\ loop' = [loop EXCEPT !.pc = "answered"]
       ELSE UNCHANGED loop
    /\ IF peers[p].connected THEN UNCHANGED <<sock, peers>> ELSE network_connect_peer(p)
    /\ peers_lock' = t
    /\ sending' = [sending EXCEPT ![t] = [pc |-> "send", peer |-> p]]
    /\ UNCHANGED <<broken, added, inbound_fds, sent>>

\* send on the peer's descriptor: taken by whatever has that number.
SendDone(t) ==
    /\ sending[t].pc = "send"
    /\ LET what == sock[peers[sending[t].peer].fd] IN
          /\ what # FREE
          /\ sent' = sent \cup {[to |-> sending[t].peer, via |-> what]}
    /\ peers_lock' = NOBODY
    /\ sending' = [sending EXCEPT ![t] = Idle]
    /\ UNCHANGED <<sock, broken, added, peers, inbound_fds, loop>>

\* The connection is gone, or its buffer is full.  The lock is given back.
SendFails(t) ==
    /\ sending[t].pc = "send"
    /\ peers_lock' = NOBODY
    /\ sending' = [sending EXCEPT ![t].pc = "failed"]
    /\ UNCHANGED <<sock, broken, added, peers, inbound_fds, loop, sent>>

\* The lock is taken again, and the descriptor that the peer has now closed.
SendGivesUp(t) ==
    /\ sending[t].pc = "failed" /\ peers_lock = NOBODY
    /\ LET p == sending[t].peer IN
          /\ IF peers[p].fd = -1 THEN UNCHANGED <<sock, broken>> ELSE Close(peers[p].fd)
          /\ peers' = [peers EXCEPT ![p] = Down]
    /\ sending' = [sending EXCEPT ![t] = Idle]
    /\ UNCHANGED <<added, inbound_fds, peers_lock, loop, sent>>
-----------------------------------------------------------------------------
(***************************************************************************)
(* network_event_loop                                                      *)
(***************************************************************************)
Watched == {peers[p].fd : p \in {q \in added : peers[q].connected}}
           \cup {inbound_fds[i] : i \in DOMAIN inbound_fds}

\* poll: some of the sockets that are open are ready.
LoopPoll ==
    /\ loop.pc = "poll" /\ peers_lock = NOBODY
    /\ \E ready \in SUBSET {f \in Watched : sock[f] # FREE} :
          loop' = [pc |-> "accept", ready |-> ready]
    /\ UNCHANGED <<sock, broken, added, peers, inbound_fds, peers_lock, sending, sent>>

\* poll has returned, and the listening socket is looked at first: it is not ready,
\* accept fails, or a connection too many is closed at once; or a connection is
\* taken, and may get a descriptor that was closed since poll.
LoopAccept ==
    /\ loop.pc = "accept"
    /\ \/ UNCHANGED <<sock, inbound_fds>>
       \/ /\ Len(inbound_fds) < MAX_PENDING_CONNECTIONS
          /\ \E f \in Fd : Open(f, CLIENT) /\ inbound_fds' = Append(inbound_fds, f)
    /\ loop' = [loop EXCEPT !.pc = "scan"]
    /\ UNCHANGED <<broken, added, peers, peers_lock, sending, sent>>

\* recv has data for the handler, which may send an answer, or has none.
LoopRecv ==
    /\ loop.pc = "scan"
    /\ \E f \in loop.ready :
          /\ sock[f] # FREE
          /\ \E pc \in {"handle", "scan"} :
                loop' = [pc |-> pc, ready |-> loop.ready \ {f}]
    /\ UNCHANGED <<sock, broken, added, peers, inbound_fds, peers_lock, sending, sent>>

LoopHandled ==
    /\ loop.pc \in {"handle", "answered"} /\ sending[LOOP] = Idle
    /\ loop' = [loop EXCEPT !.pc = "scan"]
    /\ UNCHANGED <<sock, broken, added, peers, inbound_fds, peers_lock, sending, sent>>

\* recv reports the end of the connection, or an error.
LoopClose ==
    /\ loop.pc = "scan"
    /\ \E f \in loop.ready :
          /\ f \in broken \/ sock[f] = FREE
          /\ Close(f)
          /\ loop' = [pc |-> "forget", fd |-> f, ready |-> loop.ready \ {f}]
    /\ UNCHANGED <<added, peers, inbound_fds, peers_lock, sending, sent>>

network_remove_inbound_fd ==
    /\ loop.pc = "forget"
    /\ LET found == {i \in DOMAIN inbound_fds : inbound_fds[i] = loop.fd}
       IN  inbound_fds' =
             IF found = {} THEN inbound_fds
             ELSE LET i == CHOOSE i \in found : \A j \in found : i <= j
                  IN  SubSeq(inbound_fds, 1, i - 1)
                      \o SubSeq(inbound_fds, i + 1, Len(inbound_fds))
    /\ loop' = [loop EXCEPT !.pc = "mark"]
    /\ UNCHANGED <<sock, broken, added, peers, peers_lock, sending, sent>>

\* The first peer with that descriptor is marked as disconnected.
LoopMark ==
    /\ loop.pc = "mark" /\ peers_lock = NOBODY
    /\ LET found == {p \in added : peers[p].fd = loop.fd}
       IN  peers' = [p \in Peer |->
             IF p \in found /\ \A q \in found : p <= q THEN Down ELSE peers[p]]
    /\ loop' = [pc |-> "scan", ready |-> loop.ready]
    /\ UNCHANGED <<sock, broken, added, inbound_fds, peers_lock, sending, sent>>

LoopAgain ==
    /\ loop.pc = "scan" /\ loop.ready = {}
    /\ loop' = [pc |-> "poll"]
    /\ UNCHANGED <<sock, broken, added, peers, inbound_fds, peers_lock, sending, sent>>
-----------------------------------------------------------------------------
\* The other end of a connection closes it or dies.
Break(f) ==
    /\ sock[f] # FREE
    /\ broken' = broken \cup {f}
    /\ UNCHANGED <<sock, added, peers, inbound_fds, peers_lock, sending, loop, sent>>

\* Other parts of the process open and close connections of their own.
OtherSocket(f) ==
    /\ \/ Open(f, OTHERS) /\ UNCHANGED broken
       \/ sock[f] = OTHERS /\ Close(f)
    /\ UNCHANGED <<added, peers, inbound_fds, peers_lock, sending, loop, sent>>

Next ==
    \/ \E p \in Peer :
          network_engine_add_peer(p) \/ \E t \in Sender : SendBegin(t, p)
    \/ \E t \in Sender : SendDone(t) \/ SendFails(t) \/ SendGivesUp(t)
    \/ LoopPoll \/ LoopAccept \/ LoopRecv \/ LoopHandled
    \/ LoopClose \/ network_remove_inbound_fd \/ LoopMark \/ LoopAgain
    \/ \E f \in Fd : Break(f) \/ OtherSocket(f)

Spec == Init /\ [][Next]_vars
-----------------------------------------------------------------------------
\* A message that network_engine_send reports as sent was written to a
\* connection with the peer it is for.
SentToPeer == \A m \in sent : m.via = To(m.to)
=============================================================================
