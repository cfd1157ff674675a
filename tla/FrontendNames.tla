--------------------------- MODULE FrontendNames ---------------------------
(***************************************************************************)
(* The inductive invariant behind RollbackSafe, RmdirStrandsNothing and    *)
(* VersionsGrow, with one frontend in use.                                 *)
(***************************************************************************)
EXTENDS FrontendInv

OneFrontend == \A m, n \in Active : m = n

\* Thread c holds g_coordinator_lock for a change.
Holding(c) == call[c].pc \in {"write", "delete", "commit", "rollback"}

\* Requests are at the frontend in use, which learns from nobody, and one of them
\* at a time changes something.
LockInv ==
    /\ \A c \in Caller : call[c].pc # "idle" => c[1] \in Active
    /\ \A c \in Caller : Holding(c) => call[c].at = c[1]
    /\ \A c, d \in Caller : Holding(c) /\ Holding(d) => c = d
    /\ \A m \in learns : m.to \notin Active

\* Entry e comes no earlier than entry d of the same file.
Before(d, e) ==
    d.version <= e.version /\ d.size <= e.size /\ (d.deleted => e.deleted)

\* Of the files that the frontend in use knows, nobody knows more, and those with
\* acknowledged data have a size.
KnownInv ==
    \A a \in Active, f \in FileId : entries[a][f] # NULL =>
        /\ entries[a][f].dir => entries[a][f].nodes = <<>>
        /\ \A w \in done : w.file = f => entries[a][f].size > 0
        /\ \A n \in Node : entries[n][f] # NULL => Before(entries[n][f], entries[a][f])
        /\ \A m \in learns : m.entry.file = f =>
              m.seq < next_seq[a] /\ Before(m.entry, entries[a][f])

\* What a frontend will learn comes after what it knows, in the order of the numbers.
OrderInv ==
    \A m \in learns :
        /\ entries[m.to][m.entry.file] # NULL =>
              Before(entries[m.to][m.entry.file], m.entry)
        /\ \A l \in learns :
              l.to = m.to /\ l.entry.file = m.entry.file /\ l.seq < m.seq =>
                  Before(l.entry, m.entry)

\* Nobody has heard of file f.
Unheard(f) ==
    /\ \A n \in Node : entries[n][f] = NULL
    /\ \A m \in learns : m.entry.file # f
    /\ \A w \in done : w.file # f

\* While a thread holds the lock its decisions stay good: the size that a write has
\* seen is that of the entry, an entry that is proposed is new or comes after the
\* one that is there, and a directory that is to be deleted stays empty.
HeldOK(c, r) ==
    LET known == entries[c[1]] IN
    /\ r.pc \in {"write", "delete"} => r.nodes # <<>>
    /\ r.pc = "write" => r.size = known[r.file].size /\ (r.ok # {} => r.data # <<>>)
    /\ r.pc = "commit" =>
          /\ r.entry.dir => r.entry.nodes = <<>>
          /\ IF known[r.entry.file] = NULL THEN Unheard(r.entry.file)
             ELSE Before(known[r.entry.file], r.entry)
          /\ r.entry.dir /\ r.entry.deleted => ~ directory_has_children(c[1], r.entry.path)
          /\ r.write # NULL =>
                /\ r.write.file = r.entry.file /\ r.entry.size > 0
                /\ known[r.entry.file] # NULL
                /\ r.write.size = known[r.entry.file].size
    /\ r.pc = "rollback" => \A w \in done : w.file # r.file

HeldInv == \A c \in Caller : HeldOK(c, call[c])

\* The inductive invariant of the handlers while one frontend is in use: between
\* g_coordinator_lock and the commit nothing overtakes a thread, and what the
\* frontend knows of a file is at least as new as what any other knows or will learn.
NameInv == LockInv /\ KnownInv /\ OrderInv /\ HeldInv
=============================================================================
