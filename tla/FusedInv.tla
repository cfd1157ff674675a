------------------------------ MODULE FusedInv ------------------------------
(***************************************************************************)
(* The inductive invariant behind the properties of FusedFS.               *)
(***************************************************************************)
EXTENDS FusedFS

\* A slot in use bears its own number, and no slot after the last is in use.
TableInv ==
    /\ mode[ROOT] = "dir"
    /\ \A i \in Inode :
          /\ ino[i] \in {0, i}
          /\ ino[i] = 0 <=> mode[i] = "none"
          /\ i > n_inodes => ino[i] = 0 /\ size[i] = 0

\* An entry leads from a directory to a slot in use, which is not the root and has
\* no other entry.
EntriesInv ==
    /\ \A e \in children :
          /\ IsDir(e[1])
          /\ e[3] \in Inode /\ Allocated(e[3]) /\ e[3] # ROOT
    /\ \A e, f \in children : (e[1] = f[1] /\ e[2] = f[2]) \/ e[3] = f[3] => e = f

\* On a disk that stores what it is given, a file is what was written.
FilesInv ==
    ~ FaultyDisk => \A i \in Inode : IsFile(i) =>
        backing[i] = acked[i] /\ size[i] = Len(acked[i])

Closed(S) == \A e \in children : e[1] \in S => e[3] \in S

\* Under a mount a set with the root and, with a directory, its entries has all
\* slots in use: there is no island.
TreeInv ==
    program = "fuse" => \A S \in SUBSET Inode :
        ROOT \in S /\ Closed(S) => \A i \in Inode : Allocated(i) => i \in S

\* The inductive invariant of fused_ops.c: through allocation, reuse, renames,
\* failures and restarts the inode table, the directory entries and the backing
\* files fit together.
FsInv == TypeOK /\ TableInv /\ EntriesInv /\ FilesInv /\ TreeInv
=============================================================================
