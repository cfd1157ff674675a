------------------------------ MODULE FusedFS ------------------------------
(***************************************************************************)
(* The file system of a storage node, src/fused_ops.c: an inode table, a   *)
(* directory tree in it and one backing file per inode.  Two programs link *)
(* it: the FUSE mount (fused_main.c) and the RPC server                    *)
(* (fused_rpc_server.cpp); FuseNext and RpcNext are what each of them can  *)
(* call, and program says which of them this node runs.                    *)
(*                                                                         *)
(* fused_ops.c has no lock: these are the operations of one request at a   *)
(* time.  Owners, permissions and times are left out; nothing depends on   *)
(* them.  A path is the directory its parent path leads to (one of         *)
(* Resolved, NULL if there is none) and its last name.                     *)
(*                                                                         *)
(* A definition with a capitalised suffix, such as AfterFree_Always, is a  *)
(* broken variant of the one it precedes: it is used nowhere, and some     *)
(* property fails if it takes the other's place.                           *)
(***************************************************************************)
EXTENDS Integers, Sequences, FiniteSets

CONSTANTS
    MAX_INODES,     \* slots of the inode table
    MAX_CHILDREN,   \* entries of a directory
    Name,           \* file names
    Byte,           \* byte values, 0 among them
    Data,           \* what clients write
    DirSize,        \* st_size of a directory (4096 in the code)
    NoFile,         \* there is no backing file
    Dir,            \* stands for a directory among files
    FaultyDisk,     \* may a write to a backing file fall short?
    MaxSize         \* bound: size of a file, one less than that of a backing file

ASSUME FsAssumption ==
    /\ MAX_INODES \in Nat /\ MAX_INODES > 0
    /\ MAX_CHILDREN \in Nat
    /\ DirSize \in Nat /\ MaxSize \in Nat
    /\ 0 \in Byte /\ Data \subseteq Seq(Byte)
    /\ NoFile \notin Seq(Byte)

VARIABLES
    n_inodes,       \* slots 1 .. n_inodes are looked at
    ino,            \* inode number of a slot, 0 in a cleared one
    mode,           \* "dir", "file", or "none" in a cleared slot
    size,
    children,       \* entries <<directory slot, name, inode number>>
    backing,        \* contents of the file inode_<n>, NoFile if there is none
    acked,          \* history: what the writes reported as done amount to
    rc,             \* what the last operation returned
    program         \* "fuse" or "rpc"

table == <<n_inodes, ino, mode, size, children>>
vars == <<table, backing, acked, rc, program>>

Inode == 1 .. MAX_INODES
ROOT == 1
NULL == 0

Content == Seq(Byte)

\* The type invariant.
TypeOK ==
    /\ n_inodes \in Inode
    /\ ino \in [Inode -> Nat]
    /\ mode \in [Inode -> {"none", "dir", "file"}]
    /\ size \in [Inode -> Nat]
    /\ children \subseteq Inode \X Name \X Nat
    /\ backing \in [Inode -> Content \cup {NoFile}]
    /\ acked \in [Inode -> Content]
    /\ rc \in {"OK", "FAIL"}
    /\ program \in {"fuse", "rpc"}

\* fused_init, init_root_inode
Init ==
    /\ n_inodes = 1
    /\ ino = [i \in Inode |-> IF i = ROOT THEN ROOT ELSE 0]
    /\ mode = [i \in Inode |-> IF i = ROOT THEN "dir" ELSE "none"]
    /\ size = [i \in Inode |-> IF i = ROOT THEN DirSize ELSE 0]
    /\ children = {}
    /\ backing = [i \in Inode |-> NoFile]
    /\ acked = [i \in Inode |-> <<>>]
    /\ rc = "OK"
    /\ program \in {"fuse", "rpc"}
-----------------------------------------------------------------------------
(***************************************************************************)
(* Lookup                                                                  *)
(***************************************************************************)
\* The first slot in use that bears the number.
lookup_inode(number) ==
    LET found == {i \in 1 .. n_inodes : ino[i] = number}
    IN  IF found = {} THEN NULL
        ELSE CHOOSE i \in found : \A j \in found : i <= j

Allocated(i) == ino[i] # 0
IsDir(i) == i \in Inode /\ mode[i] = "dir"
IsFile(i) == i \in Inode /\ mode[i] = "file"

Entries(d) == {e \in children : e[1] = d}
HasEntry(d, name) == \E e \in Entries(d) : e[2] = name

\* One component of path_to_inode: the entry of d with that name.
Lookup(d, name) ==
    LET found == {e \in children : e[1] = d /\ e[2] = name}
    IN  IF IsDir(d) /\ found # {}
        THEN lookup_inode((CHOOSE e \in found : TRUE)[3])
        ELSE NULL

\* path_to_inode: what the paths that begin at slot r can lead to.
ReachedFrom(r) ==
    LET reach[k \in 0 .. MAX_INODES] ==
            IF k = 0 THEN {r}
            ELSE LET before == reach[k - 1] IN
                 before \cup
                 {Lookup(e[1], e[2]) : e \in {f \in children : f[1] \in before}}
    IN  reach[MAX_INODES]

Resolved == {NULL} \cup ReachedFrom(lookup_inode(ROOT))

\* dir_add_entry succeeds.
CanAdd(d, name) ==
    IsDir(d) /\ Cardinality(Entries(d)) < MAX_CHILDREN /\ ~ HasEntry(d, name)
-----------------------------------------------------------------------------
(***************************************************************************)
(* Allocation                                                              *)
(***************************************************************************)
\* alloc_inode takes the slot after the last one, whose number is its place.
NextSlot == n_inodes + 1

\* Any slot is given back, as if it were the last.
AfterFree_Always(i, n) == n - 1

\* free_inode: n_inodes after slot i is freed, if it was n.  Only the last
\* slot is given back.
AfterFree(i, n) == IF i = n THEN n - 1 ELSE n

\* The entries of the slot survive.
Cleared_KeepsEntries(i, entries) == entries

\* memset(inode, 0): the fields of the slot, its own entries included.
Cleared(i, entries) == {e \in entries : e[1] # i}

Clear(i) ==
    /\ ino' = [ino EXCEPT ![i] = 0]
    /\ mode' = [mode EXCEPT ![i] = "none"]
    /\ size' = [size EXCEPT ![i] = 0]

\* alloc_inode does not look at the end of the table.
NewInode_NoLimit(d, name, m, s) ==
    /\ Lookup(d, name) = NULL
    /\ CanAdd(d, name)
    /\ n_inodes' = NextSlot
    /\ ino' = [ino EXCEPT ![NextSlot] = NextSlot]
    /\ mode' = [mode EXCEPT ![NextSlot] = m]
    /\ size' = [size EXCEPT ![NextSlot] = s]
    /\ children' = Cleared(NextSlot, children) \cup {<<d, name, NextSlot>>}

\* alloc_inode, the caller's initialisation, and dir_add_entry.
NewInode(d, name, m, s) ==
    /\ Lookup(d, name) = NULL
    /\ NextSlot \in Inode
    /\ CanAdd(d, name)
    /\ n_inodes' = NextSlot
    /\ ino' = [ino EXCEPT ![NextSlot] = NextSlot]
    /\ mode' = [mode EXCEPT ![NextSlot] = m]
    /\ size' = [size EXCEPT ![NextSlot] = s]
    /\ children' = Cleared(NextSlot, children) \cup {<<d, name, NextSlot>>}

\* free_inode does not roll n_inodes back.
Rollback_KeepsCount(d, name) ==
    /\ Lookup(d, name) = NULL
    /\ NextSlot \in Inode
    /\ IsDir(d)
    /\ n_inodes' = NextSlot
    /\ Clear(NextSlot)
    /\ children' = Cleared(NextSlot, children)
    /\ backing' = [backing EXCEPT ![NextSlot] = NoFile]
    /\ acked' = [acked EXCEPT ![NextSlot] = <<>>]
    /\ rc' = "FAIL"

\* alloc_inode, then fopen or dir_add_entry fails, then free_inode.
Rollback(d, name) ==
    /\ Lookup(d, name) = NULL
    /\ NextSlot \in Inode
    /\ IsDir(d)
    /\ n_inodes' = AfterFree(NextSlot, NextSlot)
    /\ Clear(NextSlot)
    /\ children' = Cleared(NextSlot, children)
    /\ backing' = [backing EXCEPT ![NextSlot] = NoFile]
    /\ acked' = [acked EXCEPT ![NextSlot] = <<>>]
    /\ rc' = "FAIL"

\* An error return before anything was changed: the path or its parent is not
\* there, is of the wrong kind or is there already, a directory is not empty or
\* full, the table is full, a write is not at the end, or a backing file does not
\* open.  Every operation on "/" that would change the tree ends so, and some
\* path is missing in every state, so that a refusal is always possible.
Refuse == rc' = "FAIL" /\ UNCHANGED <<table, backing, acked>>
-----------------------------------------------------------------------------
(***************************************************************************)
(* The operations                                                          *)
(***************************************************************************)
\* fopen(backing_path, "ab")
Opened(i) == IF backing[i] = NoFile THEN <<>> ELSE backing[i]

\* The backing file is opened "ab" and not "wb".
fused_create_NoTruncate(d, name) ==
    /\ NewInode(d, name, "file", 0)
    /\ backing' = [backing EXCEPT ![NextSlot] = Opened(NextSlot)]
    /\ acked' = [acked EXCEPT ![NextSlot] = <<>>]
    /\ rc' = "OK"

fused_create(d, name) ==
    /\ NewInode(d, name, "file", 0)
    /\ backing' = [backing EXCEPT ![NextSlot] = <<>>]
    /\ acked' = [acked EXCEPT ![NextSlot] = <<>>]
    /\ rc' = "OK"

fused_mkdir(d, name) ==
    /\ NewInode(d, name, "dir", DirSize)
    /\ rc' = "OK"
    /\ UNCHANGED <<backing, acked>>

\* dir_add_entry fails.  The backing file fails to open only for a file.
MkdirRollback(d, name) == ~ CanAdd(d, name) /\ Rollback(d, name)

\* The directory need not be empty.
fused_rmdir_NotEmpty(d, name) ==
    LET i == Lookup(d, name) IN
    /\ IsDir(i)
    /\ Clear(i)
    /\ children' = Cleared(i, {e \in children : e[1] # d \/ e[2] # name})
    /\ rc' = "OK"
    /\ UNCHANGED <<n_inodes, backing, acked>>

\* free_inode is not called: the slot is cleared and stays counted.
fused_rmdir(d, name) ==
    LET i == Lookup(d, name) IN
    /\ IsDir(i)
    /\ Entries(i) = {}
    /\ Clear(i)
    /\ children' = {e \in children : e[1] # d \/ e[2] # name}
    /\ rc' = "OK"
    /\ UNCHANGED <<n_inodes, backing, acked>>

\* The backing file stays.
fused_unlink_KeepsFile(d, name) ==
    LET i == Lookup(d, name)
        entry == <<d, name, ino[i]>>
    IN
    /\ i \in Inode
    /\ IsDir(d)
    /\ entry \in children
    /\ n_inodes' = AfterFree(i, n_inodes)
    /\ Clear(i)
    /\ children' = Cleared(i, children \ {entry})
    /\ acked' = [acked EXCEPT ![i] = <<>>]
    /\ rc' = "OK"
    /\ UNCHANGED backing

\* There is no test for a directory.
fused_unlink(d, name) ==
    LET i == Lookup(d, name)
        entry == <<d, name, ino[i]>>
    IN
    /\ i \in Inode
    /\ IsDir(d)
    /\ entry \in children
    /\ n_inodes' = AfterFree(i, n_inodes)
    /\ Clear(i)
    /\ children' = Cleared(i, children \ {entry})
    /\ backing' = [backing EXCEPT ![i] = NoFile]
    /\ acked' = [acked EXCEPT ![i] = <<>>]
    /\ rc' = "OK"

\* The old entry stays.
fused_rename_KeepsSource(d1, name1, d2, name2) ==
    LET i == Lookup(d1, name1) IN
    /\ i \in Inode
    /\ Lookup(d2, name2) = NULL
    /\ CanAdd(d2, name2)
    /\ children' = children \cup {<<d2, name2, ino[i]>>}
    /\ rc' = "OK"
    /\ UNCHANGED <<n_inodes, ino, mode, size, backing, acked>>

\* dir_add_entry at the destination, then dir_rm_entry at the source.
fused_rename(d1, name1, d2, name2) ==
    LET i == Lookup(d1, name1) IN
    /\ i \in Inode
    /\ Lookup(d2, name2) = NULL
    /\ CanAdd(d2, name2)
    /\ children' = (children \cup {<<d2, name2, ino[i]>>}) \ {<<d1, name1, ino[i]>>}
    /\ rc' = "OK"
    /\ UNCHANGED <<n_inodes, ino, mode, size, backing, acked>>
-----------------------------------------------------------------------------
Zeros(n) == [k \in 1 .. n |-> 0]

\* The gap is left out.
Appended_NoGap(s, offset, data) == data

\* What fused_write appends: the gap up to offset in zeros, then the data.
Appended(s, offset, data) == Zeros(offset - s) \o data

\* What a reader should find after that write, if it found a before it.
Expected(a, offset, data) == a \o Zeros(offset - Len(a)) \o data

\* The disk takes all of x, or any part of it if it is faulty.
Stored(x) ==
    IF FaultyDisk THEN {SubSeq(x, 1, k) : k \in 0 .. Len(x)} ELSE {x}

\* fused_write on slot i.  A short fwrite is an error; one that the buffer
\* hides until fclose is not noticed.  The root has no backing path to open.
fused_write(i, offset, data) ==
    LET x == Appended(size[i], offset, data) IN
    /\ i \in 1 .. n_inodes /\ i # ROOT
    /\ offset >= size[i]
    /\ offset + Len(data) <= MaxSize
    /\ \E y \in Stored(x) :
          /\ Len(Opened(i)) + Len(y) <= MaxSize + 1
          /\ backing' = [backing EXCEPT ![i] = Opened(i) \o y]
          /\ \/ /\ size' = [size EXCEPT ![i] = offset + Len(data)]
                /\ acked' = [acked EXCEPT ![i] = Expected(@, offset, data)]
                /\ rc' = "OK"
             \/ /\ y # x
                /\ rc' = "FAIL"
                /\ UNCHANGED <<size, acked>>
    /\ UNCHANGED <<n_inodes, ino, mode, children>>

\* Write of the RPC server creates a file that is not there, then calls
\* fused_write, which may still fail.
CreateAndWrite(d, name, offset, data) ==
    LET x == Appended(0, offset, data) IN
    /\ offset + Len(data) <= MaxSize
    /\ \/ /\ NewInode(d, name, "file", offset + Len(data))
          /\ \E y \in Stored(x) : backing' = [backing EXCEPT ![NextSlot] = y]
          /\ acked' = [acked EXCEPT ![NextSlot] = Expected(<<>>, offset, data)]
          /\ rc' = "OK"
       \/ /\ NewInode(d, name, "file", 0)
          /\ \E y \in {<<>>} \cup (Stored(x) \ {x}) :
                backing' = [backing EXCEPT ![NextSlot] = y]
          /\ acked' = [acked EXCEPT ![NextSlot] = <<>>]
          /\ rc' = "FAIL"
-----------------------------------------------------------------------------
(***************************************************************************)
(* The two programs                                                        *)
(***************************************************************************)
\* fused_init on the backing files of an earlier life.
Restarted(files) ==
    /\ n_inodes' = 1
    /\ ino' = [i \in Inode |-> IF i = ROOT THEN ROOT ELSE 0]
    /\ mode' = [i \in Inode |-> IF i = ROOT THEN "dir" ELSE "none"]
    /\ size' = [i \in Inode |-> IF i = ROOT THEN DirSize ELSE 0]
    /\ children' = {}
    /\ backing' = files
    /\ acked' = [i \in Inode |-> <<>>]
    /\ rc' = "OK"

\* The mount is taken down (fused_destroy) and put up again.
Remount ==
    Restarted([i \in Inode |-> IF i <= n_inodes /\ Allocated(i) THEN NoFile
                                                              ELSE backing[i]])

\* Either program is killed and started again, and fused_destroy has not run: the
\* table is lost, the backing files are not.
Crash == Restarted(backing)

\* The kernel calls unlink on no directory, moves no directory below itself,
\* and writes through handles of files that exist (libfuse hides an open file
\* that is unlinked instead of removing it).
FuseNext ==
    \/ Remount
    \/ Crash
    \/ Refuse
    \/ \E d \in Resolved, name \in Name :
          \/ fused_create(d, name) \/ Rollback(d, name)
          \/ fused_mkdir(d, name) \/ MkdirRollback(d, name)
          \/ fused_rmdir(d, name)
          \/ IsFile(Lookup(d, name)) /\ fused_unlink(d, name)
          \/ \E d2 \in Resolved \ ReachedFrom(Lookup(d, name)), name2 \in Name :
                fused_rename(d, name, d2, name2)
    \/ \E i \in Resolved, offset \in 0 .. MaxSize, data \in Data :
          IsFile(i) /\ fused_write(i, offset, data)

\* Create, Mkdir, Remove and Write of FileSystemServiceImpl
Create(d, name) == fused_create(d, name) \/ Rollback(d, name)
Mkdir(d, name) == fused_mkdir(d, name) \/ MkdirRollback(d, name)
Remove(d, name) == fused_unlink(d, name)
Write(d, name) ==
    \/ Lookup(d, name) = NULL /\ Rollback(d, name)
    \/ \E offset \in 0 .. MaxSize, data \in Data :
          \/ CreateAndWrite(d, name, offset, data)
          \/ fused_write(Lookup(d, name), offset, data)

RpcNext ==
    \/ Crash
    \/ Refuse
    \/ \E d \in Resolved, name \in Name :
          Create(d, name) \/ Mkdir(d, name) \/ Remove(d, name) \/ Write(d, name)

Next ==
    /\ \/ program = "fuse" /\ FuseNext
       \/ program = "rpc" /\ RpcNext
    /\ UNCHANGED program

Spec == Init /\ [][Next]_vars
-----------------------------------------------------------------------------
(***************************************************************************)
(* Properties                                                              *)
(***************************************************************************)
\* An entry leads from a directory in use to an inode in use that the lookup
\* still sees, and a directory has no name twice: removing, clearing and
\* allocating slots again leave no entry behind.
EntriesSound ==
    /\ \A e \in children :
          /\ e[1] \in 1 .. n_inodes /\ IsDir(e[1])
          /\ e[3] \in 1 .. n_inodes /\ lookup_inode(e[3]) = e[3]
    /\ \A e, f \in children : e[1] = f[1] /\ e[2] = f[2] => e = f

\* No inode has two names, and none leads to the root: a number that is given
\* out again is not still in some directory.
OneName ==
    \A e, f \in children : e[3] # ROOT /\ (e[3] = f[3] => e = f)

\* Every inode in use has a path.
AllReachable == \A i \in Inode : Allocated(i) => i \in ReachedFrom(ROOT)

\* Under a mount every inode in use has a path, whatever was renamed, removed or
\* lost with the process before: renames make no cycle and no island, and rmdir
\* takes no directory with something in it.
MountReachable == program = "fuse" => AllReachable

\* Backing files that belong to no file of the table
Leaked == {i \in Inode : ~ IsFile(i) /\ backing[i] # NoFile}

\* Under a mount no step but the death of the process leaves a backing file
\* behind: fused_unlink and a creation that fails take theirs away, and
\* fused_destroy those of all files.  What a killed mount left is removed by
\* nothing but the use of the same inode number.
OnlyCrashesLeak == [][program = "fuse" /\ ~ Crash => Leaked' \subseteq Leaked]_vars

\* A file reads back as the writes that were reported as done wrote it, also
\* when its slot and its backing file belonged to another file before.
ReadBack ==
    \A i \in Inode : IsFile(i) =>
        /\ size[i] = Len(acked[i])
        /\ backing[i] # NoFile
        /\ size[i] <= Len(backing[i])
        /\ SubSeq(backing[i], 1, size[i]) = acked[i]

\* A write that is accepted, and whose bytes are all stored, ends where its offset
\* says, at the new end of the file: fopen(..., "ab") appends behind no byte that
\* the size does not count.
AppendsAtEnd ==
    [][\A i \in Inode :
          /\ IsFile(i) /\ size'[i] > size[i]
          /\ Len(backing'[i]) - Len(Opened(i)) = size'[i] - size[i]
          => Len(backing'[i]) <= size'[i]]_vars

\* Under a mount an operation that returns an error has changed nothing in the
\* table.
FailuresLeaveNoTrace ==
    [][program = "fuse" /\ rc' = "FAIL" => UNCHANGED table]_vars

\* What the root directory holds under name, as a reader sees it.
RootFile(name) ==
    LET i == Lookup(ROOT, name) IN
    IF i = NULL THEN NoFile
    ELSE IF IsDir(i) THEN Dir ELSE SubSeq(backing[i], 1, size[i])

Server == INSTANCE StorageServer WITH
    files <- [name \in Name |-> IF program = "rpc" THEN RootFile(name) ELSE NoFile]

\* The RPC server is the storage node that the frontends take it for: whatever
\* goes on below the root, in slots that are used again and with the backing
\* files of an earlier life, each request changes its own file only, and as
\* StoredFile says.
ImplementsServer == Server!Spec
=============================================================================
