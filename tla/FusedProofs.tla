---------------------------- MODULE FusedProofs ----------------------------
(***************************************************************************)
(* What is proved of FusedFS, for every size of the inode table and of the *)
(* directories, all names and all contents.                                *)
(***************************************************************************)
EXTENDS FusedInv, TLAPS

\* Slots are naturals, the root's is one, and 0 stands for none.
LEMMA Inodes == ROOT \in Inode /\ Inode \subseteq Nat /\ NULL \notin Inode
BY FsAssumption DEF Inode, ROOT, NULL

\* lookup_inode finds a slot in use.
LEMMA LookupInode ==
    ASSUME TypeOK, TableInv, NEW k \in Inode, Allocated(k)
    PROVE  k \in 1 .. n_inodes /\ lookup_inode(k) = k
<1>1. k \in Nat /\ n_inodes \in Inode /\ Inode \subseteq Nat /\ n_inodes \in Nat
  BY Inodes, Zenon DEF TypeOK
<1>2. ~ (k > n_inodes) /\ ino[k] = k
  BY Zenon DEF TableInv, Allocated
<1>3. k \in 1 .. n_inodes
  BY <1>1, <1>2 DEF Inode
<1>4. 1 .. n_inodes \subseteq Inode
  BY <1>1, FsAssumption DEF Inode
<1>5. {i \in 1 .. n_inodes : ino[i] = k} = {k}
  <2>1. \A i \in 1 .. n_inodes : ino[i] = k => i = k
    BY <1>1, <1>4, Inodes, Zenon DEF TableInv, NULL
  <2>. QED
    BY <1>2, <1>3, <2>1, Zenon
<1>6. (CHOOSE i \in {k} : \A j \in {k} : i <= j) = k
  BY <1>1
<1>. QED
  BY <1>3, <1>5, <1>6, Zenon DEF lookup_inode

\* An entry is what path_to_inode finds under its name.
LEMMA LookupEntry ==
    ASSUME TypeOK, TableInv, EntriesInv, NEW e \in children
    PROVE  Lookup(e[1], e[2]) = e[3]
<1>1. {f \in children : f[1] = e[1] /\ f[2] = e[2]} = {e}
  BY Zenon DEF EntriesInv
<1>2. (CHOOSE f \in {e} : TRUE) = e
  BY Zenon
<1>3. IsDir(e[1]) /\ lookup_inode(e[3]) = e[3]
  BY LookupInode, Zenon DEF EntriesInv
<1>. QED
  BY <1>1, <1>2, <1>3, Zenon DEF Lookup

\* What it finds has an entry.
LEMMA LookupFound ==
    ASSUME TypeOK, TableInv, EntriesInv, NEW d, NEW name, Lookup(d, name) # NULL
    PROVE  \E e \in children : /\ e = <<d, name, Lookup(d, name)>>
                               /\ IsDir(d) /\ Lookup(d, name) \in Inode
                               /\ Allocated(Lookup(d, name)) /\ Lookup(d, name) # ROOT
                               /\ ino[Lookup(d, name)] = Lookup(d, name)
<1>1. IsDir(d) /\ {e \in children : e[1] = d /\ e[2] = name} # {}
  BY Zenon DEF Lookup
<1>2. PICK e \in children : e[1] = d /\ e[2] = name
  BY <1>1, Zenon
<1>3. Lookup(d, name) = e[3]
  BY <1>2, LookupEntry, Zenon
<1>4. e = <<e[1], e[2], e[3]>>
  BY DEF TypeOK
<1>5. e[3] \in Inode /\ Allocated(e[3]) /\ e[3] # ROOT
  BY Zenon DEF EntriesInv
<1>6. ino[e[3]] = e[3]
  BY <1>5, Zenon DEF TableInv, Allocated
<1>. QED
  BY <1>1, <1>2, <1>3, <1>4, <1>5, <1>6, Zenon

\* If it finds nothing there is no entry.
LEMMA LookupNone ==
    ASSUME TypeOK, TableInv, EntriesInv, NEW d, NEW name, Lookup(d, name) = NULL
    PROVE  \A e \in children : ~ (e[1] = d /\ e[2] = name)
BY LookupEntry, Inodes, Zenon DEF EntriesInv

\* The slot that alloc_inode takes was not in use.
LEMMA NextFree ==
    ASSUME TypeOK, TableInv, EntriesInv, NextSlot \in Inode
    PROVE  /\ ino[NextSlot] = 0 /\ mode[NextSlot] = "none" /\ size[NextSlot] = 0
           /\ NextSlot # ROOT /\ NextSlot \in Nat \ {0} /\ n_inodes \in Nat
           /\ \A e \in children : e[1] # NextSlot /\ e[3] # NextSlot
<1>1. n_inodes \in Nat /\ NextSlot \in Nat \ {0} /\ NextSlot > n_inodes /\ NextSlot # ROOT
  BY FsAssumption DEF TypeOK, Inode, NextSlot, ROOT
<1>2. ino[NextSlot] = 0 /\ mode[NextSlot] = "none" /\ size[NextSlot] = 0
  BY <1>1, Zenon DEF TableInv
<1>. QED
  BY <1>1, <1>2, Zenon DEF EntriesInv, IsDir, Allocated
-----------------------------------------------------------------------------
\* alloc_inode and dir_add_entry, with what their callers do to the new slot
LEMMA NewStep ==
    ASSUME FsInv, NEW d, NEW name \in Name, NEW m \in {"dir", "file"}, NEW s \in Nat,
           NewInode(d, name, m, s),
           NEW b \in Content \cup {NoFile}, backing' = [backing EXCEPT ![NextSlot] = b],
           NEW a \in Content, acked' = [acked EXCEPT ![NextSlot] = a],
           m = "file" /\ ~ FaultyDisk => b = a /\ s = Len(a),
           rc' \in {"OK", "FAIL"}, UNCHANGED program
    PROVE  FsInv'
<1>1. TypeOK /\ TableInv /\ EntriesInv
  BY Zenon DEF FsInv
<1>2. PICK k \in Inode : k = NextSlot
  BY Zenon DEF NewInode
<1>3. /\ ino[k] = 0 /\ mode[k] = "none" /\ size[k] = 0
      /\ k # ROOT /\ k \in Nat \ {0} /\ n_inodes \in Nat
      /\ \A e \in children : e[1] # k /\ e[3] # k
  BY <1>1, <1>2, NextFree, Zenon
<1>4. k = n_inodes + 1
  BY <1>2, Zenon DEF NextSlot
<1>5. IsDir(d) /\ Lookup(d, name) = NULL
  BY Zenon DEF NewInode, CanAdd
<1>6. \A e \in children : ~ (e[1] = d /\ e[2] = name)
  BY <1>1, <1>5, LookupNone, Zenon
<1>7. PICK n : n = <<d, name, k>>
  BY Zenon
<1>8. /\ n_inodes' = k /\ ino' = [ino EXCEPT ![k] = k] /\ mode' = [mode EXCEPT ![k] = m]
      /\ size' = [size EXCEPT ![k] = s] /\ children' = children \cup {n}
      /\ backing' = [backing EXCEPT ![k] = b] /\ acked' = [acked EXCEPT ![k] = a]
  <2>1. Cleared(k, children) = children
    BY <1>3, Zenon DEF Cleared
  <2>. QED
    BY <1>2, <1>7, <2>1, Zenon DEF NewInode
<1>9. n \in Inode \X Name \X Nat /\ n[1] = d /\ n[2] = name /\ n[3] = k /\ d \in Inode
  BY <1>3, <1>5, <1>7, Zenon DEF IsDir
<1>10. TypeOK'
  <2>1. n_inodes' \in Inode /\ ino' \in [Inode -> Nat] /\ size' \in [Inode -> Nat]
    BY <1>1, <1>3, <1>8, Zenon DEF TypeOK
  <2>2. mode' \in [Inode -> {"none", "dir", "file"}]
    BY <1>1, <1>8, Zenon DEF TypeOK
  <2>3. children' \subseteq Inode \X Name \X Nat
    BY <1>1, <1>8, <1>9, Zenon DEF TypeOK
  <2>4. backing' \in [Inode -> Content \cup {NoFile}] /\ acked' \in [Inode -> Content]
    <3>1. backing \in [Inode -> Content \cup {NoFile}] /\ acked \in [Inode -> Content]
      BY <1>1, Zenon DEF TypeOK
    <3>. QED
      BY <3>1, Zenon
  <2>. QED
    BY <1>1, <2>1, <2>2, <2>3, <2>4, Zenon DEF TypeOK
<1>11. /\ \A i \in Inode : i # k => /\ ino'[i] = ino[i] /\ mode'[i] = mode[i]
                                    /\ size'[i] = size[i]
                                    /\ backing'[i] = backing[i] /\ acked'[i] = acked[i]
       /\ ino'[k] = k /\ mode'[k] = m /\ size'[k] = s /\ backing'[k] = b /\ acked'[k] = a
  BY <1>1, <1>8, Zenon DEF TypeOK
<1>12. TableInv'
  <2>1. mode'[ROOT] = "dir"
    BY <1>1, <1>3, <1>11, Inodes, Zenon DEF TableInv
  <2>2. ASSUME NEW i \in Inode
        PROVE  /\ ino'[i] \in {0, i}
               /\ ino'[i] = 0 <=> mode'[i] = "none"
               /\ i > n_inodes' => ino'[i] = 0 /\ size'[i] = 0
    <3>1. CASE i = k
      BY <1>3, <1>8, <1>11, <3>1
    <3>2. CASE i # k
      BY <1>1, <1>3, <1>4, <1>8, <1>11, <3>2, Inodes DEF TableInv
    <3>. QED
      BY <3>1, <3>2, Zenon
  <2>. QED
    BY <2>1, <2>2, Zenon DEF TableInv
<1>13. EntriesInv'
  <2>1. ASSUME NEW e \in children'
        PROVE  IsDir(e[1])' /\ e[3] \in Inode /\ Allocated(e[3])' /\ e[3] # ROOT
    <3>1. CASE e = n
      BY <1>3, <1>5, <1>9, <1>11, <3>1, Zenon DEF IsDir, Allocated
    <3>2. CASE e \in children
      BY <1>1, <1>3, <1>11, <3>2, Zenon DEF EntriesInv, IsDir, Allocated
    <3>. QED
      BY <1>8, <2>1, <3>1, <3>2, Zenon
  <2>2. \A e, f \in children' : (e[1] = f[1] /\ e[2] = f[2]) \/ e[3] = f[3] => e = f
    BY <1>1, <1>3, <1>6, <1>8, <1>9 DEF EntriesInv
  <2>. QED
    BY <2>1, <2>2, Zenon DEF EntriesInv
<1>15. FilesInv'
  BY <1>11 DEF FsInv, FilesInv, IsFile
<1>16. TreeInv'
  <2>. SUFFICES ASSUME program = "fuse", NEW S \in SUBSET Inode, ROOT \in S, Closed(S)',
                       NEW i \in Inode, Allocated(i)'
                PROVE  i \in S
    BY Zenon DEF TreeInv
  <2>1. Closed(S) /\ (d \in S => k \in S)
    BY <1>8, <1>9, Zenon DEF Closed
  <2>2. \A j \in Inode : Allocated(j) => j \in S
    BY <2>1, Zenon DEF FsInv, TreeInv
  <2>3. d \in S
    BY <1>1, <1>5, <2>2, Zenon DEF IsDir, TableInv, Allocated
  <2>. QED
    BY <1>11, <2>1, <2>2, <2>3, Zenon DEF Allocated
<1>. QED
  BY <1>10, <1>12, <1>13, <1>15, <1>16, Zenon DEF FsInv

\* Slot i and its only entry are cleared, in fused_unlink and fused_rmdir, with all
\* entries of the slot.  Under a mount it has none.
LEMMA FreeStep ==
    ASSUME FsInv, NEW n \in children, NEW i \in Inode, i = n[3],
           n_inodes' \in {n_inodes, AfterFree(i, n_inodes)}, Clear(i),
           children' = {e \in children : e # n /\ e[1] # i},
           program = "fuse" => Entries(i) = {},
           NEW b \in Content \cup {NoFile}, backing' = [backing EXCEPT ![i] = b],
           NEW a \in Content, acked' = [acked EXCEPT ![i] = a],
           rc' \in {"OK", "FAIL"}, UNCHANGED program
    PROVE  FsInv'
<1>1. TypeOK /\ TableInv /\ EntriesInv
  BY Zenon DEF FsInv
<1>2. i # ROOT /\ Allocated(i) /\ i \in 1 .. n_inodes
  BY <1>1, LookupInode, Zenon DEF EntriesInv
<1>3. /\ \A j \in Inode : j # i => /\ ino'[j] = ino[j] /\ mode'[j] = mode[j]
                                   /\ size'[j] = size[j]
                                   /\ backing'[j] = backing[j] /\ acked'[j] = acked[j]
      /\ ino'[i] = 0 /\ mode'[i] = "none" /\ size'[i] = 0 /\ backing'[i] = b
  BY <1>1, Zenon DEF TypeOK, Clear
<1>4. /\ n_inodes \in Nat /\ n_inodes' \in Inode /\ n_inodes' \in Nat
      /\ \A j \in Inode : j > n_inodes' => j > n_inodes \/ j = i
  <2>1. n_inodes \in Nat /\ i \in Nat /\ i > 1 /\ n_inodes <= MAX_INODES /\ i <= n_inodes
    BY <1>1, <1>2, FsAssumption DEF TypeOK, Inode, ROOT
  <2>2. n_inodes' = n_inodes \/ (n_inodes' = n_inodes - 1 /\ i = n_inodes)
    BY Zenon DEF AfterFree
  <2>. QED
    BY <2>1, <2>2, FsAssumption DEF Inode
<1>5. TypeOK'
  <2>1. ino' \in [Inode -> Nat] /\ size' \in [Inode -> Nat]
    BY <1>1, Zenon DEF TypeOK, Clear
  <2>2. mode' \in [Inode -> {"none", "dir", "file"}]
    BY <1>1, Zenon DEF TypeOK, Clear
  <2>3. children' \subseteq Inode \X Name \X Nat
    BY <1>1, Zenon DEF TypeOK
  <2>4. backing' \in [Inode -> Content \cup {NoFile}] /\ acked' \in [Inode -> Content]
    BY <1>1, Zenon DEF TypeOK
  <2>. QED
    BY <1>1, <1>4, <2>1, <2>2, <2>3, <2>4, Zenon DEF TypeOK
<1>6. TableInv'
  <2>1. mode'[ROOT] = "dir"
    BY <1>1, <1>2, <1>3, Inodes, Zenon DEF TableInv
  <2>2. ASSUME NEW j \in Inode
        PROVE  /\ ino'[j] \in {0, j}
               /\ ino'[j] = 0 <=> mode'[j] = "none"
               /\ j > n_inodes' => ino'[j] = 0 /\ size'[j] = 0
    <3>1. CASE j = i
      BY <1>3, <3>1, Zenon
    <3>2. CASE j # i
      BY <1>1, <1>3, <1>4, <3>2 DEF TableInv
    <3>. QED
      BY <3>1, <3>2, Zenon
  <2>. QED
    BY <2>1, <2>2, Zenon DEF TableInv
<1>7. EntriesInv'
  <2>1. ASSUME NEW e \in children'
        PROVE  IsDir(e[1])' /\ e[3] \in Inode /\ Allocated(e[3])' /\ e[3] # ROOT
    <3>1. e \in children /\ e[1] # i /\ e[3] # i
      BY <1>1, <2>1, Zenon DEF EntriesInv
    <3>. QED
      BY <1>1, <1>3, <3>1 DEF EntriesInv, IsDir, Allocated
  <2>2. \A e, f \in children' : (e[1] = f[1] /\ e[2] = f[2]) \/ e[3] = f[3] => e = f
    BY <1>1, Zenon DEF EntriesInv
  <2>. QED
    BY <2>1, <2>2, Zenon DEF EntriesInv
<1>9. FilesInv'
  BY <1>3 DEF FsInv, FilesInv, IsFile
<1>10. TreeInv'
  <2>. SUFFICES ASSUME program = "fuse", NEW S \in SUBSET Inode, ROOT \in S, Closed(S)',
                       NEW j \in Inode, Allocated(j)'
                PROVE  j \in S
    BY Zenon DEF TreeInv
  <2>1. Closed(S \cup {i})
    BY Zenon DEF Closed, Entries
  <2>2. Allocated(j) /\ j # i
    BY <1>3, Zenon DEF Allocated
  <2>3. S \cup {i} \in SUBSET Inode /\ ROOT \in S \cup {i}
    BY Zenon
  <2>4. j \in S \cup {i}
    BY <2>1, <2>2, <2>3, Zenon DEF FsInv, TreeInv
  <2>. QED
    BY <2>2, <2>4, Zenon
<1>. QED
  BY <1>5, <1>6, <1>7, <1>9, <1>10, Zenon DEF FsInv

\* fused_rename.  R is what the moved slot leads to.
LEMMA RenameStep ==
    ASSUME FsInv, NEW d1, NEW name1 \in Name, NEW d2, NEW name2 \in Name,
           fused_rename(d1, name1, d2, name2), UNCHANGED program,
           NEW R, Lookup(d1, name1) \in R, Closed(R), d2 \notin R
    PROVE  FsInv'
<1>1. TypeOK /\ TableInv /\ EntriesInv
  BY Zenon DEF FsInv
<1>2. PICK i : i = Lookup(d1, name1)
  BY Zenon
<1>3. /\ i \in Inode /\ Lookup(d2, name2) = NULL /\ IsDir(d2) /\ d2 \in Inode
      /\ UNCHANGED <<n_inodes, ino, mode, size, backing, acked>> /\ rc' = "OK"
      /\ children' = (children \cup {<<d2, name2, ino[i]>>}) \ {<<d1, name1, ino[i]>>}
  BY <1>2, Zenon DEF fused_rename, CanAdd, IsDir
<1>4. PICK n \in children : n = <<d1, name1, i>> /\ Allocated(i) /\ i # ROOT /\ ino[i] = i
  BY <1>1, <1>2, <1>3, LookupFound, Inodes, Zenon
<1>5. \A e \in children : ~ (e[1] = d2 /\ e[2] = name2)
  BY <1>1, <1>3, LookupNone, Zenon
<1>6. PICK p : p = <<d2, name2, i>>
  BY Zenon
<1>7. /\ n[1] = d1 /\ n[2] = name1 /\ n[3] = i /\ p[1] = d2 /\ p[2] = name2 /\ p[3] = i
      /\ p \in Inode \X Name \X Nat
  BY <1>3, <1>4, <1>6, Inodes, Zenon
<1>8. children' = (children \cup {p}) \ {n}
  BY <1>3, <1>4, <1>6, Zenon
<1>9. TypeOK'
  BY <1>1, <1>3, <1>7, <1>8, Zenon DEF TypeOK
<1>10. TableInv' /\ FilesInv'
  BY <1>3, Zenon DEF FsInv, TableInv, FilesInv, IsFile
<1>11. EntriesInv'
  <2>1. ASSUME NEW e \in children'
        PROVE  IsDir(e[1])' /\ e[3] \in Inode /\ Allocated(e[3])' /\ e[3] # ROOT
    BY <1>1, <1>3, <1>4, <1>7, <1>8, <2>1, Zenon DEF EntriesInv, IsDir, Allocated
  <2>2. \A e, f \in children' : (e[1] = f[1] /\ e[2] = f[2]) \/ e[3] = f[3] => e = f
    BY <1>1, <1>5, <1>7, <1>8 DEF EntriesInv
  <2>. QED
    BY <2>1, <2>2, Zenon DEF EntriesInv
<1>12. TreeInv'
  <2>. SUFFICES ASSUME program = "fuse", NEW S \in SUBSET Inode, ROOT \in S, Closed(S)',
                       NEW j \in Inode, Allocated(j)'
                PROVE  j \in S
    BY Zenon DEF TreeInv
  <2>1. Allocated(j) /\ Allocated(d2)
    BY <1>1, <1>3, Zenon DEF Allocated, IsDir, TableInv
  <2>2. CASE d2 \in S
    <3>1. p \in children' /\ \A e \in children : e = n \/ e \in children'
      BY <1>5, <1>7, <1>8, Zenon
    <3>2. \A e \in children' : e[1] \in S => e[3] \in S
      BY Zenon DEF Closed
    <3>3. Closed(S)
      BY <1>7, <2>2, <3>1, <3>2, Zenon DEF Closed
    <3>. QED
      BY <2>1, <3>3, Zenon DEF FsInv, TreeInv
  <2>3. CASE d2 \notin S
    <3>. DEFINE T == (S \cup R) \cap Inode
    <3>1. Closed(T)
      <4>. SUFFICES ASSUME NEW e \in children, e[1] \in T PROVE e[3] \in T
        BY Zenon DEF Closed
      <4>1. e[3] \in Inode
        BY <1>1, Zenon DEF EntriesInv
      <4>2. e \in children' \/ e[3] = i
        BY <1>7, <1>8, Zenon
      <4>3. e[1] \in S /\ e \in children' => e[3] \in S
        BY Zenon DEF Closed
      <4>4. e[1] \in R => e[3] \in R
        BY Zenon DEF Closed
      <4>. QED
        BY <1>2, <4>1, <4>2, <4>3, <4>4, Zenon
    <3>2. T \in SUBSET Inode /\ ROOT \in T
      BY Inodes, Zenon
    <3>3. d2 \in T
      BY <1>3, <2>1, <3>1, <3>2, Zenon DEF FsInv, TreeInv
    <3>. QED
      BY <2>3, <3>3, Zenon
  <2>. QED
    BY <2>2, <2>3, Zenon
<1>. QED
  BY <1>9, <1>10, <1>11, <1>12, Zenon DEF FsInv

\* A backing file changes, and a size that goes with it, in a slot that is not the
\* root's.
LEMMA WriteStep ==
    ASSUME FsInv, NEW i \in Inode, Allocated(i), NEW s \in Nat, NEW b \in Content, NEW a \in Content,
           size' = [size EXCEPT ![i] = s], backing' = [backing EXCEPT ![i] = b],
           acked' = [acked EXCEPT ![i] = a], UNCHANGED <<n_inodes, ino, mode, children, program>>,
           IsFile(i) /\ ~ FaultyDisk => b = a /\ s = Len(a),
           rc' \in {"OK", "FAIL"}
    PROVE  FsInv'
<1>1. TypeOK /\ TableInv
  BY Zenon DEF FsInv
<1>2. TypeOK'
  BY <1>1, Zenon DEF TypeOK
<1>3. TableInv'
  BY <1>1, Zenon DEF TypeOK, TableInv, Allocated
<1>4. EntriesInv' /\ TreeInv'
  BY Zenon DEF FsInv, EntriesInv, TreeInv, IsDir, Allocated, Closed
<1>5. \A j \in Inode : /\ j # i => backing'[j] = backing[j] /\ acked'[j] = acked[j]
                                   /\ size'[j] = size[j]
                       /\ j = i => backing'[j] = b /\ acked'[j] = a /\ size'[j] = s
  BY <1>1, Zenon DEF TypeOK
<1>7. FilesInv'
  BY <1>5 DEF FsInv, FilesInv, IsFile
<1>. QED
  BY <1>2, <1>3, <1>4, <1>7, Zenon DEF FsInv

\* Only backing files change, where there is no file.
LEMMA SpareStep ==
    ASSUME FsInv, UNCHANGED <<table, program>>, NEW i \in Inode, ~ IsFile(i),
           backing' = [backing EXCEPT ![i] = NoFile], acked' = [acked EXCEPT ![i] = <<>>],
           rc' \in {"OK", "FAIL"}
    PROVE  FsInv'
<1>1. TypeOK /\ TableInv
  BY Zenon DEF FsInv
<1>2. TypeOK'
  BY <1>1 DEF TypeOK, table, Content
<1>3. TableInv' /\ EntriesInv' /\ TreeInv'
  BY Zenon DEF FsInv, TableInv, EntriesInv, TreeInv, IsDir, Allocated, Closed, table
<1>4. \A j \in Inode : /\ j # i => backing'[j] = backing[j] /\ acked'[j] = acked[j]
                       /\ j = i => backing'[j] = NoFile
  BY <1>1, Zenon DEF TypeOK
<1>5. FilesInv'
  BY <1>4, Zenon DEF FsInv, FilesInv, IsFile, table
<1>. QED
  BY <1>2, <1>3, <1>5, Zenon DEF FsInv

\* alloc_inode and free_inode cancel out.
LEMMA RollbackSame ==
    ASSUME FsInv, NEW d, NEW name, Rollback(d, name)
    PROVE  UNCHANGED table /\ NextSlot \in Inode /\ ~ IsFile(NextSlot)
<1>1. TypeOK /\ TableInv /\ EntriesInv /\ NextSlot \in Inode
  BY Zenon DEF FsInv, Rollback
<1>2. /\ ino[NextSlot] = 0 /\ mode[NextSlot] = "none" /\ size[NextSlot] = 0
      /\ NextSlot # ROOT /\ NextSlot \in Nat \ {0} /\ n_inodes \in Nat
      /\ \A e \in children : e[1] # NextSlot /\ e[3] # NextSlot
  BY <1>1, NextFree, Zenon
<1>3. n_inodes' = n_inodes
  BY <1>2 DEF Rollback, AfterFree, NextSlot
<1>4. ino' = ino /\ mode' = mode /\ size' = size
  BY <1>1, <1>2, Zenon DEF Rollback, Clear, TypeOK
<1>5. children' = children
  BY <1>2, Zenon DEF Rollback, Cleared
<1>. QED
  BY <1>1, <1>2, <1>3, <1>4, <1>5, Zenon DEF table, IsFile

\* fused_create that fails after alloc_inode keeps the invariant.
LEMMA RollbackStep ==
    ASSUME FsInv, NEW d, NEW name, Rollback(d, name), UNCHANGED program
    PROVE  FsInv'
BY RollbackSame, SpareStep, Zenon DEF Rollback

\* fused_init
LEMMA RestartStep ==
    ASSUME NEW files \in [Inode -> Content \cup {NoFile}], Restarted(files),
           program \in {"fuse", "rpc"}, UNCHANGED program
    PROVE  FsInv'
<1>1. TypeOK'
  BY FsAssumption, Inodes DEF Restarted, TypeOK, Inode, ROOT, Content
<1>2. TableInv'
  BY FsAssumption, Inodes DEF Restarted, TableInv, Inode, ROOT
<1>3. EntriesInv'
  BY Zenon DEF Restarted, EntriesInv
<1>4. FilesInv'
  BY Zenon DEF Restarted, FilesInv, IsFile
<1>5. TreeInv'
  BY Zenon DEF Restarted, TreeInv, Allocated
<1>. QED
  BY <1>1, <1>2, <1>3, <1>4, <1>5, Zenon DEF FsInv
-----------------------------------------------------------------------------
(***************************************************************************)
(* Contents                                                                *)
(***************************************************************************)
LEMMA ZerosType ==
    ASSUME NEW n \in Int
    PROVE  Zeros(n) \in Content /\ Len(Zeros(n)) = IF n < 0 THEN 0 ELSE n
<1>1. ASSUME NEW k \in Nat PROVE Zeros(k) \in Content /\ Len(Zeros(k)) = k
  BY FsAssumption DEF Zeros, Content
<1>2. CASE n \in Nat
  BY <1>1, <1>2
<1>3. CASE n < 0
  <2>1. 1 .. n = {} /\ 1 .. 0 = {}
    BY <1>3
  <2>2. Zeros(n) = Zeros(0)
    BY <2>1, Zenon DEF Zeros
  <2>. QED
    BY <1>1, <1>3, <2>2, Zenon
<1>. QED
  BY <1>2, <1>3

\* The concatenation of contents.
LEMMA Joined ==
    ASSUME NEW a \in Content, NEW b \in Content
    PROVE  a \o b \in Content /\ Len(a \o b) = Len(a) + Len(b)
BY DEF Content

\* Concatenation is associative.
LEMMA Associative ==
    ASSUME NEW a \in Content, NEW b \in Content, NEW c \in Content
    PROVE  (a \o b) \o c = a \o (b \o c)
BY DEF Content

\* The empty file is neutral.
LEMMA EmptyLeft == ASSUME NEW a \in Content PROVE <<>> \o a = a /\ <<>> \in Content
BY DEF Content

\* What a request brings is contents.
LEMMA DataType == \A data \in Data : data \in Content /\ Len(data) \in Nat
BY FsAssumption DEF Content

\* What a write appends, what its reader should find, and that on a good disk they
\* are the same to one who found all there was.
LEMMA WrittenType ==
    ASSUME NEW a \in Content, NEW s \in Nat, NEW offset \in Nat, NEW data \in Data, offset >= s
    PROVE  /\ Appended(s, offset, data) \in Content /\ Expected(a, offset, data) \in Content
           /\ s = Len(a) => /\ Expected(a, offset, data) = a \o Appended(s, offset, data)
                            /\ Len(Expected(a, offset, data)) = offset + Len(data)
<1>1. Len(a) \in Nat /\ data \in Content /\ Len(data) \in Nat
  BY DataType DEF Content
<1>2. PICK z : z = Zeros(offset - s)
  BY Zenon
<1>3. z \in Content /\ Len(z) = offset - s
  BY <1>2, ZerosType
<1>4. PICK y : y = Zeros(offset - Len(a))
  BY Zenon
<1>5. y \in Content
  BY <1>1, <1>4, ZerosType
<1>6. Appended(s, offset, data) = z \o data /\ Expected(a, offset, data) = (a \o y) \o data
  BY <1>2, <1>4, Zenon DEF Appended, Expected
<1>7. Appended(s, offset, data) \in Content /\ Expected(a, offset, data) \in Content
  BY <1>1, <1>3, <1>5, <1>6, Joined
<1>8. ASSUME s = Len(a)
      PROVE  /\ Expected(a, offset, data) = a \o Appended(s, offset, data)
             /\ Len(Expected(a, offset, data)) = offset + Len(data)
  <2>1. y = z
    BY <1>2, <1>4, <1>8, Zenon
  <2>2. Len(a \o y) = offset /\ a \o y \in Content
    BY <1>1, <1>3, <1>8, <2>1, Joined
  <2>3. Len((a \o y) \o data) = offset + Len(data)
    BY <1>1, <2>2, Joined, Zenon
  <2>4. (a \o y) \o data = a \o (z \o data)
    BY <1>1, <1>3, <2>1, Associative, Zenon
  <2>. QED
    BY <1>6, <2>3, <2>4, Zenon
<1>. QED
  BY <1>7, <1>8, Zenon

\* What a disk stores of some bytes; all of them, if it is good.
LEMMA StoredType ==
    ASSUME NEW x \in Content, NEW y \in Stored(x)
    PROVE  y \in Content /\ (~ FaultyDisk => y = x)
<1>1. CASE FaultyDisk
  <2>1. PICK k \in 0 .. Len(x) : y = SubSeq(x, 1, k)
    BY <1>1, Zenon DEF Stored
  <2>. QED
    BY <1>1, <2>1 DEF Content
<1>2. CASE ~ FaultyDisk
  BY <1>2, Zenon DEF Stored
<1>. QED
  BY <1>1, <1>2, Zenon

\* fused_write on a slot in use
LEMMA FusedWriteStep ==
    ASSUME FsInv, NEW i \in Inode, Allocated(i),
           NEW offset \in Nat, NEW data \in Data, fused_write(i, offset, data),
           UNCHANGED program
    PROVE  FsInv'
<1>1. PICK x : x = Appended(size[i], offset, data)
  BY Zenon
<1>2. PICK s \in Nat, a \in Content : s = size[i] /\ a = acked[i]
  BY Zenon DEF FsInv, TypeOK
<1>3. offset >= s
  BY <1>2, Zenon DEF fused_write
<1>4. /\ x \in Content /\ Expected(a, offset, data) \in Content
      /\ s = Len(a) => /\ Expected(a, offset, data) = a \o x
                       /\ Len(Expected(a, offset, data)) = offset + Len(data)
  <2>1. x = Appended(s, offset, data)
    BY <1>1, <1>2, Zenon
  <2>2. /\ Appended(s, offset, data) \in Content /\ Expected(a, offset, data) \in Content
        /\ s = Len(a) => /\ Expected(a, offset, data) = a \o Appended(s, offset, data)
                         /\ Len(Expected(a, offset, data)) = offset + Len(data)
    BY <1>3, WrittenType, Zenon
  <2>. QED
    BY <2>1, <2>2, Zenon
<1>5. PICK o \in Content : o = Opened(i) /\ (IsFile(i) /\ ~ FaultyDisk => o = a /\ s = Len(a))
  <2>1. Opened(i) \in Content
    BY EmptyLeft, Zenon DEF Opened, FsInv, TypeOK, Content
  <2>2. IsFile(i) /\ ~ FaultyDisk => Opened(i) = a /\ s = Len(a)
    BY <1>2, FsAssumption, Zenon DEF FsInv, FilesInv, Opened, Content
  <2>. QED
    BY <2>1, <2>2, Zenon
<1>6. PICK y \in Stored(x) :
          /\ backing' = [backing EXCEPT ![i] = o \o y]
          /\ \/ /\ size' = [size EXCEPT ![i] = offset + Len(data)]
                /\ acked' = [acked EXCEPT ![i] = Expected(a, offset, data)]
                /\ rc' = "OK"
             \/ /\ y # x
                /\ rc' = "FAIL"
                /\ UNCHANGED <<size, acked>>
  BY <1>1, <1>2, <1>5, Zenon DEF fused_write
<1>7. y \in Content /\ (~ FaultyDisk => y = x)
  BY <1>4, StoredType, Zenon
<1>8. PICK b \in Content : b = o \o y
  BY <1>5, <1>7, Joined, Zenon
<1>9. UNCHANGED <<n_inodes, ino, mode, children, program>>
  BY Zenon DEF fused_write
<1>10. CASE /\ size' = [size EXCEPT ![i] = offset + Len(data)]
            /\ acked' = [acked EXCEPT ![i] = Expected(a, offset, data)]
            /\ rc' = "OK"
  <2>1. offset + Len(data) \in Nat
    BY DataType
  <2>2. IsFile(i) /\ ~ FaultyDisk =>
           b = Expected(a, offset, data) /\ offset + Len(data) = Len(Expected(a, offset, data))
    BY <1>4, <1>5, <1>7, <1>8, Zenon
  <2>. QED
    BY <1>4, <1>6, <1>8, <1>9, <1>10, <2>1, <2>2, WriteStep, Zenon
<1>11. CASE y # x /\ rc' = "FAIL" /\ UNCHANGED <<size, acked>>
  <2>1. FaultyDisk
    BY <1>7, <1>11, Zenon
  <2>2. size' = [size EXCEPT ![i] = s] /\ acked' = [acked EXCEPT ![i] = a]
    BY <1>2, <1>11, Zenon DEF FsInv, TypeOK
  <2>. QED
    BY <1>6, <1>8, <1>9, <1>11, <2>1, <2>2, WriteStep, Zenon
<1>. QED
  BY <1>6, <1>10, <1>11, Zenon

\* What an empty file holds.
LEMMA NothingWritten ==
    <<>> \in Content /\ Len(<<>>) = 0 /\ 0 \in Nat /\ \A n \in Nat : n >= 0
BY DEF Content

\* Write of the RPC server on a name that is not there
LEMMA CreateAndWriteStep ==
    ASSUME FsInv, NEW d, NEW name \in Name, NEW offset \in Nat, NEW data \in Data,
           CreateAndWrite(d, name, offset, data), UNCHANGED program
    PROVE  FsInv'
<1>1. PICK x : x = Appended(0, offset, data)
  BY Zenon
<1>2. PICK a : a = Expected(<<>>, offset, data)
  BY Zenon
<1>3. x \in Content /\ a \in Content /\ a = x /\ Len(a) = offset + Len(data)
  <2>1. <<>> \in Content /\ Len(<<>>) = 0 /\ 0 \in Nat /\ offset >= 0
    BY NothingWritten, Zenon
  <2>2. PICK e \in Content : e = <<>>
    BY <2>1, Zenon
  <2>3. /\ Appended(0, offset, data) \in Content /\ Expected(e, offset, data) \in Content
        /\ 0 = Len(e) => /\ Expected(e, offset, data) = e \o Appended(0, offset, data)
                         /\ Len(Expected(e, offset, data)) = offset + Len(data)
    <3>1. PICK z \in Nat : z = 0 /\ offset >= z
      BY <2>1, Zenon
    <3>2. /\ Appended(z, offset, data) \in Content /\ Expected(e, offset, data) \in Content
          /\ z = Len(e) => /\ Expected(e, offset, data) = e \o Appended(z, offset, data)
                           /\ Len(Expected(e, offset, data)) = offset + Len(data)
      <4>1. Appended(z, offset, data) \in Content
        BY <3>1, WrittenType, Zenon
      <4>2. Expected(e, offset, data) \in Content
        BY <3>1, WrittenType, Zenon
      <4>3. ASSUME z = Len(e) PROVE Expected(e, offset, data) = e \o Appended(z, offset, data)
        BY <3>1, <4>3, WrittenType, Zenon
      <4>4. z = Len(e) => Len(Expected(e, offset, data)) = offset + Len(data)
        BY <3>1, WrittenType, Zenon
      <4>. QED
        BY <4>1, <4>2, <4>3, <4>4, Zenon
    <3>. QED
      BY <3>1, <3>2, Zenon
  <2>4. /\ x \in Content /\ a \in Content
        /\ a = <<>> \o x /\ Len(a) = offset + Len(data)
    BY <1>1, <1>2, <2>1, <2>2, <2>3, Zenon
  <2>. QED
    BY <2>4, EmptyLeft, Zenon
<1>4. offset + Len(data) \in Nat
  BY DataType
<1>5. CASE /\ NewInode(d, name, "file", offset + Len(data))
           /\ \E y \in Stored(x) : backing' = [backing EXCEPT ![NextSlot] = y]
           /\ acked' = [acked EXCEPT ![NextSlot] = a]
           /\ rc' = "OK"
  <2>1. PICK y \in Stored(x) : backing' = [backing EXCEPT ![NextSlot] = y]
    BY <1>5, Zenon
  <2>2. y \in Content /\ (~ FaultyDisk => y = x)
    BY <1>3, StoredType, Zenon
  <2>. QED
    BY <1>3, <1>4, <1>5, <2>1, <2>2, NewStep, Zenon
<1>6. CASE /\ NewInode(d, name, "file", 0)
           /\ \E y \in {<<>>} \cup (Stored(x) \ {x}) :
                backing' = [backing EXCEPT ![NextSlot] = y]
           /\ acked' = [acked EXCEPT ![NextSlot] = <<>>]
           /\ rc' = "FAIL"
  <2>1. PICK y \in {<<>>} \cup (Stored(x) \ {x}) : backing' = [backing EXCEPT ![NextSlot] = y]
    BY <1>6, Zenon
  <2>2. <<>> \in Content /\ Len(<<>>) = 0 /\ 0 \in Nat
    BY DEF Content
  <2>3. y \in Content /\ (~ FaultyDisk => y = <<>>)
    BY <1>3, <2>2, StoredType, Zenon
  <2>. QED
    BY <1>6, <2>1, <2>2, <2>3, NewStep, Zenon
<1>. QED
  BY <1>1, <1>2, <1>5, <1>6, Zenon DEF CreateAndWrite

\* fused_create keeps the invariant.
LEMMA CreateStep ==
    ASSUME FsInv, NEW d, NEW name \in Name, fused_create(d, name), UNCHANGED program
    PROVE  FsInv'
<1>1. <<>> \in Content /\ Len(<<>>) = 0 /\ 0 \in Nat
  BY DEF Content
<1>. QED
  BY <1>1, NewStep, Zenon DEF fused_create

\* fused_mkdir keeps the invariant.
LEMMA MkdirStep ==
    ASSUME FsInv, NEW d, NEW name \in Name, fused_mkdir(d, name), UNCHANGED program
    PROVE  FsInv'
<1>1. NextSlot \in Inode /\ TypeOK /\ TableInv /\ EntriesInv
  BY Zenon DEF fused_mkdir, NewInode, FsInv
<1>2. PICK b \in Content \cup {NoFile}, a \in Content : b = backing[NextSlot] /\ a = acked[NextSlot]
  BY <1>1, Zenon DEF TypeOK
<1>3. /\ backing' = [backing EXCEPT ![NextSlot] = b]
      /\ acked' = [acked EXCEPT ![NextSlot] = a]
  BY <1>1, <1>2, Zenon DEF fused_mkdir, TypeOK
<1>4. DirSize \in Nat
  BY FsAssumption, Zenon
<1>. QED
  BY <1>3, <1>4, NewStep, Zenon DEF fused_mkdir

\* fused_unlink keeps the invariant.
LEMMA UnlinkStep ==
    ASSUME FsInv, NEW d, NEW name, fused_unlink(d, name), UNCHANGED program,
           program = "fuse" => IsFile(Lookup(d, name))
    PROVE  FsInv'
<1>1. PICK i : i = Lookup(d, name)
  BY Zenon
<1>2. TypeOK /\ TableInv /\ EntriesInv /\ i \in Inode /\ i # NULL
  BY <1>1, Inodes, Zenon DEF FsInv, fused_unlink
<1>3. PICK n \in children : n = <<d, name, i>> /\ ino[i] = i
  BY <1>1, <1>2, LookupFound, Zenon
<1>4. /\ n_inodes' = AfterFree(i, n_inodes) /\ Clear(i)
      /\ children' = Cleared(i, children \ {n})
      /\ backing' = [backing EXCEPT ![i] = NoFile]
      /\ acked' = [acked EXCEPT ![i] = <<>>]
      /\ rc' = "OK"
  BY <1>1, <1>3, Zenon DEF fused_unlink
<1>5. children' = {e \in children : e # n /\ e[1] # i} /\ n[3] = i /\ <<>> \in Content
  BY <1>3, <1>4 DEF Cleared, Content
<1>6. program = "fuse" => Entries(i) = {}
  BY <1>1, <1>2, Zenon DEF Entries, EntriesInv, IsDir, IsFile
<1>. QED
  BY <1>2, <1>4, <1>5, <1>6, FreeStep, Zenon

\* fused_rmdir keeps the invariant.
LEMMA RmdirStep ==
    ASSUME FsInv, NEW d, NEW name, fused_rmdir(d, name), UNCHANGED program
    PROVE  FsInv'
<1>1. PICK i : i = Lookup(d, name)
  BY Zenon
<1>2. TypeOK /\ TableInv /\ EntriesInv /\ IsDir(i) /\ i \in Inode /\ i # NULL
  BY <1>1, Inodes, Zenon DEF FsInv, fused_rmdir, IsDir
<1>3. PICK n \in children : n = <<d, name, i>>
  BY <1>1, <1>2, LookupFound, Zenon
<1>4. /\ UNCHANGED <<n_inodes, backing, acked>> /\ Clear(i) /\ Entries(i) = {}
      /\ children' = {e \in children : e[1] # d \/ e[2] # name}
      /\ rc' = "OK"
  BY <1>1, Zenon DEF fused_rmdir
<1>5. children' = {e \in children : e # n /\ e[1] # i}
  <2>1. n[1] = d /\ n[2] = name /\ \A e \in children : e[1] = d /\ e[2] = name => e = n
    BY <1>2, <1>3, Zenon DEF EntriesInv
  <2>2. \A e \in children : e[1] # i
    BY <1>4, Zenon DEF Entries
  <2>. QED
    BY <1>4, <2>1, <2>2, Zenon
<1>6. PICK b \in Content \cup {NoFile}, a \in Content : b = backing[i] /\ a = acked[i]
  BY <1>2, Zenon DEF TypeOK
<1>7. backing' = [backing EXCEPT ![i] = b] /\ acked' = [acked EXCEPT ![i] = a]
  BY <1>2, <1>4, <1>6, Zenon DEF TypeOK
<1>9. n[3] = i /\ n_inodes' \in {n_inodes, AfterFree(i, n_inodes)}
  BY <1>3, <1>4, Zenon
<1>10. Clear(i) /\ (program = "fuse" => Entries(i) = {}) /\ rc' \in {"OK", "FAIL"}
  BY <1>4, Zenon
<1>. QED
  BY <1>2, <1>5, <1>7, <1>9, <1>10, FreeStep, Zenon
-----------------------------------------------------------------------------
(***************************************************************************)
(* The RPC server as a StorageServer.  A reader of the root directory sees *)
(* of a slot:                                                              *)
(***************************************************************************)
Seen(i) == IF mode[i] = "dir" THEN Dir ELSE SubSeq(backing[i], 1, size[i])

RootView ==
    \A name \in Name :
        /\ (\A e \in children : ~ (e[1] = ROOT /\ e[2] = name)) => RootFile(name) = NoFile
        /\ \A e \in children : e[1] = ROOT /\ e[2] = name => RootFile(name) = Seen(e[3])

\* The invariant implies that names in the root lead to one file each.
LEMMA RootViews == FsInv => RootView
<1>. SUFFICES ASSUME FsInv, NEW name \in Name
              PROVE  /\ (\A e \in children : ~ (e[1] = ROOT /\ e[2] = name)) =>
                            RootFile(name) = NoFile
                     /\ \A e \in children : e[1] = ROOT /\ e[2] = name =>
                            RootFile(name) = Seen(e[3])
  BY Zenon DEF RootView
<1>1. TypeOK /\ TableInv /\ EntriesInv
  BY Zenon DEF FsInv
<1>2. ASSUME \A e \in children : ~ (e[1] = ROOT /\ e[2] = name)
      PROVE  RootFile(name) = NoFile
  <2>1. Lookup(ROOT, name) = NULL
    BY <1>2, Zenon DEF Lookup
  <2>. QED
    BY <2>1, Zenon DEF RootFile
<1>3. ASSUME NEW e \in children, e[1] = ROOT, e[2] = name
      PROVE  RootFile(name) = Seen(e[3])
  <2>1. Lookup(ROOT, name) = e[3] /\ e[3] \in Inode /\ e[3] # NULL
    BY <1>1, <1>3, LookupEntry, Inodes, Zenon DEF EntriesInv
  <2>. QED
    BY <2>1, Zenon DEF RootFile, Seen, IsDir
<1>. QED
  BY <1>2, <1>3, Zenon

\* A file is seen as what was written to it, on a good disk.
FilesSeen == \A i \in Inode : mode[i] = "file" => Seen(i) = acked[i]

\* The invariant implies that a file shows what was written to it.
LEMMA SeenFile == FsInv /\ ~ FaultyDisk => FilesSeen
<1>. SUFFICES ASSUME FsInv, ~ FaultyDisk, NEW i \in Inode, mode[i] = "file"
              PROVE  Seen(i) = acked[i]
  BY Zenon DEF FilesSeen
<1>1. backing[i] = acked[i] /\ size[i] = Len(acked[i]) /\ acked[i] \in Content
  BY Zenon DEF FsInv, FilesInv, IsFile, TypeOK
<1>2. \A a \in Content : SubSeq(a, 1, Len(a)) = a
  BY DEF Content
<1>. QED
  BY <1>1, <1>2, Zenon DEF Seen

\* What a step leaves alone below the root
LEMMA RootFrame ==
    ASSUME FsInv, FsInv', NEW i, NEW name \in Name,
           \A e \in children : e[1] = ROOT /\ e[2] = name => e \in children' /\ e[3] # i,
           \A e \in children' : e[1] = ROOT /\ e[2] = name => e \in children,
           \A j \in Inode : j # i => /\ mode'[j] = mode[j] /\ size'[j] = size[j]
                                     /\ backing'[j] = backing[j]
    PROVE  RootFile(name)' = RootFile(name)
<1>1. RootView
  BY RootViews, Zenon
<1>2. RootView'
  <2>1. (FsInv => RootView)'
    BY RootViews, PTL
  <2>. QED
    BY <2>1, Zenon
<1>3. CASE \A e \in children : ~ (e[1] = ROOT /\ e[2] = name)
  BY <1>1, <1>2, <1>3, Zenon DEF RootView
<1>4. CASE \E e \in children : e[1] = ROOT /\ e[2] = name
  <2>1. PICK e \in children : e[1] = ROOT /\ e[2] = name
    BY <1>4, Zenon
  <2>2. e \in children' /\ e[3] # i /\ e[3] \in Inode
    BY <2>1, Zenon DEF FsInv, EntriesInv
  <2>3. Seen(e[3])' = Seen(e[3])
    BY <2>2, Zenon DEF Seen
  <2>. QED
    BY <1>1, <1>2, <2>1, <2>2, <2>3 DEF RootView
<1>. QED
  BY <1>3, <1>4, Zenon

\* A step that touches one name makes a request.
LEMMA AsRequest ==
    ASSUME UNCHANGED program, NEW name \in Name,
           \A n \in Name : n # name => RootFile(n)' = RootFile(n),
           \/ RootFile(name)' = RootFile(name)
           \/ Server!Request(RootFile(name), RootFile(name)')
    PROVE  Server!Next
<1>. DEFINE F == [n \in Name |-> IF program = "rpc" THEN RootFile(n) ELSE NoFile]
            G == [n \in Name |-> IF program' = "rpc" THEN RootFile(n)' ELSE NoFile]
            touched == {n \in Name : G[n] # F[n]}
<1>1. CASE program = "rpc"
  <2>1. \A n \in Name : F[n] = RootFile(n) /\ G[n] = RootFile(n)'
    BY <1>1, Zenon
  <2>. HIDE DEF F, G
  <2>2. \A n \in touched : n = name
    BY <2>1, Zenon
  <2>3. \A n \in touched : touched = {n} /\ Server!Request(F[n], G[n])
    BY <2>1, <2>2, Zenon
  <2>. QED
    BY <2>3, Zenon DEF Server!Next, Server!OneRequest, F, G
<1>2. CASE program # "rpc"
  <2>1. F = G
    BY <1>2, Zenon
  <2>2. touched = {}
    BY <2>1, Zenon
  <2>. HIDE DEF touched
  <2>. QED
    BY <2>2, Zenon DEF Server!Next, Server!OneRequest, touched
<1>. QED
  BY <1>1, <1>2, Zenon

\* fused_write at or after the end is the abstract write.
LEMMA WriteRequest ==
    ASSUME NEW a \in Content, NEW offset \in Nat, NEW data \in Data, offset >= Len(a),
           NEW old, old = a \/ (old = NoFile /\ a = <<>>)
    PROVE  Server!Request(old, Expected(a, offset, data))
<1>1. PICK m \in Nat, l \in Nat : m = Len(a) /\ l = Len(data)
  BY DataType DEF Content
<1>2. PICK new : new = Expected(a, offset, data)
  BY Zenon
<1>3. new \in Content /\ Len(new) = offset + l
  BY <1>1, <1>2, WrittenType
<1>4. Server!Size(old) = m /\ old \in Server!File /\ new \in Server!Content
  <2>1. CASE old = a
    BY <1>1, <1>3, <2>1, FsAssumption, Zenon DEF Server!Size, Server!File, Server!Content, Content
  <2>2. CASE old = NoFile /\ a = <<>>
    BY <1>1, <1>3, <2>2, Zenon DEF Server!Size, Server!File, Server!Content, Content
  <2>. QED
    BY <2>1, <2>2, Zenon
<1>5. \A k \in 1 .. offset + l : /\ k <= m => new[k] = old[k]
                                 /\ m < k /\ k <= offset => new[k] = 0
  <2>1. PICK z : z = Zeros(offset - m)
    BY Zenon
  <2>2. z \in Content /\ Len(z) = offset - m /\ \A k \in 1 .. offset - m : z[k] = 0
    BY <1>1, <2>1, ZerosType DEF Zeros
  <2>3. PICK y : y = a \o z
    BY Zenon
  <2>4. y \in Content /\ Len(y) = offset /\ \A k \in 1 .. offset : y[k] = IF k <= m THEN a[k] ELSE z[k - m]
    BY <1>1, <2>2, <2>3 DEF Content
  <2>5. data \in Content /\ new = y \o data
    BY <1>1, <1>2, <2>1, <2>3, DataType, Zenon DEF Expected
  <2>6. \A k \in 1 .. offset + l : k <= offset => new[k] = y[k]
    BY <1>1, <2>4, <2>5 DEF Content
  <2>7. ASSUME NEW k \in 1 .. offset + l, k <= m PROVE new[k] = old[k]
    BY <1>1, <2>4, <2>6, <2>7
  <2>8. ASSUME NEW k \in 1 .. offset + l, m < k, k <= offset PROVE new[k] = 0
    <3>1. k - m \in 1 .. offset - m /\ k \in 1 .. offset
      BY <2>8
    <3>. QED
      BY <2>2, <2>4, <2>6, <3>1
  <2>. QED
    BY <2>7, <2>8, Zenon
<1>6. PICK tail : tail = SubSeq(new, offset + 1, Len(new))
  BY Zenon
<1>7. Len(tail) = l /\ \A k \in 1 .. l : tail[k] = new[offset + k]
  <2>1. Len(tail) = l
    BY <1>3, <1>6 DEF Content
  <2>2. \A k \in 1 .. l : tail[k] = new[offset + k]
    BY <1>3, <1>6 DEF Content
  <2>. QED
    BY <2>1, <2>2, Zenon
<1>8. Server!Written(old, offset, tail) = new
  <2>1. \A k \in 1 .. offset + l :
           new[k] = IF k <= m THEN old[k] ELSE IF k <= offset THEN 0 ELSE tail[k - offset]
    <3>. SUFFICES ASSUME NEW k \in 1 .. offset + l, ~ (k <= offset)
                  PROVE  new[k] = tail[k - offset]
      BY <1>1, <1>5
    <3>1. k - offset \in 1 .. l /\ offset + (k - offset) = k
      OBVIOUS
    <3>. QED
      BY <1>7, <3>1, Zenon
  <2>2. new = [k \in 1 .. offset + l |-> new[k]]
    BY <1>3 DEF Content
  <2>. QED
    BY <1>4, <1>7, <2>1, <2>2, Zenon DEF Server!Written
<1>9. new = Server!ServerWrite(old, offset, tail).file
  BY <1>1, <1>4, <1>8, Zenon DEF Server!ServerWrite, Server!MayWrite, Server!Outcome
<1>10. offset \in 0 .. Len(new)
  BY <1>3
<1>. QED
  BY <1>2, <1>4, <1>6, <1>9, <1>10, Zenon DEF Server!Request, Server!Write

\* A new slot: the name was free, and is a directory or has the contents a.
LEMMA NewRequest ==
    ASSUME FsInv, FsInv', ~ FaultyDisk, NEW d, NEW name \in Name, NEW m \in {"dir", "file"}, NEW s,
           NewInode(d, name, m, s), NEW b, backing' = [backing EXCEPT ![NextSlot] = b],
           NEW a, acked' = [acked EXCEPT ![NextSlot] = a],
           m = "file" => Server!Request(NoFile, a), UNCHANGED program
    PROVE  Server!Next
<1>1. TypeOK /\ TableInv /\ EntriesInv /\ RootView
  BY RootViews, Zenon DEF FsInv
<1>2. PICK k \in Inode : k = NextSlot
  BY Zenon DEF NewInode
<1>3. \A e \in children : e[1] # k /\ e[3] # k
  BY <1>1, <1>2, NextFree, Zenon
<1>4. IsDir(d) /\ \A e \in children : ~ (e[1] = d /\ e[2] = name)
  BY <1>1, LookupNone, Zenon DEF NewInode, CanAdd
<1>5. PICK n : n = <<d, name, k>>
  BY Zenon
<1>6. /\ n[1] = d /\ n[2] = name /\ n[3] = k /\ children' = children \cup {n}
      /\ mode' = [mode EXCEPT ![k] = m] /\ size' = [size EXCEPT ![k] = s]
      /\ backing' = [backing EXCEPT ![k] = b] /\ acked' = [acked EXCEPT ![k] = a]
  <2>1. Cleared(k, children) = children
    BY <1>3, Zenon DEF Cleared
  <2>. QED
    BY <1>2, <1>5, <2>1, Zenon DEF NewInode
<1>7. /\ \A j \in Inode : j # k => /\ mode'[j] = mode[j] /\ size'[j] = size[j]
                                   /\ backing'[j] = backing[j]
      /\ mode'[k] = m /\ acked'[k] = a
  BY <1>1, <1>6, Zenon DEF TypeOK
<1>8. ASSUME NEW nm \in Name, ~ (d = ROOT /\ nm = name)
      PROVE  RootFile(nm)' = RootFile(nm)
  <2>1. /\ \A e \in children : e[1] = ROOT /\ e[2] = nm => e \in children' /\ e[3] # k
        /\ \A e \in children' : e[1] = ROOT /\ e[2] = nm => e \in children
    BY <1>3, <1>6, <1>8, Zenon
  <2>. QED
    BY <1>7, <2>1, RootFrame
<1>9. CASE d = ROOT
  <2>1. RootFile(name) = NoFile
    BY <1>1, <1>4, <1>9, Zenon DEF RootView
  <2>2. (FsInv => RootView)' /\ (FsInv /\ ~ FaultyDisk => FilesSeen)'
    BY RootViews, SeenFile, PTL
  <2>3. RootFile(name)' = Seen(k)'
    <3>1. n \in children' /\ n[1] = ROOT /\ n[2] = name /\ n[3] = k
      BY <1>6, <1>9, Zenon
    <3>2. RootView'
      BY <2>2, Zenon
    <3>. QED
      BY <3>1, <3>2, Zenon DEF RootView
  <2>4. CASE m = "dir"
    <3>1. RootFile(name)' = Dir
      BY <1>7, <2>3, <2>4, Zenon DEF Seen
    <3>2. Server!Request(NoFile, Dir)
      BY Zenon DEF Server!Request, Server!Mkdir
    <3>. QED
      BY <1>8, <2>1, <3>1, <3>2, AsRequest, Zenon
  <2>5. CASE m = "file"
    <3>1. RootFile(name)' = a
      BY <1>7, <2>2, <2>3, <2>5, Zenon DEF FilesSeen
    <3>. QED
      BY <1>8, <2>1, <2>5, <3>1, AsRequest, Zenon
  <2>. QED
    BY <2>4, <2>5, Zenon
<1>10. CASE d # ROOT
  BY <1>8, <1>10, AsRequest, Zenon
<1>. QED
  BY <1>9, <1>10, Zenon

\* Remove of the RPC server is a request of StorageServer.
LEMMA RemoveRequest ==
    ASSUME FsInv, FsInv', NEW d, NEW name \in Name, fused_unlink(d, name), UNCHANGED program
    PROVE  Server!Next
<1>1. PICK i : i = Lookup(d, name)
  BY Zenon
<1>2. TypeOK /\ TableInv /\ EntriesInv /\ i \in Inode /\ i # NULL
  BY <1>1, Inodes, Zenon DEF FsInv, fused_unlink
<1>3. PICK n \in children : n = <<d, name, i>> /\ ino[i] = i /\ i # ROOT
  BY <1>1, <1>2, LookupFound, Zenon
<1>4. /\ Clear(i) /\ children' = Cleared(i, children \ {n})
      /\ backing' = [backing EXCEPT ![i] = NoFile]
  BY <1>1, <1>3, Zenon DEF fused_unlink
<1>5. \A j \in Inode : j # i => /\ mode'[j] = mode[j] /\ size'[j] = size[j]
                                /\ backing'[j] = backing[j]
  BY <1>2, <1>4, Zenon DEF TypeOK, Clear
<1>6. /\ children' = {e \in children : e # n /\ e[1] # i}
      /\ n[1] = d /\ n[2] = name /\ n[3] = i
      /\ \A e \in children : e # n => e[3] # i /\ ~ (e[1] = d /\ e[2] = name)
  BY <1>2, <1>3, <1>4, Zenon DEF Cleared, EntriesInv
<1>7. ASSUME NEW nm \in Name, ~ (d = ROOT /\ nm = name)
      PROVE  RootFile(nm)' = RootFile(nm)
  <2>1. /\ \A e \in children : e[1] = ROOT /\ e[2] = nm => e \in children' /\ e[3] # i
        /\ \A e \in children' : e[1] = ROOT /\ e[2] = nm => e \in children
    <3>1. \A e \in children : e[1] = ROOT /\ e[2] = nm => e # n
      BY <1>6, <1>7, Zenon
    <3>2. \A e \in children : e[1] = ROOT /\ e[2] = nm => e[3] # i /\ e[1] # i
      BY <1>3, <1>6, <3>1, Zenon
    <3>. QED
      BY <1>6, <3>1, <3>2, Zenon
  <2>2. /\ \A e \in children : e[1] = ROOT /\ e[2] = nm => e \in children' /\ e[3] # i
        /\ \A e \in children' : e[1] = ROOT /\ e[2] = nm => e \in children
        /\ \A j \in Inode : j # i => /\ mode'[j] = mode[j] /\ size'[j] = size[j]
                                     /\ backing'[j] = backing[j]
    BY <1>5, <2>1, Zenon
  <2>. QED
    BY <2>2, RootFrame
<1>8. CASE d = ROOT
  <2>1. RootView'
    <3>1. (FsInv => RootView)'
      BY RootViews, PTL
    <3>. QED
      BY <3>1, Zenon
  <2>2. RootFile(name)' = NoFile
    BY <1>6, <1>8, <2>1, Zenon DEF RootView
  <2>3. Server!Request(RootFile(name), NoFile)
    BY Zenon DEF Server!Request, Server!Remove, Server!handle_delete, Server!Outcome
  <2>. QED
    BY <1>7, <2>2, <2>3, AsRequest, Zenon
<1>9. CASE d # ROOT
  BY <1>7, <1>9, AsRequest, Zenon
<1>. QED
  BY <1>8, <1>9, Zenon

\* Write on a file that is there is a request of StorageServer.
LEMMA FusedWriteRequest ==
    ASSUME FsInv, FsInv', ~ FaultyDisk, NEW d, NEW name \in Name, NEW offset \in Nat,
           NEW data \in Data, fused_write(Lookup(d, name), offset, data), UNCHANGED program
    PROVE  Server!Next
<1>1. PICK i : i = Lookup(d, name)
  BY Zenon
<1>2. TypeOK /\ TableInv /\ EntriesInv /\ i # NULL /\ RootView
  <2>1. i \in 1 .. n_inodes
    BY <1>1, Zenon DEF fused_write
  <2>2. i # NULL
    BY <2>1 DEF NULL
  <2>. QED
    BY <2>2, RootViews, Zenon DEF FsInv
<1>3. PICK n \in children : n = <<d, name, i>> /\ i \in Inode
  BY <1>1, <1>2, LookupFound, Zenon
<1>4. PICK a \in Content : a = acked[i]
  BY <1>2, <1>3, Zenon DEF TypeOK
<1>5. /\ UNCHANGED <<mode, children>> /\ offset >= size[i]
      /\ \E b : backing' = [backing EXCEPT ![i] = b]
      /\ \/ /\ acked' = [acked EXCEPT ![i] = Expected(a, offset, data)]
            /\ \E s : size' = [size EXCEPT ![i] = s]
         \/ UNCHANGED <<acked, size>>
  BY <1>1, <1>4, Zenon DEF fused_write
<1>6. \A j \in Inode : j # i => /\ mode'[j] = mode[j] /\ size'[j] = size[j]
                                /\ backing'[j] = backing[j]
  BY <1>2, <1>3, <1>5, Zenon DEF TypeOK
<1>7. /\ n[1] = d /\ n[2] = name /\ n[3] = i
      /\ \A e \in children : e # n => e[3] # i /\ ~ (e[1] = d /\ e[2] = name)
  BY <1>2, <1>3, Zenon DEF EntriesInv
<1>8. ASSUME NEW nm \in Name, ~ (d = ROOT /\ nm = name)
      PROVE  RootFile(nm)' = RootFile(nm)
  <2>1. /\ \A e \in children : e[1] = ROOT /\ e[2] = nm => e \in children' /\ e[3] # i
        /\ \A e \in children' : e[1] = ROOT /\ e[2] = nm => e \in children
    BY <1>5, <1>7, <1>8, Zenon
  <2>. QED
    BY <1>6, <2>1, RootFrame
<1>9. CASE d = ROOT
  <2>1. (FsInv => RootView)' /\ (FsInv /\ ~ FaultyDisk => FilesSeen)'
    BY RootViews, SeenFile, PTL
  <2>2. RootFile(name) = Seen(i)
    BY <1>2, <1>7, <1>9, Zenon DEF RootView
  <2>3. RootFile(name)' = Seen(i)'
    <3>1. RootView' /\ n \in children'
      BY <1>5, <2>1, Zenon
    <3>. QED
      BY <1>7, <1>9, <3>1, Zenon DEF RootView
  <2>4. CASE mode[i] = "dir"
    <3>1. RootFile(name)' = RootFile(name)
      BY <1>5, <2>2, <2>3, <2>4, Zenon DEF Seen
    <3>. QED
      BY <1>8, <3>1, AsRequest, Zenon
  <2>5. CASE mode[i] # "dir"
    <3>1. mode[i] = "file" /\ mode'[i] = "file"
      BY <1>2, <1>3, <1>5, <2>5, Zenon DEF EntriesInv, TableInv, TypeOK, Allocated
    <3>2. RootFile(name) = a /\ RootFile(name)' = acked'[i]
      BY <1>3, <1>4, <2>1, <2>2, <2>3, <3>1, SeenFile, Zenon DEF FilesSeen
    <3>3. offset >= Len(a)
      BY <1>3, <1>4, <1>5, <3>1, Zenon DEF FsInv, FilesInv, IsFile
    <3>4. acked'[i] = a \/ acked'[i] = Expected(a, offset, data)
      BY <1>2, <1>3, <1>4, <1>5, Zenon DEF TypeOK
    <3>5. Server!Request(a, Expected(a, offset, data))
      BY <3>3, WriteRequest, Zenon
    <3>. QED
      BY <1>8, <3>2, <3>4, <3>5, AsRequest, Zenon
  <2>. QED
    BY <2>4, <2>5, Zenon
<1>10. CASE d # ROOT
  BY <1>8, <1>10, AsRequest, Zenon
<1>. QED
  BY <1>9, <1>10, Zenon

\* Write on a name that is not there is a request of StorageServer.
LEMMA CreateAndWriteRequest ==
    ASSUME FsInv, FsInv', ~ FaultyDisk, NEW d, NEW name \in Name, NEW offset \in Nat,
           NEW data \in Data, CreateAndWrite(d, name, offset, data), UNCHANGED program
    PROVE  Server!Next
<1>1. Server!Request(NoFile, Expected(<<>>, offset, data))
  <2>1. <<>> \in Content /\ Len(<<>>) = 0 /\ offset >= 0
    BY DEF Content
  <2>. QED
    BY <2>1, WriteRequest, Zenon
<1>2. Server!Request(NoFile, <<>>)
  BY Zenon DEF Server!Request, Server!CreateOnly, Server!ServerWriteFails, Server!File
<1>. QED
  BY <1>1, <1>2, NewRequest, Zenon DEF CreateAndWrite

\* Create is a request of StorageServer, or changes nothing it shows.
LEMMA CreateRequest ==
    ASSUME FsInv, FsInv', ~ FaultyDisk, NEW d, NEW name \in Name,
           fused_create(d, name) \/ fused_mkdir(d, name), UNCHANGED program
    PROVE  Server!Next
<1>1. CASE fused_create(d, name)
  <2>1. Server!Request(NoFile, <<>>)
    BY Zenon DEF Server!Request, Server!CreateOnly, Server!ServerWriteFails, Server!File
  <2>. QED
    BY <1>1, <2>1, NewRequest, Zenon DEF fused_create
<1>2. CASE fused_mkdir(d, name)
  <2>1. NextSlot \in Inode /\ TypeOK
    BY <1>2, Zenon DEF fused_mkdir, NewInode, FsInv
  <2>2. /\ backing' = [backing EXCEPT ![NextSlot] = backing[NextSlot]]
        /\ acked' = [acked EXCEPT ![NextSlot] = acked[NextSlot]]
    BY <1>2, <2>1, Zenon DEF fused_mkdir, TypeOK
  <2>. QED
    BY <1>2, <2>2, NewRequest, Zenon DEF fused_mkdir
<1>. QED
  BY <1>1, <1>2, Zenon

\* A step that changes no file of the root directory is one of the server's.
LEMMA NoRequest ==
    ASSUME UNCHANGED program, \A name \in Name : RootFile(name)' = RootFile(name)
    PROVE  Server!Next
<1>1. CASE Name = {}
  BY <1>1, Zenon DEF Server!Next, Server!Restart
<1>2. CASE Name # {}
  BY <1>2, AsRequest, Zenon
<1>. QED
  BY <1>1, <1>2, Zenon

\* A crash and restart of the server is the loss of all files in StorageServer.
LEMMA CrashRequest ==
    ASSUME FsInv', children' = {}, UNCHANGED program
    PROVE  Server!Next
<1>1. RootView'
  <2>1. (FsInv => RootView)'
    BY RootViews, PTL
  <2>. QED
    BY <2>1, Zenon
<1>2. \A nm \in Name : RootFile(nm)' = NoFile
  BY <1>1, Zenon DEF RootView
<1>. QED
  BY <1>2, Zenon DEF Server!Next, Server!Restart
-----------------------------------------------------------------------------
(***************************************************************************)
(* What path_to_inode can reach                                            *)
(***************************************************************************)
WF == INSTANCE WellFoundedInduction

\* A set of numbers has a least one.
LEMMA Minimum ==
    ASSUME NEW T, T \subseteq Nat, T # {}
    PROVE  \E x \in T : \A y \in T : x <= y
<1>1. PICK x \in T : \A y \in T : ~ (<<y, x>> \in WF!OpToRel(<, Nat))
  BY WF!NatLessThanWellFounded, WF!WFMin, Zenon
<1>2. \A y \in T : ~ (y < x)
  BY <1>1, Zenon DEF WF!OpToRel
<1>. QED
  BY <1>2

\* A set of numbers that contains 0, and n + 1 with each n below m, contains all
\* numbers up to m.
LEMMA UpTo ==
    ASSUME NEW m \in Nat, NEW T, 0 \in T, \A n \in 0 .. m - 1 : n \in T => n + 1 \in T
    PROVE  0 .. m \subseteq T
<1>. DEFINE out == {n \in 0 .. m : n \notin T}
<1>1. CASE out # {}
  <2>1. out \subseteq Nat
    OBVIOUS
  <2>2. PICK n \in out : \A k \in out : n <= k
    BY <1>1, <2>1, Minimum, Zenon
  <2>3. n \in 0 .. m /\ n \notin T /\ n # 0
    BY <2>2, Zenon
  <2>4. n - 1 \in 0 .. m - 1 /\ n - 1 \notin out
    BY <2>2, <2>3
  <2>5. n - 1 \in T
    BY <2>3, <2>4
  <2>. QED
    BY <2>3, <2>4, <2>5
<1>. QED
  BY <1>1, Zenon

Finite == INSTANCE FiniteSetTheorems

\* The library's notions are those of the model.
LEMMA SameNotions ==
    ASSUME NEW S
    PROVE  /\ Finite!IsFiniteSet(S) <=> IsFiniteSet(S)
           /\ Finite!Cardinality(S) = Cardinality(S)
<1>1. Finite!IsFiniteSet(S) <=> IsFiniteSet(S)
  BY Zenon DEF Finite!IsFiniteSet, IsFiniteSet
<1>2. Finite!Cardinality(S) = Cardinality(S)
  BY Zenon DEF Finite!Cardinality, Cardinality
<1>. QED
  BY <1>1, <1>2, Zenon

\* One component further
Beyond(A) == A \cup {Lookup(e[1], e[2]) : e \in {f \in children : f[1] \in A}}

\* f[k] are the slots at the end of paths with up to k components.
LEMMA ReachExists ==
    ASSUME NEW r
    PROVE  \E f : f = [k \in 0 .. MAX_INODES |-> IF k = 0 THEN {r} ELSE Beyond(f[k - 1])]
<1>. DEFINE Part(f, n) == f = [k \in 0 .. n |-> IF k = 0 THEN {r} ELSE Beyond(f[k - 1])]
            T == {n \in Nat : \E f : Part(f, n)}
            m == MAX_INODES
<1>1. m \in Nat
  BY FsAssumption, Zenon
<1>2. 0 \in T
  <2>1. Part([k \in 0 .. 0 |-> {r}], 0)
    OBVIOUS
  <2>. HIDE DEF Part
  <2>. QED
    BY <2>1, Zenon
<1>3. ASSUME NEW n \in 0 .. m - 1, n \in T
      PROVE  n + 1 \in T
  <2>1. PICK f : Part(f, n)
    BY <1>3, Zenon
  <2>. DEFINE g == [k \in 0 .. n + 1 |-> IF k = n + 1 THEN Beyond(f[n]) ELSE f[k]]
  <2>2. n \in Nat /\ n + 1 \in Nat
    BY <1>1
  <2>3. ASSUME NEW k \in 0 .. n + 1
        PROVE  g[k] = IF k = 0 THEN {r} ELSE Beyond(g[k - 1])
    <3>1. CASE k = n + 1
      BY <2>2, <3>1
    <3>2. CASE k # n + 1
      <4>1. k \in 0 .. n /\ g[k] = f[k] /\ (k # 0 => k - 1 \in 0 .. n /\ g[k - 1] = f[k - 1])
        BY <2>2, <3>2
      <4>. HIDE DEF g
      <4>. QED
        BY <2>1, <4>1, Zenon
    <3>. QED
      BY <3>1, <3>2, Zenon
  <2>4. g = [k \in 0 .. n + 1 |-> g[k]]
    BY Zenon
  <2>. HIDE DEF g
  <2>5. Part(g, n + 1)
    BY <2>3, <2>4, Zenon
  <2>. HIDE DEF Part
  <2>. QED
    BY <2>2, <2>5, Zenon
<1>. HIDE DEF T, m
<1>4. 0 .. m \subseteq T
  BY <1>1, <1>2, <1>3, UpTo, Zenon
<1>5. m \in T
  BY <1>1, <1>4
<1>. QED
  BY <1>5, Zenon DEF T, m

\* The recursive function behind ReachedFrom exists and obeys its equations.
LEMMA ReachedBy ==
    ASSUME NEW r
    PROVE  \E f : /\ ReachedFrom(r) = f[MAX_INODES] /\ f[0] = {r}
                  /\ \A k \in 0 .. MAX_INODES - 1 : f[k + 1] = Beyond(f[k])
<1>. DEFINE F(g) == [k \in 0 .. MAX_INODES |-> IF k = 0 THEN {r} ELSE Beyond(g[k - 1])]
            reach == CHOOSE g : g = F(g)
<1>1. PICK f : f = F(f)
  BY ReachExists, Zenon
<1>2. reach = F(reach)
  <2>. HIDE DEF F
  <2>. QED
    BY <1>1, Zenon
<1>3. ReachedFrom(r) = reach[MAX_INODES]
  BY Zenon DEF ReachedFrom, Beyond
<1>. HIDE DEF reach
<1>4. MAX_INODES \in Nat
  BY FsAssumption, Zenon
<1>5. reach[0] = {r}
  BY <1>2, <1>4
<1>6. ASSUME NEW k \in 0 .. MAX_INODES - 1
      PROVE  reach[k + 1] = Beyond(reach[k])
  <2>1. k + 1 \in 0 .. MAX_INODES /\ k + 1 # 0 /\ (k + 1) - 1 = k
    BY <1>4
  <2>. QED
    BY <1>2, <2>1, Zenon
<1>. QED
  BY <1>3, <1>5, <1>6, Zenon

\* A path has no need of more components than there are slots, so that ReachedFrom
\* is all that can be reached.
LEMMA ReachClosed ==
    ASSUME TypeOK, TableInv, EntriesInv, NEW r \in Inode
    PROVE  r \in ReachedFrom(r) /\ ReachedFrom(r) \subseteq Inode /\ Closed(ReachedFrom(r))
<1>1. PICK f : /\ ReachedFrom(r) = f[MAX_INODES] /\ f[0] = {r}
               /\ \A k \in 0 .. MAX_INODES - 1 : f[k + 1] = Beyond(f[k])
  BY ReachedBy, Zenon
<1>. DEFINE m == MAX_INODES
            Good(A, k) == /\ r \in A /\ A \subseteq Inode
                          /\ Closed(A) \/ Cardinality(A) >= k + 1
            T == {k \in Nat : Good(f[k], k)}
<1>2. m \in Nat
  BY FsAssumption, Zenon
<1>3. IsFiniteSet(Inode) /\ Cardinality(Inode) = m
  <2>1. 1 \in Int /\ m \in Int /\ (IF 1 > m THEN 0 ELSE m - 1 + 1) = m
    BY <1>2
  <2>. QED
    BY <2>1, SameNotions, Finite!FS_Interval, Zenon DEF Inode
<1>4. ASSUME NEW A \in SUBSET Inode
      PROVE  IsFiniteSet(A) /\ Cardinality(A) \in Nat
  BY <1>3, SameNotions, Finite!FS_Subset, Finite!FS_CardinalityType
<1>5. ASSUME NEW A \in SUBSET Inode
      PROVE  Beyond(A) = A \cup {e[3] : e \in {g \in children : g[1] \in A}}
  <2>1. \A e \in children : Lookup(e[1], e[2]) = e[3]
    BY LookupEntry, Zenon
  <2>. QED
    BY <2>1, Zenon DEF Beyond
<1>6. 0 \in T
  <2>1. Cardinality({r}) = 1
    BY SameNotions, Finite!FS_Singleton, Zenon
  <2>. QED
    BY <1>1, <2>1
<1>7. ASSUME NEW n \in 0 .. m - 1, n \in T
      PROVE  n + 1 \in T
  <2>. PICK A \in SUBSET Inode : A = f[n]
    BY <1>7, Zenon
  <2>1. PICK B : B = Beyond(A)
    BY Zenon
  <2>2. n + 1 \in Nat /\ B = f[n + 1]
    BY <1>1, <2>1, <1>2
  <2>3. B = A \cup {e[3] : e \in {g \in children : g[1] \in A}}
    BY <1>5, <2>1, Zenon
  <2>4. r \in B /\ A \subseteq B /\ B \in SUBSET Inode
    BY <1>7, <2>3, Zenon DEF EntriesInv
  <2>5. CASE B = A
    <3>1. Closed(A)
      BY <2>3, <2>5, Zenon DEF Closed
    <3>. QED
      BY <2>2, <2>4, <2>5, <3>1, Zenon
  <2>6. CASE B # A
    <3>1. ~ Closed(A)
      BY <2>3, <2>6, Zenon DEF Closed
    <3>2. Cardinality(A) >= n + 1
      BY <1>7, <3>1, Zenon
    <3>3. Cardinality(A) <= Cardinality(B) /\ Cardinality(A) # Cardinality(B)
      BY <1>4, <2>4, <2>6, SameNotions, Finite!FS_Subset
    <3>4. Cardinality(B) >= (n + 1) + 1
      BY <1>4, <2>2, <2>4, <3>2, <3>3
    <3>. QED
      BY <2>2, <2>4, <3>4, Zenon
  <2>. QED
    BY <2>5, <2>6, Zenon
<1>. HIDE DEF T
<1>8. m \in T
  <2>. HIDE DEF m
  <2>1. 0 .. m \subseteq T
    BY <1>2, <1>6, <1>7, UpTo, Zenon
  <2>. QED
    BY <1>2, <2>1
<1>9. Good(f[m], m)
  BY <1>8, Zenon DEF T
<1>10. PICK A \in SUBSET Inode : A = f[m] /\ r \in A /\ (Closed(A) \/ Cardinality(A) >= m + 1)
  BY <1>9, Zenon
<1>11. Cardinality(A) <= m
  BY <1>3, SameNotions, Finite!FS_Subset, Zenon
<1>. QED
  BY <1>1, <1>2, <1>4, <1>10, <1>11

\* path_to_inode begins at the root.
LEMMA FromRoot ==
    ASSUME FsInv
    PROVE  lookup_inode(ROOT) = ROOT /\ Resolved \subseteq {NULL} \cup Inode
<1>1. Allocated(ROOT)
  BY Inodes, Zenon DEF FsInv, TableInv, Allocated
<1>2. lookup_inode(ROOT) = ROOT
  BY <1>1, Inodes, LookupInode, Zenon DEF FsInv
<1>. QED
  BY <1>2, Inodes, ReachClosed, Zenon DEF FsInv, Resolved
-----------------------------------------------------------------------------
(***************************************************************************)
(* The invariant                                                           *)
(***************************************************************************)
LEMMA InitInv == Init => FsInv
<1>. SUFFICES ASSUME Init PROVE FsInv
  BY Zenon
<1>1. TypeOK
  BY FsAssumption, Inodes DEF Init, TypeOK, Inode, ROOT, Content
<1>2. TableInv
  BY FsAssumption, Inodes DEF Init, TableInv, Inode, ROOT
<1>3. EntriesInv
  BY Zenon DEF Init, EntriesInv
<1>4. FilesInv
  BY Zenon DEF Init, FilesInv, IsFile
<1>5. TreeInv
  BY Zenon DEF Init, TreeInv, Allocated
<1>. QED
  BY <1>1, <1>2, <1>3, <1>4, <1>5, Zenon DEF FsInv

\* A refusal, or no step
LEMMA SameStep ==
    ASSUME FsInv, UNCHANGED <<table, backing, acked, program>>, rc' \in {"OK", "FAIL"}
    PROVE  FsInv'
<1>1. TypeOK'
  BY Zenon DEF FsInv, TypeOK, table
<1>2. TableInv' /\ EntriesInv' /\ TreeInv'
  BY Zenon DEF FsInv, TableInv, EntriesInv, TreeInv, IsDir, Allocated, Closed, table
<1>3. FilesInv'
  BY Zenon DEF FsInv, FilesInv, IsFile, table
<1>. QED
  BY <1>1, <1>2, <1>3, Zenon DEF FsInv

\* The mount is taken down and put up again.
LEMMA RemountStep ==
    ASSUME FsInv, Remount, UNCHANGED program
    PROVE  FsInv'
<1>1. PICK files : files = [i \in Inode |-> IF i <= n_inodes /\ Allocated(i) THEN NoFile
                                                                         ELSE backing[i]]
  BY Zenon
<1>2. files \in [Inode -> Content \cup {NoFile}]
  BY <1>1, Zenon DEF FsInv, TypeOK
<1>. QED
  BY <1>1, <1>2, RestartStep, Zenon DEF Remount, FsInv, TypeOK

\* A call of the kernel, and the end of the mount, orderly or not, keep the
\* invariant.
LEMMA FuseStep ==
    ASSUME FsInv, program = "fuse", FuseNext, UNCHANGED program
    PROVE  FsInv'
<1>0. CASE Crash
  BY <1>0, RestartStep, Zenon DEF Crash, FsInv, TypeOK
<1>1. CASE Remount
  BY <1>1, RemountStep, Zenon
<1>2. CASE Refuse
  BY <1>2, SameStep, Zenon DEF Refuse
<1>3. ASSUME NEW d, NEW name \in Name, \/ fused_create(d, name) \/ Rollback(d, name)
                                       \/ fused_mkdir(d, name) \/ MkdirRollback(d, name)
                                       \/ fused_rmdir(d, name)
                                       \/ IsFile(Lookup(d, name)) /\ fused_unlink(d, name)
      PROVE  FsInv'
  BY <1>3, CreateStep, RollbackStep, MkdirStep, RmdirStep, UnlinkStep, Zenon DEF MkdirRollback
<1>4. ASSUME NEW d, NEW name \in Name, NEW d2, d2 \notin ReachedFrom(Lookup(d, name)),
             NEW name2 \in Name, fused_rename(d, name, d2, name2)
      PROVE  FsInv'
  <2>1. Lookup(d, name) \in Inode
    BY <1>4, Zenon DEF fused_rename
  <2>2. /\ Lookup(d, name) \in ReachedFrom(Lookup(d, name))
        /\ Closed(ReachedFrom(Lookup(d, name)))
    BY <2>1, ReachClosed, Zenon DEF FsInv
  <2>. QED
    BY <1>4, <2>2, RenameStep, Zenon
<1>5. ASSUME NEW i, NEW offset \in 0 .. MaxSize, NEW data \in Data, IsFile(i),
             fused_write(i, offset, data)
      PROVE  FsInv'
  <2>1. i \in Inode /\ Allocated(i) /\ offset \in Nat
    BY <1>5, FsAssumption DEF FsInv, TableInv, IsFile, Allocated
  <2>. QED
    BY <1>5, <2>1, FusedWriteStep, Zenon
<1>. QED
  BY <1>0, <1>1, <1>2, <1>3, <1>4, <1>5, Zenon DEF FuseNext

\* A request of the RPC server, or its crash, keeps the invariant.
LEMMA RpcStep ==
    ASSUME FsInv, program = "rpc", RpcNext, UNCHANGED program
    PROVE  FsInv'
<1>1. CASE Crash
  BY <1>1, RestartStep, Zenon DEF Crash, FsInv, TypeOK
<1>2. CASE Refuse
  BY <1>2, SameStep, Zenon DEF Refuse
<1>3. ASSUME NEW d, NEW name \in Name, Create(d, name) \/ Mkdir(d, name)
      PROVE  FsInv'
  BY <1>3, CreateStep, RollbackStep, MkdirStep, Zenon DEF Create, Mkdir, MkdirRollback
<1>4. ASSUME NEW d, NEW name \in Name, Remove(d, name)
      PROVE  FsInv'
  BY <1>4, UnlinkStep, Zenon DEF Remove
<1>5. ASSUME NEW d, NEW name \in Name, NEW offset \in 0 .. MaxSize, NEW data \in Data,
             fused_write(Lookup(d, name), offset, data)
      PROVE  FsInv'
  <2>1. PICK i : i = Lookup(d, name)
    BY Zenon
  <2>2. i \in 1 .. n_inodes /\ offset \in Nat
    BY <1>5, <2>1, FsAssumption DEF fused_write
  <2>3. i # NULL
    BY <2>2 DEF NULL
  <2>4. i \in Inode /\ Allocated(i)
    BY <2>1, <2>3, LookupFound, Zenon DEF FsInv
  <2>5. fused_write(i, offset, data)
    BY <1>5, <2>1, Zenon
  <2>. QED
    BY <2>2, <2>4, <2>5, FusedWriteStep, Zenon
<1>6. ASSUME NEW d, NEW name \in Name, NEW offset \in 0 .. MaxSize, NEW data \in Data,
             CreateAndWrite(d, name, offset, data)
      PROVE  FsInv'
  <2>1. offset \in Nat
    BY FsAssumption
  <2>. QED
    BY <1>6, <2>1, CreateAndWriteStep, Zenon
<1>. QED
  BY <1>1, <1>2, <1>3, <1>4, <1>5, <1>6, RollbackStep, Zenon DEF RpcNext, Write

\* The file system keeps its invariant under each of the programs that link it: the
\* inode table, the directory entries and the backing files fit together whatever
\* is created, written, renamed and removed, and after each restart.
THEOREM FsInvariance == Spec => []FsInv
<1>1. FsInv /\ [Next]_vars => FsInv'
  <2>. SUFFICES ASSUME FsInv, [Next]_vars PROVE FsInv'
    BY Zenon
  <2>1. CASE UNCHANGED vars
    BY <2>1, SameStep, Zenon DEF vars, FsInv, TypeOK
  <2>2. CASE Next
    BY <2>2, FuseStep, RpcStep, Zenon DEF Next
  <2>. QED
    BY <2>1, <2>2, Zenon
<1>. QED
  BY <1>1, InitInv, PTL DEF Spec

\* n_inodes never leaves the table, as alloc_inode extends it, free_inode shrinks it
\* and a restart resets it.
THEOREM FsTyped == Spec => []TypeOK
<1>1. FsInv => TypeOK
  BY Zenon DEF FsInv
<1>. QED
  BY <1>1, FsInvariance, PTL

\* An entry leads from a directory in use to an inode in use that lookup_inode finds,
\* and dir_add_entry takes no name twice.
THEOREM EntriesHold == Spec => []EntriesSound
<1>1. FsInv => EntriesSound
  <2>. SUFFICES ASSUME FsInv PROVE EntriesSound
    BY Zenon
  <2>1. TypeOK /\ TableInv /\ EntriesInv
    BY Zenon DEF FsInv
  <2>2. ASSUME NEW e \in children
        PROVE  /\ e[1] \in 1 .. n_inodes /\ IsDir(e[1])
               /\ e[3] \in 1 .. n_inodes /\ lookup_inode(e[3]) = e[3]
    <3>1. IsDir(e[1]) /\ e[1] \in Inode /\ e[3] \in Inode /\ Allocated(e[3])
      BY <2>1, Zenon DEF EntriesInv, IsDir
    <3>2. Allocated(e[1])
      BY <2>1, <3>1, Zenon DEF TableInv, IsDir, Allocated
    <3>. QED
      BY <2>1, <3>1, <3>2, LookupInode, Zenon
  <2>. QED
    BY <2>1, <2>2, Zenon DEF EntriesSound, EntriesInv
<1>. QED
  BY <1>1, FsInvariance, PTL

\* No inode has two names and none leads to the root, though free_inode gives numbers
\* out again and fused_rename adds the new entry before it removes the old one.
THEOREM NamesHold == Spec => []OneName
<1>1. FsInv => OneName
  BY Zenon DEF FsInv, EntriesInv, OneName
<1>. QED
  BY <1>1, FsInvariance, PTL

\* Under a mount path_to_inode reaches every inode in use: fused_rename cuts no
\* directory off from the root, and fused_rmdir and fused_unlink none of its files.
THEOREM MountHolds == Spec => []MountReachable
<1>1. FsInv => MountReachable
  <2>. SUFFICES ASSUME FsInv, program = "fuse" PROVE AllReachable
    BY Zenon DEF MountReachable
  <2>1. /\ ROOT \in ReachedFrom(ROOT) /\ ReachedFrom(ROOT) \in SUBSET Inode
        /\ Closed(ReachedFrom(ROOT))
    BY Inodes, ReachClosed, Zenon DEF FsInv
  <2>. QED
    BY <2>1, Zenon DEF FsInv, TreeInv, AllReachable
<1>. QED
  BY <1>1, FsInvariance, PTL

\* On a disk that stores what it is given, fused_read finds what fused_write reported
\* as written, and nothing of a file that had the slot before.
THEOREM FilesReadBack == ASSUME ~ FaultyDisk PROVE Spec => []ReadBack
<1>1. FsInv => ReadBack
  <2>. SUFFICES ASSUME FsInv, NEW i \in Inode, IsFile(i)
                PROVE  /\ size[i] = Len(acked[i])
                       /\ backing[i] # NoFile
                       /\ size[i] <= Len(backing[i])
                       /\ SubSeq(backing[i], 1, size[i]) = acked[i]
    BY Zenon DEF ReadBack
  <2>1. PICK a \in Content : a = acked[i]
    BY Zenon DEF FsInv, TypeOK
  <2>2. backing[i] = a /\ size[i] = Len(a)
    BY <2>1, Zenon DEF FsInv, FilesInv
  <2>3. a # NoFile /\ Len(a) <= Len(a) /\ SubSeq(a, 1, Len(a)) = a
    BY FsAssumption DEF Content
  <2>. QED
    BY <2>1, <2>2, <2>3, Zenon
<1>. QED
  BY <1>1, FsInvariance, PTL

\* Under a mount an operation that returns an error has changed nothing in the table:
\* what alloc_inode took, free_inode has given back.
THEOREM FailuresHold == Spec => FailuresLeaveNoTrace
<1>1. FsInv /\ [Next]_vars =>
        [program = "fuse" /\ rc' = "FAIL" => UNCHANGED table]_vars
  <2>. SUFFICES ASSUME FsInv, Next, program = "fuse", rc' = "FAIL"
                PROVE  UNCHANGED table
    BY Zenon
  <2>1. FuseNext
    BY Zenon DEF Next
  <2>2. CASE Remount \/ Crash \/ Refuse
    BY <2>2, Zenon DEF Remount, Crash, Restarted, Refuse
  <2>3. ASSUME NEW d, NEW name, Rollback(d, name) \/ MkdirRollback(d, name)
        PROVE  UNCHANGED table
    BY <2>3, RollbackSame, Zenon DEF MkdirRollback
  <2>4. ASSUME NEW d, NEW name, \/ fused_create(d, name) \/ fused_mkdir(d, name)
                                \/ fused_rmdir(d, name) \/ fused_unlink(d, name)
        PROVE  FALSE
    BY <2>4, Zenon DEF fused_create, fused_mkdir, fused_rmdir, fused_unlink
  <2>5. ASSUME NEW d, NEW name, NEW d2, NEW name2, fused_rename(d, name, d2, name2)
        PROVE  FALSE
    BY <2>5, Zenon DEF fused_rename
  <2>6. ASSUME NEW i, NEW offset, NEW data, fused_write(i, offset, data)
        PROVE  UNCHANGED table
    BY <2>6, Zenon DEF fused_write, table
  <2>. QED
    BY <2>1, <2>2, <2>3, <2>4, <2>5, <2>6, Zenon DEF FuseNext
<1>. QED
  BY <1>1, FsInvariance, PTL DEF Spec, FailuresLeaveNoTrace

\* A new slot has a backing file of its own or the one that was there.
LEMMA NewLeaks ==
    ASSUME FsInv, NEW d, NEW name,
           \/ fused_create(d, name)
           \/ fused_mkdir(d, name)
    PROVE  Leaked' \subseteq Leaked
<1>1. TypeOK /\ TableInv /\ EntriesInv /\ NextSlot \in Inode
  BY Zenon DEF FsInv, fused_create, fused_mkdir, NewInode
<1>2. mode[NextSlot] = "none"
  BY <1>1, NextFree, Zenon
<1>3. \/ /\ mode' = [mode EXCEPT ![NextSlot] = "file"]
         /\ backing' = [backing EXCEPT ![NextSlot] = <<>>]
      \/ mode' = [mode EXCEPT ![NextSlot] = "dir"] /\ backing' = backing
  BY Zenon DEF fused_create, fused_mkdir, NewInode
<1>. QED
  BY <1>1, <1>2, <1>3, Zenon DEF TypeOK, Leaked, IsFile

\* The slot of a file that is unlinked, or of a directory that is removed, keeps no
\* backing file that it should not have had.
LEMMA FreeLeaks ==
    ASSUME FsInv, NEW d, NEW name,
           \/ fused_unlink(d, name)
           \/ fused_rmdir(d, name)
    PROVE  Leaked' \subseteq Leaked
<1>1. PICK i : i = Lookup(d, name)
  BY Zenon
<1>2. TypeOK /\ i \in Inode /\ mode' = [mode EXCEPT ![i] = "none"]
  BY <1>1, Zenon DEF FsInv, fused_unlink, fused_rmdir, Clear, IsDir
<1>3. \/ backing' = [backing EXCEPT ![i] = NoFile]
      \/ mode[i] = "dir" /\ backing' = backing
  BY <1>1, Zenon DEF fused_unlink, fused_rmdir, IsDir
<1>4. \A j \in Inode : j # i => mode'[j] = mode[j]
  BY <1>2, Zenon DEF TypeOK
<1>5. "dir" # "file"
  OBVIOUS
<1>. QED
  BY <1>2, <1>3, <1>4, <1>5, Zenon DEF TypeOK, Leaked, IsFile

\* Under a mount fused_unlink, a creation that fails and fused_destroy leave no
\* backing file behind; only a mount that is killed does.
THEOREM LeaksByCrash == Spec => OnlyCrashesLeak
<1>1. FsInv /\ [Next]_vars =>
        [program = "fuse" /\ ~ Crash => Leaked' \subseteq Leaked]_vars
  <2>. SUFFICES ASSUME FsInv, Next, program = "fuse", ~ Crash
                PROVE  Leaked' \subseteq Leaked
    BY Zenon
  <2>1. FuseNext
    BY Zenon DEF Next
  <2>2. CASE Remount
    <3>1. \A i \in Inode : ~ (i <= n_inodes /\ Allocated(i)) => mode[i] = "none"
      BY Inodes DEF FsInv, TypeOK, TableInv, Allocated
    <3>2. \A i \in Inode : backing'[i] = IF i <= n_inodes /\ Allocated(i) THEN NoFile
                                                                        ELSE backing[i]
      BY <2>2, Zenon DEF Remount, Restarted
    <3>. QED
      BY <3>1, <3>2 DEF Leaked, IsFile
  <2>3. CASE Refuse
    BY <2>3, Zenon DEF Refuse, table, Leaked, IsFile
  <2>4. ASSUME NEW d, NEW name, Rollback(d, name)
        PROVE  Leaked' \subseteq Leaked
    <3>1. UNCHANGED table /\ NextSlot \in Inode
      BY <2>4, RollbackSame, Zenon
    <3>2. backing' = [backing EXCEPT ![NextSlot] = NoFile] /\ mode' = mode
      BY <2>4, <3>1, Zenon DEF Rollback, table
    <3>. QED
      BY <3>1, <3>2, Zenon DEF FsInv, TypeOK, Leaked, IsFile
  <2>5. ASSUME NEW d, NEW name, NEW d2, NEW name2, fused_rename(d, name, d2, name2)
        PROVE  Leaked' \subseteq Leaked
    BY <2>5, Zenon DEF fused_rename, Leaked, IsFile
  <2>6. ASSUME NEW i, NEW offset, NEW data, IsFile(i), fused_write(i, offset, data)
        PROVE  Leaked' \subseteq Leaked
    <3>1. PICK b : backing' = [backing EXCEPT ![i] = b] /\ mode' = mode
      BY <2>6, Zenon DEF fused_write
    <3>. QED
      BY <2>6, <3>1, Zenon DEF FsInv, TypeOK, Leaked, IsFile
  <2>. QED
    BY <2>1, <2>2, <2>3, <2>4, <2>5, <2>6, NewLeaks, FreeLeaks, Zenon DEF FuseNext, MkdirRollback
<1>. QED
  BY <1>1, FsInvariance, PTL DEF Spec, OnlyCrashesLeak
-----------------------------------------------------------------------------
(***************************************************************************)
(* The storage node                                                        *)
(***************************************************************************)
\* What a name of the root directory stands for is a matter of the table and of the
\* backing files.
LEMMA SameRoot ==
    ASSUME n_inodes' = n_inodes, ino' = ino, mode' = mode, size' = size,
           children' = children, backing' = backing
    PROVE  \A name \in Name : RootFile(name)' = RootFile(name)
BY DEF RootFile, Lookup, lookup_inode, IsDir

\* Every step of the RPC server is a step of the storage node.
LEMMA ServerStep ==
    ASSUME FsInv, FsInv', ~ FaultyDisk, RpcNext, UNCHANGED program
    PROVE  Server!Next
<1>1. CASE Crash
  BY <1>1, CrashRequest, Zenon DEF Crash, Restarted
<1>2. CASE Refuse
  <2>1. \A nm \in Name : RootFile(nm)' = RootFile(nm)
    BY <1>2, SameRoot, Zenon DEF Refuse, table
  <2>. QED
    BY <2>1, NoRequest, Zenon
<1>3. ASSUME NEW d, NEW name, Rollback(d, name)
      PROVE  Server!Next
  <2>1. PICK k \in Inode : k = NextSlot
    BY <1>3, Zenon DEF Rollback
  <2>2. UNCHANGED table /\ ~ Allocated(k)
    BY <1>3, <2>1, RollbackSame, NextFree, Zenon DEF FsInv, Allocated
  <2>3. backing' = [backing EXCEPT ![k] = NoFile]
    BY <1>3, <2>1, Zenon DEF Rollback
  <2>4. \A j \in Inode : j # k => backing'[j] = backing[j]
    BY <2>3, Zenon DEF FsInv, TypeOK
  <2>5. UNCHANGED <<mode, size, children>> /\ \A e \in children : e[3] # k
    BY <2>2 DEF table, FsInv, EntriesInv
  <2>6. \A nm \in Name : RootFile(nm)' = RootFile(nm)
    BY <2>4, <2>5, RootFrame, Zenon
  <2>. QED
    BY <2>6, NoRequest, Zenon
<1>4. ASSUME NEW d, NEW name \in Name, Create(d, name) \/ Mkdir(d, name)
      PROVE  Server!Next
  BY <1>3, <1>4, CreateRequest, Zenon DEF Create, Mkdir, MkdirRollback
<1>5. ASSUME NEW d, NEW name \in Name, Remove(d, name)
      PROVE  Server!Next
  BY <1>5, RemoveRequest, Zenon DEF Remove
<1>6. ASSUME NEW d, NEW name \in Name, NEW offset \in 0 .. MaxSize, NEW data \in Data,
             CreateAndWrite(d, name, offset, data) \/ fused_write(Lookup(d, name), offset, data)
      PROVE  Server!Next
  <2>1. offset \in Nat
    BY FsAssumption
  <2>. QED
    BY <1>6, <2>1, CreateAndWriteRequest, FusedWriteRequest, Zenon
<1>. QED
  BY <1>1, <1>2, <1>3, <1>4, <1>5, <1>6, Zenon DEF RpcNext, Write

\* The RPC server is the storage node that the frontends take it for: whatever slots
\* and backing files fused_ops.c uses again, a request changes its own file only, and
\* as StoredFile says.
THEOREM ServerRefined == ASSUME ~ FaultyDisk PROVE Spec => ImplementsServer
<1>. DEFINE V == [name \in Name |-> IF program = "rpc" THEN RootFile(name) ELSE NoFile]
<1>1. Init => Server!Init
  <2>. SUFFICES ASSUME Init PROVE Server!Init
    BY Zenon
  <2>1. RootView /\ children = {}
    BY InitInv, RootViews, Zenon DEF Init
  <2>2. \A name \in Name : RootFile(name) = NoFile
    BY <2>1, Zenon DEF RootView
  <2>. QED
    BY <2>2, Zenon DEF Server!Init
<1>2. FsInv /\ FsInv' /\ [Next]_vars => [Server!Next]_V
  <2>. SUFFICES ASSUME FsInv, FsInv', [Next]_vars PROVE Server!Next \/ V' = V
    BY Zenon
  <2>1. CASE UNCHANGED vars
    <3>1. \A name \in Name : RootFile(name)' = RootFile(name)
      BY <2>1, SameRoot, Zenon DEF vars, table
    <3>2. program' = program
      BY <2>1, Zenon DEF vars
    <3>. QED
      BY <3>1, <3>2, Zenon
  <2>2. CASE program = "fuse" /\ Next
    BY <2>2, Zenon DEF Next
  <2>3. CASE program = "rpc" /\ Next
    BY <2>3, ServerStep, Zenon DEF Next
  <2>. QED
    BY <2>1, <2>2, <2>3, Zenon DEF Next
<1>. QED
  BY <1>1, <1>2, FsInvariance, PTL DEF Spec, ImplementsServer, Server!Spec
=============================================================================
