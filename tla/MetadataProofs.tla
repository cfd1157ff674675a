--------------------------- MODULE MetadataProofs ---------------------------
(***************************************************************************)
(* What is proved of MetadataManager, for every number of threads, files   *)
(* and records, and every modulus of the counters.                         *)
(***************************************************************************)
EXTENDS MetadataManager, TLAPS

\* The inductive invariant
MetadataInv == TypeOK /\ LsnGrowsInALife /\ CallsInv /\ AckedInLog /\ TotalsExact

WithRecord == {"insert", "bump", "uncount", "persisted"}
WithNode == {"update", "unlist", "bump", "uncount"}

\* The state of a thread has the form that goes with its pc.
LEMMA CallKinds ==
    ASSUME TypeOK, NEW t \in Thread
    PROVE  /\ call[t].pc \in WithRecord => call[t].node \in Nat /\ call[t].record \in Record
           /\ call[t] = Idle => call[t].pc = "idle"
BY DEF TypeOK, Call, Idle, WithRecord

\* The fields of a log record.
LEMMA Lsns == \A r \in Record : r.lsn \in Nat /\ r.entry \in Entry
BY Zenon DEF Record

\* A record has been written, or not: the log keeps what it had, and the numbers
\* grow.
LEMMA LogGrows ==
    ASSUME TypeOK, LsnGrowsInALife, NEW r \in Record, r.lsn = current_lsn + 1,
           current_lsn' = r.lsn, wal' \in {wal, Append(wal, r)}, UNCHANGED life
    PROVE  /\ wal' \in Seq(Record) /\ current_lsn' \in Nat /\ LsnGrowsInALife'
           /\ \A k \in 1 .. Len(wal) : k \in 1 .. Len(wal') /\ wal'[k] = wal[k]
<1>1. wal \in Seq(Record) /\ current_lsn \in Nat /\ Len(wal) \in Nat /\ life \in Nat
  BY DEF TypeOK
<1>2. CASE wal' = wal
  <2>1. \A k \in 1 .. Len(wal) : wal[k].lsn \in Nat
    BY <1>1, Lsns
  <2>. QED
    BY <1>1, <1>2, <2>1 DEF LsnGrowsInALife
<1>3. CASE wal' = Append(wal, r)
  <2>1. /\ wal' \in Seq(Record) /\ Len(wal') = Len(wal) + 1 /\ wal'[Len(wal) + 1] = r
        /\ \A k \in 1 .. Len(wal) : wal'[k] = wal[k]
    BY <1>1, <1>3
  <2>2. \A k \in 1 .. Len(wal) : wal[k].lsn \in Nat
    BY <1>1, Lsns
  <2>3. LsnGrowsInALife'
    <3>. SUFFICES ASSUME NEW j \in 1 .. Len(wal) + 1, NEW k \in 1 .. Len(wal) + 1, life < j
                  PROVE  /\ wal'[j].lsn <= current_lsn'
                         /\ j < k => wal'[j].lsn < wal'[k].lsn
      BY <1>1, <2>1 DEF LsnGrowsInALife
    <3>1. CASE j = Len(wal) + 1
      BY <1>1, <2>1, <3>1
    <3>2. CASE j \in 1 .. Len(wal) /\ k \in 1 .. Len(wal)
      BY <1>1, <2>1, <2>2, <3>2 DEF LsnGrowsInALife
    <3>3. CASE j \in 1 .. Len(wal) /\ k = Len(wal) + 1
      BY <1>1, <2>1, <2>2, <3>3 DEF LsnGrowsInALife
    <3>. QED
      BY <1>1, <3>1, <3>2, <3>3
  <2>. QED
    BY <1>1, <2>1, <2>3
<1>. QED
  BY <1>2, <1>3, Zenon

\* What a thread logs, the others' records and the acknowledged ones stay.
LEMMA RecordsStay ==
    ASSUME MetadataInv, UNCHANGED <<nodes, acked, historyVars>>, wal' \in Seq(Record),
           \A k \in 1 .. Len(wal) : k \in 1 .. Len(wal') /\ wal'[k] = wal[k],
           NEW t \in Thread, call' = [call EXCEPT ![t] = call'[t]],
           call'[t].pc \in WithNode => call'[t].node \in 1 .. Len(nodes),
           call'[t].pc \in WithRecord =>
               \E k \in 1 .. Len(wal') : wal'[k] = call'[t].record,
           call'[t].pc = "insert" => call'[t].record.entry.size = 0
    PROVE  CallsInv' /\ AckedInLog'
<1>1. call \in [Thread -> Call] /\ \A s \in Thread : s # t => call'[s] = call[s]
  BY Zenon DEF MetadataInv, TypeOK
<1>2. AckedInLog'
  BY DEF MetadataInv, AckedInLog
<1>3. CallsInv'
  <2>. SUFFICES ASSUME NEW s \in Thread
                PROVE  /\ call'[s].pc \in WithNode => call'[s].node \in 1 .. Len(nodes')
                       /\ call'[s].pc \in WithRecord /\ ~ cut' =>
                              \E k \in 1 .. Len(wal') : wal'[k] = call'[s].record
                       /\ call'[s].pc = "insert" => call'[s].record.entry.size = 0
    BY Zenon DEF CallsInv, WithNode, WithRecord
  <2>1. CASE s = t
    BY <2>1, Zenon
  <2>2. CASE s # t
    BY <1>1, <2>2 DEF MetadataInv, CallsInv, WithNode, WithRecord, historyVars
  <2>. QED
    BY <2>1, <2>2, Zenon
<1>. QED
  BY <1>2, <1>3, Zenon

\* wal_append, called with an entry and, where the call goes on at a node, one of
\* the map
LEMMA AppendStep ==
    ASSUME MetadataInv, NEW t \in Thread, NEW op \in Op, NEW e \in Entry,
           NEW pc \in WithRecord, NEW k \in Nat, pc \in WithNode => k \in 1 .. Len(nodes),
           pc = "insert" => e.size = 0, wal_append(t, op, e, pc, k),
           UNCHANGED <<nodes, total_entries, total_size, acked, historyVars>>
    PROVE  MetadataInv'
<1>. USE DEF MetadataInv
<1>1. TotalsExact'
  BY Zenon DEF TotalsExact, historyVars
<1>2. ASSUME NEW r \in RecordsFor(op, e)
      PROVE  r \in Record /\ r.lsn = current_lsn + 1 /\ r.entry = e
  BY <1>2 DEF RecordsFor, Record, TypeOK
<1>3. Idle \in Call /\ Idle.pc \notin WithNode \cup WithRecord /\ Idle.pc # "insert"
  BY Zenon DEF Call, Idle, WithNode, WithRecord
<1>4. ASSUME wal' \in Seq(Record), current_lsn' \in Nat, call' \in [Thread -> Call]
      PROVE  TypeOK'
  BY <1>4, Zenon DEF TypeOK, historyVars
<1>5. CASE \E r \in RecordsFor(op, e) :
               /\ current_lsn' = r.lsn
               /\ wal' = Append(wal, r)
               /\ call' = [call EXCEPT ![t] = [pc |-> pc, node |-> k, record |-> r]]
  <2>1. PICK r \in RecordsFor(op, e) :
               /\ current_lsn' = r.lsn
               /\ wal' = Append(wal, r)
               /\ call' = [call EXCEPT ![t] = [pc |-> pc, node |-> k, record |-> r]]
    BY <1>5, Zenon
  <2>2. r \in Record /\ r.lsn = current_lsn + 1 /\ r.entry = e
    BY <1>2, Zenon
  <2>3. /\ wal' \in Seq(Record) /\ current_lsn' \in Nat /\ LsnGrowsInALife'
        /\ \A j \in 1 .. Len(wal) : j \in 1 .. Len(wal') /\ wal'[j] = wal[j]
    BY <2>1, <2>2, LogGrows, Zenon DEF historyVars
  <2>4. PICK c : c = [pc |-> pc, node |-> k, record |-> r]
    BY Zenon
  <2>5. c \in Call /\ c.pc = pc /\ c.node = k /\ c.record = r
    BY <2>2, <2>4, Zenon DEF Call, WithRecord
  <2>6. call' = [call EXCEPT ![t] = c] /\ call'[t] = c /\ call' \in [Thread -> Call]
    BY <2>1, <2>4, <2>5, Zenon DEF TypeOK
  <2>7. Len(wal) + 1 \in 1 .. Len(wal') /\ wal'[Len(wal) + 1] = r
    BY <2>1, <2>2 DEF TypeOK
  <2>8. CallsInv' /\ AckedInLog'
    BY <2>2, <2>3, <2>5, <2>6, <2>7, RecordsStay, Zenon
  <2>. QED
    BY <1>1, <1>4, <2>3, <2>6, <2>8, Zenon
<1>6. CASE \E r \in RecordsFor(op, e) :
               /\ current_lsn' = r.lsn
               /\ wal' \in {wal, Append(wal, r)}
               /\ call' = [call EXCEPT ![t] = Idle]
  <2>1. PICK r \in RecordsFor(op, e) :
               /\ current_lsn' = r.lsn
               /\ wal' \in {wal, Append(wal, r)}
               /\ call' = [call EXCEPT ![t] = Idle]
    BY <1>6, Zenon
  <2>2. /\ wal' \in Seq(Record) /\ current_lsn' \in Nat /\ LsnGrowsInALife'
        /\ \A j \in 1 .. Len(wal) : j \in 1 .. Len(wal') /\ wal'[j] = wal[j]
    BY <1>2, <2>1, LogGrows, Zenon DEF historyVars
  <2>3. call'[t] = Idle /\ call' \in [Thread -> Call]
    BY <1>3, <2>1, Zenon DEF TypeOK
  <2>4. CallsInv' /\ AckedInLog'
    BY <1>3, <2>1, <2>2, <2>3, RecordsStay, Zenon
  <2>. QED
    BY <1>1, <1>4, <2>2, <2>3, <2>4, Zenon
<1>7. CASE call' = [call EXCEPT ![t] = Idle] /\ UNCHANGED <<current_lsn, wal>>
  <2>1. wal' \in Seq(Record) /\ current_lsn' \in Nat
    BY <1>7, Zenon DEF TypeOK
  <2>2. LsnGrowsInALife'
    BY <1>7, Zenon DEF LsnGrowsInALife, historyVars
  <2>3. call'[t] = Idle /\ call' \in [Thread -> Call]
    BY <1>3, <1>7, Zenon DEF TypeOK
  <2>4. CallsInv' /\ AckedInLog'
    BY <1>3, <1>7, <2>1, <2>3, RecordsStay, Zenon
  <2>. QED
    BY <1>1, <1>4, <2>1, <2>2, <2>3, <2>4, Zenon
<1>. QED
  BY <1>5, <1>6, <1>7, Zenon DEF wal_append
-----------------------------------------------------------------------------
\* Arithmetic modulo 2^64
LEMMA ModType == \A a \in Int : a % Modulus \in 0 .. Modulus - 1
BY MetadataAssumption

\* Division with remainder.
LEMMA ModDiv ==
    \A a \in Int : a = Modulus * (a \div Modulus) + (a % Modulus) /\ a \div Modulus \in Int
BY MetadataAssumption

\* The remainder is determined.
LEMMA ModUnique ==
    ASSUME NEW q \in Int, NEW r \in 0 .. Modulus - 1
    PROVE  (Modulus * q + r) % Modulus = r
BY MetadataAssumption

\* Adding to a counter that has wrapped.
LEMMA ModAdd ==
    ASSUME NEW a \in Int, NEW x \in Int
    PROVE  ((a % Modulus) + x) % Modulus = (a + x) % Modulus
<1>1. PICK q \in Int, r \in 0 .. Modulus - 1 : a = Modulus * q + r /\ a % Modulus = r
  BY ModDiv, ModType, Zenon
<1>2. r + x \in Int
  BY MetadataAssumption
<1>3. PICK p \in Int, s \in 0 .. Modulus - 1 : r + x = Modulus * p + s /\ (r + x) % Modulus = s
  BY <1>2, ModDiv, ModType, Zenon
<1>4. p + q \in Int /\ a + x = Modulus * (p + q) + s
  BY <1>1, <1>3, MetadataAssumption
<1>5. (Modulus * (p + q) + s) % Modulus = s
  BY <1>4, ModUnique, Zenon
<1>. QED
  BY <1>1, <1>3, <1>4, <1>5, Zenon
-----------------------------------------------------------------------------
WF == INSTANCE WellFoundedInduction

\* A set of numbers has a least one.
LEMMA Minimum ==
    ASSUME NEW T, T \subseteq Nat, T # {}
    PROVE  \E x \in T : \A y \in T : x <= y
<1>1. PICK x \in T : \A y \in T : ~ (<<y, x>> \in WF!OpToRel(<, Nat))
  BY WF!NatLessThanWellFounded, WF!WFMin, Zenon
<1>2. \A y \in T : ~ (y < x)
  BY <1>1, Zenon DEF WF!OpToRel
<1>. QED
  BY <1>2

\* A set of numbers that contains 0, and n + 1 with each n below m, contains all
\* numbers up to m.
LEMMA UpTo ==
    ASSUME NEW m \in Nat, NEW T, 0 \in T, \A n \in 0 .. m - 1 : n \in T => n + 1 \in T
    PROVE  0 .. m \subseteq T
<1>. DEFINE out == {n \in 0 .. m : n \notin T}
<1>1. CASE out # {}
  <2>1. out \subseteq Nat
    OBVIOUS
  <2>2. PICK n \in out : \A k \in out : n <= k
    BY <1>1, <2>1, Minimum, Zenon
  <2>3. n \in 0 .. m /\ n \notin T /\ n # 0
    BY <2>2, Zenon
  <2>4. n - 1 \in 0 .. m - 1 /\ n - 1 \notin out
    BY <2>2, <2>3
  <2>5. n - 1 \in T
    BY <2>3, <2>4
  <2>. QED
    BY <2>3, <2>4, <2>5
<1>. QED
  BY <1>1, Zenon

\* f[k] is the sum of the first k sizes.
IsSum(f, s) ==
    /\ f \in [0 .. Len(s) -> Nat]
    /\ f[0] = 0
    /\ \A k \in 1 .. Len(s) : f[k] = f[k - 1] + s[k].size

\* The size in an entry.
LEMMA Sizes == \A e \in Entry : e.size \in Nat
BY Zenon DEF Entry

\* The sums of the prefixes of a map exist.
LEMMA SumExists ==
    ASSUME NEW s \in Seq(Entry)
    PROVE  \E f : IsSum(f, s)
<1>. DEFINE Part(f, n) == /\ f \in [0 .. n -> Nat] /\ f[0] = 0
                          /\ \A k \in 1 .. n : f[k] = f[k - 1] + s[k].size
            T == {n \in Nat : \E f : Part(f, n)}
            m == Len(s)
<1>1. m \in Nat /\ \A k \in 1 .. m : s[k].size \in Nat
  BY Sizes
<1>2. 0 \in T
  <2>1. Part([k \in 0 .. 0 |-> 0], 0)
    OBVIOUS
  <2>. QED
    BY <2>1, Zenon
<1>3. ASSUME NEW n \in 0 .. m - 1, n \in T
      PROVE  n + 1 \in T
  <2>1. PICK f : Part(f, n)
    BY <1>3, Zenon
  <2>. DEFINE g == [k \in 0 .. n + 1 |-> IF k = n + 1 THEN f[n] + s[k].size ELSE f[k]]
  <2>2. n \in Nat /\ n + 1 \in 1 .. m /\ f[n] \in Nat /\ s[n + 1].size \in Nat
    BY <1>1, <2>1
  <2>3. g \in [0 .. n + 1 -> Nat] /\ g[0] = 0
    BY <2>1, <2>2
  <2>4. ASSUME NEW k \in 1 .. n + 1
        PROVE  g[k] = g[k - 1] + s[k].size
    BY <2>1, <2>2
  <2>5. Part(g, n + 1)
    BY <2>3, <2>4, Zenon
  <2>. HIDE DEF g, Part
  <2>. QED
    BY <2>2, <2>5
<1>. HIDE DEF T, m
<1>4. 0 .. m \subseteq T
  BY <1>1, <1>2, <1>3, UpTo, Zenon
<1>5. m \in T
  BY <1>1, <1>4
<1>. QED
  BY <1>5, Zenon DEF T, m, IsSum

\* The model's sum is one.
LEMMA SumOf ==
    ASSUME NEW s \in Seq(Entry)
    PROVE  \E f : IsSum(f, s) /\ TotalSize(s) = f[Len(s)]
<1>. DEFINE F(g) == [k \in 0 .. Len(s) |-> IF k = 0 THEN 0 ELSE g[k - 1] + s[k].size]
            sum == CHOOSE g : g = F(g)
<1>1. PICK f : IsSum(f, s)
  BY SumExists, Zenon
<1>2. f = F(f)
  BY <1>1 DEF IsSum
<1>3. sum = F(sum)
  <2>. HIDE DEF F
  <2>. QED
    BY <1>2, Zenon
<1>4. TotalSize(s) = sum[Len(s)]
  BY Zenon DEF TotalSize
<1>. HIDE DEF sum
<1>5. Len(s) \in Nat /\ \A k \in 1 .. Len(s) : s[k].size \in Nat
  BY Sizes
<1>6. sum[0] = 0 /\ \A k \in 1 .. Len(s) : sum[k] = sum[k - 1] + s[k].size
  BY <1>3, <1>5
<1>. DEFINE T == {k \in Nat : k \in 0 .. Len(s) => sum[k] \in Nat}
<1>7. 0 \in T
  BY <1>6
<1>8. ASSUME NEW n \in 0 .. Len(s) - 1, n \in T PROVE n + 1 \in T
  BY <1>5, <1>6, <1>8
<1>9. 0 .. Len(s) \subseteq T
  <2>. HIDE DEF T
  <2>. QED
    BY <1>5, <1>7, <1>8, UpTo, Zenon
<1>10. sum \in [0 .. Len(s) -> Nat]
  BY <1>3, <1>5, <1>9, Zenon
<1>. QED
  BY <1>4, <1>6, <1>10, Zenon DEF IsSum

\* Where two sequences have the same sizes their sums grow alike.
LEMMA SumsGrow ==
    ASSUME NEW s \in Seq(Entry), NEW t \in Seq(Entry), NEW f, NEW g,
           IsSum(f, s), IsSum(g, t),
           NEW i \in 0 .. Len(s), NEW n \in i .. Len(s), n <= Len(t),
           \A k \in i + 1 .. n : t[k].size = s[k].size
    PROVE  g[n] + f[i] = f[n] + g[i]
<1>. DEFINE T == {k \in Nat : i + k <= n => g[i + k] + f[i] = f[i + k] + g[i]}
            m == n - i
<1>1. Len(s) \in Nat /\ Len(t) \in Nat
  OBVIOUS
<1>2. n \in Nat /\ i \in Nat /\ m \in Nat /\ i <= n /\ n <= Len(s)
  BY <1>1
<1>0. f \in [0 .. Len(s) -> Nat] /\ g \in [0 .. Len(t) -> Nat]
  BY Zenon DEF IsSum
<1>3. g[i] \in Nat /\ f[i] \in Nat /\ 0 \in T
  BY <1>0, <1>1, <1>2
<1>4. ASSUME NEW k \in 0 .. m - 1, k \in T
      PROVE  k + 1 \in T
  <2>1. PICK h \in 0 .. n - 1 : h = i + k
    BY <1>2
  <2>2. PICK j \in i + 1 .. n : j = h + 1
    BY <1>2, <2>1
  <2>3. /\ h \in 0 .. Len(s) /\ h \in 0 .. Len(t) /\ h <= n
        /\ j \in 1 .. Len(s) /\ j \in 1 .. Len(t) /\ j - 1 = h /\ i + (k + 1) = j
    BY <1>1, <1>2, <2>1, <2>2
  <2>4. g[h] \in Nat /\ f[h] \in Nat
    BY <1>0, <2>3, Zenon
  <2>5. g[h] + f[i] = f[h] + g[i]
    BY <1>4, <2>1, <2>3, Zenon
  <2>6. g[j] = g[h] + t[j].size
    BY <2>3, Zenon DEF IsSum
  <2>7. f[j] = f[h] + s[j].size
    BY <2>3, Zenon DEF IsSum
  <2>8. PICK x \in Nat : t[j].size = x /\ s[j].size = x
    BY <2>3, Sizes
  <2>9. PICK a \in Nat, b \in Nat, c \in Nat, d \in Nat :
           a = g[h] /\ b = f[i] /\ c = f[h] /\ d = g[i]
    BY <1>3, <2>4, Zenon
  <2>10. a + b = c + d => (a + x) + b = (c + x) + d
    OBVIOUS
  <2>11. g[j] + f[i] = f[j] + g[i]
    BY <2>5, <2>6, <2>7, <2>8, <2>9, <2>10, Zenon
  <2>. QED
    BY <2>3, <2>11
<1>. HIDE DEF T
<1>5. 0 .. m \subseteq T
  BY <1>2, <1>3, <1>4, UpTo, Zenon
<1>6. m \in T /\ i + m = n
  BY <1>2, <1>5
<1>. QED
  BY <1>2, <1>6 DEF T

\* The sum of the sizes is a natural.
LEMMA SumType ==
    ASSUME NEW s \in Seq(Entry)
    PROVE  TotalSize(s) \in Nat
<1>1. PICK f : IsSum(f, s) /\ TotalSize(s) = f[Len(s)]
  BY SumOf, Zenon
<1>. QED
  BY <1>1 DEF IsSum

\* The sum for the empty map.
LEMMA SumEmpty == TotalSize(<<>>) = 0
<1>1. <<>> \in Seq(Entry) /\ Len(<<>>) = 0
  OBVIOUS
<1>2. PICK f : IsSum(f, <<>>) /\ TotalSize(<<>>) = f[0]
  BY <1>1, SumOf, Zenon
<1>. QED
  BY <1>2, Zenon DEF IsSum

\* The sum after an insertion.
LEMMA SumAppend ==
    ASSUME NEW s \in Seq(Entry), NEW e \in Entry
    PROVE  TotalSize(Append(s, e)) = TotalSize(s) + e.size
<1>0. Append(s, e) \in Seq(Entry)
  OBVIOUS
<1>1. PICK t \in Seq(Entry) : t = Append(s, e)
  BY <1>0, Zenon
<1>2. PICK n \in Nat : n = Len(s)
  OBVIOUS
<1>3. Len(t) = n + 1 /\ t[n + 1] = e /\ \A k \in 1 .. n : t[k] = s[k]
  BY <1>1, <1>2
<1>4. PICK f : IsSum(f, s) /\ TotalSize(s) = f[n]
  BY <1>2, SumOf, Zenon
<1>5. PICK g : IsSum(g, t) /\ TotalSize(t) = g[n + 1]
  BY <1>3, SumOf, Zenon
<1>6. g[n] + f[0] = f[n] + g[0]
  <2>1. 0 \in 0 .. Len(s) /\ n \in 0 .. Len(s) /\ n <= Len(t)
    BY <1>2, <1>3
  <2>2. \A k \in 0 + 1 .. n : t[k].size = s[k].size
    BY <1>3
  <2>. QED
    BY <1>4, <1>5, <2>1, <2>2, SumsGrow
<1>7. f[0] = 0 /\ g[0] = 0 /\ f[n] \in Nat /\ g[n] \in Nat
  BY <1>2, <1>3, <1>4, <1>5 DEF IsSum
<1>8. g[n + 1] = g[n] + e.size
  <2>1. n + 1 \in 1 .. Len(t) /\ (n + 1) - 1 = n
    BY <1>3
  <2>. QED
    BY <1>3, <1>5, <2>1, Zenon DEF IsSum
<1>. QED
  BY <1>1, <1>4, <1>5, <1>6, <1>7, <1>8

\* One entry is replaced.
LEMMA SumReplace ==
    ASSUME NEW s \in Seq(Entry), NEW t \in Seq(Entry), Len(t) = Len(s),
           NEW k \in 1 .. Len(s), \A j \in 1 .. Len(s) : j # k => t[j].size = s[j].size
    PROVE  TotalSize(t) = TotalSize(s) + t[k].size - s[k].size
<1>1. PICK n \in Nat : n = Len(s)
  OBVIOUS
<1>2. PICK h \in 0 .. n - 1 : h = k - 1
  BY <1>1
<1>3. k \in 1 .. n /\ h \in Nat /\ k \in Nat
  BY <1>1
<1>4. PICK f : IsSum(f, s) /\ TotalSize(s) = f[n]
  BY <1>1, SumOf, Zenon
<1>5. PICK g : IsSum(g, t) /\ TotalSize(t) = g[n]
  BY <1>1, SumOf, Zenon
<1>6. g[h] + f[0] = f[h] + g[0]
  <2>1. 0 \in 0 .. Len(s) /\ h \in 0 .. Len(s) /\ h <= Len(t)
    BY <1>1, <1>2
  <2>2. \A j \in 0 + 1 .. h : t[j].size = s[j].size
    BY <1>1, <1>2, <1>3
  <2>. QED
    BY <1>4, <1>5, <2>1, <2>2, SumsGrow
<1>7. g[n] + f[k] = f[n] + g[k]
  <2>1. k \in 0 .. Len(s) /\ n \in k .. Len(s) /\ n <= Len(t)
    BY <1>1, <1>3
  <2>2. \A j \in k + 1 .. n : t[j].size = s[j].size
    BY <1>1, <1>3
  <2>. QED
    BY <1>4, <1>5, <2>1, <2>2, SumsGrow
<1>8. f[k] = f[h] + s[k].size /\ g[k] = g[h] + t[k].size
  BY <1>1, <1>2, <1>3, <1>4, <1>5, Zenon DEF IsSum
<1>9. PICK a \in Nat, b \in Nat, c \in Nat, d \in Nat, x \in Nat, y \in Nat :
         /\ a = f[h] /\ b = g[h] /\ c = f[n] /\ d = g[n]
         /\ x = s[k].size /\ y = t[k].size
  <2>1. s[k].size \in Nat /\ t[k].size \in Nat
    BY Sizes
  <2>2. f[h] \in Nat /\ g[h] \in Nat /\ f[n] \in Nat /\ g[n] \in Nat
    <3>1. h \in 0 .. n /\ n \in 0 .. n
      BY <1>2
    <3>2. f \in [0 .. n -> Nat] /\ g \in [0 .. n -> Nat]
      BY <1>1, <1>4, <1>5, Zenon DEF IsSum
    <3>. QED
      BY <3>1, <3>2, Zenon
  <2>. QED
    BY <2>1, <2>2, Zenon
<1>10. a = b
  BY <1>4, <1>5, <1>6, <1>9 DEF IsSum
<1>11. d + (a + x) = c + (b + y)
  BY <1>7, <1>8, <1>9, Zenon
<1>12. d = c + y - x
  BY <1>10, <1>11
<1>. QED
  BY <1>4, <1>5, <1>9, <1>12, Zenon

\* A field other than the size is changed.
LEMMA SumSame ==
    ASSUME NEW s \in Seq(Entry), NEW t \in Seq(Entry), Len(t) = Len(s),
           \A j \in 1 .. Len(s) : t[j].size = s[j].size
    PROVE  TotalSize(t) = TotalSize(s)
<1>1. CASE Len(s) = 0
  BY <1>1
<1>2. CASE Len(s) # 0
  <2>1. 1 \in 1 .. Len(s)
    BY <1>2
  <2>2. TotalSize(t) = TotalSize(s) + t[1].size - s[1].size
    BY <2>1, SumReplace, Zenon
  <2>3. TotalSize(s) \in Nat /\ t[1].size = s[1].size /\ s[1].size \in Nat
    BY <2>1, SumType, Sizes
  <2>. QED
    BY <2>2, <2>3
<1>. QED
  BY <1>1, <1>2, Zenon
-----------------------------------------------------------------------------
\* The newest node with a key is a node, and has the key.
LEMMA LookupFinds ==
    ASSUME TypeOK, NEW id
    PROVE  \/ metadata_lookup(id) = 0
           \/ metadata_lookup(id) \in 1 .. Len(nodes)
<1>. DEFINE found == {k \in 1 .. Len(nodes) : nodes[k].id = id}
            above == {n \in Nat : \A k \in found : k <= n}
            m == Len(nodes)
<1>1. m \in Nat /\ found \subseteq 1 .. m
  BY DEF TypeOK
<1>2. CASE found # {}
  <2>1. m \in above /\ above \subseteq Nat
    BY <1>1
  <2>2. PICK x \in above : \A y \in above : x <= y
    <3>. HIDE DEF above
    <3>. QED
      BY <2>1, Minimum, Zenon
  <2>3. x \in Nat /\ \A k \in found : k <= x
    BY <2>2, Zenon
  <2>4. x \in found
    <3>1. CASE x \notin found
      <4>1. \A k \in found : k <= x - 1 /\ 1 <= x
        BY <1>1, <2>3, <3>1
      <4>2. x - 1 \in above
        BY <1>2, <2>3, <4>1
      <4>. QED
        BY <2>2, <2>3, <4>2
    <3>. QED
      BY <3>1, Zenon
  <2>. HIDE DEF found, above
  <2>5. (CHOOSE k \in found : \A j \in found : j <= k) \in found
    BY <2>3, <2>4, Zenon
  <2>6. metadata_lookup(id) = CHOOSE k \in found : \A j \in found : j <= k
    BY <1>2, Zenon DEF metadata_lookup, found
  <2>. QED
    BY <1>1, <2>5, <2>6, Zenon DEF m
<1>3. CASE found = {}
  BY <1>3, Zenon DEF metadata_lookup
<1>. QED
  BY <1>2, <1>3, Zenon

\* A call returns success, and its record is in the log.
LEMMA SucceedStep ==
    ASSUME MetadataInv, NEW t \in Thread, Succeed(t), call[t].pc \in WithRecord,
           UNCHANGED <<wal, cut>>, nodes' \in Seq(Entry), Len(nodes) <= Len(nodes')
    PROVE  CallsInv' /\ AckedInLog' /\ call' \in [Thread -> Call] /\ acked' \subseteq Record
<1>. USE DEF MetadataInv
<1>1. /\ call' = [call EXCEPT ![t] = Idle] /\ call \in [Thread -> Call]
      /\ acked' = IF cut THEN {} ELSE acked \cup {call[t].record}
  BY Zenon DEF Succeed, TypeOK
<1>2. Idle \in Call /\ Idle.pc \notin WithNode \cup WithRecord /\ Idle.pc # "insert"
  BY Zenon DEF Call, Idle, WithNode, WithRecord
<1>3. call' \in [Thread -> Call] /\ call'[t] = Idle /\ \A s \in Thread : s # t => call'[s] = call[s]
  BY <1>1, <1>2, Zenon
<1>4. Len(nodes) \in Nat /\ Len(nodes') \in Nat /\ 1 .. Len(nodes) \subseteq 1 .. Len(nodes')
  BY DEF TypeOK
<1>5. CallsInv'
  <2>. SUFFICES ASSUME NEW s \in Thread
                PROVE  /\ call'[s].pc \in WithNode => call'[s].node \in 1 .. Len(nodes')
                       /\ call'[s].pc \in WithRecord /\ ~ cut' =>
                              \E k \in 1 .. Len(wal') : wal'[k] = call'[s].record
                       /\ call'[s].pc = "insert" => call'[s].record.entry.size = 0
    BY Zenon DEF CallsInv, WithNode, WithRecord
  <2>1. CASE s = t
    BY <1>2, <1>3, <2>1, Zenon
  <2>2. CASE s # t
    BY <1>3, <1>4, <2>2, Zenon DEF CallsInv, WithNode, WithRecord
  <2>. QED
    BY <2>1, <2>2, Zenon
<1>6. AckedInLog'
  BY <1>1 DEF AckedInLog, CallsInv, WithRecord
<1>7. acked' \subseteq Record
  BY <1>1, CallKinds, Zenon DEF TypeOK
<1>. QED
  BY <1>3, <1>5, <1>6, <1>7, Zenon

\* A counter of 64 bits
Wrap(a) == a % Modulus

\* Adding to a counter and reducing once is enough.
LEMMA WrapAdd ==
    ASSUME NEW a \in Int, NEW x \in Int
    PROVE  Wrap(Wrap(a) + x) = Wrap(a + x) /\ Wrap(a + x) \in 0 .. Modulus - 1
BY ModAdd, ModType DEF Wrap

\* TotalsExact in terms of Wrap, before and after a step.
LEMMA TotalsWrap ==
    /\ TotalsExact <=> (~ uncounted => /\ total_size = Wrap(TotalSize(nodes))
                                       /\ total_entries = Wrap(Len(nodes)))
    /\ TotalsExact' <=> (~ uncounted' => /\ total_size' = Wrap(TotalSize(nodes'))
                                         /\ total_entries' = Wrap(Len(nodes')))
BY Zenon DEF TotalsExact, Wrap

\* The types of the counters and of what they count.
LEMMA Counts ==
    ASSUME TypeOK
    PROVE  /\ Len(nodes) \in Nat /\ TotalSize(nodes) \in Nat
           /\ Len(nodes) \in Int /\ TotalSize(nodes) \in Int
           /\ total_entries \in Int /\ total_size \in Int
           /\ 1 \in Int /\ Nat \subseteq Int
BY SumType, MetadataAssumption DEF TypeOK

\* A counter stays in its width.
LEMMA WrapType == \A a \in Int, x \in Int : Wrap(a + x) \in 0 .. Modulus - 1
BY ModType DEF Wrap

\* The insertion by metadata_create_entry keeps the invariant.
LEMMA CreateInsertStep ==
    ASSUME MetadataInv, NEW t \in Thread, CreateInsert(t)
    PROVE  MetadataInv'
<1>. USE DEF MetadataInv
<1>0. /\ Len(nodes) \in Nat /\ TotalSize(nodes) \in Nat
      /\ Len(nodes) \in Int /\ total_entries \in Int /\ 1 \in Int
  BY Counts, Zenon
<1>1. PICK e \in Entry : e = call[t].record.entry /\ e.size = 0
  BY CallKinds, Lsns, Zenon DEF CreateInsert, CallsInv, WithRecord
<1>2. /\ nodes' = Append(nodes, e) /\ Succeed(t) /\ call[t].pc \in WithRecord
      /\ total_entries' = Wrap(total_entries + 1)
      /\ UNCHANGED <<total_size, current_lsn, wal, life, cut, uncounted>>
  BY <1>1, Zenon DEF CreateInsert, historyVars, WithRecord, Wrap
<1>3. nodes \in Seq(Entry) /\ nodes' \in Seq(Entry) /\ Len(nodes') = Len(nodes) + 1
  BY <1>2 DEF TypeOK
<1>4. CallsInv' /\ AckedInLog' /\ call' \in [Thread -> Call] /\ acked' \subseteq Record
  BY <1>0, <1>2, <1>3, SucceedStep
<1>5. LsnGrowsInALife'
  BY <1>2, Zenon DEF LsnGrowsInALife
<1>6. TotalSize(nodes') = TotalSize(nodes)
  <2>1. TotalSize(nodes') = TotalSize(nodes) + e.size
    BY <1>2, <1>3, SumAppend, Zenon
  <2>. QED
    BY <1>0, <1>1, <2>1
<1>7. Wrap(Wrap(Len(nodes)) + 1) = Wrap(Len(nodes) + 1)
  BY <1>0, WrapAdd, Zenon
<1>8. total_entries' \in 0 .. Modulus - 1
  BY <1>0, <1>2, WrapType, Zenon
<1>9. TotalsExact'
  BY <1>2, <1>3, <1>6, <1>7, TotalsWrap, Zenon
<1>. QED
  BY <1>2, <1>3, <1>4, <1>5, <1>8, <1>9, Zenon DEF TypeOK

\* A field other than the size changes in node k, outside the log.
LEMMA FieldStep ==
    ASSUME MetadataInv, NEW k \in 1 .. Len(nodes), NEW e \in Entry, e.size = nodes[k].size,
           nodes' = [nodes EXCEPT ![k] = e], UNCHANGED <<total_entries, total_size, uncounted>>
    PROVE  nodes' \in Seq(Entry) /\ Len(nodes') = Len(nodes) /\ TotalsExact'
<1>. USE DEF MetadataInv
<1>1. nodes' \in Seq(Entry) /\ Len(nodes') = Len(nodes)
  BY DEF TypeOK
<1>2. \A j \in 1 .. Len(nodes) : nodes'[j].size = nodes[j].size
  BY DEF TypeOK
<1>3. TotalSize(nodes') = TotalSize(nodes)
  BY <1>1, <1>2, SumSame, Zenon DEF TypeOK
<1>. QED
  BY <1>1, <1>3, Zenon DEF TotalsExact

\* The update of an entry by metadata_update_entry keeps the invariant.
LEMMA UpdateBumpStep ==
    ASSUME MetadataInv, NEW t \in Thread, UpdateBump(t)
    PROVE  MetadataInv'
<1>. USE DEF MetadataInv
<1>1. PICK k \in 1 .. Len(nodes) : k = call[t].node
  BY Zenon DEF UpdateBump, CallsInv
<1>2. nodes[k] \in Entry
  BY DEF TypeOK
<1>3. PICK e : e = [nodes[k] EXCEPT !.version = @ + 1]
  BY Zenon
<1>4. e \in Entry /\ e.size = nodes[k].size
  BY <1>2, <1>3 DEF Entry
<1>5. /\ nodes' = [nodes EXCEPT ![k] = e] /\ Succeed(t) /\ call[t].pc \in WithRecord
      /\ UNCHANGED <<total_entries, total_size, current_lsn, wal, life, cut, uncounted>>
  BY <1>1, <1>3, Zenon DEF UpdateBump, historyVars, WithRecord
<1>6. nodes' \in Seq(Entry) /\ Len(nodes') = Len(nodes) /\ TotalsExact'
  BY <1>4, <1>5, FieldStep, Zenon
<1>7. CallsInv' /\ AckedInLog' /\ call' \in [Thread -> Call] /\ acked' \subseteq Record
  BY <1>5, <1>6, SucceedStep, Counts
<1>8. LsnGrowsInALife'
  BY <1>5, Zenon DEF LsnGrowsInALife
<1>. QED
  BY <1>5, <1>6, <1>7, <1>8, Zenon DEF TypeOK

\* A thread stops at a lock with a node it has found, and has changed another
\* field than the size there.
LEMMA MarkStep ==
    ASSUME MetadataInv, NEW t \in Thread, NEW k \in 1 .. Len(nodes), NEW e \in Entry,
           e.size = nodes[k].size, nodes' = [nodes EXCEPT ![k] = e],
           NEW pc \in {"update", "unlist"},
           call' = [call EXCEPT ![t] = [pc |-> pc, node |-> k]],
           UNCHANGED <<total_entries, total_size, current_lsn, wal, acked, historyVars>>
    PROVE  MetadataInv'
<1>. USE DEF MetadataInv
<1>1. nodes' \in Seq(Entry) /\ Len(nodes') = Len(nodes) /\ TotalsExact'
  BY FieldStep, Zenon DEF historyVars
<1>2. PICK c : c = [pc |-> pc, node |-> k]
  BY Zenon
<1>3. Len(nodes) \in Nat /\ k \in Nat
  BY Counts
<1>4. c \in Call /\ c.pc = pc /\ c.node = k /\ c.pc \notin WithRecord /\ c.pc # "insert"
  BY <1>2, <1>3, Zenon DEF Call, WithRecord
<1>5. /\ call' \in [Thread -> Call] /\ call'[t] = c
      /\ \A s \in Thread : s # t => call'[s] = call[s]
  BY <1>2, <1>4, Zenon DEF TypeOK
<1>6. CallsInv'
  <2>. SUFFICES ASSUME NEW s \in Thread
                PROVE  /\ call'[s].pc \in WithNode => call'[s].node \in 1 .. Len(nodes')
                       /\ call'[s].pc \in WithRecord /\ ~ cut' =>
                              \E j \in 1 .. Len(wal') : wal'[j] = call'[s].record
                       /\ call'[s].pc = "insert" => call'[s].record.entry.size = 0
    BY Zenon DEF CallsInv, WithNode, WithRecord
  <2>1. CASE s = t
    BY <1>1, <1>4, <1>5, <2>1, Zenon
  <2>2. CASE s # t
    BY <1>1, <1>5, <2>2, Zenon DEF CallsInv, WithNode, WithRecord, historyVars
  <2>. QED
    BY <2>1, <2>2, Zenon
<1>7. LsnGrowsInALife' /\ AckedInLog'
  BY Zenon DEF LsnGrowsInALife, AckedInLog, historyVars
<1>. QED
  BY <1>1, <1>5, <1>6, <1>7, Zenon DEF TypeOK, historyVars

\* metadata_assign_storage_nodes keeps the invariant.
LEMMA AssignNodesStep ==
    ASSUME MetadataInv, NEW t \in Thread, NEW k \in 1 .. Len(nodes), AssignNodes(t, k)
    PROVE  MetadataInv'
<1>1. nodes[k] \in Entry
  BY DEF MetadataInv, TypeOK
<1>2. PICK e : e = [nodes[k] EXCEPT !.placed = TRUE]
  BY Zenon
<1>3. e \in Entry /\ e.size = nodes[k].size
  BY <1>1, <1>2, Zenon DEF Entry
<1>. QED
  BY <1>2, <1>3, MarkStep, Zenon DEF AssignNodes

\* The mark set by metadata_delete_entry keeps the invariant.
LEMMA DeleteMarkStep ==
    ASSUME MetadataInv, NEW t \in Thread, NEW id \in FileId, DeleteMark(t, id)
    PROVE  MetadataInv'
<1>1. PICK k \in 1 .. Len(nodes) : k = metadata_lookup(id)
  BY LookupFinds, Zenon DEF MetadataInv, DeleteMark
<1>2. nodes[k] \in Entry
  BY DEF MetadataInv, TypeOK
<1>3. PICK e : e = [nodes[k] EXCEPT !.deleted = TRUE]
  BY Zenon
<1>4. e \in Entry /\ e.size = nodes[k].size
  BY <1>2, <1>3, Zenon DEF Entry
<1>. QED
  BY <1>1, <1>3, <1>4, MarkStep, Zenon DEF DeleteMark

\* The correction of the counters by metadata_delete_entry keeps the invariant.
LEMMA DeleteUncountStep ==
    ASSUME MetadataInv, NEW t \in Thread, DeleteUncount(t)
    PROVE  MetadataInv'
<1>. USE DEF MetadataInv
<1>1. PICK k \in 1 .. Len(nodes) : k = call[t].node
  BY Zenon DEF DeleteUncount, CallsInv
<1>2. nodes[k] \in Entry /\ Len(nodes) \in Nat
  BY DEF TypeOK
<1>3. PICK z \in Nat : z = nodes[k].size
  BY <1>2, Sizes, Zenon
<1>4. /\ Succeed(t) /\ call[t].pc \in WithRecord
      /\ total_entries' = Wrap(total_entries - 1)
      /\ total_size' = Wrap(total_size - z)
      /\ uncounted' = TRUE
      /\ UNCHANGED <<nodes, current_lsn, wal, life, cut>>
  BY <1>1, <1>3, Zenon DEF DeleteUncount, WithRecord, Wrap
<1>5. total_entries' \in 0 .. Modulus - 1 /\ total_size' \in 0 .. Modulus - 1
  <2>1. total_entries - 1 \in Int /\ total_size - z \in Int
    BY Counts
  <2>. QED
    BY <1>4, <2>1, ModType, Zenon DEF Wrap
<1>6. CallsInv' /\ AckedInLog' /\ call' \in [Thread -> Call] /\ acked' \subseteq Record
  <2>1. nodes' \in Seq(Entry) /\ Len(nodes) <= Len(nodes')
    BY <1>2, <1>4 DEF TypeOK
  <2>. QED
    BY <1>4, <2>1, SucceedStep, Zenon
<1>7. LsnGrowsInALife'
  BY <1>4, Zenon DEF LsnGrowsInALife
<1>8. TotalsExact'
  BY <1>4, Zenon DEF TotalsExact
<1>. QED
  BY <1>4, <1>5, <1>6, <1>7, <1>8, Zenon DEF TypeOK

\* metadata_apply_entry, called by apply_state_machine
LEMMA ApplyStep ==
    ASSUME MetadataInv, NEW e \in Entry, apply_state_machine(e)
    PROVE  MetadataInv'
<1>. USE DEF MetadataInv
<1>0. /\ Len(nodes) \in Nat /\ TotalSize(nodes) \in Nat
      /\ Len(nodes) \in Int /\ TotalSize(nodes) \in Int
      /\ total_entries \in Int /\ total_size \in Int
      /\ 1 \in Int /\ Nat \subseteq Int
  BY Counts, Zenon
<1>1. UNCHANGED <<current_lsn, wal, call, acked, life, cut, uncounted>>
  BY Zenon DEF apply_state_machine, historyVars
<1>2. LsnGrowsInALife' /\ AckedInLog'
  BY <1>1, Zenon DEF LsnGrowsInALife, AckedInLog
<1>3. ASSUME nodes' \in Seq(Entry), Len(nodes) <= Len(nodes')
      PROVE  CallsInv'
  <2>1. 1 .. Len(nodes) \subseteq 1 .. Len(nodes')
    BY <1>0, <1>3
  <2>. QED
    BY <1>1, <2>1, Zenon DEF CallsInv
<1>4. PICK z \in Nat : z = e.size
  BY Sizes, Zenon
<1>5. PICK m \in Nat : m = TotalSize(nodes)
  BY <1>0, Zenon
<1>6. ~ uncounted => total_size = Wrap(m) /\ total_entries = Wrap(Len(nodes))
  BY <1>5, TotalsWrap, Zenon
<1>7. CASE \E k \in 1 .. Len(nodes) :
               /\ nodes' = [nodes EXCEPT ![k] = e]
               /\ total_size' = (total_size + e.size - nodes[k].size) % Modulus
               /\ UNCHANGED total_entries
  <2>1. PICK k \in 1 .. Len(nodes) :
               /\ nodes' = [nodes EXCEPT ![k] = e]
               /\ total_size' = (total_size + e.size - nodes[k].size) % Modulus
               /\ UNCHANGED total_entries
    BY <1>7, Zenon
  <2>2. nodes[k] \in Entry /\ nodes \in Seq(Entry)
    BY DEF TypeOK
  <2>3. PICK y \in Nat : y = nodes[k].size
    BY <2>2, Sizes, Zenon
  <2>4. /\ nodes' \in Seq(Entry) /\ Len(nodes') = Len(nodes) /\ nodes'[k] = e
        /\ \A j \in 1 .. Len(nodes) : j # k => nodes'[j] = nodes[j]
    BY <2>1, <2>2
  <2>5. TotalSize(nodes') = TotalSize(nodes) + nodes'[k].size - nodes[k].size
    BY <2>2, <2>4, SumReplace, Zenon
  <2>6. PICK x \in Int : x = z - y
    OBVIOUS
  <2>7. TotalSize(nodes') = m + x
    BY <1>4, <1>5, <2>3, <2>4, <2>5, <2>6, Zenon
  <2>8. total_size' = Wrap(total_size + x)
    BY <1>4, <2>1, <2>3, <2>6, Zenon DEF Wrap
  <2>9. Wrap(Wrap(m) + x) = Wrap(m + x)
    BY <1>0, <1>5, WrapAdd, Zenon
  <2>10. total_size' \in 0 .. Modulus - 1
    BY <1>0, <2>8, WrapType, Zenon
  <2>11. TotalsExact'
    BY <1>1, <1>6, <2>1, <2>4, <2>7, <2>8, <2>9, TotalsWrap, Zenon
  <2>12. CallsInv'
    BY <1>0, <1>3, <2>4
  <2>. QED
    BY <1>1, <1>2, <2>1, <2>4, <2>10, <2>11, <2>12, Zenon DEF TypeOK
<1>8. CASE /\ nodes' = Append(nodes, e)
           /\ total_size' = (total_size + e.size) % Modulus
           /\ total_entries' = (total_entries + 1) % Modulus
  <2>1. nodes \in Seq(Entry) /\ nodes' \in Seq(Entry) /\ Len(nodes') = Len(nodes) + 1
    BY <1>8 DEF TypeOK
  <2>2. TotalSize(nodes') = m + z
    BY <1>4, <1>5, <1>8, <2>1, SumAppend, Zenon
  <2>3. total_size' = Wrap(total_size + z) /\ total_entries' = Wrap(total_entries + 1)
    BY <1>4, <1>8, Zenon DEF Wrap
  <2>4. Wrap(Wrap(m) + z) = Wrap(m + z) /\ Wrap(Wrap(Len(nodes)) + 1) = Wrap(Len(nodes) + 1)
    BY <1>0, <1>5, WrapAdd, Zenon
  <2>5. total_size' \in 0 .. Modulus - 1 /\ total_entries' \in 0 .. Modulus - 1
    BY <1>0, <2>3, WrapType, Zenon
  <2>6. TotalsExact'
    BY <1>1, <1>6, <2>1, <2>2, <2>3, <2>4, TotalsWrap, Zenon
  <2>7. CallsInv'
    BY <1>0, <1>3, <2>1
  <2>. QED
    BY <1>1, <1>2, <2>1, <2>5, <2>6, <2>7, Zenon DEF TypeOK
<1>. QED
  <2>1. metadata_lookup(e.id) = 0 \/ metadata_lookup(e.id) \in 1 .. Len(nodes)
    BY LookupFinds, Zenon
  <2>. QED
    BY <1>7, <1>8, <2>1, Zenon DEF apply_state_machine
-----------------------------------------------------------------------------
\* The counters of an empty map.
LEMMA Zeros == 0 \in 0 .. Modulus - 1
BY MetadataAssumption

\* A new manager satisfies the invariant.
LEMMA InitInv == Init => MetadataInv
<1>. SUFFICES ASSUME Init PROVE MetadataInv
  BY Zenon
<1>1. TypeOK
  <2>1. Idle \in Call /\ <<>> \in Seq(Entry) /\ <<>> \in Seq(Record)
    BY DEF Call
  <2>. QED
    BY <2>1, Zeros, Zenon DEF Init, TypeOK
<1>2. LsnGrowsInALife /\ AckedInLog
  BY DEF Init, LsnGrowsInALife, AckedInLog
<1>3. CallsInv
  BY Zenon DEF Init, CallsInv, Idle
<1>4. TotalsExact
  BY SumEmpty, MetadataAssumption, ModUnique DEF Init, TotalsExact
<1>. QED
  BY <1>1, <1>2, <1>3, <1>4, Zenon DEF MetadataInv

\* A restart with replay keeps the invariant.
LEMMA RestartStep == MetadataInv /\ Restart => MetadataInv'
<1>. SUFFICES ASSUME MetadataInv, Restart PROVE MetadataInv'
  BY Zenon
<1>0. wal \in Seq(Record) /\ Len(wal) \in Nat
  BY DEF MetadataInv, TypeOK
<1>1. current_lsn' \in Nat
  <2>1. \A k \in DOMAIN wal : wal[k].lsn \in Nat
    BY <1>0, Lsns
  <2>2. 0 .. MaxLsn \subseteq Nat
    BY MetadataAssumption
  <2>. QED
    BY <2>1, <2>2 DEF Restart, ReplayedLsn
<1>2. TypeOK'
  <2>1. Idle \in Call /\ <<>> \in Seq(Entry)
    BY DEF Call
  <2>. QED
    BY <1>0, <1>1, <2>1, Zeros, Zenon DEF MetadataInv, Restart, TypeOK
<1>3. LsnGrowsInALife'
  BY <1>0 DEF Restart, LsnGrowsInALife
<1>4. AckedInLog'
  BY Zenon DEF MetadataInv, Restart, AckedInLog
<1>5. CallsInv'
  BY Zenon DEF Restart, CallsInv, Idle
<1>6. TotalsExact'
  BY SumEmpty, MetadataAssumption, ModUnique DEF Restart, TotalsExact
<1>. QED
  BY <1>2, <1>3, <1>4, <1>5, <1>6, Zenon DEF MetadataInv

\* wal_truncate keeps the invariant.
LEMMA TruncateStep == MetadataInv /\ wal_truncate => MetadataInv'
<1>. SUFFICES ASSUME MetadataInv, wal_truncate PROVE MetadataInv'
  BY Zenon
<1>. USE DEF MetadataInv, wal_truncate
<1>1. TypeOK'
  BY DEF TypeOK
<1>2. LsnGrowsInALife' /\ AckedInLog'
  BY DEF LsnGrowsInALife, AckedInLog
<1>3. CallsInv'
  BY Zenon DEF CallsInv
<1>4. TotalsExact'
  BY Zenon DEF TotalsExact
<1>. QED
  BY <1>1, <1>2, <1>3, <1>4, Zenon

\* A node that is logged is an entry, and a created entry is empty.
LEMMA CreateLogStep ==
    ASSUME MetadataInv, NEW t \in Thread, NEW id \in FileId, CreateLog(t, id)
    PROVE  MetadataInv'
<1>1. Created(id) \in Entry /\ Created(id).size = 0
  BY Zenon DEF Created, Entry
<1>2. "insert" \in WithRecord /\ "insert" \notin WithNode /\ "CREATE" \in Op
  BY Zenon DEF WithRecord, WithNode, Op
<1>. QED
  BY <1>1, <1>2, AppendStep DEF CreateLog

\* The log record of an update keeps the invariant.
LEMMA UpdateLogStep ==
    ASSUME MetadataInv, NEW t \in Thread, NEW k \in 1 .. Len(nodes), UpdateLog(t, k)
    PROVE  MetadataInv'
<1>1. nodes[k] \in Entry /\ k \in Nat
  BY DEF MetadataInv, TypeOK
<1>2. "bump" \in WithRecord /\ "bump" # "insert" /\ "UPDATE" \in Op
  BY Zenon DEF WithRecord, Op
<1>. QED
  BY <1>1, <1>2, AppendStep, Zenon DEF UpdateLog

\* The log record of a deletion keeps the invariant.
LEMMA DeleteLogStep ==
    ASSUME MetadataInv, NEW t \in Thread, DeleteLog(t)
    PROVE  MetadataInv'
<1>1. PICK k \in 1 .. Len(nodes) : k = call[t].node
  BY Zenon DEF DeleteLog, MetadataInv, CallsInv
<1>2. nodes[k] \in Entry /\ k \in Nat
  BY DEF MetadataInv, TypeOK
<1>3. "uncount" \in WithRecord /\ "uncount" # "insert" /\ "DELETE" \in Op
  BY Zenon DEF WithRecord, Op
<1>. QED
  BY <1>1, <1>2, <1>3, AppendStep, Zenon DEF DeleteLog

\* The log record that persist_wal writes keeps the invariant.
LEMMA PersistLogStep ==
    ASSUME MetadataInv, NEW t \in Thread, NEW e \in Entry, PersistLog(t, e)
    PROVE  MetadataInv'
<1>1. /\ "persisted" \in WithRecord /\ "persisted" \notin WithNode
      /\ "persisted" # "insert" /\ "UPDATE" \in Op
  BY Zenon DEF WithRecord, WithNode, Op
<1>. QED
  BY <1>1, AppendStep, Zenon DEF PersistLog

\* The end of persist_wal keeps the invariant.
LEMMA PersistDoneStep ==
    ASSUME MetadataInv, NEW t \in Thread, PersistDone(t)
    PROVE  MetadataInv'
<1>. USE DEF MetadataInv
<1>1. /\ Succeed(t) /\ call[t].pc \in WithRecord
      /\ UNCHANGED <<nodes, total_entries, total_size, current_lsn, wal, life, cut, uncounted>>
  BY Zenon DEF PersistDone, historyVars, WithRecord
<1>2. nodes' \in Seq(Entry) /\ Len(nodes) <= Len(nodes')
  BY <1>1 DEF TypeOK
<1>3. CallsInv' /\ AckedInLog' /\ call' \in [Thread -> Call] /\ acked' \subseteq Record
  BY <1>1, <1>2, SucceedStep, Zenon
<1>4. LsnGrowsInALife' /\ TotalsExact'
  BY <1>1, Zenon DEF LsnGrowsInALife, TotalsExact
<1>. QED
  BY <1>1, <1>3, <1>4, Zenon DEF TypeOK

\* Every step keeps the invariant.
LEMMA NextInv == MetadataInv /\ [LocalNext \/ ReplicaNext]_vars => MetadataInv'
<1>. SUFFICES ASSUME MetadataInv, [LocalNext \/ ReplicaNext]_vars PROVE MetadataInv'
  BY Zenon
<1>1. CASE LocalNext
  BY <1>1, CreateLogStep, DeleteMarkStep, AssignNodesStep, UpdateLogStep, CreateInsertStep,
     UpdateBumpStep, DeleteLogStep, DeleteUncountStep, TruncateStep, RestartStep, Zenon
     DEF LocalNext
<1>2. CASE ReplicaNext
  <2>1. ASSUME NEW e \in Applicable PROVE e \in Entry
    <3>1. /\ e = [id |-> e.id, deleted |-> e.deleted, placed |-> e.placed,
                  size |-> e.size, version |-> e.version]
          /\ e.id \in FileId /\ e.deleted \in BOOLEAN /\ e.placed \in {TRUE}
          /\ e.size \in FileSize /\ e.version \in {1}
      BY Zenon DEF Applicable
    <3>2. e.placed \in BOOLEAN
      BY <3>1, Zenon
    <3>3. e.version \in Nat
      BY <3>1
    <3>4. e.size \in Nat
      BY <3>1, MetadataAssumption, Zenon
    <3>. QED
      BY <3>1, <3>2, <3>3, <3>4, Zenon DEF Entry
  <2>. QED
    BY <1>2, <2>1, ApplyStep, PersistLogStep, PersistDoneStep, RestartStep, Zenon
       DEF ReplicaNext
<1>3. CASE UNCHANGED vars
  <2>. USE <1>3 DEF vars, historyVars
  <2>1. TypeOK'
    BY Zenon DEF MetadataInv, TypeOK
  <2>2. LsnGrowsInALife' /\ AckedInLog'
    BY Zenon DEF MetadataInv, LsnGrowsInALife, AckedInLog
  <2>3. CallsInv'
    BY Zenon DEF MetadataInv, CallsInv
  <2>4. TotalsExact'
    BY Zenon DEF MetadataInv, TotalsExact
  <2>. QED
    BY <2>1, <2>2, <2>3, <2>4, Zenon DEF MetadataInv
<1>. QED
  BY <1>1, <1>2, <1>3, Zenon

\* MetadataInv is an invariant of the library with the frontend's callbacks.
THEOREM MetadataInvariance == Spec => []MetadataInv
BY InitInv, NextInv, PTL DEF Spec

\* It is one of the library alone.
THEOREM LocalInvariance == LocalSpec => []MetadataInv
<1>1. MetadataInv /\ [LocalNext]_vars => MetadataInv'
  BY NextInv, Zenon
<1>. QED
  BY <1>1, InitInv, PTL DEF LocalSpec

\* The counters of metadata_manager_t stay in their width, the log and the map hold
\* records and entries, and every call is at a step with the locals that it uses.
THEOREM MetadataTyped == Spec => []TypeOK
BY MetadataInvariance, PTL DEF MetadataInv

\* The numbers that wal_append takes grow along the part of the log that the
\* process has written, whatever appends and syncs fail.
THEOREM LsnsGrow == Spec => []LsnGrowsInALife
BY MetadataInvariance, PTL DEF MetadataInv

\* What a call found before it released a lock is there when it takes the next:
\* metadata_update_entry and metadata_delete_entry use no node outside the map.
THEOREM CallsSound == Spec => []CallsInv
BY MetadataInvariance, PTL DEF MetadataInv

\* The record of a call that returned success is in the log until wal_truncate.
THEOREM AcksAreLogged == Spec => []AckedInLog
BY MetadataInvariance, PTL DEF MetadataInv

\* total_entries and total_size are, modulo 2^64, the counts of the map until
\* metadata_delete_entry changes them.
THEOREM TotalsHold == Spec => []TotalsExact
BY MetadataInvariance, PTL DEF MetadataInv
=============================================================================
