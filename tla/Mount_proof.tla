----------------------------- MODULE Mount_proof -----------------------------
(***************************************************************************)
(* Proofs about what shows an archive.  The mount: what a read serves,     *)
(* that a pool of sessions used without its lock gives every enumeration a *)
(* listing of its own, and that the tree is that of the archive.  The      *)
(* page: that marks, copies and packed files are those of the archive or   *)
(* the selection they are taken for, in any order of what is awaited.      *)
(***************************************************************************)
EXTENDS Mount, Page, Ranges, SequenceTheorems, FiniteSetTheorems, TLAPS

(***************************************************************************)
(* The tree.                                                               *)
(***************************************************************************)
NodeFields == {"name", "isDir", "index", "kids"}

\* Nodes are nodes, and a file's node names one of the first n entries.
GoodTree(t, n) ==
    /\ Free \notin DOMAIN t
    /\ \A key \in DOMAIN t :
           /\ DOMAIN t[key] = NodeFields
           /\ t[key].isDir \in BOOLEAN
           /\ ~t[key].isDir => t[key].index \in 1..n
           /\ t[key].kids \in Seq(DOMAIN t)

LEMMA SeqGrows ==
    ASSUME NEW S, NEW T, S \subseteq T, NEW s \in Seq(S)
    PROVE  s \in Seq(T)
OBVIOUS

LEMMA AddNodeGood ==
    ASSUME NEW n, NEW t, GoodTree(t, n), NEW key, key \notin DOMAIN t, key # Free,
           NEW node, DOMAIN node = NodeFields, node.isDir \in BOOLEAN,
           ~node.isDir => node.index \in 1..n, node.kids = <<>>
    PROVE  GoodTree(AddNode(t, key, node), n)
<1> DEFINE u == AddNode(t, key, node)
           parent == Prefix(key, Len(key) - 1)
<1>1. DOMAIN u = DOMAIN t \union {key}
  BY DEF AddNode
<1>2. u[key] = node
  BY DEF AddNode
<1>3. \A k \in DOMAIN t : k # parent => u[k] = t[k]
  BY DEF AddNode
<1>4. parent \in DOMAIN t => u[parent] = [t[parent] EXCEPT !.kids = Append(@, key)]
  BY DEF AddNode
<1> HIDE DEF u, parent
<1>5. ASSUME NEW k \in DOMAIN u
      PROVE  /\ DOMAIN u[k] = NodeFields
             /\ u[k].isDir \in BOOLEAN
             /\ ~u[k].isDir => u[k].index \in 1..n
             /\ u[k].kids \in Seq(DOMAIN u)
  <2>1. CASE k = key
    <3>1. node.kids \in Seq(DOMAIN u)
      OBVIOUS
    <3>2. QED
      BY <1>2, <2>1, <3>1
  <2>2. CASE k # key /\ k # parent
    <3>1. k \in DOMAIN t /\ u[k] = t[k]
      BY <1>1, <1>3, <2>2
    <3>2. t[k].kids \in Seq(DOMAIN t)
      BY <3>1 DEF GoodTree
    <3>3. t[k].kids \in Seq(DOMAIN u)
      BY <1>1, <3>2, SeqGrows
    <3>4. QED
      BY <3>1, <3>3 DEF GoodTree
  <2>3. CASE k # key /\ k = parent
    <3>1. k \in DOMAIN t /\ u[k] = [t[k] EXCEPT !.kids = Append(@, key)]
      BY <1>1, <1>4, <2>3
    <3>2. t[k].kids \in Seq(DOMAIN t) /\ DOMAIN t[k] = NodeFields
      BY <3>1 DEF GoodTree
    <3>3. t[k].kids \in Seq(DOMAIN u)
      BY <1>1, <3>2, SeqGrows
    <3>4. Append(t[k].kids, key) \in Seq(DOMAIN u)
      BY <1>1, <3>3, AppendProperties
    <3>5. /\ DOMAIN u[k] = NodeFields /\ u[k].kids = Append(t[k].kids, key)
          /\ u[k].isDir = t[k].isDir /\ u[k].index = t[k].index
      BY <3>1, <3>2 DEF NodeFields
    <3>6. QED
      BY <3>1, <3>4, <3>5 DEF GoodTree
  <2>4. QED
    BY <2>1, <2>2, <2>3
<1>6. Free \notin DOMAIN u
  BY <1>1 DEF GoodTree
<1>7. QED
  BY <1>5, <1>6 DEF GoodTree, u

\* The first m steps of an insertion.
NewNode(path, j, k) ==
    [name |-> path[j], isDir |-> j < Len(path),
     index |-> IF j < Len(path) THEN 0 ELSE k, kids |-> <<>>]
InsertStep(t, path, k, j) ==
    IF Prefix(Folded(path), j) \in DOMAIN t THEN t
    ELSE AddNode(t, Prefix(Folded(path), j), NewNode(path, j, k))
Inserts(f, t, path, k, m) ==
    f = [j \in 0..m |-> IF j = 0 THEN t ELSE InsertStep(f[j - 1], path, k, j)]

LEMMA NewNodeGood ==
    ASSUME NEW n, NEW k \in 1..n, NEW path, Len(path) \in Nat, NEW j \in Nat, j <= Len(path)
    PROVE  /\ DOMAIN NewNode(path, j, k) = NodeFields /\ NewNode(path, j, k).isDir \in BOOLEAN
           /\ ~NewNode(path, j, k).isDir => NewNode(path, j, k).index \in 1..n
           /\ NewNode(path, j, k).kids = <<>>
<1> DEFINE node == NewNode(path, j, k)
<1>1. DOMAIN node = NodeFields /\ node.kids = <<>>
  BY DEF NewNode, NodeFields
<1>2. node.isDir = (j < Len(path)) /\ node.index = IF j < Len(path) THEN 0 ELSE k
  BY Zenon DEF NewNode
<1>3. (j < Len(path)) \in BOOLEAN
  OBVIOUS
<1> HIDE DEF node
<1>4. node.isDir \in BOOLEAN /\ (~node.isDir => node.index \in 1..n)
  BY <1>2, <1>3, Zenon
<1>5. QED
  BY <1>1, <1>4 DEF node

LEMMA InsertExists ==
    ASSUME NEW t, NEW path, NEW k
    PROVE  \A m \in Nat : \E f : Inserts(f, t, path, k, m)
<1> DEFINE S == {m \in Nat : \E f : Inserts(f, t, path, k, m)}
<1>1. 0 \in S
  <2> DEFINE g == [j \in 0..0 |-> t]
  <2>1. Inserts(g, t, path, k, 0)
    BY DEF Inserts
  <2>2. QED
    BY <2>1
<1>2. ASSUME NEW m \in Nat, m \in S PROVE m + 1 \in S
  <2>1. PICK f : Inserts(f, t, path, k, m)
    BY <1>2
  <2> DEFINE g == [j \in 0..m + 1 |->
                      IF j = m + 1 THEN InsertStep(f[m], path, k, j) ELSE f[j]]
  <2>2. ASSUME NEW j \in 0..m + 1
        PROVE  g[j] = IF j = 0 THEN t ELSE InsertStep(g[j - 1], path, k, j)
    <3>1. CASE j = m + 1
      BY <3>1
    <3>2. CASE j # m + 1
      <4>1. j \in 0..m /\ g[j] = f[j] /\ (j # 0 => g[j - 1] = f[j - 1])
        BY <3>2
      <4>2. f[j] = IF j = 0 THEN t ELSE InsertStep(f[j - 1], path, k, j)
        BY <2>1, <4>1 DEF Inserts
      <4> HIDE DEF g
      <4>3. QED
        BY <4>1, <4>2
    <3>3. QED
      BY <3>1, <3>2
  <2>3. DOMAIN g = 0..m + 1
    OBVIOUS
  <2>4. g = [j \in 0..m + 1 |-> g[j]]
    OBVIOUS
  <2> HIDE DEF g
  <2>5. Inserts(g, t, path, k, m + 1)
    BY <2>2, <2>4 DEF Inserts
  <2>6. QED
    BY <2>5
<1> HIDE DEF S
<1>3. \A m \in Nat : m \in S
  BY <1>1, <1>2, NatInductionOn
<1>4. QED
  BY <1>3 DEF S

\* One step of an insertion keeps the tree good.
LEMMA StepGood ==
    ASSUME NEW n, NEW t, GoodTree(t, n), NEW path \in Seq(STRING), NEW k \in 1..n,
           \A j \in 0..Len(path) : Free # Prefix(Folded(path), j),
           NEW m \in Nat, m + 1 <= Len(path)
    PROVE  GoodTree(InsertStep(t, path, k, m + 1), n)
<1> DEFINE key == Prefix(Folded(path), m + 1)
           node == NewNode(path, m + 1, k)
<1>1. Len(path) \in Nat
  OBVIOUS
<1>2. key # Free
  BY <1>1
<1>3. /\ DOMAIN node = NodeFields /\ node.isDir \in BOOLEAN
      /\ ~node.isDir => node.index \in 1..n
      /\ node.kids = <<>>
  BY <1>1, NewNodeGood
<1> HIDE DEF key, node
<1>4. key \notin DOMAIN t => GoodTree(AddNode(t, key, node), n)
  BY <1>2, <1>3, AddNodeGood
<1>5. QED
  BY <1>4 DEF InsertStep, key, node

\* The trees an insertion goes through.
LEMMA InsertSteps ==
    ASSUME NEW t, NEW path \in Seq(STRING), NEW k
    PROVE  \E f : Inserts(f, t, path, k, Len(path)) /\ Insert(t, path, k) = f[Len(path)]
<1> DEFINE in == CHOOSE f : Inserts(f, t, path, k, Len(path))
<1>1. Len(path) \in Nat
  OBVIOUS
<1>2. Inserts(in, t, path, k, Len(path))
  <2>1. \E f : Inserts(f, t, path, k, Len(path))
    BY <1>1, InsertExists
  <2>2. QED
    BY <2>1, Zenon
<1>3. Insert(t, path, k) = in[Len(path)]
  BY DEF Insert, Inserts, InsertStep, NewNode
<1> HIDE DEF in
<1>4. QED
  BY <1>2, <1>3

\* Inserting an entry keeps the tree good.
LEMMA InsertGood ==
    ASSUME NEW n, NEW t, GoodTree(t, n), NEW path \in Seq(STRING), NEW k \in 1..n,
           \A j \in 0..Len(path) : Free # Prefix(Folded(path), j)
    PROVE  GoodTree(Insert(t, path, k), n)
<1>1. Len(path) \in Nat
  OBVIOUS
<1>2. PICK in : Inserts(in, t, path, k, Len(path)) /\ Insert(t, path, k) = in[Len(path)]
  BY InsertSteps
<1> DEFINE S == {m \in Nat : m <= Len(path) => GoodTree(in[m], n)}
<1>3. 0 \in S
  <2>1. in[0] = t
    BY <1>1, <1>2 DEF Inserts
  <2>2. QED
    BY <2>1
<1>4. ASSUME NEW m \in Nat, m \in S PROVE m + 1 \in S
  <2>1. SUFFICES ASSUME m + 1 <= Len(path) PROVE GoodTree(in[m + 1], n)
    OBVIOUS
  <2>2. in[m + 1] = InsertStep(in[m], path, k, m + 1)
    BY <1>1, <1>2, <2>1 DEF Inserts
  <2>3. GoodTree(in[m], n)
    BY <1>1, <1>4, <2>1
  <2>4. GoodTree(InsertStep(in[m], path, k, m + 1), n)
    BY <2>1, <2>3, StepGood
  <2>5. QED
    BY <2>2, <2>4
<1>5. Len(path) \in S
  <2> HIDE DEF S
  <2>1. QED
    BY <1>1, <1>3, <1>4, NatInductionOn
<1>6. QED
  BY <1>1, <1>2, <1>5

-----------------------------------------------------------------------------
(***************************************************************************)
(* Reading.                                                                *)
(***************************************************************************)
ReaderFields == {"pc", "index", "request", "rc", "data", "failed"}
InExtractor == {"path", "compare", "seek", "read", "leave"}

\* What the call of paf_extractor_get_file has given.
Answered(r) ==
    \/ reader[r].failed /\ reader[r].rc # 0
    \/ Of(r).refused /\ reader[r].rc = -3
    \/ ~Of(r).refused /\ Len(Of(r).data) > LongMax /\ reader[r].rc = -4
    \/ ~Of(r).refused /\ SameInCwd(Of(r).path, Of(r).data)
    \/ Of(r).at > LongMax
    \/ /\ ~Of(r).refused /\ Len(Of(r).data) <= LongMax
       /\ reader[r].rc = 0 /\ reader[r].data = Of(r).data

\* What thread r knows at each place of its call, and when it has the lock.
AtReader(r) ==
    /\ DOMAIN reader[r] = ReaderFields
    /\ reader[r].pc \in Labels
    /\ (lock = r) <=> (reader[r].pc \in InExtractor)
    /\ reader[r].pc # "none" => reader[r].index \in 1..Len(archive) /\ reader[r].request \in Requests
    /\ reader[r].pc \in {"enter", "path", "compare", "seek", "read"} =>
          reader[r].rc = 0 /\ reader[r].data = Free
    /\ reader[r].pc \in {"compare", "seek", "read"} => ~Of(r).refused
    /\ reader[r].pc = "read" =>
          /\ Len(Of(r).data) <= LongMax
          /\ filePos = <<IF Of(r).at <= LongMax THEN "data" ELSE "astray", reader[r].index>>
    /\ reader[r].pc \in {"leave", "write"} => Answered(r)

Mounting ==
    /\ archive \in Archives /\ next \in Nat \ {0}
    /\ GoodTree(tree, Len(archive))

ReadInv == Mounting /\ DOMAIN reader = Readers /\ \A r \in Readers : AtReader(r)

LEMMA ArchiveTypes ==
    ASSUME archive \in Archives
    PROVE  /\ Len(archive) \in Nat
           /\ \A k \in 1..Len(archive) :
                 /\ archive[k].path \in Seq(STRING) /\ archive[k].data \in Seq(Nat)
                 /\ archive[k].refused \in BOOLEAN /\ archive[k].at \in Nat /\ archive[k].data # Free
                 /\ \A j \in 0..Len(archive[k].path) : Free # Prefix(Folded(archive[k].path), j)
<1>1. archive \in Seq([path : Seq(STRING), data : Seq(Nat), refused : BOOLEAN, at : Nat])
  BY ArchiveAssumption
<1>2. Len(archive) \in Nat
  BY <1>1, LenProperties
<1>3. \A k \in 1..Len(archive) : archive[k] \in [path : Seq(STRING), data : Seq(Nat), refused : BOOLEAN, at : Nat]
  BY <1>1, ElementOfSeq
<1>4. \A k \in 1..Len(archive) :
          /\ archive[k].path \in Seq(STRING) /\ archive[k].data \in Seq(Nat)
          /\ archive[k].refused \in BOOLEAN /\ archive[k].at \in Nat
  BY <1>3
<1>5. \A k \in 1..Len(archive) :
          /\ archive[k].data # Free
          /\ \A j \in 0..Len(archive[k].path) : Free # Prefix(Folded(archive[k].path), j)
  BY ArchiveAssumption, Zenon
<1>6. QED
  BY <1>2, <1>4, <1>5

LEMMA MountingInit == Init => Mounting
<1> SUFFICES ASSUME Init PROVE Mounting
  OBVIOUS
<1>1. archive \in Archives /\ next \in Nat \ {0}
  BY DEF Init
<1>2. GoodTree(tree, Len(archive))
  <2>1. DOMAIN tree = {<<>>} /\ tree[<<>>] = Root
    BY DEF Init
  <2>2. DOMAIN Root = NodeFields /\ Root.isDir = TRUE /\ Root.kids = <<>>
    BY DEF Root, NodeFields
  <2>3. Root.kids \in Seq({<<>>})
    BY <2>2
  <2>4. QED
    BY <2>1, <2>2, <2>3, SlotAssumption DEF GoodTree
<1>3. QED
  BY <1>1, <1>2 DEF Mounting

LEMMA MountingStep == Mounting /\ [Next]_vars => Mounting'
<1> SUFFICES ASSUME Mounting, [Next]_vars PROVE Mounting'
  OBVIOUS
<1>1. CASE BuildTree
  <2>1. next \in 1..Len(archive) /\ next' = next + 1 /\ archive' = archive
        /\ tree' = Insert(tree, archive[next].path, next)
    <3>1. Len(archive) \in Nat
      BY ArchiveTypes DEF Mounting
    <3>2. QED
      BY <1>1, <3>1 DEF BuildTree, Mounting
  <2>2. GoodTree(tree', Len(archive))
    <3>1. archive[next].path \in Seq(STRING)
          /\ \A j \in 0..Len(archive[next].path) : Free # Prefix(Folded(archive[next].path), j)
      BY <2>1, ArchiveTypes, Zenon DEF Mounting
    <3>2. GoodTree(tree, Len(archive))
      BY DEF Mounting
    <3>3. GoodTree(Insert(tree, archive[next].path, next), Len(archive))
      BY <2>1, <3>1, <3>2, InsertGood
    <3>4. QED
      BY <2>1, <3>3
  <2>3. next' \in Nat \ {0}
    BY <2>1
  <2>4. QED
    BY <2>1, <2>2, <2>3 DEF Mounting, GoodTree
<1>2. CASE ~BuildTree
  <2>1. UNCHANGED <<archive, next, tree>>
    BY <1>2 DEF Next, vars, StartVirtualizing, Unmount, StartDirectoryEnumeration,
         EndDirectoryEnumeration, GetDirectoryEnumeration, ScanStep, SkipChild, FillChild,
         BufferFull, EndScan, GetFileData, ReadStep, EnterExtractor, ReadPath, Compare, SeekData,
         ReadData, LeaveExtractor, WriteFileData
  <2>2. QED
    BY <2>1 DEF Mounting, GoodTree
<1>3. QED
  BY <1>1, <1>2

\* A step of thread r leaves every other thread where it is: the lock goes
\* from or to r only, and the archive is moved only by the holder.
LEMMA OthersStay ==
    ASSUME ReadInv, NEW r \in Readers, NEW w, reader' = [reader EXCEPT ![r] = w],
           archive' = archive,
           \/ lock' = lock
           \/ lock \in {r, Free} /\ lock' \in {r, Free},
           filePos' = filePos \/ lock = r,
           AtReader(r)'
    PROVE  DOMAIN reader' = Readers /\ \A q \in Readers : AtReader(q)'
<1>1. DOMAIN reader' = Readers
  BY DEF ReadInv
<1>2. ASSUME NEW q \in Readers, q # r PROVE AtReader(q)'
  <2>1. AtReader(q) /\ AtReader(r) /\ reader'[q] = reader[q]
    BY <1>2 DEF ReadInv
  <2>2. q # Free
    BY SlotAssumption
  <2>3. (lock' = q) <=> (lock = q)
    BY <1>2, <2>2
  <2>4. reader[q].pc = "read" => filePos' = filePos
    BY <1>2, <2>1 DEF AtReader, InExtractor
  <2>5. Of(q)' = Of(q)
    BY <2>1 DEF Of
  <2>6. QED
    BY <2>1, <2>3, <2>4, <2>5 DEF AtReader, Answered, SameInCwd
<1>3. QED
  BY <1>1, <1>2

\* A step that only moves r's place.
LEMMA GotoMoves ==
    ASSUME DOMAIN reader = Readers, NEW r \in Readers, DOMAIN reader[r] = ReaderFields,
           NEW pc, ReaderGoto(r, pc)
    PROVE  /\ reader' = [reader EXCEPT ![r] = [reader[r] EXCEPT !.pc = pc]]
           /\ DOMAIN reader'[r] = ReaderFields /\ reader'[r].pc = pc
           /\ reader'[r].index = reader[r].index /\ reader'[r].request = reader[r].request
           /\ reader'[r].rc = reader[r].rc /\ reader'[r].data = reader[r].data
           /\ reader'[r].failed = reader[r].failed
<1>1. reader' = [reader EXCEPT ![r] = [reader[r] EXCEPT !.pc = pc]]
  BY DEF ReaderGoto
<1>2. reader'[r] = [reader[r] EXCEPT !.pc = pc]
  BY <1>1
<1>3. QED
  BY <1>1, <1>2 DEF ReaderFields

\* A step that ends the call with an error.
LEMMA FailedMoves ==
    ASSUME ReadInv, NEW r \in Readers, reader[r].pc \in InExtractor, lock = r,
           NEW rc, rc # 0, Failed(r, "leave", rc), UNCHANGED <<archive, lock>>
    PROVE  DOMAIN reader' = Readers /\ \A q \in Readers : AtReader(q)'
<1> DEFINE w == [reader[r] EXCEPT !.pc = "leave", !.rc = rc, !.failed = TRUE]
<1>1. DOMAIN reader = Readers /\ AtReader(r) /\ DOMAIN reader[r] = ReaderFields
  BY DEF ReadInv, AtReader
<1>2. reader' = [reader EXCEPT ![r] = w]
  BY DEF Failed
<1>3. /\ DOMAIN w = ReaderFields /\ w.pc = "leave" /\ w.rc = rc /\ w.failed = TRUE
      /\ w.index = reader[r].index /\ w.request = reader[r].request
  BY <1>1 DEF ReaderFields
<1> HIDE DEF w
<1>4. reader'[r] = w
  BY <1>1, <1>2
<1>5. Answered(r)'
  BY <1>3, <1>4 DEF Answered
<1>6. AtReader(r)'
  BY <1>1, <1>3, <1>4, <1>5 DEF AtReader, Labels, InExtractor
<1>7. QED
  BY <1>2, <1>6, OthersStay

LEMMA GetFileDataReads ==
    ASSUME ReadInv, NEW r \in Readers, GetFileData(r)
    PROVE  DOMAIN reader' = Readers /\ \A q \in Readers : AtReader(q)'
<1>1. PICK key \in DOMAIN tree \ Directories, q \in Requests :
          LET call == [NoReader EXCEPT !.index = tree[key].index, !.request = q]
          IN  \/ reader' = [reader EXCEPT ![r] = [call EXCEPT !.pc = "enter"]]
              \/ reader' = [reader EXCEPT ![r] =
                                [call EXCEPT !.pc = "write", !.rc = -1, !.failed = TRUE]]
  BY DEF GetFileData
<1>2. tree[key].index \in 1..Len(archive)
  BY <1>1 DEF ReadInv, Mounting, GoodTree, Directories
<1>3. AtReader(r) /\ reader[r].pc = "none" /\ DOMAIN reader = Readers
      /\ UNCHANGED <<archive, lock, filePos>>
  BY DEF ReadInv, GetFileData
<1> DEFINE call == [NoReader EXCEPT !.index = tree[key].index, !.request = q]
           w == [call EXCEPT !.pc = "enter"]
           u == [call EXCEPT !.pc = "write", !.rc = -1, !.failed = TRUE]
<1>4. /\ DOMAIN w = ReaderFields /\ w.pc = "enter" /\ w.index = tree[key].index /\ w.request = q
      /\ w.rc = 0 /\ w.data = Free
      /\ DOMAIN u = ReaderFields /\ u.pc = "write" /\ u.index = tree[key].index /\ u.request = q
      /\ u.rc = -1 /\ u.failed = TRUE
  BY DEF NoReader, ReaderFields
<1>5. reader' = [reader EXCEPT ![r] = w] \/ reader' = [reader EXCEPT ![r] = u]
  BY <1>1
<1> HIDE DEF call, w, u
<1>6. CASE reader' = [reader EXCEPT ![r] = w]
  <2>1. reader'[r] = w
    BY <1>3, <1>6
  <2>2. AtReader(r)'
    BY <1>1, <1>2, <1>3, <1>4, <2>1 DEF AtReader, Labels, InExtractor
  <2>3. QED
    BY <1>3, <1>6, <2>2, OthersStay
<1>7. CASE reader' = [reader EXCEPT ![r] = u]
  <2>1. reader'[r] = u
    BY <1>3, <1>7
  <2>2. Answered(r)'
    BY <1>4, <2>1 DEF Answered
  <2>3. AtReader(r)'
    BY <1>1, <1>2, <1>3, <1>4, <2>1, <2>2 DEF AtReader, Labels, InExtractor
  <2>4. QED
    BY <1>3, <1>7, <2>3, OthersStay
<1>8. QED
  BY <1>5, <1>6, <1>7

LEMMA EnterReads ==
    ASSUME ReadInv, NEW r \in Readers, EnterExtractor(r)
    PROVE  DOMAIN reader' = Readers /\ \A q \in Readers : AtReader(q)'
<1>1. AtReader(r) /\ DOMAIN reader = Readers
  BY DEF ReadInv
<1>2. /\ reader[r].pc = "enter" /\ lock = Free /\ lock' = r /\ ReaderGoto(r, "path")
      /\ UNCHANGED <<archive, filePos>>
  BY DEF EnterExtractor, MayEnter
<1>3. DOMAIN reader[r] = ReaderFields
  BY <1>1 DEF AtReader
<1>4. AtReader(r)'
  BY <1>1, <1>2, <1>3, GotoMoves DEF AtReader, Labels, InExtractor
<1>5. QED
  BY <1>1, <1>2, <1>3, <1>4, GotoMoves, OthersStay

LEMMA ReadPathReads ==
    ASSUME ReadInv, NEW r \in Readers, ReadPath(r)
    PROVE  DOMAIN reader' = Readers /\ \A q \in Readers : AtReader(q)'
<1>1. AtReader(r) /\ DOMAIN reader = Readers /\ DOMAIN reader[r] = ReaderFields
  BY DEF ReadInv, AtReader
<1>2. reader[r].pc = "path" /\ lock = r /\ UNCHANGED <<archive, lock>>
  BY <1>1 DEF ReadPath, AtReader, InExtractor
<1>3. CASE /\ Of(r).refused
           /\ reader' = [reader EXCEPT ![r].pc = "leave", ![r].rc = -3]
  <2> DEFINE w == [reader[r] EXCEPT !.pc = "leave", !.rc = -3]
  <2>1. reader' = [reader EXCEPT ![r] = w]
    BY <1>3
  <2>2. /\ DOMAIN w = ReaderFields /\ w.pc = "leave" /\ w.rc = -3
        /\ w.index = reader[r].index /\ w.request = reader[r].request
    BY <1>1 DEF ReaderFields
  <2> HIDE DEF w
  <2>3. reader'[r] = w /\ Of(r)' = Of(r)
    BY <1>1, <1>2, <2>1, <2>2 DEF Of
  <2>4. AtReader(r)'
    BY <1>1, <1>2, <1>3, <2>2, <2>3 DEF AtReader, Answered, Labels, InExtractor
  <2>5. QED
    BY <1>2, <2>1, <2>4, OthersStay
<1>4. CASE ~Of(r).refused /\ ReaderGoto(r, "compare")
  <2>1. Of(r)' = Of(r)
    BY <1>1, <1>2, <1>4, GotoMoves DEF Of
  <2>2. AtReader(r)'
    BY <1>1, <1>2, <1>4, <2>1, GotoMoves DEF AtReader, Labels, InExtractor
  <2>3. QED
    BY <1>1, <1>2, <1>4, <2>2, GotoMoves, OthersStay
<1>5. CASE Failed(r, "leave", -1)
  BY <1>2, <1>5, FailedMoves DEF InExtractor
<1>6. QED
  BY <1>3, <1>4, <1>5 DEF ReadPath

LEMMA CompareReads ==
    ASSUME ReadInv, NEW r \in Readers, Compare(r)
    PROVE  DOMAIN reader' = Readers /\ \A q \in Readers : AtReader(q)'
<1>1. AtReader(r) /\ DOMAIN reader = Readers /\ DOMAIN reader[r] = ReaderFields
  BY DEF ReadInv, AtReader
<1>2. /\ reader[r].pc = "compare" /\ lock = r /\ UNCHANGED <<archive, lock, filePos>>
      /\ ~Of(r).refused
  BY <1>1 DEF Compare, AtReader, InExtractor
<1>3. CASE SameInCwd(Of(r).path, Of(r).data) /\ ReaderGoto(r, "leave")
  <2>1. Of(r)' = Of(r)
    BY <1>1, <1>2, <1>3, GotoMoves DEF Of
  <2>2. Answered(r)'
    BY <1>2, <1>3, <2>1 DEF Answered, SameInCwd
  <2>3. AtReader(r)'
    BY <1>1, <1>2, <1>3, <2>1, <2>2, GotoMoves DEF AtReader, Labels, InExtractor
  <2>4. QED
    BY <1>1, <1>2, <1>3, <2>3, GotoMoves, OthersStay
<1>4. CASE ReaderGoto(r, "seek")
  <2>1. Of(r)' = Of(r)
    BY <1>1, <1>2, <1>4, GotoMoves DEF Of
  <2>2. AtReader(r)'
    BY <1>1, <1>2, <1>4, <2>1, GotoMoves DEF AtReader, Labels, InExtractor
  <2>3. QED
    BY <1>1, <1>2, <1>4, <2>2, GotoMoves, OthersStay
<1>5. QED
  BY <1>3, <1>4 DEF Compare

LEMMA SeekReads ==
    ASSUME ReadInv, NEW r \in Readers, SeekData(r)
    PROVE  DOMAIN reader' = Readers /\ \A q \in Readers : AtReader(q)'
<1>1. AtReader(r) /\ DOMAIN reader = Readers /\ DOMAIN reader[r] = ReaderFields
  BY DEF ReadInv, AtReader
<1>2. /\ reader[r].pc = "seek" /\ lock = r /\ UNCHANGED <<archive, lock>>
      /\ ~Of(r).refused
  BY <1>1 DEF SeekData, AtReader, InExtractor
<1>3. CASE /\ Len(Of(r).data) > LongMax
           /\ reader' = [reader EXCEPT ![r].pc = "leave", ![r].rc = -4]
  <2> DEFINE w == [reader[r] EXCEPT !.pc = "leave", !.rc = -4]
  <2>1. reader' = [reader EXCEPT ![r] = w]
    BY <1>3
  <2>2. /\ DOMAIN w = ReaderFields /\ w.pc = "leave" /\ w.rc = -4
        /\ w.index = reader[r].index /\ w.request = reader[r].request
    BY <1>1 DEF ReaderFields
  <2> HIDE DEF w
  <2>3. reader'[r] = w /\ Of(r)' = Of(r)
    BY <1>1, <1>2, <2>1, <2>2 DEF Of
  <2>4. Answered(r)'
    BY <1>2, <1>3, <2>2, <2>3 DEF Answered
  <2>5. AtReader(r)'
    BY <1>1, <1>2, <2>2, <2>3, <2>4 DEF AtReader, Labels, InExtractor
  <2>6. QED
    BY <1>2, <2>1, <2>5, OthersStay
<1>4. CASE Failed(r, "leave", -5)
  BY <1>2, <1>4, FailedMoves DEF InExtractor
<1>5. CASE /\ Len(Of(r).data) <= LongMax /\ ReaderGoto(r, "read")
           /\ filePos' = <<IF Of(r).at <= LongMax THEN "data" ELSE "astray", reader[r].index>>
  <2>1. Of(r)' = Of(r)
    BY <1>1, <1>2, <1>5, GotoMoves DEF Of
  <2>2. AtReader(r)'
    BY <1>1, <1>2, <1>5, <2>1, GotoMoves DEF AtReader, Labels, InExtractor
  <2>3. QED
    BY <1>1, <1>2, <1>5, <2>2, GotoMoves, OthersStay
<1>6. QED
  BY <1>3, <1>4, <1>5 DEF SeekData

LEMMA ReadDataReads ==
    ASSUME ReadInv, NEW r \in Readers, ReadData(r)
    PROVE  DOMAIN reader' = Readers /\ \A q \in Readers : AtReader(q)'
<1>1. AtReader(r) /\ DOMAIN reader = Readers /\ DOMAIN reader[r] = ReaderFields
  BY DEF ReadInv, AtReader
<1>2. /\ reader[r].pc = "read" /\ lock = r /\ UNCHANGED <<archive, lock>>
      /\ ~Of(r).refused /\ Len(Of(r).data) <= LongMax /\ reader[r].rc = 0
      /\ Of(r).at <= LongMax => filePos = <<"data", reader[r].index>>
  BY <1>1 DEF ReadData, AtReader, InExtractor
<1> DEFINE got == IF filePos[1] = "data" THEN archive[filePos[2]].data
                  ELSE [j \in 1..Len(Of(r).data) |-> Other]
<1>3. CASE reader' = [reader EXCEPT ![r].pc = "leave", ![r].data = got]
  <2>1. Of(r).at <= LongMax => got = Of(r).data
    BY <1>2 DEF Of
  <2> HIDE DEF got
  <2> DEFINE w == [reader[r] EXCEPT !.pc = "leave", !.data = got]
  <2>2. reader' = [reader EXCEPT ![r] = w]
    BY <1>3
  <2>3. /\ DOMAIN w = ReaderFields /\ w.pc = "leave" /\ w.data = got /\ w.rc = reader[r].rc
        /\ w.index = reader[r].index /\ w.request = reader[r].request
    BY <1>1 DEF ReaderFields
  <2> HIDE DEF w
  <2>4. reader'[r] = w /\ Of(r)' = Of(r)
    BY <1>1, <1>2, <2>2, <2>3 DEF Of
  <2>5. Of(r).at \in Nat
    BY <1>1, <1>2, ArchiveTypes DEF ReadInv, Mounting, AtReader, Of
  <2>6. Answered(r)'
    BY <1>2, <2>1, <2>3, <2>4, <2>5, SlotAssumption DEF Answered
  <2>7. AtReader(r)'
    BY <1>1, <1>2, <2>3, <2>4, <2>6 DEF AtReader, Labels, InExtractor
  <2>8. QED
    BY <1>2, <2>2, <2>7, OthersStay
<1>4. CASE Failed(r, "leave", -1)
  BY <1>2, <1>4, FailedMoves DEF InExtractor
<1>5. QED
  BY <1>3, <1>4 DEF ReadData

LEMMA LeaveReads ==
    ASSUME ReadInv, NEW r \in Readers, LeaveExtractor(r)
    PROVE  DOMAIN reader' = Readers /\ \A q \in Readers : AtReader(q)'
<1>1. AtReader(r) /\ DOMAIN reader = Readers /\ DOMAIN reader[r] = ReaderFields
  BY DEF ReadInv, AtReader
<1>2. /\ reader[r].pc = "leave" /\ lock = r /\ lock' = Free /\ UNCHANGED <<archive, filePos>>
      /\ ReaderGoto(r, "write")
  BY <1>1 DEF LeaveExtractor, AtReader, InExtractor
<1>3. Of(r)' = Of(r) /\ r # Free
  BY <1>1, <1>2, GotoMoves, SlotAssumption DEF Of
<1>4. Answered(r)'
  BY <1>1, <1>2, <1>3, GotoMoves DEF AtReader, Answered, SameInCwd
<1>5. AtReader(r)'
  BY <1>1, <1>2, <1>3, <1>4, GotoMoves DEF AtReader, Labels, InExtractor
<1>6. QED
  BY <1>1, <1>2, <1>5, GotoMoves, OthersStay

LEMMA WriteReads ==
    ASSUME ReadInv, NEW r \in Readers, WriteFileData(r)
    PROVE  DOMAIN reader' = Readers /\ \A q \in Readers : AtReader(q)'
<1>1. AtReader(r) /\ DOMAIN reader = Readers
  BY DEF ReadInv
<1>2. /\ reader[r].pc = "write" /\ UNCHANGED <<archive, lock, filePos>>
      /\ reader' = [reader EXCEPT ![r] = NoReader]
  BY DEF WriteFileData
<1>3. DOMAIN NoReader = ReaderFields /\ NoReader.pc = "none"
  BY DEF NoReader, ReaderFields
<1>4. reader'[r] = NoReader
  BY <1>1, <1>2
<1>5. AtReader(r)'
  BY <1>1, <1>2, <1>3, <1>4 DEF AtReader, Labels, InExtractor
<1>6. QED
  BY <1>2, <1>5, OthersStay

LEMMA ReadInit == Init => ReadInv
<1> SUFFICES ASSUME Init PROVE ReadInv
  OBVIOUS
<1>1. DOMAIN reader = Readers
  BY DEF Init
<1>2. ASSUME NEW r \in Readers PROVE AtReader(r)
  <2>1. reader[r] = NoReader /\ lock = Free /\ r # Free
    BY SlotAssumption DEF Init
  <2>2. DOMAIN NoReader = ReaderFields /\ NoReader.pc = "none"
    BY DEF NoReader, ReaderFields
  <2>3. QED
    BY <2>1, <2>2 DEF AtReader, Labels, InExtractor
<1>3. QED
  BY <1>1, <1>2, MountingInit DEF ReadInv

LEMMA ReadsStep == ReadInv /\ [Next]_vars => ReadInv'
<1> SUFFICES ASSUME ReadInv, [Next]_vars PROVE ReadInv'
  OBVIOUS
<1>1. Mounting'
  BY MountingStep DEF ReadInv
<1>2. CASE \E r \in Readers : GetFileData(r)
  BY <1>1, <1>2, GetFileDataReads DEF ReadInv
<1>3. CASE \E r \in Readers : ReadStep(r)
  <2>1. PICK r \in Readers : ReadStep(r)
    BY <1>3
  <2>2. DOMAIN reader' = Readers /\ \A q \in Readers : AtReader(q)'
    BY <2>1, EnterReads, ReadPathReads, CompareReads, SeekReads, ReadDataReads, LeaveReads,
       WriteReads DEF ReadStep
  <2>3. QED
    BY <1>1, <2>2 DEF ReadInv
<1>4. CASE ~\E r \in Readers : GetFileData(r) \/ ReadStep(r)
  <2>1. UNCHANGED <<archive, lock, filePos, reader>>
    BY <1>4 DEF Next, vars, reads, BuildTree, StartVirtualizing, Unmount, StartDirectoryEnumeration,
         EndDirectoryEnumeration, GetDirectoryEnumeration, ScanStep, SkipChild, FillChild,
         BufferFull, EndScan
  <2>2. \A r \in Readers : AtReader(r)'
    BY <2>1 DEF ReadInv, AtReader, Answered, Of, SameInCwd
  <2>3. QED
    BY <1>1, <2>1, <2>2 DEF ReadInv
<1>5. QED
  BY <1>2, <1>3, <1>4

\* Whatever is asked of what was read is answered with its bytes.
LEMMA AnswerIs ==
    ASSUME NEW data \in Seq(Nat), NEW q \in [from : Nat, length : Nat]
    PROVE  /\ Len(Answer(data, q)) = q.length
           /\ \A j \in 1..q.length :
                 Answer(data, q)[j] = IF q.from + j \in 1..Len(data) THEN data[q.from + j] ELSE 0
<1>1. q.from \in Nat /\ q.length \in Nat /\ Len(data) \in Nat
  OBVIOUS
<1>2. Len(Answer(data, q)) = q.length
  BY <1>1 DEF Answer
<1>3. ASSUME NEW j \in 1..q.length
      PROVE  Answer(data, q)[j] = IF q.from + j \in 1..Len(data) THEN data[q.from + j] ELSE 0
  <2>1. (q.from + j <= Len(data)) <=> (q.from + j \in 1..Len(data))
    BY <1>1
  <2>2. Answer(data, q)[j] = IF q.from + j <= Len(data) THEN data[q.from + j] ELSE 0
    BY DEF Answer
  <2>3. QED
    BY <2>1, <2>2
<1>4. QED
  BY <1>2, <1>3

LEMMA ServedRight == ReadInv => DataServed
<1> SUFFICES ASSUME ReadInv, NEW r \in Readers,
                    reader[r].pc = "write", ~SameInCwd(Of(r).path, Of(r).data),
                    Of(r).at <= LongMax
             PROVE  LET data == Of(r).data
                        q    == reader[r].request
                    IN  IF Of(r).refused \/ Len(data) > LongMax \/ q.from > Len(data)
                        THEN Served(r) = Free
                        ELSE \/ reader[r].failed /\ Served(r) = Free
                             \/ /\ Len(Served(r)) = q.length
                                /\ \A j \in 1..q.length :
                                      Served(r)[j] = IF q.from + j \in 1..Len(data)
                                                     THEN data[q.from + j] ELSE 0
  BY DEF DataServed
<1> DEFINE q == reader[r].request
           data == Of(r).data
<1>1. AtReader(r) /\ Answered(r)
  BY DEF ReadInv, AtReader
<1>2. q \in [from : Nat, length : Nat]
  BY <1>1, SlotAssumption DEF AtReader
<1>3. data \in Seq(Nat) /\ data # Free /\ Of(r).at \in Nat
  <2>1. reader[r].index \in 1..Len(archive)
    BY <1>1 DEF AtReader
  <2>2. QED
    BY <2>1, ArchiveTypes DEF ReadInv, Mounting, Of
<1>4. Len(data) \in Nat /\ LongMax \in Nat
  BY <1>3, SlotAssumption
<1>5. reader[r].rc # 0 => Served(r) = Free
  BY DEF Served
<1>6. CASE reader[r].failed /\ reader[r].rc # 0
  BY <1>5, <1>6
<1>7. CASE Of(r).refused /\ reader[r].rc = -3
  BY <1>5, <1>7
<1>8. CASE Len(data) > LongMax /\ reader[r].rc = -4
  BY <1>5, <1>8
<1>9. CASE /\ ~Of(r).refused /\ Len(data) <= LongMax
           /\ reader[r].rc = 0 /\ reader[r].data = data
  <2>1. CASE q.from > Len(data)
    <3>1. Served(r) = Free
      BY <1>3, <1>9, <2>1 DEF Served
    <3>2. QED
      BY <2>1, <3>1
  <2>2. CASE ~(q.from > Len(data))
    <3>1. Served(r) = Answer(data, q)
      BY <1>3, <1>9, <2>2 DEF Served
    <3> HIDE DEF q, data
    <3>2. /\ Len(Served(r)) = q.length
          /\ \A j \in 1..q.length :
                Served(r)[j] = IF q.from + j \in 1..Len(data) THEN data[q.from + j] ELSE 0
      BY <1>2, <1>3, <3>1, AnswerIs
    <3>3. ~(Of(r).refused \/ Len(data) > LongMax \/ q.from > Len(data))
      BY <1>4, <1>9, <2>2
    <3>4. QED
      BY <3>2, <3>3 DEF q, data
  <2>3. QED
    BY <2>1, <2>2
<1>10. ~(Of(r).at > LongMax)
  BY <1>3, <1>4
<1>11. QED
  BY <1>1, <1>6, <1>7, <1>8, <1>9, <1>10 DEF Answered

\* For every archive, directory and number of threads: a read through the
\* one open archive gives the bytes of the file it was asked for and zeros
\* behind its end, or an error if this very call met a fault, for every entry
\* that begins below 2 GiB (paf_mount.c:390-442, paf_extractor.c:83-143).
THEOREM DataServedAlways == Spec => []DataServed
<1>1. QED
  BY ReadInit, ReadsStep, ServedRight, PTL DEF Spec

-----------------------------------------------------------------------------
(***************************************************************************)
(* Walking.                                                                *)
(***************************************************************************)
SessionFields == {"id", "dir", "cursor", "filter"}

\* What Listing sees of enumeration e.
DirOf(e) == IF Holds(e) THEN sessions[SlotOf(e)].dir ELSE Free
Want(e)  == IF Holds(e) THEN sessions[SlotOf(e)].filter ELSE All

Met(d, cursor, filter) == {k \in 1..cursor : FileNameMatch(Kid(d, k).name, filter)}

\* No enumeration has two places.
Ids ==
    /\ DOMAIN sessions = Slots
    /\ \A s \in Slots : sessions[s].id \in Enums \union {Free}
    /\ \A s, u \in Slots : sessions[s].id = sessions[u].id /\ sessions[s].id # Free => s = u

\* What was shown is what the cursor has passed.
AtSession(s) ==
    /\ DOMAIN sessions[s] = SessionFields
    /\ sessions[s].id # Free =>
          /\ phase # "build" /\ sessions[s].dir \in Directories
          /\ sessions[s].cursor \in 0..Len(tree[sessions[s].dir].kids)
          /\ shown[sessions[s].id] = Met(sessions[s].dir, sessions[s].cursor, sessions[s].filter)

\* A callback that runs has the place of its own enumeration.
AtScan(e) == scan[e].pc = "scan" => scan[e].slot \in Slots /\ sessions[scan[e].slot].id = e

Unheld(e) == ~Holds(e) => shown[e] = {}

WalkInv ==
    /\ Mounting /\ Ids
    /\ DOMAIN scan = Enums /\ DOMAIN shown = Enums
    /\ \A s \in Slots : AtSession(s)
    /\ \A e \in Enums : AtScan(e) /\ Unheld(e)

LEMMA ChosenSlot ==
    ASSUME NEW f, NEW e, NEW s \in Slots, f[s].id = e, \A u \in Slots : f[u].id = e => u = s
    PROVE  (CHOOSE u \in Slots : f[u].id = e) = s
<1>1. \E u \in Slots : f[u].id = e
  OBVIOUS
<1>2. (CHOOSE u \in Slots : f[u].id = e) \in Slots /\ f[CHOOSE u \in Slots : f[u].id = e].id = e
  BY <1>1, Zenon
<1>3. QED
  BY <1>2

LEMMA HeldBy ==
    ASSUME Ids, NEW e \in Enums, Holds(e)
    PROVE  SlotOf(e) \in Slots /\ sessions[SlotOf(e)].id = e
BY Zenon DEF SlotOf, Holds

LEMMA WalkInit == Init => WalkInv /\ L!Init
<1> SUFFICES ASSUME Init PROVE WalkInv /\ L!Init
  OBVIOUS
<1>1. \A s \in Slots : sessions[s] = EmptySession
  BY DEF Init
<1>2. EmptySession.id = Free /\ DOMAIN EmptySession = SessionFields
  BY DEF EmptySession, SessionFields
<1>3. Ids /\ \A s \in Slots : AtSession(s)
  BY <1>1, <1>2 DEF Init, Ids, AtSession
<1>4. \A e \in Enums : ~Holds(e)
  BY <1>1, <1>2, SlotAssumption DEF Holds
<1>5. \A e \in Enums : AtScan(e) /\ Unheld(e)
  BY DEF Init, AtScan, Unheld, NoScan
<1>6. WalkInv
  BY <1>3, <1>5, MountingInit DEF Init, WalkInv
<1>7. L!Init
  BY <1>4 DEF Init, L!Init
<1>8. QED
  BY <1>6, <1>7

\* A step that gives one place, s, which is e's or unused, the value w.
Changes(e, s, w) ==
    /\ UNCHANGED <<archive, next, tree, phase>>
    /\ sessions[s].id = e \/ (sessions[s].id = Free /\ ~Holds(e))
    /\ DOMAIN sessions' = Slots /\ sessions'[s] = w
    /\ \A u \in Slots \ {s} : sessions'[u] = sessions[u]
    /\ DOMAIN w = SessionFields /\ w.id \in {e, Free}
    /\ DOMAIN shown' = Enums /\ \A q \in Enums \ {e} : shown'[q] = shown[q]
    /\ w.id = e => /\ phase # "build" /\ w.dir \in Directories
                   /\ w.cursor \in 0..Len(tree[w.dir].kids)
                   /\ shown'[e] = Met(w.dir, w.cursor, w.filter)
    /\ w.id = Free => shown'[e] = {}
    /\ DOMAIN scan' = Enums /\ \A q \in Enums \ {e} : scan'[q] = scan[q]
    /\ scan'[e].pc = "scan" => scan'[e].slot = s /\ w.id = e

\* The other enumerations keep their places, and so their listings.
LEMMA OneSession ==
    ASSUME WalkInv, NEW e \in Enums, NEW s \in Slots, NEW w, Changes(e, s, w)
    PROVE  /\ WalkInv'
           /\ \A q \in Enums \ {e} : DirOf(q)' = DirOf(q) /\ Want(q)' = Want(q)
           /\ w.id = e => DirOf(e)' = w.dir /\ Want(e)' = w.filter
           /\ w.id = Free => DirOf(e)' = Free /\ Want(e)' = All
<1> USE DEF Changes
<1>1. e # Free /\ Ids /\ DOMAIN sessions' = Slots /\ sessions'[s] = w
      /\ \A u \in Slots \ {s} : sessions'[u] = sessions[u]
  BY SlotAssumption DEF WalkInv, Ids
<1>2. \A u \in Slots \ {s} : sessions[u].id # e
  BY <1>1 DEF Ids, Holds
<1>3. Ids'
  <2>1. \A u \in Slots : sessions'[u].id \in Enums \union {Free}
    BY <1>1 DEF Ids
  <2>2. ASSUME NEW t \in Slots, NEW u \in Slots,
               sessions'[t].id = sessions'[u].id, sessions'[t].id # Free
        PROVE  t = u
    <3>1. CASE t = s \/ u = s
      BY <1>1, <1>2, <2>2, <3>1
    <3>2. CASE t # s /\ u # s
      BY <1>1, <2>2, <3>2 DEF Ids
    <3>3. QED
      BY <3>1, <3>2
  <2>3. QED
    BY <1>1, <2>1, <2>2 DEF Ids
<1>4. /\ w.id = e => Holds(e)' /\ SlotOf(e)' = s
      /\ w.id = Free => ~Holds(e)'
  <2>1. w.id = e => Holds(e)'
    BY <1>1 DEF Holds
  <2>2. w.id = e => (CHOOSE u \in Slots : sessions'[u].id = e) = s
    BY <1>1, <1>2, ChosenSlot
  <2>3. w.id = Free => ~Holds(e)'
    BY <1>1, <1>2 DEF Holds
  <2>4. QED
    BY <2>1, <2>2, <2>3 DEF SlotOf
<1>5. ASSUME NEW q \in Enums \ {e}
      PROVE  /\ Holds(q)' <=> Holds(q)
             /\ Holds(q) => SlotOf(q) \in Slots \ {s} /\ SlotOf(q)' = SlotOf(q)
  <2>1. q # Free /\ sessions[s].id # q /\ w.id # q
    BY <1>5, SlotAssumption
  <2>2. Holds(q)' <=> Holds(q)
    BY <1>1, <2>1 DEF Holds
  <2>3. ASSUME Holds(q) PROVE SlotOf(q) \in Slots \ {s} /\ SlotOf(q)' = SlotOf(q)
    <3>1. PICK t \in Slots : sessions[t].id = q
      BY <2>3 DEF Holds
    <3>2. t # s
      BY <2>1, <3>1
    <3>3. \A u \in Slots : sessions[u].id = q => u = t
      BY <1>1, <2>1, <3>1 DEF Ids
    <3>4. \A u \in Slots : sessions'[u].id = q => u = t
      BY <1>1, <2>1, <3>1, <3>3
    <3>5. sessions'[t].id = q
      BY <1>1, <3>1, <3>2
    <3>6. (CHOOSE u \in Slots : sessions[u].id = q) = t
      BY <3>1, <3>3, ChosenSlot
    <3>7. (CHOOSE u \in Slots : sessions'[u].id = q) = t
      BY <3>5, <3>4, ChosenSlot
    <3>8. QED
      BY <3>2, <3>6, <3>7 DEF SlotOf
  <2>4. QED
    BY <2>2, <2>3
<1>6. \A u \in Slots : AtSession(u)'
  <2>1. AtSession(s)'
    <3>1. Directories' = Directories /\ \A d, k, f : Met(d, k, f)' = Met(d, k, f)
      BY DEF Directories, Met, Kid
    <3>2. QED
      BY <1>1, <3>1 DEF AtSession
  <2>2. ASSUME NEW u \in Slots \ {s} PROVE AtSession(u)'
    <3>1. AtSession(u) /\ sessions'[u] = sessions[u] /\ sessions[u].id # e
      BY <1>1, <1>2 DEF WalkInv
    <3>2. sessions[u].id # Free => sessions[u].id \in Enums \ {e}
      BY <1>1, <3>1 DEF Ids
    <3>3. Directories' = Directories /\ \A d, k, f : Met(d, k, f)' = Met(d, k, f)
      BY DEF Directories, Met, Kid
    <3>4. QED
      BY <3>1, <3>2, <3>3 DEF AtSession
  <2>3. QED
    BY <2>1, <2>2
<1>7. \A q \in Enums : AtScan(q)' /\ Unheld(q)'
  <2>1. AtScan(e)' /\ Unheld(e)'
    BY <1>1, <1>4 DEF AtScan, Unheld
  <2>2. ASSUME NEW q \in Enums \ {e} PROVE AtScan(q)' /\ Unheld(q)'
    <3>1. AtScan(q) /\ Unheld(q) /\ scan'[q] = scan[q] /\ shown'[q] = shown[q] /\ q # Free
      BY SlotAssumption DEF WalkInv
    <3>2. AtScan(q)'
      BY <1>1, <3>1 DEF AtScan
    <3>3. Unheld(q)'
      BY <1>5, <3>1 DEF Unheld
    <3>4. QED
      BY <3>2, <3>3
  <2>3. QED
    BY <2>1, <2>2
<1>8. WalkInv'
  BY <1>3, <1>6, <1>7 DEF WalkInv, Mounting, GoodTree
<1>9. \A q \in Enums \ {e} : DirOf(q)' = DirOf(q) /\ Want(q)' = Want(q)
  BY <1>1, <1>5 DEF DirOf, Want
<1>10. /\ w.id = e => DirOf(e)' = w.dir /\ Want(e)' = w.filter
       /\ w.id = Free => DirOf(e)' = Free /\ Want(e)' = All
  BY <1>1, <1>4 DEF DirOf, Want
<1>11. QED
  BY <1>8, <1>9, <1>10

LEMMA StartWalks ==
    ASSUME WalkInv, NEW e \in Enums, StartDirectoryEnumeration(e)
    PROVE  WalkInv' /\ L!Open(e)
<1>1. /\ phase = "mounted" /\ ~Holds(e) /\ scan[e].pc = "none"
      /\ shown' = [shown EXCEPT ![e] = {}] /\ complete' = complete \ {e}
      /\ UNCHANGED <<archive, next, tree, phase, scan>>
  BY DEF StartDirectoryEnumeration
<1>2. PICK d \in Directories, s \in FirstUnused :
          sessions' = [sessions EXCEPT ![s] = [id |-> e, dir |-> d, cursor |-> 0, filter |-> All]]
  BY DEF StartDirectoryEnumeration
<1>3. s \in Slots /\ sessions[s].id = Free
  BY <1>2 DEF FirstUnused, Unused, Held
<1> DEFINE w == [id |-> e, dir |-> d, cursor |-> 0, filter |-> All]
<1>4. DOMAIN w = SessionFields /\ w.id = e /\ w.dir = d /\ w.cursor = 0 /\ w.filter = All
  BY DEF SessionFields
<1>5. sessions' = [sessions EXCEPT ![s] = w]
  BY <1>2
<1> HIDE DEF w
<1>6. DOMAIN shown = Enums /\ DOMAIN shown' = Enums /\ shown'[e] = {} /\ e # Free
      /\ \A q \in Enums \ {e} : shown'[q] = shown[q]
  BY <1>1, SlotAssumption DEF WalkInv
<1>7. 0 \in 0..Len(tree[d].kids)
  <2>1. tree[d].kids \in Seq(DOMAIN tree)
    BY <1>2 DEF WalkInv, Mounting, GoodTree, Directories
  <2>2. Len(tree[d].kids) \in Nat
    BY <2>1
  <2>3. QED
    BY <2>2
<1>8. Met(d, 0, All) = {}
  BY DEF Met
<1>9. DOMAIN scan' = Enums /\ scan'[e].pc # "scan" /\ \A q \in Enums \ {e} : scan'[q] = scan[q]
  BY <1>1 DEF WalkInv
<1>10. /\ WalkInv'
       /\ \A q \in Enums \ {e} : DirOf(q)' = DirOf(q) /\ Want(q)' = Want(q)
       /\ DirOf(e)' = d /\ Want(e)' = All
  <2>1. DOMAIN sessions' = Slots /\ sessions'[s] = w /\ \A u \in Slots \ {s} : sessions'[u] = sessions[u]
    BY <1>3, <1>5 DEF WalkInv, Ids
  <2>2. Changes(e, s, w)
    BY <1>1, <1>2, <1>3, <1>4, <1>6, <1>7, <1>8, <1>9, <2>1 DEF Changes
  <2>3. QED
    BY <1>3, <1>4, <2>2, OneSession
<1>11. L!Open(e)
  <2> DEFINE dirs == [q \in Enums |-> DirOf(q)]
             wants == [q \in Enums |-> Want(q)]
  <2>1. DirOf(e) = Free
    BY <1>1 DEF DirOf
  <2>2. dirs' = [dirs EXCEPT ![e] = d]
    BY <1>10
  <2>3. wants' = [wants EXCEPT ![e] = All]
    BY <1>10
  <2>4. UNCHANGED <<Directories, [k \in Directories |->
                      [j \in 1..Len(tree[k].kids) |-> Kid(k, j).name]]>>
    BY <1>1 DEF Directories, Kid
  <2>5. dirs[e] = Free
    BY <2>1
  <2>6. QED
    BY <1>1, <1>2, <2>5, <2>2, <2>3, <2>4 DEF L!Open, DirOf, Want
<1>12. QED
  BY <1>10, <1>11

LEMMA EndWalks ==
    ASSUME WalkInv, NEW e \in Enums, EndDirectoryEnumeration(e)
    PROVE  WalkInv' /\ L!Close(e)
<1>1. /\ phase = "mounted" /\ Holds(e) /\ scan[e].pc = "none"
      /\ shown' = [shown EXCEPT ![e] = {}] /\ complete' = complete \ {e}
      /\ UNCHANGED <<archive, next, tree, phase, scan>>
  BY DEF EndDirectoryEnumeration
<1> DEFINE s == SlotOf(e)
           w == [sessions[s] EXCEPT !.id = Free, !.dir = <<>>, !.cursor = 0]
<1>2. s \in Slots /\ sessions[s].id = e /\ DOMAIN sessions[s] = SessionFields
  BY <1>1, HeldBy DEF WalkInv, AtSession
<1>3. sessions' = [sessions EXCEPT ![s] = w]
  BY DEF EndDirectoryEnumeration, Destroyed
<1>4. DOMAIN w = SessionFields /\ w.id = Free
  BY <1>2 DEF SessionFields
<1>5. DirOf(e) = sessions[s].dir /\ sessions[s].dir \in Directories
  BY <1>1, <1>2, SlotAssumption DEF DirOf, WalkInv, AtSession
<1> HIDE DEF w, s
<1>6. DOMAIN shown = Enums /\ DOMAIN shown' = Enums /\ shown'[e] = {} /\ e # Free
      /\ \A q \in Enums \ {e} : shown'[q] = shown[q]
  BY <1>1, SlotAssumption DEF WalkInv
<1>7. DOMAIN scan' = Enums /\ scan'[e].pc # "scan" /\ \A q \in Enums \ {e} : scan'[q] = scan[q]
  BY <1>1 DEF WalkInv
<1>8. /\ WalkInv'
      /\ \A q \in Enums \ {e} : DirOf(q)' = DirOf(q) /\ Want(q)' = Want(q)
      /\ DirOf(e)' = Free /\ Want(e)' = All
  <2>1. DOMAIN sessions' = Slots /\ sessions'[s] = w /\ \A u \in Slots \ {s} : sessions'[u] = sessions[u]
    BY <1>2, <1>3 DEF WalkInv, Ids
  <2>2. Changes(e, s, w)
    BY <1>1, <1>2, <1>4, <1>6, <1>7, <2>1 DEF Changes
  <2>3. QED
    BY <1>2, <1>4, <2>2, OneSession
<1>9. L!Close(e)
  <2> DEFINE dirs == [q \in Enums |-> DirOf(q)]
             wants == [q \in Enums |-> Want(q)]
  <2>1. DirOf(e) # Free
    BY <1>5 DEF WalkInv, Mounting, GoodTree, Directories
  <2>2. dirs' = [dirs EXCEPT ![e] = Free]
    BY <1>8
  <2>3. wants' = [wants EXCEPT ![e] = All]
    BY <1>8
  <2>4. UNCHANGED [k \in Directories |-> [j \in 1..Len(tree[k].kids) |-> Kid(k, j).name]]
    BY <1>1 DEF Directories, Kid
  <2>5. dirs[e] # Free
    BY <2>1
  <2>6. QED
    BY <1>1, <2>5, <2>2, <2>3, <2>4 DEF L!Close, DirOf, Want
<1>10. QED
  BY <1>8, <1>9

\* Restarting a scan forgets what was shown; without a restart nothing is
\* seen from outside.
LEMMA GetWalks ==
    ASSUME WalkInv, NEW e \in Enums, GetDirectoryEnumeration(e)
    PROVE  WalkInv' /\ (L!Restart(e) \/ UNCHANGED L!vars)
<1>1. /\ phase = "mounted" /\ Holds(e) /\ UNCHANGED <<archive, next, tree, phase>>
      /\ scan' = [scan EXCEPT ![e] = [pc |-> "scan", slot |-> SlotOf(e)]]
  BY DEF GetDirectoryEnumeration
<1> DEFINE s == SlotOf(e)
<1>2. s \in Slots /\ sessions[s].id = e /\ AtSession(s) /\ e # Free /\ DOMAIN shown = Enums
      /\ DOMAIN sessions = Slots
  BY <1>1, HeldBy, SlotAssumption DEF WalkInv, Ids
<1>3. DOMAIN scan' = Enums /\ (\A q \in Enums \ {e} : scan'[q] = scan[q])
      /\ scan'[e].pc = "scan" /\ scan'[e].slot = s
  BY <1>1 DEF WalkInv
<1> HIDE DEF s
<1>4. DirOf(e) = sessions[s].dir /\ sessions[s].dir \in Directories
  BY <1>1, <1>2 DEF DirOf, AtSession, s
<1> DEFINE dirs == [q \in Enums |-> DirOf(q)]
           wants == [q \in Enums |-> Want(q)]
<1>5. UNCHANGED [k \in Directories |-> [j \in 1..Len(tree[k].kids) |-> Kid(k, j).name]]
  BY <1>1 DEF Directories, Kid
<1>6. CASE UNCHANGED <<sessions, shown, complete>>
  <2>1. shown'[e] = Met(sessions[s].dir, sessions[s].cursor, sessions[s].filter)
    BY <1>2, <1>6 DEF AtSession
  <2>2. Changes(e, s, sessions[s])
    BY <1>1, <1>2, <1>3, <1>6, <2>1 DEF AtSession, Changes
  <2>3. WalkInv'
    BY <1>2, <2>2, OneSession
  <2>4. UNCHANGED <<dirs, wants>>
    BY <1>6 DEF DirOf, Want, Holds, SlotOf
  <2>5. UNCHANGED L!vars
    BY <1>5, <1>6, <2>4 DEF L!vars, DirOf, Want
  <2>6. QED
    BY <2>3, <2>5
<1>7. CASE \E f \in Filters :
              /\ sessions' = [sessions EXCEPT ![SlotOf(e)].cursor = 0, ![SlotOf(e)].filter = f]
              /\ shown' = [shown EXCEPT ![e] = {}]
              /\ complete' = complete \ {e}
  <2>1. PICK f \in Filters :
              /\ sessions' = [sessions EXCEPT ![s].cursor = 0, ![s].filter = f]
              /\ shown' = [shown EXCEPT ![e] = {}]
              /\ complete' = complete \ {e}
    BY <1>7 DEF s
  <2> DEFINE w == [sessions[s] EXCEPT !.cursor = 0, !.filter = f]
  <2>2. sessions' = [sessions EXCEPT ![s] = w]
    BY <1>2, <2>1
  <2>3. /\ DOMAIN w = SessionFields /\ w.id = e /\ w.dir = sessions[s].dir /\ w.cursor = 0
        /\ w.filter = f
    BY <1>2 DEF AtSession, SessionFields
  <2> HIDE DEF w
  <2>4. 0 \in 0..Len(tree[w.dir].kids)
    <3>1. tree[w.dir].kids \in Seq(DOMAIN tree)
      BY <1>4, <2>3 DEF WalkInv, Mounting, GoodTree, Directories
    <3>2. Len(tree[w.dir].kids) \in Nat
      BY <3>1
    <3>3. QED
      BY <3>2
  <2>5. Met(w.dir, 0, f) = {}
    BY DEF Met
  <2>6. DOMAIN shown' = Enums /\ shown'[e] = {} /\ \A q \in Enums \ {e} : shown'[q] = shown[q]
    BY <1>2, <2>1
  <2>7. /\ WalkInv'
        /\ \A q \in Enums \ {e} : DirOf(q)' = DirOf(q) /\ Want(q)' = Want(q)
        /\ DirOf(e)' = DirOf(e) /\ Want(e)' = f
    <3>1. DOMAIN sessions' = Slots /\ sessions'[s] = w /\ \A u \in Slots \ {s} : sessions'[u] = sessions[u]
      BY <1>2, <2>2
    <3>2. Changes(e, s, w)
      BY <1>1, <1>2, <1>3, <1>4, <2>3, <2>4, <2>5, <2>6, <3>1 DEF Changes
    <3>3. QED
      BY <1>2, <1>4, <2>3, <3>2, OneSession
  <2>8. dirs' = dirs /\ wants' = [wants EXCEPT ![e] = f] /\ dirs[e] # Free
    BY <1>4, <2>7, ZenonT(30) DEF WalkInv, Mounting, GoodTree, Directories
  <2>9. L!Restart(e)
    BY <1>5, <2>1, <2>8 DEF L!Restart, DirOf, Want
  <2>10. QED
    BY <2>7, <2>9
<1>8. QED
  BY <1>6, <1>7 DEF GetDirectoryEnumeration

\* The place a running scan uses is its own enumeration's.
LEMMA RunningIn ==
    ASSUME WalkInv, NEW e \in Enums, scan[e].pc = "scan"
    PROVE  /\ scan[e].slot \in Slots /\ Scanned(e).id = e
           /\ AtSession(scan[e].slot) /\ e # Free /\ Holds(e)
           /\ DirOf(e) = Scanned(e).dir /\ Want(e) = Scanned(e).filter
           /\ Scanned(e).dir \in Directories
           /\ Len(tree[Scanned(e).dir].kids) \in Nat
           /\ Scanned(e).cursor \in 0..Len(tree[Scanned(e).dir].kids)
           /\ shown[e] = Met(Scanned(e).dir, Scanned(e).cursor, Scanned(e).filter)
<1>1. scan[e].slot \in Slots /\ Scanned(e).id = e /\ e # Free
  BY SlotAssumption DEF WalkInv, AtScan, Scanned
<1>2. AtSession(scan[e].slot) /\ Holds(e)
  BY <1>1 DEF WalkInv, Holds, Scanned
<1>3. SlotOf(e) = scan[e].slot
  <2>1. \A u \in Slots : sessions[u].id = e => u = scan[e].slot
    BY <1>1 DEF WalkInv, Ids, Scanned
  <2>2. QED
    BY <1>1, <2>1, ChosenSlot DEF SlotOf, Scanned
<1>4. DirOf(e) = Scanned(e).dir /\ Want(e) = Scanned(e).filter
  BY <1>2, <1>3 DEF DirOf, Want, Scanned
<1>5. Scanned(e).dir \in Directories /\ Scanned(e).cursor \in 0..Len(tree[Scanned(e).dir].kids)
      /\ shown[e] = Met(Scanned(e).dir, Scanned(e).cursor, Scanned(e).filter)
  BY <1>1, <1>2 DEF AtSession, Scanned
<1>6. Len(tree[Scanned(e).dir].kids) \in Nat
  <2>1. tree[Scanned(e).dir].kids \in Seq(DOMAIN tree)
    BY <1>5 DEF WalkInv, Mounting, GoodTree, Directories
  <2>2. QED
    BY <2>1
<1>7. QED
  BY <1>1, <1>2, <1>4, <1>5, <1>6

LEMMA ScanningIn ==
    ASSUME WalkInv, NEW e \in Enums, MoreToScan(e)
    PROVE  /\ scan[e].pc = "scan" /\ scan[e].slot \in Slots /\ Scanned(e).id = e
           /\ AtSession(scan[e].slot) /\ e # Free /\ Holds(e)
           /\ DirOf(e) = Scanned(e).dir /\ Want(e) = Scanned(e).filter
           /\ Scanned(e).dir \in Directories
           /\ Scanned(e).cursor \in Nat /\ Len(tree[Scanned(e).dir].kids) \in Nat
           /\ Scanned(e).cursor + 1 <= Len(tree[Scanned(e).dir].kids)
           /\ shown[e] = Met(Scanned(e).dir, Scanned(e).cursor, Scanned(e).filter)
<1>1. scan[e].pc = "scan" /\ Scanned(e).cursor < Len(tree[Scanned(e).dir].kids)
  BY DEF MoreToScan
<1> DEFINE c == Scanned(e).cursor
           len == Len(tree[Scanned(e).dir].kids)
<1> HIDE DEF c, len
<1>2. c \in 0..len /\ len \in Nat /\ c < len => c \in Nat /\ c + 1 <= len
  OBVIOUS
<1>3. QED
  BY <1>1, <1>2, RunningIn DEF c, len

\* The cursor passes one more child.
LEMMA MetOneMore ==
    ASSUME NEW d, NEW c \in Nat, NEW f
    PROVE  Met(d, c + 1, f) = Met(d, c, f) \union
               (IF FileNameMatch(Kid(d, c + 1).name, f) THEN {c + 1} ELSE {})
<1>1. 1..(c + 1) = 1..c \union {c + 1}
  OBVIOUS
<1>2. QED
  BY <1>1 DEF Met

LEMMA Advanced ==
    ASSUME WalkInv, NEW e \in Enums, MoreToScan(e), UNCHANGED <<archive, next, tree, phase, scan>>,
           Advance(scan[e].slot),
           DOMAIN shown' = Enums, \A q \in Enums \ {e} : shown'[q] = shown[q],
           shown'[e] = Met(Scanned(e).dir, Scanned(e).cursor + 1, Scanned(e).filter)
    PROVE  /\ WalkInv'
           /\ \A q \in Enums : DirOf(q)' = DirOf(q) /\ Want(q)' = Want(q)
<1> DEFINE s == scan[e].slot
           w == [sessions[s] EXCEPT !.cursor = @ + 1]
<1>1. s \in Slots /\ DOMAIN sessions[s] = SessionFields /\ DOMAIN sessions = Slots /\ e # Free
      /\ sessions[s].id = e /\ DOMAIN scan = Enums /\ phase # "build"
  BY ScanningIn DEF WalkInv, Ids, AtSession, Scanned
<1>2. DOMAIN sessions' = Slots /\ sessions'[s] = w /\ \A u \in Slots \ {s} : sessions'[u] = sessions[u]
  BY <1>1 DEF Advance
<1>3. /\ DOMAIN w = SessionFields /\ w.id = e /\ w.dir = Scanned(e).dir
      /\ w.filter = Scanned(e).filter /\ w.cursor = Scanned(e).cursor + 1
  BY <1>1 DEF SessionFields, Scanned
<1> HIDE DEF w
<1>4. w.dir \in Directories /\ w.cursor \in 0..Len(tree[w.dir].kids)
  BY <1>3, ScanningIn
<1>5. Changes(e, s, w)
  BY <1>1, <1>2, <1>3, <1>4 DEF Changes
<1>6. DirOf(e) = w.dir /\ Want(e) = w.filter
  BY <1>3, ScanningIn
<1>7. QED
  BY <1>1, <1>3, <1>5, <1>6, OneSession

LEMMA SkipWalks ==
    ASSUME WalkInv, NEW e \in Enums, SkipChild(e)
    PROVE  WalkInv' /\ UNCHANGED L!vars
<1>1. /\ MoreToScan(e) /\ ~FileNameMatch(Candidate(e), Scanned(e).filter)
      /\ Advance(scan[e].slot) /\ UNCHANGED <<archive, next, tree, phase, scan, shown, complete>>
  BY DEF SkipChild
<1>2. shown[e] = Met(Scanned(e).dir, Scanned(e).cursor + 1, Scanned(e).filter)
  <2> DEFINE d == Scanned(e).dir
             c == Scanned(e).cursor
             f == Scanned(e).filter
  <2>1. c \in Nat /\ shown[e] = Met(d, c, f)
    BY <1>1, ScanningIn
  <2>2. ~FileNameMatch(Kid(d, c + 1).name, f)
    BY <1>1 DEF Candidate
  <2> HIDE DEF d, c, f
  <2>3. Met(d, c + 1, f) = Met(d, c, f) \union {}
    BY <2>1, <2>2, MetOneMore
  <2>4. Met(d, c, f) \union {} = Met(d, c, f)
    OBVIOUS
  <2>5. QED
    BY <2>1, <2>3, <2>4 DEF d, c, f
<1>3. DOMAIN shown = Enums
  BY DEF WalkInv
<1>4. WalkInv' /\ \A q \in Enums : DirOf(q)' = DirOf(q) /\ Want(q)' = Want(q)
  BY <1>1, <1>2, <1>3, Advanced
<1> DEFINE dirs == [q \in Enums |-> DirOf(q)]
           wants == [q \in Enums |-> Want(q)]
<1>5. UNCHANGED <<dirs, wants>>
  BY <1>4
<1>6. UNCHANGED [k \in Directories |-> [j \in 1..Len(tree[k].kids) |-> Kid(k, j).name]]
  BY <1>1 DEF Directories, Kid
<1>7. UNCHANGED L!vars
  BY <1>1, <1>5, <1>6 DEF L!vars, DirOf, Want
<1>8. QED
  BY <1>4, <1>7

\* The child at the cursor is the first that matches and was not shown.
LEMMA FillWalks ==
    ASSUME WalkInv, NEW e \in Enums, FillChild(e)
    PROVE  WalkInv' /\ L!Show(e)
<1> DEFINE d == Scanned(e).dir
           c == Scanned(e).cursor
           f == Scanned(e).filter
<1>1. /\ MoreToScan(e) /\ FileNameMatch(Candidate(e), f)
      /\ Advance(scan[e].slot) /\ shown' = [shown EXCEPT ![e] = @ \union {c + 1}]
      /\ UNCHANGED <<archive, next, tree, phase, scan, complete>>
  BY DEF FillChild, Advance
<1>2. /\ c \in Nat /\ Len(tree[d].kids) \in Nat /\ c + 1 <= Len(tree[d].kids)
      /\ shown[e] = Met(d, c, f) /\ d \in Directories /\ DirOf(e) = d /\ Want(e) = f
  BY <1>1, ScanningIn
<1>3. FileNameMatch(Kid(d, c + 1).name, f)
  BY <1>1 DEF Candidate
<1>4. DOMAIN shown = Enums /\ DOMAIN shown' = Enums /\ shown'[e] = shown[e] \union {c + 1}
      /\ \A q \in Enums \ {e} : shown'[q] = shown[q]
  BY <1>1 DEF WalkInv
<1> HIDE DEF d, c, f
<1>5. Met(d, c + 1, f) = Met(d, c, f) \union {c + 1}
  BY <1>2, <1>3, MetOneMore
<1>6. shown'[e] = Met(d, c + 1, f)
  BY <1>2, <1>4, <1>5
<1>7. WalkInv' /\ \A q \in Enums : DirOf(q)' = DirOf(q) /\ Want(q)' = Want(q)
  BY <1>1, <1>4, <1>6, Advanced DEF d, c, f
<1> DEFINE dirs == [q \in Enums |-> DirOf(q)]
           wants == [q \in Enums |-> Want(q)]
           names == [j \in 1..Len(tree[d].kids) |-> Kid(d, j).name]
           content == [k \in Directories |-> [j \in 1..Len(tree[k].kids) |-> Kid(k, j).name]]
           rest == {k \in 1..Len(names) : FileNameMatch(names[k], f) /\ \A j \in shown[e] : j < k}
<1>8. UNCHANGED <<dirs, wants>>
  BY <1>7
<1>9. UNCHANGED content
  BY <1>1 DEF Directories, Kid
<1>10. dirs[e] = d /\ wants[e] = f /\ d # Free /\ content[d] = names
  BY <1>2 DEF WalkInv, Mounting, GoodTree, Directories
<1>11. Len(names) = Len(tree[d].kids) /\ \A k \in 1..Len(names) : names[k] = Kid(d, k).name
  BY <1>2
<1> HIDE DEF names
<1>12. c + 1 \in rest
  <2>1. \A j \in shown[e] : j < c + 1
    BY <1>2 DEF Met
  <2>2. c + 1 \in 1..Len(names)
    BY <1>2, <1>11
  <2>3. QED
    BY <1>3, <1>11, <2>1, <2>2
<1>13. \A k \in rest : c + 1 <= k
  <2>1. SUFFICES ASSUME NEW k \in rest, k <= c PROVE FALSE
    BY <1>2, <1>11
  <2>2. k \in 1..c /\ FileNameMatch(Kid(d, k).name, f)
    BY <1>2, <1>11, <2>1
  <2>3. k \in shown[e]
    BY <1>2, <2>2 DEF Met
  <2>4. k < k
    BY <2>3
  <2>5. QED
    BY <2>2, <2>4
<1> HIDE DEF rest, content, dirs, wants
<1>14. L!Rest(e) = rest
  BY <1>10 DEF L!Rest, L!Names, dirs, wants, content, rest, DirOf, Want
<1>15. shown' = [shown EXCEPT ![e] = @ \union {c + 1}]
  BY <1>1 DEF c
<1>16. L!Show(e)
  BY <1>1, <1>8, <1>9, <1>10, <1>12, <1>13, <1>14, <1>15
  DEF L!Show, dirs, wants, content, DirOf, Want
<1>17. QED
  BY <1>7, <1>16

\* A callback that ends changes no session; one that has passed the last
\* child has shown all that match.
LEMMA LeaveWalks ==
    ASSUME WalkInv, NEW e \in Enums, BufferFull(e) \/ EndScan(e)
    PROVE  WalkInv' /\ (UNCHANGED L!vars \/ L!Finish(e))
<1>1. /\ scan[e].pc = "scan" /\ scan' = [scan EXCEPT ![e] = NoScan]
      /\ UNCHANGED <<archive, next, tree, phase, sessions, shown>>
  BY DEF BufferFull, EndScan, MoreToScan
<1>2. \A q \in Enums : AtScan(q)'
  BY <1>1 DEF WalkInv, AtScan, NoScan
<1>3. Mounting' /\ Ids' /\ (\A s \in Slots : AtSession(s)') /\ \A q \in Enums : Unheld(q)'
  BY <1>1 DEF WalkInv, Mounting, GoodTree, Ids, AtSession, Unheld, Holds, Directories, Met, Kid
<1>4. WalkInv'
  BY <1>1, <1>2, <1>3 DEF WalkInv
<1>5. CASE BufferFull(e)
  BY <1>1, <1>4, <1>5 DEF BufferFull, L!vars, Holds, SlotOf, Directories, Kid
<1>6. CASE EndScan(e)
  <2> DEFINE d == Scanned(e).dir
             c == Scanned(e).cursor
             f == Scanned(e).filter
             dirs == [q \in Enums |-> DirOf(q)]
             wants == [q \in Enums |-> Want(q)]
             names == [j \in 1..Len(tree[d].kids) |-> Kid(d, j).name]
             content == [k \in Directories |-> [j \in 1..Len(tree[k].kids) |-> Kid(k, j).name]]
             rest == {k \in 1..Len(names) : FileNameMatch(names[k], f) /\ \A j \in shown[e] : j < k}
  <2>1. /\ complete' = complete \union {e} /\ ~MoreToScan(e)
    BY <1>6 DEF EndScan
  <2>2. /\ Len(tree[d].kids) \in Nat /\ c \in 0..Len(tree[d].kids) /\ ~(c < Len(tree[d].kids))
        /\ shown[e] = Met(d, c, f) /\ d \in Directories /\ DirOf(e) = d /\ Want(e) = f
    BY <1>1, <2>1, RunningIn DEF MoreToScan
  <2> HIDE DEF d, c, f
  <2>3. dirs[e] = d /\ wants[e] = f /\ d # Free /\ content[d] = names
    BY <2>2 DEF WalkInv, Mounting, GoodTree, Directories
  <2>4. Len(names) = Len(tree[d].kids) /\ \A k \in 1..Len(names) : names[k] = Kid(d, k).name
    BY <2>2
  <2> HIDE DEF names
  <2>5. rest = {}
    <3>1. SUFFICES ASSUME NEW k \in rest PROVE FALSE
      OBVIOUS
    <3>2. k \in 1..c /\ FileNameMatch(Kid(d, k).name, f)
      BY <2>2, <2>4, <3>1
    <3>3. k \in shown[e]
      BY <2>2, <3>2 DEF Met
    <3>4. k < k
      BY <3>1, <3>3
    <3>5. QED
      BY <3>2, <3>4
  <2> HIDE DEF rest, content, dirs, wants
  <2>6. L!Rest(e) = rest
    BY <2>3 DEF L!Rest, L!Names, dirs, wants, content, rest, DirOf, Want
  <2>7. UNCHANGED <<dirs, wants, content>>
    BY <1>1 DEF dirs, wants, content, DirOf, Want, Holds, SlotOf, Directories, Kid
  <2>8. L!Finish(e)
    BY <1>1, <2>1, <2>3, <2>5, <2>6, <2>7 DEF L!Finish, dirs, wants, content, DirOf, Want
  <2>9. QED
    BY <1>4, <2>8
<1>7. QED
  BY <1>5, <1>6

\* While the tree is built nobody walks it.
LEMMA BuildWalks ==
    ASSUME WalkInv, BuildTree
    PROVE  WalkInv' /\ L!Fill
<1>1. phase = "build" /\ UNCHANGED <<phase, sessions, scan, shown, complete>>
  BY DEF BuildTree, walks
<1>2. \A s \in Slots : sessions[s].id = Free
  BY <1>1 DEF WalkInv, AtSession
<1>3. \A e \in Enums : ~Holds(e) /\ scan[e].pc # "scan"
  BY <1>2, SlotAssumption DEF Holds, WalkInv, AtScan
<1>4. Mounting'
  BY MountingStep DEF WalkInv, Next
<1>5. Ids' /\ \A s \in Slots : AtSession(s)'
  BY <1>1, <1>2 DEF WalkInv, Ids, AtSession
<1>6. \A e \in Enums : AtScan(e)' /\ Unheld(e)'
  BY <1>1, <1>3 DEF WalkInv, AtScan, Unheld, Holds
<1>7. WalkInv'
  BY <1>1, <1>4, <1>5, <1>6 DEF WalkInv
<1>8. L!Fill
  BY <1>1, <1>3 DEF L!Fill, Holds, SlotOf
<1>9. QED
  BY <1>7, <1>8

LEMMA QuietWalks ==
    ASSUME WalkInv, UNCHANGED <<archive, next, tree, walks>>, phase' = phase \/ phase' # "build"
    PROVE  WalkInv' /\ UNCHANGED L!vars
<1>1. UNCHANGED <<sessions, scan, shown, complete>>
  BY DEF walks
<1>2. WalkInv'
  BY <1>1 DEF WalkInv, Mounting, GoodTree, Ids, AtSession, AtScan, Unheld, Holds, Directories, Met, Kid
<1>3. UNCHANGED L!vars
  BY <1>1 DEF L!vars, Holds, SlotOf, Directories, Kid
<1>4. QED
  BY <1>2, <1>3

LEMMA WalkStep == WalkInv /\ [Next]_vars => WalkInv' /\ [L!Next]_L!vars
<1> SUFFICES ASSUME WalkInv, [Next]_vars PROVE WalkInv' /\ (L!Next \/ UNCHANGED L!vars)
  OBVIOUS
<1>1. CASE BuildTree
  BY <1>1, BuildWalks DEF L!Next
<1>2. CASE \E e \in Enums : StartDirectoryEnumeration(e) \/ EndDirectoryEnumeration(e)
                             \/ GetDirectoryEnumeration(e) \/ ScanStep(e)
  <2>1. PICK e \in Enums : StartDirectoryEnumeration(e) \/ EndDirectoryEnumeration(e)
                             \/ GetDirectoryEnumeration(e) \/ ScanStep(e)
    BY <1>2
  <2>2. CASE StartDirectoryEnumeration(e)
    BY <2>2, StartWalks DEF L!Next
  <2>3. CASE EndDirectoryEnumeration(e)
    BY <2>3, EndWalks DEF L!Next
  <2>4. CASE GetDirectoryEnumeration(e)
    BY <2>4, GetWalks DEF L!Next
  <2>5. CASE ScanStep(e)
    BY <2>5, SkipWalks, FillWalks, LeaveWalks DEF L!Next, ScanStep
  <2>6. QED
    BY <2>1, <2>2, <2>3, <2>4, <2>5
<1>3. CASE StartVirtualizing \/ Unmount \/ UNCHANGED vars
           \/ \E r \in Readers : GetFileData(r) \/ ReadStep(r)
  <2>1. UNCHANGED <<archive, next, tree, walks>> /\ (phase' = phase \/ phase' # "build")
    BY <1>3 DEF StartVirtualizing, Unmount, vars, walks, GetFileData, ReadStep, EnterExtractor,
         ReadPath, Compare, SeekData, ReadData, LeaveExtractor, WriteFileData
  <2>2. QED
    BY <2>1, QuietWalks
<1>4. QED
  BY <1>1, <1>2, <1>3 DEF Next

\* For every archive, pool size and number of enumerations: though places go
\* from one enumeration to the next and are used without the lock, each
\* caller gets its own directory, entry by entry, and is told that this was
\* all only when nothing that matches is left (paf_mount.c:206-360).
THEOREM MountImplementsListing == Spec => ImplementsListing
<1>1. QED
  BY WalkInit, WalkStep, PTL DEF Spec, ImplementsListing, L!Spec

-----------------------------------------------------------------------------
(***************************************************************************)
(* The finished tree.                                                      *)
(***************************************************************************)
\* What is proved about the way from the root to a node: a folded path F
\* of length len, cut after l components.
Cuts(F, len) ==
    /\ Len(F) = len /\ Prefix(F, 0) = <<>> /\ Prefix(F, len) = F
    /\ \A l \in 0..len : Len(Prefix(F, l)) = l
    /\ \A l \in 1..len : Prefix(Prefix(F, l), l - 1) = Prefix(F, l - 1) /\ Prefix(F, l) # <<>>

LEMMA PathCuts ==
    ASSUME NEW path \in Seq(STRING)
    PROVE  Len(path) \in Nat /\ Cuts(Folded(path), Len(path))
<1> DEFINE F == Folded(path)
           len == Len(path)
           S == {Fold(path[j]) : j \in 1..Len(path)}
<1>1. len \in Nat
  OBVIOUS
<1>2. F \in Seq(S) /\ Len(F) = len
  <2>1. F \in [1..len -> S]
    BY DEF Folded
  <2> HIDE DEF S, F
  <2>2. F \in Seq(S)
    BY <1>1, <2>1
  <2>3. Len(F) = len
    BY <1>1, <2>1, <2>2, LenProperties
  <2>4. QED
    BY <2>2, <2>3
<1> HIDE DEF S, F, len
<1>3. \A i \in 1..len : F[i] \in S
  BY <1>2
<1>4. ASSUME NEW l \in 0..len
      PROVE  /\ Prefix(F, l) \in Seq(S) /\ Len(Prefix(F, l)) = l
             /\ \A i \in 1..l : Prefix(F, l)[i] = F[i]
  <2>1. \A i \in 1..l : F[i] \in S
    BY <1>1, <1>3
  <2>2. /\ SubSeq(F, 1, l) \in Seq(S)
        /\ Len(SubSeq(F, 1, l)) = IF 1 <= l THEN l - 1 + 1 ELSE 0
        /\ \A i \in 1..(l - 1 + 1) : SubSeq(F, 1, l)[i] = F[1 + i - 1]
    <3>1. 1 \in Int /\ l \in Int
      BY <1>1
    <3>2. QED
      BY <2>1, <3>1, SubSeqProperties
  <2> DEFINE P == SubSeq(F, 1, l)
  <2>3. P = Prefix(F, l)
    BY DEF Prefix
  <2> HIDE DEF P
  <2>4. Len(P) = l /\ P \in Seq(S)
    BY <1>1, <2>2 DEF P
  <2>5. ASSUME NEW i \in 1..l PROVE P[i] = F[i]
    <3>1. i \in 1..(l - 1 + 1) /\ 1 + i - 1 = i
      BY <1>1
    <3>2. QED
      BY <2>2, <3>1 DEF P
  <2>6. QED
    BY <2>3, <2>4, <2>5
<1>5. Prefix(F, 0) = <<>>
  <2>1. 0 \in 0..len
    BY <1>1
  <2>2. QED
    BY <1>4, <2>1, EmptySeq
<1>6. Prefix(F, len) = F
  <2>1. len \in 0..len
    BY <1>1
  <2>2. /\ Prefix(F, len) \in Seq(S) /\ Len(Prefix(F, len)) = len
        /\ \A i \in 1..len : Prefix(F, len)[i] = F[i]
    BY <1>4, <2>1
  <2>3. QED
    BY <1>2, <2>2, SeqEqual
<1>7. ASSUME NEW l \in 1..len
      PROVE  Prefix(Prefix(F, l), l - 1) = Prefix(F, l - 1) /\ Prefix(F, l) # <<>>
  <2> DEFINE P == Prefix(F, l)
             Q == Prefix(F, l - 1)
             R == Prefix(P, l - 1)
  <2>1. l \in 0..len /\ l - 1 \in 0..len /\ l - 1 \in Int /\ 1 \in Int /\ l # 0
    BY <1>1
  <2>2. P \in Seq(S) /\ Len(P) = l /\ \A i \in 1..l : P[i] = F[i]
    BY <1>4, <2>1
  <2>3. Q \in Seq(S) /\ Len(Q) = l - 1 /\ \A i \in 1..(l - 1) : Q[i] = F[i]
    BY <1>4, <2>1
  <2> HIDE DEF P, Q
  <2>4. \A i \in 1..(l - 1) : P[i] = F[i] /\ P[i] \in S
    BY <1>1, <1>3, <2>1, <2>2
  <2>5. /\ SubSeq(P, 1, l - 1) \in Seq(S)
        /\ Len(SubSeq(P, 1, l - 1)) = IF 1 <= l - 1 THEN l - 1 - 1 + 1 ELSE 0
        /\ \A i \in 1..(l - 1 - 1 + 1) : SubSeq(P, 1, l - 1)[i] = P[1 + i - 1]
    BY <2>1, <2>4, SubSeqProperties
  <2>6. R = SubSeq(P, 1, l - 1)
    BY DEF Prefix
  <2> HIDE DEF R
  <2>7. Len(R) = l - 1 /\ R \in Seq(S)
    BY <1>1, <2>1, <2>5, <2>6
  <2>8. ASSUME NEW i \in 1..(l - 1) PROVE R[i] = Q[i]
    <3>1. i \in 1..(l - 1 - 1 + 1) /\ 1 + i - 1 = i
      BY <1>1
    <3>2. QED
      BY <2>3, <2>4, <2>5, <2>6, <3>1
  <2>9. R = Q
    BY <2>3, <2>7, <2>8, SeqEqual
  <2>10. P # <<>>
    BY <2>1, <2>2, EmptySeq
  <2>11. QED
    BY <2>9, <2>10 DEF P, Q, R
<1>8. Cuts(F, len)
  BY <1>2, <1>4, <1>5, <1>6, <1>7 DEF Cuts
<1>9. QED
  BY <1>1, <1>8 DEF F, len

\* Entry j has the node key, or a node on the way to it.
Makes(a, j, key) ==
    Len(a[j].path) >= Len(key) /\ Prefix(Folded(a[j].path), Len(key)) = key

\* The node of key was made by the first entry m that needs it.
MadeBy(a, t, key, m) ==
    /\ Makes(a, m, key) /\ \A j \in 1..m - 1 : ~Makes(a, j, key)
    /\ t[key].isDir <=> Len(a[m].path) > Len(key)
    /\ ~t[key].isDir => t[key].index = m

ListedOnce(t, key) ==
    LET parent == Prefix(key, Len(key) - 1)
    IN  /\ parent \in DOMAIN t
        /\ \E i \in 1..Len(t[parent].kids) :
              /\ t[parent].kids[i] = key
              /\ \A j \in 1..Len(t[parent].kids) : t[parent].kids[j] = key => j = i

\* The tree when the entries before k are in it, and the first i components
\* of entry k.
TreeAt(a, t, k, i) ==
    /\ <<>> \in DOMAIN t /\ t[<<>>].isDir
    /\ \A key \in DOMAIN t \ {<<>>} :
          /\ Len(key) \in Nat /\ ListedOnce(t, key)
          /\ \E m \in 1..Len(a) : MadeBy(a, t, key, m) /\ (m < k \/ (m = k /\ Len(key) <= i))
    /\ \A j \in 1..Len(a) : \A l \in 0..Len(a[j].path) :
          j < k \/ (j = k /\ l <= i) => Prefix(Folded(a[j].path), l) \in DOMAIN t

\* A node below the one of F's first i components.
LEMMA TreeGrows ==
    ASSUME NEW a, Len(a) \in Nat, \A j \in 1..Len(a) : a[j].path \in Seq(STRING),
           NEW t, NEW k \in 1..Len(a), NEW i \in Nat, i + 1 <= Len(a[k].path),
           GoodTree(t, Len(a)), TreeAt(a, t, k, i)
    PROVE  TreeAt(a, InsertStep(t, a[k].path, k, i + 1), k, i + 1)
<1> DEFINE path == a[k].path
           F == Folded(path)
           key == Prefix(F, i + 1)
           parent == Prefix(F, i)
           node == NewNode(path, i + 1, k)
           u == AddNode(t, key, node)
<1>1. Len(path) \in Nat /\ Cuts(F, Len(path))
  BY PathCuts
<1>2. /\ Len(key) = i + 1 /\ Prefix(key, i) = parent /\ key # <<>> /\ i + 1 - 1 = i
      /\ i + 1 \in 0..Len(path) /\ i \in 0..Len(path) /\ i + 1 \in 1..Len(path)
  <2>1. i + 1 \in 0..Len(path) /\ i + 1 \in 1..Len(path) /\ i \in 0..Len(path) /\ i + 1 - 1 = i
    BY <1>1
  <2>2. Len(key) = i + 1
    BY <1>1, <2>1 DEF Cuts
  <2>3. Prefix(Prefix(F, i + 1), i + 1 - 1) = Prefix(F, i + 1 - 1) /\ Prefix(F, i + 1) # <<>>
    BY <1>1, <2>1 DEF Cuts
  <2>4. QED
    BY <2>1, <2>2, <2>3
<1>3. /\ <<>> \in DOMAIN t /\ t[<<>>].isDir
      /\ \A q \in DOMAIN t \ {<<>>} :
            /\ Len(q) \in Nat /\ ListedOnce(t, q)
            /\ \E m \in 1..Len(a) : MadeBy(a, t, q, m) /\ (m < k \/ (m = k /\ Len(q) <= i))
      /\ \A j \in 1..Len(a) : \A l \in 0..Len(a[j].path) :
            j < k \/ (j = k /\ l <= i) => Prefix(Folded(a[j].path), l) \in DOMAIN t
  BY DEF TreeAt
<1>4. InsertStep(t, path, k, i + 1) = IF key \in DOMAIN t THEN t ELSE u
  BY DEF InsertStep
<1>5. parent \in DOMAIN t
  BY <1>2, <1>3
<1>6. \A j \in 1..Len(a) : \A l \in 0..Len(a[j].path) :
          j < k \/ (j = k /\ l <= i + 1) =>
              Prefix(Folded(a[j].path), l) \in DOMAIN t
              \/ Prefix(Folded(a[j].path), l) = key
  <2>1. SUFFICES ASSUME NEW j \in 1..Len(a), NEW l \in 0..Len(a[j].path),
                        j < k \/ (j = k /\ l <= i + 1)
                 PROVE  Prefix(Folded(a[j].path), l) \in DOMAIN t
                        \/ Prefix(Folded(a[j].path), l) = key
    OBVIOUS
  <2>2. Len(a[j].path) \in Nat
    BY <2>1, PathCuts
  <2>3. CASE j < k \/ (j = k /\ l <= i)
    BY <1>3, <2>1, <2>3
  <2>4. CASE j = k /\ l = i + 1
    BY <2>4
  <2>5. QED
    BY <2>1, <2>2, <2>3, <2>4
<1>7. CASE key \in DOMAIN t
  <2>1. \A q \in DOMAIN t \ {<<>>} :
            \E m \in 1..Len(a) : MadeBy(a, t, q, m) /\ (m < k \/ (m = k /\ Len(q) <= i + 1))
    <3>1. SUFFICES ASSUME NEW q \in DOMAIN t \ {<<>>}
                   PROVE  \E m \in 1..Len(a) : MadeBy(a, t, q, m)
                                               /\ (m < k \/ (m = k /\ Len(q) <= i + 1))
      OBVIOUS
    <3>2. Len(q) \in Nat
      BY <1>3
    <3>3. PICK m \in 1..Len(a) : MadeBy(a, t, q, m) /\ (m < k \/ (m = k /\ Len(q) <= i))
      BY <1>3
    <3>4. m < k \/ (m = k /\ Len(q) <= i + 1)
      BY <3>2, <3>3
    <3>5. QED
      BY <3>3, <3>4
  <2>2. TreeAt(a, t, k, i + 1)
    BY <1>3, <1>6, <1>7, <2>1 DEF TreeAt
  <2>3. QED
    BY <1>4, <1>7, <2>2
<1>8. CASE key \notin DOMAIN t
  <2>1. /\ DOMAIN u = DOMAIN t \union {key} /\ u[key] = node
        /\ \A q \in DOMAIN t : q # parent => u[q] = t[q]
        /\ u[parent] = [t[parent] EXCEPT !.kids = Append(@, key)]
    <3>1. Prefix(key, Len(key) - 1) = parent
      BY <1>2
    <3>2. QED
      BY <1>5, <1>8, <3>1 DEF AddNode
  <2>2. node.isDir = (i + 1 < Len(path)) /\ node.index = (IF i + 1 < Len(path) THEN 0 ELSE k)
    BY Zenon DEF NewNode
  <2>3. /\ DOMAIN t[parent] = NodeFields /\ t[parent].kids \in Seq(DOMAIN t)
        /\ \A q \in DOMAIN t : t[q].kids \in Seq(DOMAIN t)
    BY <1>5 DEF GoodTree
  <2> HIDE DEF u, node
  <2>4. /\ u[parent].isDir = t[parent].isDir /\ u[parent].index = t[parent].index
        /\ u[parent].kids = Append(t[parent].kids, key)
    BY <2>1, <2>3 DEF NodeFields
  <2>5. \A q \in DOMAIN t : u[q].isDir = t[q].isDir /\ u[q].index = t[q].index
    BY <2>1, <2>4
  <2> DEFINE kids == t[parent].kids
  <2>6. /\ Len(kids) \in Nat /\ Len(Append(kids, key)) = Len(kids) + 1
        /\ Append(kids, key)[Len(kids) + 1] = key
        /\ \A j \in 1..Len(kids) : Append(kids, key)[j] = kids[j] /\ kids[j] # key
    <3>1. kids \in Seq(DOMAIN t)
      BY <2>3
    <3> HIDE DEF kids
    <3>2. \A j \in 1..Len(kids) : kids[j] \in DOMAIN t
      BY <3>1
    <3>3. kids \in Seq(DOMAIN t \union {key}) /\ key \in DOMAIN t \union {key}
      BY <3>1, SeqGrows
    <3>4. QED
      BY <1>8, <3>1, <3>2, <3>3, AppendProperties
  <2> DEFINE longer == Append(kids, key)
  <2>7. u[parent].kids = longer
    BY <2>4
  <2> HIDE DEF kids, longer
  <2>8. \A j \in 1..Len(longer) : j \in 1..Len(kids) \/ j = Len(kids) + 1
    BY <2>6 DEF longer
  <2>9. ListedOnce(u, key)
    <3>1. Prefix(key, Len(key) - 1) = parent
      BY <1>2
    <3> DEFINE p == Len(kids) + 1
    <3>2. p \in 1..Len(longer) /\ longer[p] = key
      BY <2>6 DEF longer
    <3>3. \A j \in 1..Len(longer) : longer[j] = key => j = p
      BY <2>6, <2>8 DEF longer
    <3> HIDE DEF p
    <3>4. parent \in DOMAIN u
      BY <1>5, <2>1
    <3> HIDE DEF key, parent
    <3>5. QED
      BY <2>7, <3>1, <3>2, <3>3, <3>4 DEF ListedOnce
  <2>10. ASSUME NEW q \in DOMAIN t \ {<<>>} PROVE ListedOnce(u, q)
    <3> DEFINE up == Prefix(q, Len(q) - 1)
    <3>1. /\ up \in DOMAIN t
          /\ \E p \in 1..Len(t[up].kids) :
                t[up].kids[p] = q /\ \A j \in 1..Len(t[up].kids) : t[up].kids[j] = q => j = p
      BY <1>3, <2>10 DEF ListedOnce
    <3> HIDE DEF up
    <3>2. PICK p \in 1..Len(t[up].kids) :
                t[up].kids[p] = q /\ \A j \in 1..Len(t[up].kids) : t[up].kids[j] = q => j = p
      BY <3>1
    <3>3. CASE up # parent
      <4>1. u[up] = t[up] /\ up \in DOMAIN u
        BY <2>1, <3>1, <3>3
      <4>2. QED
        BY <3>2, <4>1 DEF ListedOnce, up
    <3>4. CASE up = parent
      <4>1. p \in 1..Len(kids) /\ kids[p] = q /\ \A j \in 1..Len(kids) : kids[j] = q => j = p
        BY <3>2, <3>4 DEF kids
      <4>2. p \in 1..Len(longer) /\ longer[p] = q
        BY <2>6, <4>1 DEF longer
      <4>3. q # key
        BY <1>8, <2>10
      <4>4. \A j \in 1..Len(longer) : longer[j] = q => j = p
        BY <2>6, <2>8, <4>1, <4>3 DEF longer
      <4>5. u[up].kids = longer /\ up \in DOMAIN u
        BY <1>5, <2>1, <2>7, <3>4
      <4>6. QED
        BY <4>2, <4>4, <4>5 DEF ListedOnce, up
    <3>5. QED
      BY <3>3, <3>4
  <2>11. MadeBy(a, u, key, k)
    <3>1. Makes(a, k, key)
      BY <1>1, <1>2 DEF Makes
    <3>2. \A j \in 1..k - 1 : ~Makes(a, j, key)
      <4>1. SUFFICES ASSUME NEW j \in 1..k - 1, Makes(a, j, key) PROVE FALSE
        OBVIOUS
      <4>2. j \in 1..Len(a) /\ j < k
        OBVIOUS
      <4>3. Len(a[j].path) \in Nat
        BY <4>2, PathCuts
      <4>4. i + 1 \in 0..Len(a[j].path) /\ Prefix(Folded(a[j].path), i + 1) = key
        BY <1>2, <4>1, <4>3 DEF Makes
      <4>5. Prefix(Folded(a[j].path), i + 1) \in DOMAIN t
        BY <1>3, <4>2, <4>4
      <4>6. QED
        BY <1>8, <4>4, <4>5
    <3>3. u[key].isDir <=> Len(a[k].path) > Len(key)
      BY <1>1, <1>2, <2>1, <2>2
    <3>4. ~u[key].isDir => u[key].index = k
      BY <1>1, <1>2, <2>1, <2>2
    <3> HIDE DEF key
    <3>5. QED
      BY <3>1, <3>2, <3>3, <3>4 DEF MadeBy
  <2>12. ASSUME NEW q \in DOMAIN u \ {<<>>}
         PROVE  /\ Len(q) \in Nat /\ ListedOnce(u, q)
                /\ \E m \in 1..Len(a) : MadeBy(a, u, q, m)
                                        /\ (m < k \/ (m = k /\ Len(q) <= i + 1))
    <3>1. CASE q = key
      <4>1. Len(q) = i + 1 /\ Len(q) \in Nat
        BY <1>2, <3>1
      <4>2. MadeBy(a, u, q, k) /\ ListedOnce(u, q)
        BY <2>9, <2>11, <3>1
      <4>3. k \in 1..Len(a) /\ k = k /\ Len(q) <= i + 1
        BY <4>1
      <4>4. QED
        BY <4>1, <4>2, <4>3
    <3>2. CASE q # key
      <4>1. q \in DOMAIN t \ {<<>>}
        BY <2>1, <2>12, <3>2
      <4>2. Len(q) \in Nat
        BY <1>3, <4>1
      <4>3. PICK m \in 1..Len(a) : MadeBy(a, t, q, m) /\ (m < k \/ (m = k /\ Len(q) <= i))
        BY <1>3, <4>1
      <4>4. MadeBy(a, u, q, m)
        BY <2>5, <4>1, <4>3 DEF MadeBy
      <4>5. m < k \/ (m = k /\ Len(q) <= i + 1)
        BY <4>2, <4>3
      <4>6. QED
        BY <2>10, <4>1, <4>2, <4>4, <4>5
    <3>3. QED
      BY <3>1, <3>2
  <2>13. <<>> \in DOMAIN u /\ u[<<>>].isDir
    BY <1>3, <2>1, <2>5
  <2>14. \A j \in 1..Len(a) : \A l \in 0..Len(a[j].path) :
            j < k \/ (j = k /\ l <= i + 1) => Prefix(Folded(a[j].path), l) \in DOMAIN u
    BY <1>6, <2>1
  <2>15. TreeAt(a, u, k, i + 1)
    BY <2>12, <2>13, <2>14 DEF TreeAt
  <2>16. QED
    BY <1>4, <1>8, <2>15
<1>9. QED
  BY <1>7, <1>8

\* A whole insertion.
LEMMA InsertGrows ==
    ASSUME NEW a, Len(a) \in Nat, \A j \in 1..Len(a) : a[j].path \in Seq(STRING),
           NEW t, NEW k \in 1..Len(a), GoodTree(t, Len(a)), TreeAt(a, t, k, 0),
           \A j \in 0..Len(a[k].path) : Free # Prefix(Folded(a[k].path), j)
    PROVE  TreeAt(a, Insert(t, a[k].path, k), k, Len(a[k].path))
<1> DEFINE path == a[k].path
<1>1. path \in Seq(STRING) /\ Len(path) \in Nat
  BY PathCuts
<1>2. \A j \in 0..Len(path) : Free # Prefix(Folded(path), j)
  OBVIOUS
<1>3. PICK in : Inserts(in, t, path, k, Len(path)) /\ Insert(t, path, k) = in[Len(path)]
  BY <1>1, InsertSteps
<1> DEFINE Q(m) == GoodTree(in[m], Len(a)) /\ TreeAt(a, in[m], k, m)
           S == {m \in Nat : m <= Len(path) => Q(m)}
<1>4. 0 \in S
  <2>1. in[0] = t
    BY <1>1, <1>3 DEF Inserts
  <2>2. QED
    BY <2>1
<1>5. ASSUME NEW m \in Nat, m \in S PROVE m + 1 \in S
  <2>1. SUFFICES ASSUME m + 1 <= Len(path) PROVE Q(m + 1)
    OBVIOUS
  <2>2. in[m + 1] = InsertStep(in[m], path, k, m + 1)
    <3> HIDE DEF path
    <3>1. m + 1 \in 0..Len(path) /\ m + 1 # 0 /\ m + 1 - 1 = m
      BY <1>1, <2>1
    <3>2. QED
      BY <1>3, <3>1 DEF Inserts
  <2>3. GoodTree(in[m], Len(a)) /\ TreeAt(a, in[m], k, m)
    BY <1>1, <1>5, <2>1
  <2>4. GoodTree(InsertStep(in[m], path, k, m + 1), Len(a))
    <3> HIDE DEF path
    <3>1. QED
      BY <1>1, <1>2, <2>1, <2>3, StepGood
  <2>5. TreeAt(a, InsertStep(in[m], path, k, m + 1), k, m + 1)
    BY <2>1, <2>3, TreeGrows
  <2>6. QED
    BY <2>2, <2>4, <2>5
<1>6. Len(path) \in S
  <2> HIDE DEF S
  <2>1. QED
    BY <1>1, <1>4, <1>5, NatInductionOn
<1>7. Q(Len(path))
  BY <1>1, <1>6
<1>8. QED
  BY <1>3, <1>7

LEMMA EntryDone ==
    ASSUME NEW a, Len(a) \in Nat, \A j \in 1..Len(a) : a[j].path \in Seq(STRING),
           NEW t, NEW k \in 1..Len(a), TreeAt(a, t, k, Len(a[k].path))
    PROVE  TreeAt(a, t, k + 1, 0)
<1>1. \A key \in DOMAIN t \ {<<>>} :
          \E m \in 1..Len(a) : MadeBy(a, t, key, m) /\ (m < k + 1 \/ (m = k + 1 /\ Len(key) <= 0))
  <2>1. SUFFICES ASSUME NEW key \in DOMAIN t \ {<<>>}
                 PROVE  \E m \in 1..Len(a) : MadeBy(a, t, key, m)
                             /\ (m < k + 1 \/ (m = k + 1 /\ Len(key) <= 0))
    OBVIOUS
  <2>2. PICK m \in 1..Len(a) : MadeBy(a, t, key, m)
                               /\ (m < k \/ (m = k /\ Len(key) <= Len(a[k].path)))
    BY DEF TreeAt
  <2>3. m < k + 1
    BY <2>2
  <2>4. QED
    BY <2>2, <2>3
<1>2. ASSUME NEW j \in 1..Len(a), NEW l \in 0..Len(a[j].path), j < k + 1 \/ (j = k + 1 /\ l <= 0)
      PROVE  Prefix(Folded(a[j].path), l) \in DOMAIN t
  <2>1. Len(a[j].path) \in Nat /\ Prefix(Folded(a[j].path), 0) = <<>>
    BY PathCuts DEF Cuts
  <2>2. CASE j = k + 1
    <3>1. l = 0
      BY <1>2, <2>1, <2>2
    <3>2. QED
      BY <2>1, <3>1 DEF TreeAt
  <2>3. CASE j < k + 1
    <3>1. j < k \/ (j = k /\ l <= Len(a[k].path))
      BY <2>1, <2>3
    <3>2. QED
      BY <3>1 DEF TreeAt
  <2>4. QED
    BY <1>2, <2>2, <2>3
<1>3. QED
  BY <1>1, <1>2 DEF TreeAt

\* The tree holds the entries before next, and all when the mount is up.
GrownIn(a, t, n, ph) ==
    n <= Len(a) + 1 /\ TreeAt(a, t, n, 0) /\ (ph = "build" \/ n > Len(a))
Grown == GrownIn(archive, tree, next, phase)

LEMMA GrownInit == Init => Grown
<1> SUFFICES ASSUME Init PROVE Grown
  OBVIOUS
<1>1. DOMAIN tree = {<<>>} /\ tree[<<>>] = Root /\ next = 1 /\ phase = "build"
  BY DEF Init
<1>2. Len(archive) \in Nat /\ \A k \in 1..Len(archive) : archive[k].path \in Seq(STRING)
  BY ArchiveTypes DEF Init
<1>3. TreeAt(archive, tree, 1, 0)
  <2>1. <<>> \in DOMAIN tree /\ tree[<<>>].isDir /\ DOMAIN tree \ {<<>>} = {}
    <3>1. Root.isDir = TRUE
      BY DEF Root
    <3>2. QED
      BY <1>1, <3>1
  <2>2. ASSUME NEW j \in 1..Len(archive), NEW l \in 0..Len(archive[j].path),
               j < 1 \/ (j = 1 /\ l <= 0)
        PROVE  Prefix(Folded(archive[j].path), l) \in DOMAIN tree
    <3>1. archive[j].path \in Seq(STRING)
      BY <1>2
    <3>2. Len(archive[j].path) \in Nat /\ Prefix(Folded(archive[j].path), 0) = <<>>
      BY <3>1, PathCuts DEF Cuts
    <3>3. l = 0
      BY <1>2, <2>2, <3>2
    <3>4. QED
      BY <2>1, <3>2, <3>3
  <2>3. QED
    BY <2>1, <2>2 DEF TreeAt
<1>4. QED
  BY <1>1, <1>2, <1>3 DEF Grown, GrownIn

LEMMA GrownStep == Mounting /\ Grown /\ [Next]_vars => Grown'
<1> SUFFICES ASSUME Mounting, Grown, [Next]_vars PROVE Grown'
  OBVIOUS
<1>1. /\ Len(archive) \in Nat /\ next \in Nat \ {0} /\ GoodTree(tree, Len(archive))
      /\ \A k \in 1..Len(archive) :
            /\ archive[k].path \in Seq(STRING)
            /\ \A j \in 0..Len(archive[k].path) : Free # Prefix(Folded(archive[k].path), j)
  BY ArchiveTypes DEF Mounting
<1>2. CASE BuildTree
  <2>1. /\ next \in 1..Len(archive) /\ next' = next + 1 /\ archive' = archive /\ phase' = "build"
        /\ tree' = Insert(tree, archive[next].path, next)
    BY <1>1, <1>2 DEF BuildTree
  <2>2. TreeAt(archive, tree, next, 0)
    BY DEF Grown, GrownIn
  <2>3. TreeAt(archive, Insert(tree, archive[next].path, next), next, Len(archive[next].path))
    BY <1>1, <2>1, <2>2, InsertGrows
  <2>4. TreeAt(archive, Insert(tree, archive[next].path, next), next + 1, 0)
    BY <1>1, <2>1, <2>3, EntryDone
  <2>5. next + 1 <= Len(archive) + 1
    BY <1>1, <2>1
  <2>6. QED
    BY <2>1, <2>4, <2>5 DEF Grown, GrownIn
<1>3. CASE StartVirtualizing
  <2>1. next > Len(archive) /\ UNCHANGED <<archive, next, tree>>
    BY <1>3 DEF StartVirtualizing
  <2>2. QED
    BY <2>1 DEF Grown, GrownIn
<1>4. CASE ~BuildTree /\ ~StartVirtualizing
  <2>1. UNCHANGED <<archive, next, tree>> /\ (phase' = phase \/ phase = "mounted")
    BY <1>4 DEF Next, vars, Unmount, StartDirectoryEnumeration,
         EndDirectoryEnumeration, GetDirectoryEnumeration, ScanStep, SkipChild, FillChild,
         BufferFull, EndScan, GetFileData, ReadStep, EnterExtractor, ReadPath, Compare, SeekData,
         ReadData, LeaveExtractor, WriteFileData
  <2>2. QED
    BY <2>1 DEF Grown, GrownIn
<1>5. QED
  BY <1>2, <1>3, <1>4

FoundIn(a, t, key, first) ==
    /\ key \in DOMAIN t
    /\ IF key = <<>> \/ \E j \in 1..first : Len(a[j].path) > Len(key)
                                           /\ Prefix(Folded(a[j].path), Len(key)) = key
       THEN t[key].isDir
       ELSE ~t[key].isDir /\ t[key].index = first

\* Which node a path is found at: the first entry of the name, unless an
\* earlier entry made a directory of it.
LEMMA FoundAt ==
    ASSUME NEW a, Len(a) \in Nat, \A j \in 1..Len(a) : a[j].path \in Seq(STRING),
           NEW t, NEW n \in Nat, n > Len(a), TreeAt(a, t, n, 0), NEW k \in 1..Len(a),
           NEW key, key = Folded(a[k].path), NEW first \in 1..Len(a),
           Folded(a[first].path) = key,
           \A j \in 1..Len(a) : Folded(a[j].path) = key => first <= j
    PROVE  FoundIn(a, t, key, first)
<1>1. key \in DOMAIN t
  <2>1. Len(a[k].path) \in Nat /\ Prefix(Folded(a[k].path), Len(a[k].path)) = Folded(a[k].path)
    BY PathCuts DEF Cuts
  <2>2. Len(a[k].path) \in 0..Len(a[k].path) /\ k < n
    BY <2>1
  <2>3. Prefix(Folded(a[k].path), Len(a[k].path)) \in DOMAIN t
    BY <2>2 DEF TreeAt
  <2>4. QED
    BY <2>1, <2>3
<1>2. CASE key = <<>>
  BY <1>1, <1>2 DEF TreeAt, FoundIn
<1>3. CASE key # <<>>
  <2> DEFINE below == {j \in 1..first : Len(a[j].path) > Len(key)
                                         /\ Prefix(Folded(a[j].path), Len(key)) = key}
  <2>1. PICK m \in 1..Len(a) : MadeBy(a, t, key, m)
    BY <1>1, <1>3 DEF TreeAt
  <2>2. /\ Len(a[m].path) >= Len(key) /\ Prefix(Folded(a[m].path), Len(key)) = key
        /\ \A j \in 1..m - 1 : ~Makes(a, j, key)
        /\ t[key].isDir <=> Len(a[m].path) > Len(key)
        /\ ~t[key].isDir => t[key].index = m
    BY <2>1 DEF MadeBy, Makes
  <2>3. /\ Len(key) = Len(a[first].path) /\ Len(a[first].path) \in Nat /\ Len(a[m].path) \in Nat
        /\ Prefix(Folded(a[first].path), Len(a[first].path)) = Folded(a[first].path)
        /\ Prefix(Folded(a[m].path), Len(a[m].path)) = Folded(a[m].path)
    BY PathCuts DEF Cuts
  <2>4. Makes(a, first, key)
    BY <2>3 DEF Makes
  <2>5. m <= first
    BY <2>2, <2>4
  <2>6. CASE below # {}
    <3>1. PICK j \in 1..first : Len(a[j].path) > Len(key)
                                /\ Prefix(Folded(a[j].path), Len(key)) = key
      BY <2>6
    <3>2. j \in 1..Len(a) /\ Len(a[j].path) \in Nat
      BY PathCuts, SMTT(30)
    <3>3. Makes(a, j, key)
      BY <2>3, <3>1, <3>2 DEF Makes
    <3>4. m <= j
      BY <2>2, <3>2, <3>3
    <3>5. m # first
      BY <2>3, <3>1, <3>2, <3>4
    <3>6. Folded(a[m].path) # key
      BY <2>5, <3>5
    <3>7. Len(a[m].path) > Len(key)
      BY <2>2, <2>3, <3>6
    <3>8. QED
      BY <1>1, <2>2, <2>6, <3>7 DEF FoundIn
  <2>7. CASE below = {}
    <3>1. m \in 1..first
      BY <2>5
    <3>2. ~(Len(a[m].path) > Len(key))
      BY <2>2, <2>7, <3>1
    <3>3. Len(a[m].path) = Len(key)
      BY <2>2, <2>3, <3>2
    <3>4. Folded(a[m].path) = key
      BY <2>2, <2>3, <3>3
    <3>5. m = first
      BY <2>5, <3>4
    <3>6. QED
      BY <1>1, <1>3, <2>2, <2>7, <3>2, <3>5 DEF FoundIn
  <2>8. QED
    BY <2>6, <2>7
<1>4. QED
  BY <1>2, <1>3

\* A node its parent lists once is in one place of the list.
LEMMA ListedInOnePlace ==
    ASSUME NEW t, NEW key, ListedOnce(t, key)
    PROVE  LET kids == t[Prefix(key, Len(key) - 1)].kids
           IN  Cardinality({i \in 1..Len(kids) : kids[i] = key}) = 1
<1> DEFINE kids == t[Prefix(key, Len(key) - 1)].kids
<1>1. PICK i \in 1..Len(kids) :
          kids[i] = key /\ \A j \in 1..Len(kids) : kids[j] = key => j = i
  BY DEF ListedOnce
<1> HIDE DEF kids
<1>2. {j \in 1..Len(kids) : kids[j] = key} = {i}
  BY <1>1
<1>3. Cardinality({i}) = 1
  BY FS_Singleton
<1>4. QED
  BY <1>2, <1>3 DEF kids

LEMMA GrownFaithful == Mounting /\ Grown => TreeFaithful
<1> SUFFICES ASSUME Mounting, Grown, phase = "mounted" PROVE TreeFaithful
  BY DEF TreeFaithful
<1>1. /\ Len(archive) \in Nat /\ next \in Nat
      /\ \A k \in 1..Len(archive) : archive[k].path \in Seq(STRING)
  BY ArchiveTypes DEF Mounting
<1>2. next > Len(archive) /\ TreeAt(archive, tree, next, 0)
  BY DEF Grown, GrownIn
<1> DEFINE Found(k) ==
             LET key   == Folded(archive[k].path)
                 same  == {j \in 1..Len(archive) : Folded(archive[j].path) = key}
                 first == CHOOSE j \in same : \A i \in same : j <= i
                 below == {j \in 1..first : Len(archive[j].path) > Len(key)
                                             /\ Prefix(Folded(archive[j].path), Len(key)) = key}
                 isDir == below # {} \/ key = <<>>
             IN  /\ GetPlaceholderInfo(archive[k].path) =
                       [isDir |-> isDir,
                        size  |-> IF isDir THEN 0 ELSE Len(archive[first].data)]
                 /\ ~isDir => Node(archive[k].path).index = first
<1>3. ASSUME NEW k \in 1..Len(archive) PROVE Found(k)
  <2> DEFINE key   == Folded(archive[k].path)
             same  == {j \in 1..Len(archive) : Folded(archive[j].path) = key}
             first == CHOOSE j \in same : \A i \in same : j <= i
             below == {j \in 1..first : Len(archive[j].path) > Len(key)
                                         /\ Prefix(Folded(archive[j].path), Len(key)) = key}
  <2>1. first \in same /\ \A i \in same : first <= i
    <3>1. k \in same /\ same \subseteq Nat
      BY <1>1
    <3> HIDE DEF same
    <3>2. \E j \in same : \A i \in same : j <= i
      BY <3>1, SmallestOf
    <3>3. QED
      BY <3>2, Zenon
  <2> HIDE DEF first
  <2>2. /\ first \in 1..Len(archive) /\ Folded(archive[first].path) = key
        /\ \A j \in 1..Len(archive) : Folded(archive[j].path) = key => first <= j
    BY <2>1
  <2> HIDE DEF key, below
  <2>3. key = Folded(archive[k].path)
    BY DEF key
  <2>4. FoundIn(archive, tree, key, first)
    BY <1>1, <1>2, <2>2, <2>3, FoundAt
  <2>5. below # {} <=> \E j \in 1..first : Len(archive[j].path) > Len(key)
                                           /\ Prefix(Folded(archive[j].path), Len(key)) = key
    BY DEF below
  <2>6. /\ key \in DOMAIN tree
        /\ IF below # {} \/ key = <<>> THEN tree[key].isDir
           ELSE ~tree[key].isDir /\ tree[key].index = first
    BY <2>4, <2>5 DEF FoundIn
  <2>7. tree[key].isDir \in BOOLEAN
    BY <2>6 DEF Mounting, GoodTree
  <2>8. /\ GetPlaceholderInfo(archive[k].path) =
              [isDir |-> below # {} \/ key = <<>>,
               size  |-> IF below # {} \/ key = <<>> THEN 0 ELSE Len(archive[first].data)]
        /\ ~(below # {} \/ key = <<>>) => Node(archive[k].path).index = first
    BY <2>3, <2>6, <2>7 DEF GetPlaceholderInfo, BasicInfo, Known, Node
  <2>9. QED
    BY <2>8 DEF key, same, first, below
<1>4. ASSUME NEW key \in DOMAIN tree \ {<<>>}
      PROVE  LET kids == tree[Prefix(key, Len(key) - 1)].kids
             IN  Cardinality({i \in 1..Len(kids) : kids[i] = key}) = 1
  <2>1. ListedOnce(tree, key)
    BY <1>2 DEF TreeAt
  <2>2. QED
    BY <2>1, ListedInOnePlace
<1>5. QED
  BY <1>3, <1>4 DEF TreeFaithful

\* For every archive, with files of one name and files named like the
\* directories of others: when the mount is up each entry is found under its
\* path in any case, as the first file of the name or as the directory an
\* earlier entry made of it, and every directory lists each of its nodes once
\* (paf_mount.c:143-200).
THEOREM TreeFaithfulAlways == Spec => []TreeFaithful
<1>1. Init => Mounting /\ Grown
  BY MountingInit, GrownInit
<1>2. Mounting /\ Grown /\ [Next]_vars => Mounting' /\ Grown'
  BY MountingStep, GrownStep
<1>3. Mounting /\ Grown => TreeFaithful
  BY GrownFaithful
<1>4. QED
  BY <1>1, <1>2, <1>3, PTL DEF Spec

(***************************************************************************)
(* The page.                                                               *)
(***************************************************************************)
Files == ArchiveFiles \union {None}
VerifyRun == [pc : {"none", "digest", "done", "thrown"}, table : Nat, rows : Nat, at : Nat,
              good : BOOLEAN, fail : Nat, errs : SUBSET Nat, undisturbed : BOOLEAN]
Texts == {"", "ok", "errors", "running", "extract failed", "extracted"}
Views == [name : {a.name : a \in ArchiveFiles} \union {""}, buffer : Files, parsed : Files,
          rows : Files, shown : BOOLEAN, canVerify : BOOLEAN, status : Texts]
ViewTypes ==
    /\ view \in Views
    /\ table \in Nat /\ loads \in Nat
    /\ reading \subseteq Nat \X ArchiveFiles
    /\ verify \in [Runs -> VerifyRun]

\* An archive is on display when it is the one that was parsed; its rows are
\* in the last table.
Displayed ==
    /\ view.shown <=> view.parsed # None
    /\ view.shown => /\ view.rows = view.parsed /\ view.parsed.valid
                     /\ DOMAIN marks = 1..Len(view.rows.entries)
    /\ \A v \in Runs :
          /\ verify[v].table <= table
          /\ verify[v].pc = "digest" => verify[v].at \in 1..verify[v].rows

\* The bytes are those of the archive on display.
Own == view.shown /\ view.buffer = view.parsed

\* A row that is marked as right is, and one that will be.
MarkInv ==
    Own => /\ \A k \in DOMAIN marks : marks[k] = "ok" => k \notin Bad(view.rows)
           /\ \A v \in Runs :
                 verify[v].pc = "digest" /\ verify[v].table = table /\ verify[v].good =>
                     verify[v].at \notin Bad(view.rows)

\* The rows that count as failed in a run: the bad ones, and those whose
\* digest could not be had.
Failing(w) == Bad(view.rows) \union w.errs

\* An undisturbed run has counted those it is past.
Counting(w) ==
    w.pc \in {"digest", "done"} /\ w.undisturbed =>
        /\ view.shown /\ w.table = table /\ w.rows = Len(view.rows.entries)
        /\ w.pc = "digest" => w.errs \subseteq 1..(w.at - 1)
        /\ Own => /\ w.pc = "done" => w.fail = Cardinality(Failing(w))
                  /\ w.pc = "digest" =>
                        /\ w.fail = Cardinality(Failing(w) \cap 1..(w.at - 1))
                        /\ w.good <=> w.at \notin Bad(view.rows)
VerifyInv == ViewTypes /\ Displayed /\ MarkInv /\ \A v \in Runs : Counting(verify[v])

\* Without overlap the one that is read is the one that was chosen last, and
\* what is on display is in the file system under its name, or will be, unless
\* something packed is there.
LoadInv ==
    /\ ~overlapped =>
          /\ \A r \in reading : r[2].name = view.name /\ view.parsed = None
          /\ \A r, q \in reading : r = q
    /\ Quiet /\ ~Repacked /\ view.parsed # None =>
          /\ view.buffer = view.parsed /\ view.name = view.parsed.name
          /\ IF runtime THEN view.name \in DOMAIN fs /\ fs[view.name] = view.parsed
             ELSE deferred = view.name

IsFrom(f, p, a) == p \in DOMAIN f /\ f[p] = a

\* A file of the archive is copied, or will be.
CopyOf(x) ==
    /\ DOMAIN extract[x] = {"pc", "todo", "from", "before", "alone"}
    /\ extract[x].alone \in BOOLEAN
    /\ extract[x].pc \in {"copy", "done"} /\ extract[x].alone /\ extract[x].from # None =>
          \A p \in Paths(extract[x].from) :
              ~InTheWay(extract[x].before, extract[x].from, p) =>
                  IF extract[x].pc = "copy" /\ p \in extract[x].todo
                  THEN IsFrom(out.files, p, extract[x].from)
                  ELSE IsFrom(local[x], p, extract[x].from)
CopyInv == DOMAIN extract = Runs /\ DOMAIN local = Runs /\ \A x \in Runs : CopyOf(x)

\* A file of the list up to the n-th is in f, if it is the last of its name.
Read(f, files, n) ==
    \A i \in 1..n :
        /\ files[i].name \in DOMAIN f
        /\ (\A j \in (i + 1)..n : files[j].name # files[i].name) => f[files[i].name] = files[i].data

PackInv ==
    /\ DOMAIN pack = Runs /\ (selection = <<>> \/ selection \in Selections)
    /\ \A p \in Runs :
          /\ DOMAIN pack[p] = {"pc", "files", "at", "got", "alone"} /\ pack[p].alone \in BOOLEAN
          /\ pack[p].pc # "none" => pack[p].files \in Selections /\ pack[p].at \in Nat
          /\ pack[p].pc = "read" => pack[p].at < Len(pack[p].files)
          /\ pack[p].pc = "read" /\ pack[p].alone =>
                /\ \A q \in Runs \ {p} : pack[q].pc # "read"
                /\ Read(input, pack[p].files, pack[p].at)
          /\ pack[p].pc = "done" /\ pack[p].alone =>
                Read(pack[p].got, pack[p].files, Len(pack[p].files))

ExtractInv == VerifyInv /\ PackInv /\ LoadInv /\ CopyInv

LEMMA ListIs ==
    ASSUME NEW s, IsListOf(s)
    PROVE  Len(s) \in Nat
BY LenProperties DEF IsListOf

LEMMA ReadMore ==
    ASSUME NEW f, NEW files, NEW n \in Nat, Read(f, files, n)
    PROVE  Read(Put(f, files[n + 1].name, files[n + 1].data), files, n + 1)
<1> DEFINE e == files[n + 1]
           g == Put(f, e.name, e.data)
<1>1. /\ DOMAIN g = DOMAIN f \union {e.name} /\ g[e.name] = e.data
      /\ \A x \in DOMAIN f : x # e.name => g[x] = f[x]
  BY DEF Put
<1> HIDE DEF g
<1>2. ASSUME NEW i \in 1..(n + 1)
      PROVE  /\ files[i].name \in DOMAIN g
             /\ (\A j \in (i + 1)..(n + 1) : files[j].name # files[i].name) =>
                    g[files[i].name] = files[i].data
  <2>1. CASE i = n + 1
    BY <1>1, <2>1
  <2>2. CASE i # n + 1
    <3>1. i \in 1..n /\ n + 1 \in (i + 1)..(n + 1) /\ \A j \in (i + 1)..n : j \in (i + 1)..(n + 1)
      BY <2>2
    <3>2. /\ files[i].name \in DOMAIN f
          /\ (\A j \in (i + 1)..n : files[j].name # files[i].name) => f[files[i].name] = files[i].data
      BY <3>1 DEF Read
    <3>3. QED
      BY <1>1, <3>1, <3>2
  <2>3. QED
    BY <2>1, <2>2
<1>3. Read(g, files, n + 1)
  BY <1>2 DEF Read
<1>4. QED
  BY <1>3 DEF g

LEMMA InitPack == PageInit => PackInv
<1> SUFFICES ASSUME PageInit PROVE PackInv
  OBVIOUS
<1>1. selection = <<>> /\ pack = [p \in Runs |-> NotPacking]
  BY DEF PageInit
<1>2. /\ DOMAIN NotPacking = {"pc", "files", "at", "got", "alone"}
      /\ NotPacking.alone = TRUE /\ NotPacking.pc = "none"
  BY DEF NotPacking
<1>3. DOMAIN pack = Runs /\ \A p \in Runs : pack[p] = NotPacking
  BY <1>1
<1>4. QED
  BY <1>1, <1>2, <1>3 DEF PackInv

LEMMA PackClickPack ==
    ASSUME PackInv, NEW p \in Runs, PackClick(p)
    PROVE  PackInv'
<1>1. /\ selection' = selection /\ input' = input /\ Len(selection) > 0
      /\ pack' = [q \in Runs |->
            IF q = p THEN [NotPacking EXCEPT !.pc = "read", !.files = selection,
                              !.alone = \A o \in Runs \ {p} : pack[o].pc # "read"]
            ELSE [pack[q] EXCEPT !.alone = (pack[q].pc # "read" /\ @)]]
  BY DEF PackClick
<1>2. selection \in Selections
  <2>1. Len(<<>>) = 0
    BY EmptySeq
  <2>2. Len(selection) > 0
    BY <1>1, Zenon
  <2>3. Len(selection) # 0
    BY <2>2
  <2>4. selection # <<>>
    BY <2>1, <2>3, Zenon
  <2>5. QED
    BY <2>4 DEF PackInv
<1>3. /\ DOMAIN pack'[p] = {"pc", "files", "at", "got", "alone"}
      /\ pack'[p].pc = "read" /\ pack'[p].files = selection /\ pack'[p].at = 0
      /\ pack'[p].alone = \A o \in Runs \ {p} : pack[o].pc # "read"
  BY <1>1 DEF NotPacking
<1>4. ASSUME NEW q \in Runs, q # p
      PROVE  /\ DOMAIN pack'[q] = {"pc", "files", "at", "got", "alone"}
             /\ pack'[q].pc = pack[q].pc /\ pack'[q].files = pack[q].files
             /\ pack'[q].at = pack[q].at /\ pack'[q].got = pack[q].got
             /\ pack'[q].alone = (pack[q].pc # "read" /\ pack[q].alone)
  BY <1>1, <1>4 DEF PackInv
<1>5. DOMAIN pack' = Runs
  BY <1>1
<1>6. ASSUME NEW q \in Runs
      PROVE  /\ DOMAIN pack'[q] = {"pc", "files", "at", "got", "alone"} /\ pack'[q].alone \in BOOLEAN
             /\ pack'[q].pc # "none" => pack'[q].files \in Selections /\ pack'[q].at \in Nat
             /\ pack'[q].pc = "read" => pack'[q].at < Len(pack'[q].files)
             /\ pack'[q].pc = "read" /\ pack'[q].alone =>
                   /\ \A o \in Runs \ {q} : pack'[o].pc # "read"
                   /\ Read(input', pack'[q].files, pack'[q].at)
             /\ pack'[q].pc = "done" /\ pack'[q].alone =>
                   Read(pack'[q].got, pack'[q].files, Len(pack'[q].files))
  <2>1. CASE q = p
    <3>1. Read(input', selection, 0)
      BY DEF Read
    <3>2. \A o \in Runs \ {p} : pack'[o].pc = pack[o].pc
      BY <1>4
    <3>3. pack'[p].alone => \A o \in Runs \ {p} : pack'[o].pc # "read"
      BY <1>3, <3>2
    <3>4. pack'[p].alone \in BOOLEAN
      BY <1>3, Zenon
    <3>5. /\ selection \in Selections /\ 0 \in Nat /\ 0 < Len(selection)
          /\ "read" # "none" /\ "read" # "done"
      BY <1>1, <1>2, FileAssumption, ListIs
    <3>6. QED
      BY <1>3, <2>1, <3>1, <3>3, <3>4, <3>5
  <2>2. CASE q # p
    <3>1. pack'[q].alone \in BOOLEAN /\ ~(pack'[q].pc = "read" /\ pack'[q].alone)
      BY <1>4, <2>2
    <3>2. pack'[q].pc # "none" => pack'[q].files \in Selections /\ pack'[q].at \in Nat
      BY <1>4, <2>2 DEF PackInv
    <3>3. pack'[q].pc = "read" => pack'[q].at < Len(pack'[q].files)
      BY <1>4, <2>2 DEF PackInv
    <3>4. pack'[q].pc = "done" /\ pack'[q].alone =>
             Read(pack'[q].got, pack'[q].files, Len(pack'[q].files))
      BY <1>4, <2>2 DEF PackInv
    <3>5. QED
      BY <1>4, <2>2, <3>1, <3>2, <3>3, <3>4
  <2>3. QED
    BY <2>1, <2>2
<1>7. QED
  BY <1>1, <1>5, <1>6 DEF PackInv

LEMMA ReadFilePack ==
    ASSUME PackInv, NEW p \in Runs, ReadFile(p)
    PROVE  PackInv'
<1> DEFINE files == pack[p].files
           at == pack[p].at
           file == files[at + 1]
<1>1. /\ selection' = selection /\ pack[p].pc = "read" /\ at + 1 <= Len(files)
      /\ input' = Put(input, file.name, file.data)
      /\ pack' = IF at + 1 < Len(files) THEN [pack EXCEPT ![p].at = at + 1]
                 ELSE [pack EXCEPT ![p].pc = "done", ![p].got = input']
  BY DEF ReadFile, Listed
<1>2. files \in Selections /\ at \in Nat /\ Len(files) \in Nat
  BY <1>1, FileAssumption, ListIs DEF PackInv
<1>3. ASSUME NEW q \in Runs, q # p PROVE pack'[q] = pack[q]
  BY <1>1, <1>3 DEF PackInv
<1>4. /\ DOMAIN pack' = Runs
      /\ DOMAIN pack'[p] = {"pc", "files", "at", "got", "alone"}
      /\ pack'[p].files = files /\ pack'[p].alone = pack[p].alone
      /\ IF at + 1 < Len(files) THEN pack'[p].pc = "read" /\ pack'[p].at = at + 1
         ELSE pack'[p].pc = "done" /\ pack'[p].at = at /\ pack'[p].got = input'
  BY <1>1 DEF PackInv
<1>5. pack[p].alone => /\ Read(input', files, at + 1)
                       /\ \A q \in Runs \ {p} : pack[q].pc # "read"
  BY <1>1, <1>2, ReadMore DEF PackInv
<1> HIDE DEF files, at, file
<1>6. ASSUME NEW q \in Runs
      PROVE  /\ DOMAIN pack'[q] = {"pc", "files", "at", "got", "alone"} /\ pack'[q].alone \in BOOLEAN
             /\ pack'[q].pc # "none" => pack'[q].files \in Selections /\ pack'[q].at \in Nat
             /\ pack'[q].pc = "read" => pack'[q].at < Len(pack'[q].files)
             /\ pack'[q].pc = "read" /\ pack'[q].alone =>
                   /\ \A o \in Runs \ {q} : pack'[o].pc # "read"
                   /\ Read(input', pack'[q].files, pack'[q].at)
             /\ pack'[q].pc = "done" /\ pack'[q].alone =>
                   Read(pack'[q].got, pack'[q].files, Len(pack'[q].files))
  <2>1. CASE q = p
    <3>1. pack[p].alone \in BOOLEAN
      BY DEF PackInv
    <3>2. CASE at + 1 < Len(files)
      <4>1. pack'[p].alone => \A o \in Runs \ {p} : pack'[o].pc # "read"
        BY <1>3, <1>4, <1>5
      <4>2. QED
        BY <1>2, <1>4, <1>5, <2>1, <3>1, <3>2, <4>1
    <3>3. CASE ~(at + 1 < Len(files))
      <4>1. at + 1 = Len(files)
        BY <1>1, <1>2, <3>3 DEF files, at
      <4>2. QED
        BY <1>2, <1>4, <1>5, <2>1, <3>1, <3>3, <4>1
    <3>4. QED
      BY <3>2, <3>3
  <2>2. CASE q # p
    <3>1. pack'[q] = pack[q]
      BY <1>3, <2>2
    <3>2. ~(pack[q].pc = "read" /\ pack[q].alone)
      BY <1>1, <2>2 DEF PackInv
    <3>3. QED
      BY <3>1, <3>2 DEF PackInv
  <2>3. QED
    BY <2>1, <2>2
<1>7. QED
  BY <1>1, <1>4, <1>6 DEF PackInv

LEMMA ReadFailedPack ==
    ASSUME PackInv, NEW p \in Runs, ReadFailed(p)
    PROVE  PackInv'
<1>1. /\ selection' = selection /\ input' = input
      /\ pack' = [pack EXCEPT ![p].pc = "failed"]
  BY DEF ReadFailed
<1>2. ASSUME NEW q \in Runs
      PROVE  /\ q # p => pack'[q] = pack[q]
             /\ DOMAIN pack'[q] = {"pc", "files", "at", "got", "alone"}
             /\ pack'[q].files = pack[q].files /\ pack'[q].at = pack[q].at
             /\ pack'[q].alone = pack[q].alone /\ pack'[q].got = pack[q].got
             /\ pack'[q].pc = IF q = p THEN "failed" ELSE pack[q].pc
  BY <1>1 DEF PackInv
<1>3. pack[p].pc = "read"
  BY DEF ReadFailed
<1>4. DOMAIN pack' = Runs
  BY <1>1 DEF PackInv
<1>5. QED
  BY <1>1, <1>2, <1>3, <1>4 DEF PackInv

\* What was packed stays packed.
LEMMA DoneStays ==
    ASSUME PackInv, [PageNext]_pageVars, NEW p \in Runs, pack[p].pc = "done"
    PROVE  pack'[p].pc = "done"
<1>1. DOMAIN pack = Runs /\ \A q \in Runs : DOMAIN pack[q] = {"pc", "files", "at", "got", "alone"}
  BY DEF PackInv
<1>2. CASE UNCHANGED pack
  BY <1>2
<1>3. ASSUME NEW q \in Runs, PackClick(q) PROVE pack'[p].pc = "done"
  <2>1. q # p
    BY <1>3 DEF PackClick
  <2>2. pack'[p] = [pack[p] EXCEPT !.alone = (pack[p].pc # "read" /\ @)]
    <3>1. \A o \in Runs : o # q =>
             pack'[o] = [pack[o] EXCEPT !.alone = (pack[o].pc # "read" /\ @)]
      BY <1>3, Zenon DEF PackClick
    <3>2. QED
      BY <2>1, <3>1
  <2>3. QED
    BY <1>1, <2>2
<1>4. ASSUME NEW q \in Runs, ReadFile(q) \/ ReadFailed(q) PROVE pack'[p].pc = "done"
  <2>1. q # p
    BY <1>4 DEF ReadFile, ReadFailed
  <2>2. QED
    BY <1>1, <1>4, <2>1 DEF ReadFile, ReadFailed
<1>5. QED
  BY <1>2, <1>3, <1>4 DEF PageNext, Awaited, handleExtractFile, handleCompressFiles, onload,
     onRuntimeInitialized, Digested, DigestFailed, Copy, VerifyClick, ExtractClick, Picked,
     PickedInVain, Aborted, pageVars, packs

LEMMA NextPack == PackInv /\ [PageNext]_pageVars => PackInv'
<1> SUFFICES ASSUME PackInv, [PageNext]_pageVars PROVE PackInv'
  OBVIOUS
<1>1. CASE \E files \in Selections : handleCompressFiles(files)
  BY <1>1 DEF handleCompressFiles, PackInv
<1>2. CASE UNCHANGED packs
  BY <1>2 DEF packs, PackInv
<1>3. \/ UNCHANGED packs
      \/ \E files \in Selections : handleCompressFiles(files)
      \/ \E p \in Runs : PackClick(p) \/ ReadFile(p) \/ ReadFailed(p)
  BY DEF PageNext, Awaited, handleExtractFile, onload, onRuntimeInitialized, Digested, Copy,
     DigestFailed, VerifyClick, ExtractClick, Picked, PickedInVain, Aborted, pageVars, packs
<1>4. QED
  BY <1>1, <1>2, <1>3, PackClickPack, ReadFilePack, ReadFailedPack

\* However the files selected change while they are read, the archive holds
\* those that were selected when the button was pressed.
THEOREM PacksSelectedAlways == PageSpec => []PacksSelected
<1>1. PackInv => PacksSelected
  <2> SUFFICES ASSUME PackInv, NEW p \in Runs, pack[p].pc = "done", pack[p].alone,
                      NEW i \in 1..Len(pack[p].files)
               PROVE  LET file == pack[p].files[i]
                      IN  /\ file.name \in DOMAIN pack[p].got
                          /\ (\A j \in (i + 1)..Len(pack[p].files) :
                                 pack[p].files[j].name # file.name) =>
                                 pack[p].got[file.name] = file.data
    BY DEF PacksSelected
  <2>1. Read(pack[p].got, pack[p].files, Len(pack[p].files))
    BY DEF PackInv
  <2>2. QED
    BY <2>1 DEF Read
<1>2. QED
  BY <1>1, InitPack, NextPack, PTL DEF PageSpec

-----------------------------------------------------------------------------
LEMMA EntriesIs ==
    ASSUME ViewTypes
    PROVE  /\ Len(Entries(view.parsed)) \in Nat
           /\ view.parsed # None => /\ view.parsed \in ArchiveFiles
                                    /\ Entries(view.parsed) = view.parsed.entries
<1>1. view.parsed \in ArchiveFiles \union {None}
  BY DEF ViewTypes, Views, Files
<1>2. CASE view.parsed = None
  BY <1>2, EmptySeq DEF Entries
<1>3. CASE view.parsed # None
  BY <1>1, <1>3, FileAssumption, ListIs DEF Entries
<1>4. QED
  BY <1>2, <1>3

\* Those of a set among the first rows.
LEMMA BadUpTo ==
    ASSUME NEW B, NEW len \in Nat, B \subseteq 1..len, NEW n \in Nat
    PROVE  /\ IsFiniteSet(B \cap 1..n) /\ Cardinality(B \cap 1..n) \in Nat
           /\ n >= len => B \cap 1..n = B
           /\ Cardinality(B \cap 1..(n + 1)) =
                 Cardinality(B \cap 1..n) + (IF n + 1 \in B THEN 1 ELSE 0)
<1>1. IsFiniteSet(1..n)
  BY FS_Interval
<1>2. IsFiniteSet(B \cap 1..n)
  <2>1. B \cap 1..n \subseteq 1..n
    OBVIOUS
  <2>2. QED
    BY <1>1, <2>1, FS_Subset
<1>3. Cardinality(B \cap 1..n) \in Nat
  BY <1>2, FS_CardinalityType
<1>4. n >= len => B \cap 1..n = B
  <2>1. n >= len => \A k \in 1..len : k \in 1..n
    OBVIOUS
  <2>2. QED
    BY <2>1, Zenon
<1>5. CASE n + 1 \in B
  <2>1. B \cap 1..(n + 1) = (B \cap 1..n) \union {n + 1} /\ n + 1 \notin B \cap 1..n
    BY <1>5
  <2>2. Cardinality((B \cap 1..n) \union {n + 1}) = Cardinality(B \cap 1..n) + 1
    BY <1>2, <2>1, FS_AddElement
  <2>3. QED
    BY <1>2, <1>3, <1>4, <1>5, <2>1, <2>2
<1>6. CASE n + 1 \notin B
  <2>1. B \cap 1..(n + 1) = B \cap 1..n
    BY <1>6
  <2>2. Cardinality(B \cap 1..n) = Cardinality(B \cap 1..n) + 0
    BY <1>3
  <2>3. Cardinality(B \cap 1..(n + 1)) = Cardinality(B \cap 1..n) + 0
    BY <2>1, <2>2, Zenon
  <2>4. QED
    BY <1>2, <1>3, <1>4, <1>6, <2>3
<1>7. QED
  BY <1>5, <1>6

\* What stays on the page when only the text or the button changes.
SameView ==
    /\ view'.name = view.name /\ view'.buffer = view.buffer /\ view'.parsed = view.parsed
    /\ view'.rows = view.rows /\ view'.shown = view.shown

\* Where a handler comes to.
GoneTo(v, w, m, n) ==
    LET E == Entries(view.parsed) IN
    /\ \A k \in (w.at + 1)..(n - 1) : k <= Len(E) /\ Skip(E[k])
    /\ marks' = IF w.table # table THEN m
                ELSE [k \in DOMAIN m |-> IF k > w.at /\ k < n THEN "skip" ELSE m[k]]
    /\ \/ n = w.rows + 1 /\ verify' = [verify EXCEPT ![v] = [w EXCEPT !.pc = "done"]]
       \/ n <= w.rows /\ n > Len(E) /\ verify' = [verify EXCEPT ![v] = [w EXCEPT !.pc = "thrown"]]
       \/ /\ n <= w.rows /\ n <= Len(E) /\ ~Skip(E[n])
          /\ verify' = [verify EXCEPT ![v] = [w EXCEPT !.pc = "digest", !.at = n,
                                                       !.good = Match(view.buffer, E[n])]]
    /\ view' \in {view, [view EXCEPT !.canVerify = TRUE, !.status = "ok"],
                  [view EXCEPT !.canVerify = TRUE, !.status = "errors"],
                  [view EXCEPT !.canVerify = FALSE, !.status = "running"]}

LEMMA GoOnIs ==
    ASSUME ViewTypes, NEW v \in Runs, NEW w \in VerifyRun, w.at \in 0..w.rows, NEW m,
           GoOn(v, w, m)
    PROVE  \E n \in (w.at + 1)..(w.rows + 1) : GoneTo(v, w, m, n)
<1> DEFINE E == Entries(view.parsed)
           stop == {k \in (w.at + 1)..w.rows : k <= Len(E) => ~Skip(E[k])}
           n == IF stop = {} THEN w.rows + 1 ELSE CHOOSE k \in stop : \A j \in stop : k <= j
<1>1. /\ marks' = IF w.table # table THEN m
                  ELSE [k \in DOMAIN m |-> IF k > w.at /\ k < n THEN "skip" ELSE m[k]]
      /\ IF n > w.rows
         THEN /\ verify' = [verify EXCEPT ![v] = [w EXCEPT !.pc = "done"]]
              /\ view' = [view EXCEPT !.canVerify = TRUE,
                                      !.status = IF w.fail = 0 THEN "ok" ELSE "errors"]
         ELSE IF n > Len(E)
         THEN /\ verify' = [verify EXCEPT ![v] = [w EXCEPT !.pc = "thrown"]]
              /\ UNCHANGED view
         ELSE /\ verify' = [verify EXCEPT ![v] = [w EXCEPT !.pc = "digest", !.at = n,
                                                  !.good = Match(view.buffer, E[n])]]
              /\ view' = IF w.at > 0 THEN view
                         ELSE [view EXCEPT !.canVerify = FALSE, !.status = "running"]
  BY Zenon DEF GoOn
<1>2. w.at \in Nat /\ w.rows \in Nat /\ Len(E) \in Nat
  BY EntriesIs DEF VerifyRun
<1>3. /\ n \in (w.at + 1)..(w.rows + 1)
      /\ n <= w.rows => n \in stop
      /\ \A k \in (w.at + 1)..(n - 1) : k \notin stop
  <2>1. CASE stop = {}
    BY <1>2, <2>1
  <2>2. CASE stop # {}
    <3>1. stop \subseteq Nat
      BY <1>2
    <3>2. PICK least \in stop : \A j \in stop : least <= j
      <4> HIDE DEF stop
      <4>1. QED
        BY <2>2, <3>1, SmallestOf
    <3>3. n \in stop /\ \A j \in stop : n <= j
      <4> HIDE DEF stop
      <4>1. (CHOOSE i \in stop : \A j \in stop : i <= j) \in stop
            /\ \A j \in stop : (CHOOSE i \in stop : \A l \in stop : i <= l) <= j
        BY <3>2
      <4>2. QED
        BY <2>2, <4>1
    <3> HIDE DEF n
    <3>4. n \in (w.at + 1)..w.rows
      BY <3>3
    <3>5. \A k \in (w.at + 1)..(n - 1) : k \notin stop
      <4>1. \A k \in stop : ~(k <= n - 1)
        BY <1>2, <3>1, <3>3, <3>4
      <4>2. QED
        BY <4>1
    <3>6. QED
      BY <1>2, <3>3, <3>4, <3>5
  <2>3. QED
    BY <2>1, <2>2
<1> HIDE DEF n
<1>4. \A k \in (w.at + 1)..(n - 1) : k <= Len(E) /\ Skip(E[k])
  <2>1. \A k \in (w.at + 1)..(n - 1) : k \in (w.at + 1)..w.rows
    BY <1>2, <1>3
  <2>2. QED
    BY <1>3, <2>1
<1>5. n <= w.rows /\ n <= Len(E) => ~Skip(E[n])
  BY <1>3
<1> HIDE DEF stop, E
<1>6. view' \in {view, [view EXCEPT !.canVerify = TRUE, !.status = "ok"],
                  [view EXCEPT !.canVerify = TRUE, !.status = "errors"],
                  [view EXCEPT !.canVerify = FALSE, !.status = "running"]}
  BY <1>1
<1>7. n > w.rows => n = w.rows + 1
  BY <1>2, <1>3
<1>8. n \in Nat /\ (n > w.rows <=> ~(n <= w.rows)) /\ (n > Len(E) <=> ~(n <= Len(E)))
  BY <1>2, <1>3
<1>9. \/ n = w.rows + 1 /\ verify' = [verify EXCEPT ![v] = [w EXCEPT !.pc = "done"]]
      \/ n <= w.rows /\ n > Len(E) /\ verify' = [verify EXCEPT ![v] = [w EXCEPT !.pc = "thrown"]]
      \/ /\ n <= w.rows /\ n <= Len(E) /\ ~Skip(E[n])
         /\ verify' = [verify EXCEPT ![v] = [w EXCEPT !.pc = "digest", !.at = n,
                                                      !.good = Match(view.buffer, E[n])]]
  BY <1>1, <1>5, <1>7, <1>8, Zenon
<1>10. GoneTo(v, w, m, n)
  BY <1>1, <1>4, <1>6, <1>9 DEF GoneTo, E
<1>11. QED
  BY <1>3, <1>10

\* A run that has counted the bad ones of the first entries, w.at of them,
\* and its marks m, before it goes on.
Counted(w, m) ==
    /\ w \in VerifyRun /\ w.at \in 0..w.rows /\ w.table <= table
    /\ view.shown => DOMAIN m = 1..Len(view.rows.entries)
    /\ Own => \A k \in DOMAIN m : m[k] = "ok" => k \notin Bad(view.rows)
    /\ w.undisturbed =>
          /\ view.shown /\ w.table = table /\ w.rows = Len(view.rows.entries)
          /\ w.errs \subseteq 1..w.at
          /\ Own => w.fail = Cardinality(Failing(w) \cap 1..w.at)

LEMMA SameViewIs ==
    ASSUME ViewTypes, NEW m, NEW v, NEW w, NEW n, GoneTo(v, w, m, n)
    PROVE  /\ SameView
           /\ view' \in Views
<1>1. view' \in {view, [view EXCEPT !.canVerify = TRUE, !.status = "ok"],
                  [view EXCEPT !.canVerify = TRUE, !.status = "errors"],
                  [view EXCEPT !.canVerify = FALSE, !.status = "running"]}
  BY Zenon DEF GoneTo
<1>2. view \in Views
  BY DEF ViewTypes
<1>3. ASSUME NEW b \in BOOLEAN, NEW s \in Texts,
             view' = [view EXCEPT !.canVerify = b, !.status = s]
      PROVE  /\ SameView
             /\ view' \in Views
  BY <1>2, <1>3 DEF SameView, Views
<1>4. CASE view' = view
  BY <1>2, <1>4 DEF SameView
<1>5. TRUE \in BOOLEAN /\ FALSE \in BOOLEAN
  BY Zenon
<1>6. \/ view' = view
      \/ \E b \in BOOLEAN, s \in Texts : view' = [view EXCEPT !.canVerify = b, !.status = s]
  BY <1>1, <1>5, Zenon DEF Texts
<1>7. QED
  BY <1>3, <1>4, <1>6, Zenon

\* A run that nothing of this concerns.
LEMMA CountingStays ==
    ASSUME SameView, table' = table, NEW w, Counting(w)
    PROVE  Counting(w)'
BY DEF SameView, Counting, Own, Failing

LEMMA GoOnVerify ==
    ASSUME VerifyInv, NEW v \in Runs, NEW w, NEW m, Counted(w, m), GoOn(v, w, m),
           UNCHANGED <<table, reading, loads>>
    PROVE  VerifyInv' /\ SameView
<1> DEFINE E == Entries(view.parsed)
<1>1. w \in VerifyRun /\ w.at \in 0..w.rows /\ ViewTypes /\ Displayed /\ MarkInv
  BY DEF Counted, VerifyInv
<1>2. PICK n \in (w.at + 1)..(w.rows + 1) : GoneTo(v, w, m, n)
  BY <1>1, GoOnIs
<1>3. /\ \A k \in (w.at + 1)..(n - 1) : k <= Len(E) /\ Skip(E[k])
      /\ marks' = IF w.table # table THEN m
                  ELSE [k \in DOMAIN m |-> IF k > w.at /\ k < n THEN "skip" ELSE m[k]]
      /\ \/ n = w.rows + 1 /\ verify' = [verify EXCEPT ![v] = [w EXCEPT !.pc = "done"]]
         \/ n <= w.rows /\ n > Len(E) /\ verify' = [verify EXCEPT ![v] = [w EXCEPT !.pc = "thrown"]]
         \/ /\ n <= w.rows /\ n <= Len(E) /\ ~Skip(E[n])
            /\ verify' = [verify EXCEPT ![v] = [w EXCEPT !.pc = "digest", !.at = n,
                                                         !.good = Match(view.buffer, E[n])]]
  BY <1>2, Zenon DEF GoneTo
<1>4. SameView /\ table' = table
  BY <1>1, <1>2, SameViewIs
<1>5. /\ w.at \in Nat /\ w.rows \in Nat /\ n \in Nat /\ n >= 1 /\ w.fail \in Nat /\ w.table \in Nat
      /\ Len(E) \in Nat
      /\ view.shown => /\ view.parsed \in ArchiveFiles /\ E = view.rows.entries
                       /\ view.rows = view.parsed
  BY <1>1, <1>2, EntriesIs DEF VerifyRun, Displayed
<1> HIDE DEF E
<1>6. /\ verify'[v] \in VerifyRun /\ verify'[v].table = w.table /\ verify'[v].rows = w.rows
      /\ verify'[v].fail = w.fail /\ verify'[v].undisturbed = w.undisturbed
      /\ verify'[v].errs = w.errs
      /\ verify'[v].pc = "done" => n = w.rows + 1
      /\ verify'[v].pc = "digest" =>
            /\ n <= w.rows /\ n <= Len(E) /\ ~Skip(E[n]) /\ verify'[v].at = n
            /\ verify'[v].good = Match(view.buffer, E[n])
  <2>1. verify \in [Runs -> VerifyRun]
    BY <1>1 DEF ViewTypes
  <2>2. Match(view.buffer, E[n]) \in BOOLEAN
    BY DEF Match
  <2> DEFINE good == Match(view.buffer, E[n])
  <2> HIDE DEF good
  <2>3. \/ n = w.rows + 1 /\ verify' = [verify EXCEPT ![v] = [w EXCEPT !.pc = "done"]]
        \/ n <= w.rows /\ n > Len(E) /\ verify' = [verify EXCEPT ![v] = [w EXCEPT !.pc = "thrown"]]
        \/ /\ n <= w.rows /\ n <= Len(E) /\ ~Skip(E[n])
           /\ verify' = [verify EXCEPT ![v] = [w EXCEPT !.pc = "digest", !.at = n, !.good = good]]
    BY <1>3, Zenon DEF good
  <2>4. good \in BOOLEAN
    BY <2>2 DEF good
  <2>5. \/ n = w.rows + 1 /\ verify'[v] = [w EXCEPT !.pc = "done"]
        \/ n <= w.rows /\ n > Len(E) /\ verify'[v] = [w EXCEPT !.pc = "thrown"]
        \/ /\ n <= w.rows /\ n <= Len(E) /\ ~Skip(E[n])
           /\ verify'[v] = [w EXCEPT !.pc = "digest", !.at = n, !.good = good]
    <3>1. DOMAIN verify = Runs
      BY <2>1
    <3>2. ASSUME NEW y, verify' = [verify EXCEPT ![v] = y] PROVE verify'[v] = y
      BY <3>1, <3>2
    <3>3. QED
      BY <2>3, <3>2, Zenon
  <2> DEFINE x == verify'[v]
  <2>6. \/ n = w.rows + 1 /\ x = [w EXCEPT !.pc = "done"]
        \/ n <= w.rows /\ n > Len(E) /\ x = [w EXCEPT !.pc = "thrown"]
        \/ /\ n <= w.rows /\ n <= Len(E) /\ ~Skip(E[n])
           /\ x = [w EXCEPT !.pc = "digest", !.at = n, !.good = good]
    BY <2>5
  <2> HIDE DEF x
  <2>7. /\ x \in VerifyRun /\ x.table = w.table /\ x.rows = w.rows
        /\ x.fail = w.fail /\ x.undisturbed = w.undisturbed /\ x.errs = w.errs
        /\ x.pc = "done" => n = w.rows + 1
        /\ x.pc = "digest" =>
              n <= w.rows /\ n <= Len(E) /\ ~Skip(E[n]) /\ x.at = n /\ x.good = good
    <3>1. CASE n = w.rows + 1 /\ x = [w EXCEPT !.pc = "done"]
      BY <1>1, <3>1 DEF VerifyRun
    <3>2. CASE n <= w.rows /\ n > Len(E) /\ x = [w EXCEPT !.pc = "thrown"]
      BY <1>1, <3>2 DEF VerifyRun
    <3>3. CASE /\ n <= w.rows /\ n <= Len(E) /\ ~Skip(E[n])
               /\ x = [w EXCEPT !.pc = "digest", !.at = n, !.good = good]
      BY <1>1, <1>5, <2>4, <3>3 DEF VerifyRun
    <3>4. QED
      BY <2>6, <3>1, <3>2, <3>3
  <2>8. QED
    BY <2>7 DEF good, x
<1>7. /\ DOMAIN verify' = Runs /\ verify' = [u \in Runs |-> verify'[u]]
      /\ \A u \in Runs : u # v => verify'[u] = verify[u]
  BY <1>1, <1>3 DEF ViewTypes
<1>8. ViewTypes'
  <2>1. verify' \in [Runs -> VerifyRun]
    BY <1>1, <1>6, <1>7 DEF ViewTypes
  <2>2. QED
    BY <1>1, <1>2, <2>1, SameViewIs DEF ViewTypes
<1>9. Displayed'
  <2>1. DOMAIN marks' = DOMAIN m
    BY <1>3
  <2>2. view'.shown => DOMAIN marks' = 1..Len(view'.rows.entries)
    BY <1>4, <2>1 DEF SameView, Counted
  <2>3. ASSUME NEW u \in Runs
        PROVE  /\ verify'[u].table <= table'
               /\ verify'[u].pc = "digest" => verify'[u].at \in 1..verify'[u].rows
    <3>1. CASE u = v
      <4>1. w.table <= table /\ table' = table
        BY <1>4 DEF Counted
      <4>2. QED
        BY <1>5, <1>6, <3>1, <4>1
    <3>2. CASE u # v
      BY <1>1, <1>4, <1>7, <3>2 DEF Displayed
    <3>3. QED
      BY <3>1, <3>2
  <2>4. QED
    BY <1>1, <1>4, <2>2, <2>3 DEF Displayed, SameView
<1>10. Own' <=> Own
  BY <1>4 DEF SameView, Own
<1>11. ASSUME Own, NEW k \in 1..Len(view.rows.entries)
       PROVE  k \in Bad(view.rows) <=> ~Skip(E[k]) /\ ~Match(view.buffer, E[k])
  <2>1. E = view.rows.entries /\ view.buffer = view.rows
    BY <1>5, <1>11 DEF Own
  <2>2. QED
    BY <2>1 DEF Bad
<1>12. MarkInv'
  <2> SUFFICES ASSUME Own
               PROVE  /\ \A k \in DOMAIN marks' : marks'[k] = "ok" => k \notin Bad(view.rows)
                      /\ \A u \in Runs :
                            verify'[u].pc = "digest" /\ verify'[u].table = table /\ verify'[u].good =>
                                verify'[u].at \notin Bad(view.rows)
    BY <1>4, <1>10 DEF MarkInv, SameView
  <2>1. ASSUME NEW k \in DOMAIN marks', marks'[k] = "ok" PROVE k \notin Bad(view.rows)
    <3>1. k \in DOMAIN m /\ m[k] = "ok"
      BY <1>3, <2>1
    <3>2. QED
      BY <3>1 DEF Counted
  <2>2. ASSUME NEW u \in Runs, verify'[u].pc = "digest", verify'[u].table = table, verify'[u].good
        PROVE  verify'[u].at \notin Bad(view.rows)
    <3>1. CASE u = v
      <4>1. n <= Len(E) /\ verify'[u].at = n /\ Match(view.buffer, E[n]) /\ E = view.rows.entries
        BY <1>5, <1>6, <2>2, <3>1 DEF Own
      <4>2. n \in 1..Len(view.rows.entries)
        BY <1>5, <4>1
      <4>3. QED
        BY <1>11, <4>1, <4>2
    <3>2. CASE u # v
      BY <1>1, <1>7, <2>2, <3>2 DEF MarkInv
    <3>3. QED
      BY <3>1, <3>2
  <2>3. QED
    BY <2>1, <2>2
<1>13. ASSUME NEW x, x = verify'[v] PROVE Counting(x)'
  <2>1. SUFFICES ASSUME x.pc \in {"digest", "done"}, x.undisturbed
                 PROVE  /\ view.shown /\ x.table = table /\ x.rows = Len(view.rows.entries)
                        /\ x.pc = "digest" => x.errs \subseteq 1..(x.at - 1)
                        /\ Own => /\ x.pc = "done" => x.fail = Cardinality(Failing(x))
                                  /\ x.pc = "digest" =>
                                        /\ x.fail = Cardinality(Failing(x) \cap 1..(x.at - 1))
                                        /\ x.good <=> x.at \notin Bad(view.rows)
    BY <1>4, <1>10 DEF Counting, SameView, Failing
  <2>2. /\ view.shown /\ w.table = table /\ w.rows = Len(view.rows.entries)
        /\ w.errs \subseteq 1..w.at
        /\ Own => w.fail = Cardinality(Failing(w) \cap 1..w.at)
        /\ x.table = w.table /\ x.rows = w.rows /\ x.fail = w.fail /\ x.errs = w.errs
    BY <1>6, <1>13, <2>1 DEF Counted
  <2> DEFINE B == Failing(w)
  <2>a. Failing(x) = B /\ B = Bad(view.rows) \union w.errs
    BY <2>2 DEF Failing
  <2>3. E = view.rows.entries /\ Len(E) = w.rows
    BY <1>5, <2>2
  <2>4. ASSUME Own
        PROVE  B \cap 1..w.at = B \cap 1..(n - 1)
    <3>1. ASSUME NEW k \in (w.at + 1)..(n - 1) PROVE k \notin B
      <4>1. Skip(E[k]) /\ k \in 1..Len(view.rows.entries)
        BY <1>3, <1>5, <2>3, <3>1
      <4>2. k \notin w.errs
        BY <1>5, <2>2
      <4>3. QED
        BY <1>11, <2>4, <2>a, <4>1, <4>2
    <3>2. \A k \in Nat : k \in 1..(n - 1) <=> k \in 1..w.at \/ k \in (w.at + 1)..(n - 1)
      BY <1>2, <1>5
    <3>3. 1..w.at \subseteq Nat /\ 1..(n - 1) \subseteq Nat
      BY <1>5
    <3>4. QED
      BY <3>1, <3>2, <3>3
  <2>b. B \subseteq 1..w.rows
    BY <1>1, <1>5, <2>2, <2>a DEF Bad
  <2>5. ASSUME Own, x.pc = "done" PROVE x.fail = Cardinality(Failing(x))
    <3>1. n - 1 = w.rows /\ n - 1 \in Nat /\ n - 1 >= w.rows
      BY <1>5, <1>6, <1>13, <2>2, <2>5
    <3>2. B \cap 1..(n - 1) = B
      BY <1>5, <2>b, <3>1, BadUpTo
    <3>3. QED
      BY <2>2, <2>4, <2>5, <2>a, <3>2
  <2>c. x.pc = "digest" => x.errs \subseteq 1..(x.at - 1)
    BY <1>2, <1>5, <1>6, <1>13, <2>2
  <2>6. ASSUME Own, x.pc = "digest"
        PROVE  /\ x.fail = Cardinality(Failing(x) \cap 1..(x.at - 1))
               /\ x.good <=> x.at \notin Bad(view.rows)
    <3>1. /\ x.at = n /\ n \in 1..Len(view.rows.entries) /\ ~Skip(E[n])
          /\ x.good = Match(view.buffer, E[n])
      BY <1>5, <1>6, <1>13, <2>3, <2>6
    <3>2. n \in Bad(view.rows) <=> ~Match(view.buffer, E[n])
      BY <1>11, <2>6, <3>1
    <3>3. x.fail = Cardinality(Failing(x) \cap 1..(x.at - 1))
      BY <2>2, <2>4, <2>6, <2>a, <3>1
    <3>4. QED
      BY <3>1, <3>2, <3>3, Zenon
  <2>7. QED
    BY <2>2, <2>5, <2>6, <2>c
<1>14. ASSUME NEW u \in Runs PROVE Counting(verify[u])'
  <2>1. CASE u = v
    BY <1>13, <2>1
  <2>2. CASE u # v
    <3>1. Counting(verify[u]) /\ verify'[u] = verify[u]
      BY <1>7, <2>2 DEF VerifyInv
    <3>2. QED
      BY <1>4, <3>1 DEF SameView, Counting, Own, Failing
  <2>3. QED
    BY <2>1, <2>2
<1>15. QED
  BY <1>4, <1>8, <1>9, <1>12, <1>14 DEF VerifyInv

LEMMA InitVerify == PageInit => VerifyInv
<1> SUFFICES ASSUME PageInit PROVE VerifyInv
  OBVIOUS
<1>1. /\ view = [name |-> "", buffer |-> None, parsed |-> None, rows |-> None,
                 shown |-> FALSE, canVerify |-> FALSE, status |-> ""]
      /\ table = 0 /\ reading = {} /\ loads = 0
      /\ verify = [v \in Runs |-> NotRunning]
  BY Zenon DEF PageInit
<1>2. view \in Views
  BY <1>1 DEF Views, Files, Texts
<1>3. NotRunning \in VerifyRun /\ NotRunning.pc = "none" /\ NotRunning.table = 0
  BY DEF NotRunning, VerifyRun
<1>4. ViewTypes
  BY <1>1, <1>2, <1>3 DEF ViewTypes
<1>5. \A v \in Runs : verify[v] = NotRunning
  BY <1>1
<1>6. ~view.shown /\ view.parsed = None
  BY <1>1
<1>7. Displayed
  <2>1. table = 0
    BY <1>1, Zenon
  <2>2. QED
    BY <1>3, <1>5, <1>6, <2>1 DEF Displayed
<1>8. MarkInv
  BY <1>6 DEF MarkInv, Own
<1>9. \A v \in Runs : Counting(verify[v])
  BY <1>3, <1>5 DEF Counting
<1>10. QED
  BY <1>4, <1>7, <1>8, <1>9 DEF VerifyInv

\* An archive is chosen or comes in.
LEMMA Disturbed ==
    ASSUME ViewTypes, verify' = [v \in Runs |-> [verify[v] EXCEPT !.undisturbed = FALSE]]
    PROVE  /\ verify' \in [Runs -> VerifyRun]
           /\ \A v \in Runs :
                 /\ ~verify'[v].undisturbed /\ verify'[v].pc = verify[v].pc
                 /\ verify'[v].table = verify[v].table /\ verify'[v].rows = verify[v].rows
                 /\ verify'[v].at = verify[v].at /\ verify'[v].good = verify[v].good
<1>1. ASSUME NEW v \in Runs
      PROVE  /\ verify'[v] \in VerifyRun
             /\ ~verify'[v].undisturbed /\ verify'[v].pc = verify[v].pc
             /\ verify'[v].table = verify[v].table /\ verify'[v].rows = verify[v].rows
             /\ verify'[v].at = verify[v].at /\ verify'[v].good = verify[v].good
  BY DEF ViewTypes, VerifyRun
<1>2. QED
  BY <1>1

LEMMA ChosenVerify ==
    ASSUME VerifyInv, NEW a \in ArchiveFiles, handleExtractFile(a)
    PROVE  VerifyInv'
<1>1. /\ view' = [view EXCEPT !.name = a.name, !.buffer = None, !.parsed = None,
                              !.shown = FALSE, !.status = ""]
      /\ loads' = loads + 1 /\ reading' = reading \union {<<loads + 1, a>>}
      /\ verify' = [v \in Runs |-> [verify[v] EXCEPT !.undisturbed = FALSE]]
      /\ table' = table /\ marks' = marks
  BY DEF handleExtractFile, shows
<1>2. ViewTypes /\ Displayed
  BY DEF VerifyInv
<1>3. view' \in Views /\ ~view'.shown /\ view'.parsed = None
  BY <1>1, <1>2 DEF ViewTypes, Views, Files, Texts
<1>4. /\ verify' \in [Runs -> VerifyRun]
      /\ \A v \in Runs : /\ ~verify'[v].undisturbed /\ verify'[v].pc = verify[v].pc
                         /\ verify'[v].table = verify[v].table /\ verify'[v].rows = verify[v].rows
                         /\ verify'[v].at = verify[v].at
  BY <1>1, <1>2, Disturbed, Zenon
<1>5. ViewTypes'
  BY <1>1, <1>2, <1>3, <1>4 DEF ViewTypes
<1>6. Displayed'
  BY <1>1, <1>2, <1>3, <1>4 DEF Displayed
<1>7. MarkInv'
  BY <1>3 DEF MarkInv, Own
<1>8. \A v \in Runs : Counting(verify[v])'
  BY <1>4 DEF Counting
<1>9. QED
  BY <1>5, <1>6, <1>7, <1>8 DEF VerifyInv

LEMMA LoadedVerify ==
    ASSUME VerifyInv, NEW r \in reading, onload(r)
    PROVE  VerifyInv'
<1> DEFINE a == r[2]
<1>1. /\ reading' = reading \ {r} /\ loads' = loads
      /\ verify' = [v \in Runs |-> [verify[v] EXCEPT !.undisturbed = FALSE]]
  BY DEF onload
<1>2. ViewTypes /\ Displayed /\ MarkInv
  BY DEF VerifyInv
<1>3. a \in ArchiveFiles
  BY <1>2 DEF ViewTypes
<1>4. /\ verify' \in [Runs -> VerifyRun]
      /\ \A v \in Runs : /\ ~verify'[v].undisturbed /\ verify'[v].pc = verify[v].pc
                         /\ verify'[v].table = verify[v].table /\ verify'[v].rows = verify[v].rows
                         /\ verify'[v].at = verify[v].at
  BY <1>1, <1>2, Disturbed, Zenon
<1>5. \A v \in Runs : Counting(verify[v])'
  BY <1>4 DEF Counting
<1>6. CASE a.valid
  <2>1. /\ view' = [view EXCEPT !.buffer = a, !.parsed = a, !.rows = a,
                                !.canVerify = ~a.indexOnly, !.shown = TRUE]
        /\ table' = table + 1 /\ marks' = [k \in 1..Len(a.entries) |-> "-"]
    BY <1>6, Zenon DEF onload, renderFileList
  <2>2. view' \in Views /\ view'.shown /\ view'.parsed = a /\ view'.rows = a /\ view'.buffer = a
    <3>1. (~a.indexOnly) \in BOOLEAN
      BY Zenon
    <3> DEFINE b == ~a.indexOnly
    <3> HIDE DEF b
    <3>2. b \in BOOLEAN /\ view' = [view EXCEPT !.buffer = a, !.parsed = a, !.rows = a,
                                !.canVerify = b, !.shown = TRUE]
      BY <2>1, <3>1, Zenon DEF b
    <3>3. QED
      BY <1>2, <1>3, <3>2 DEF ViewTypes, Views, Files
  <2>3. ViewTypes'
    BY <1>1, <1>2, <1>4, <2>1, <2>2 DEF ViewTypes
  <2>4. Displayed'
    <3>1. a # None
      BY <1>3, FileAssumption
    <3>2. \A v \in Runs : verify[v].table \in Nat /\ table \in Nat
      BY <1>2 DEF ViewTypes, VerifyRun
    <3>3. \A v \in Runs : verify'[v].table <= table'
      BY <1>2, <1>4, <2>1, <3>2 DEF Displayed
    <3>4. QED
      BY <1>2, <1>4, <1>6, <2>1, <2>2, <3>1, <3>3 DEF Displayed
  <2>5. MarkInv'
    <3>1. \A k \in DOMAIN marks' : marks'[k] # "ok"
      BY <2>1
    <3>2. \A v \in Runs : verify'[v].table # table'
      <4>1. \A v \in Runs : verify[v].table \in Nat /\ table \in Nat
        BY <1>2 DEF ViewTypes, VerifyRun
      <4>2. QED
        BY <1>2, <1>4, <2>1, <4>1 DEF Displayed
    <3>3. QED
      BY <3>1, <3>2 DEF MarkInv
  <2>6. QED
    BY <1>5, <2>3, <2>4, <2>5 DEF VerifyInv
<1>7. CASE ~a.valid
  <2>1. view' = [view EXCEPT !.buffer = a] /\ table' = table /\ marks' = marks
    BY <1>7, Zenon DEF onload, shows
  <2>2. /\ view' \in Views /\ view'.buffer = a /\ view'.shown = view.shown
        /\ view'.parsed = view.parsed /\ view'.rows = view.rows
    BY <1>2, <1>3, <2>1 DEF ViewTypes, Views, Files
  <2>3. ViewTypes'
    BY <1>1, <1>2, <1>4, <2>1, <2>2 DEF ViewTypes
  <2>4. Displayed'
    BY <1>2, <1>4, <2>1, <2>2 DEF Displayed
  <2>5. ~Own'
    BY <1>2, <1>7, <2>2 DEF Own, Displayed
  <2>6. MarkInv'
    BY <2>5 DEF MarkInv
  <2>7. QED
    BY <1>5, <2>3, <2>4, <2>6 DEF VerifyInv
<1>8. QED
  BY <1>6, <1>7

LEMMA VerifyClickVerify ==
    ASSUME VerifyInv, NEW v \in Runs, VerifyClick(v)
    PROVE  VerifyInv' /\ SameView
<1> DEFINE w == [NotRunning EXCEPT !.table = table, !.rows = Len(view.rows.entries)]
<1>1. /\ GoOn(v, w, marks) /\ view.shown
      /\ table' = table /\ reading' = reading /\ loads' = loads
  BY Zenon DEF VerifyClick, loading
<1>2. ViewTypes /\ Displayed /\ MarkInv
  BY DEF VerifyInv
<1>3. Len(view.rows.entries) \in Nat /\ table \in Nat
  BY <1>1, <1>2, EntriesIs DEF Displayed, ViewTypes
<1>4. /\ w \in VerifyRun /\ w.at = 0 /\ w.table = table /\ w.rows = Len(view.rows.entries)
      /\ w.fail = 0 /\ w.errs = {}
  BY <1>3 DEF NotRunning, VerifyRun
<1> HIDE DEF w
<1>5. Failing(w) \cap 1..0 = {} /\ Cardinality({}) = 0
  BY FS_EmptySet
<1>6. Counted(w, marks)
  <2>1. w \in VerifyRun /\ w.at \in 0..w.rows /\ w.table <= table
    BY <1>3, <1>4
  <2>2. view.shown => DOMAIN marks = 1..Len(view.rows.entries)
    BY <1>2 DEF Displayed
  <2>3. Own => \A k \in DOMAIN marks : marks[k] = "ok" => k \notin Bad(view.rows)
    BY <1>2 DEF MarkInv
  <2>4. w.fail = Cardinality(Failing(w) \cap 1..w.at) /\ w.errs \subseteq 1..w.at
    BY <1>4, <1>5
  <2>5. QED
    BY <1>1, <1>4, <2>1, <2>2, <2>3, <2>4, Zenon DEF Counted
<1>7. QED
  BY <1>1, <1>6, GoOnVerify

\* A run has its answer about the row it is at.
LEMMA AnsweredVerify ==
    ASSUME VerifyInv, NEW v \in Runs, NEW u, u = verify[v], u.pc = "digest",
           NEW mark, mark = "ok" => u.good, NEW w \in VerifyRun,
           w.at = u.at, w.table = u.table, w.rows = u.rows, w.undisturbed = u.undisturbed,
           \/ w.errs = u.errs /\ w.fail = u.fail + (IF u.good THEN 0 ELSE 1)
           \/ w.errs = u.errs \union {u.at} /\ w.fail = u.fail + 1,
           GoOn(v, w, Marked(u, mark)), UNCHANGED <<table, reading, loads>>
    PROVE  VerifyInv' /\ SameView
<1> DEFINE m == Marked(u, mark)
<1>1. ViewTypes /\ Displayed /\ MarkInv /\ Counting(u)
  BY DEF VerifyInv
<1>2. u \in VerifyRun
  BY <1>1 DEF ViewTypes
<1>3. /\ u.table \in Nat /\ u.rows \in Nat /\ u.at \in Nat /\ u.fail \in Nat
      /\ u.at \in 1..u.rows /\ u.table <= table
  BY <1>1, <1>2 DEF VerifyRun, Displayed
<1>4. /\ DOMAIN m = DOMAIN marks
      /\ \A k \in DOMAIN m : m[k] = "ok" => \/ marks[k] = "ok"
                                            \/ u.table = table /\ k = u.at /\ u.good
  BY DEF Marked
<1> HIDE DEF m
<1>5. Counted(w, m)
  <2>1. w.at \in 0..w.rows /\ w.table <= table
    BY <1>3
  <2>2. view.shown => DOMAIN m = 1..Len(view.rows.entries)
    BY <1>1, <1>4 DEF Displayed
  <2>3. ASSUME Own, NEW k \in DOMAIN m, m[k] = "ok" PROVE k \notin Bad(view.rows)
    BY <1>1, <1>4, <2>3 DEF MarkInv
  <2>4. ASSUME u.undisturbed
        PROVE  /\ view.shown /\ w.table = table /\ w.rows = Len(view.rows.entries)
               /\ w.errs \subseteq 1..w.at
               /\ Own => w.fail = Cardinality(Failing(w) \cap 1..w.at)
    <3>1. /\ view.shown /\ u.table = table /\ u.rows = Len(view.rows.entries)
          /\ u.errs \subseteq 1..(u.at - 1)
      BY <1>1, <2>4 DEF Counting
    <3>2. w.errs \subseteq 1..w.at /\ u.at \notin u.errs
      BY <1>3, <3>1
    <3>3. ASSUME Own PROVE w.fail = Cardinality(Failing(w) \cap 1..w.at)
      <4> DEFINE B == Failing(w)
                 n == u.at - 1
      <4>1. /\ u.fail = Cardinality(Failing(u) \cap 1..n)
            /\ u.good <=> u.at \notin Bad(view.rows)
        BY <1>1, <2>4, <3>3 DEF Counting
      <4>2. n \in Nat /\ n + 1 = u.at /\ B \subseteq 1..u.rows
        BY <1>3, <3>1, <3>2 DEF Failing, Bad
      <4>3. Failing(u) \cap 1..n = B \cap 1..n
        BY <1>3 DEF Failing
      <4>4. u.at \in B <=> ~u.good \/ w.errs # u.errs
        BY <3>2, <4>1 DEF Failing
      <4>5. w.fail = u.fail + (IF u.at \in B THEN 1 ELSE 0)
        <5>1. CASE w.errs = u.errs /\ w.fail = u.fail + (IF u.good THEN 0 ELSE 1)
          <6>1. CASE u.good
            BY <1>3, <4>4, <5>1, <6>1
          <6>2. CASE ~u.good
            BY <1>3, <4>4, <5>1, <6>2
          <6>3. QED
            BY <6>1, <6>2
        <5>2. CASE w.errs = u.errs \union {u.at} /\ w.fail = u.fail + 1
          BY <3>2, <4>4, <5>2
        <5>3. QED
          BY <5>1, <5>2
      <4> HIDE DEF B, n
      <4>6. Cardinality(B \cap 1..(n + 1)) =
               Cardinality(B \cap 1..n) + (IF n + 1 \in B THEN 1 ELSE 0)
        BY <1>3, <4>2, BadUpTo
      <4>7. w.fail = Cardinality(B \cap 1..w.at)
        BY <4>1, <4>2, <4>3, <4>5, <4>6, Zenon
      <4>8. QED
        BY <4>7 DEF B
    <3>4. QED
      BY <3>1, <3>2, <3>3
  <2>5. QED
    BY <2>1, <2>2, <2>3, <2>4 DEF Counted
<1>6. QED
  BY <1>5, GoOnVerify DEF m

LEMMA DigestedVerify ==
    ASSUME VerifyInv, NEW v \in Runs, Digested(v) \/ DigestFailed(v)
    PROVE  VerifyInv' /\ SameView
<1> DEFINE u == verify[v]
<1>1. u.pc = "digest" /\ UNCHANGED <<table, reading, loads>>
  BY DEF Digested, DigestFailed, loading
<1>2. u \in VerifyRun
  BY DEF VerifyInv, ViewTypes
<1>3. u.fail \in Nat /\ u.at \in Nat /\ u.errs \in SUBSET Nat /\ u.fail = u.fail + 0
  BY <1>2 DEF VerifyRun
<1>4. ASSUME u.good, GoOn(v, u, Marked(u, "ok")) PROVE VerifyInv' /\ SameView
  <2>1. u.fail = u.fail + (IF u.good THEN 0 ELSE 1)
    BY <1>3, <1>4
  <2> HIDE DEF u
  <2>2. QED
    BY <1>1, <1>2, <1>4, <2>1, AnsweredVerify DEF u
<1>5. ASSUME ~u.good, NEW w, w = [u EXCEPT !.fail = @ + 1], GoOn(v, w, Marked(u, "fail"))
      PROVE  VerifyInv' /\ SameView
  <2> HIDE DEF u
  <2>1. /\ w \in VerifyRun /\ w.at = u.at /\ w.table = u.table /\ w.rows = u.rows
        /\ w.undisturbed = u.undisturbed /\ w.errs = u.errs /\ w.fail = u.fail + 1
    BY <1>2, <1>3, <1>5 DEF VerifyRun
  <2>2. w.fail = u.fail + (IF u.good THEN 0 ELSE 1) /\ "fail" # "ok"
    BY <1>5, <2>1
  <2>3. u = verify[v]
    BY DEF u
  <2>4. QED
    BY <1>1, <1>5, <2>1, <2>2, <2>3, AnsweredVerify
<1>6. ASSUME NEW w, w = [u EXCEPT !.fail = @ + 1, !.errs = @ \union {u.at}],
             GoOn(v, w, Marked(u, "err"))
      PROVE  VerifyInv' /\ SameView
  <2> DEFINE errs == u.errs \union {u.at}
             fail == u.fail + 1
  <2>a. errs \in SUBSET Nat /\ fail \in Nat
    BY <1>3
  <2>b. w = [u EXCEPT !.fail = fail, !.errs = errs]
    BY <1>6
  <2> HIDE DEF u, errs, fail
  <2>c. /\ w \in VerifyRun /\ w.at = u.at /\ w.table = u.table /\ w.rows = u.rows
        /\ w.undisturbed = u.undisturbed /\ w.errs = errs /\ w.fail = fail
    BY <1>2, <2>a, <2>b DEF VerifyRun
  <2>1. /\ w \in VerifyRun /\ w.at = u.at /\ w.table = u.table /\ w.rows = u.rows
        /\ w.undisturbed = u.undisturbed /\ w.errs = u.errs \union {u.at}
        /\ w.fail = u.fail + 1
    BY <2>c DEF errs, fail
  <2>2. u = verify[v] /\ "err" # "ok"
    BY DEF u
  <2>3. QED
    BY <1>1, <1>6, <2>1, <2>2, AnsweredVerify
<1>7. QED
  BY <1>4, <1>5, <1>6, Zenon DEF Digested, DigestFailed

LEMMA StillVerify ==
    ASSUME VerifyInv, SameView, view' \in Views,
           UNCHANGED <<table, marks, reading, loads, verify>>
    PROVE  VerifyInv'
<1>1. ViewTypes /\ Displayed /\ MarkInv
  BY DEF VerifyInv
<1>2. ViewTypes'
  BY <1>1 DEF ViewTypes
<1>3. Displayed' /\ MarkInv'
  BY <1>1 DEF Displayed, MarkInv, SameView, Own
<1>4. \A v \in Runs : Counting(verify[v])'
  BY DEF VerifyInv, SameView, Counting, Own, Failing
<1>5. QED
  BY <1>2, <1>3, <1>4 DEF VerifyInv

\* A text is shown, at most.
TextOnly ==
    /\ \E s \in Texts : view' = [view EXCEPT !.status = s]
    /\ UNCHANGED <<table, marks, reading, loads, verify>>

LEMMA TextOnlyIs ==
    ASSUME VerifyInv, TextOnly
    PROVE  VerifyInv' /\ SameView
<1>1. PICK s \in Texts : view' = [view EXCEPT !.status = s]
  BY DEF TextOnly
<1>2. view \in Views
  BY DEF VerifyInv, ViewTypes
<1>3. SameView /\ view' \in Views
  BY <1>1, <1>2 DEF SameView, Views
<1>4. QED
  BY <1>3, StillVerify DEF TextOnly

\* What none of the other steps touches.
LEMMA OtherSteps ==
    ASSUME VerifyInv, [PageNext]_pageVars
    PROVE  \/ \E a \in ArchiveFiles : handleExtractFile(a)
           \/ \E r \in reading : onload(r)
           \/ \E v \in Runs : VerifyClick(v) \/ Digested(v) \/ DigestFailed(v)
           \/ TextOnly
<1>1. view = [view EXCEPT !.status = view.status] /\ view.status \in Texts
  BY DEF VerifyInv, ViewTypes, Views
<1>2. "extract failed" \in Texts /\ "extracted" \in Texts
  BY DEF Texts
<1>3. CASE UNCHANGED <<view, table, marks, reading, loads, verify>>
  BY <1>1, <1>3 DEF TextOnly
<1>4. ASSUME NEW x \in Runs, PickedInVain(x) \/ Aborted(x) \/ Copy(x) PROVE TextOnly
  <2>1. UNCHANGED <<table, marks, reading, loads, verify>>
    BY <1>4 DEF PickedInVain, Aborted, Copy, shows, loading
  <2>2. \/ UNCHANGED view
        \/ view' = [view EXCEPT !.status = "extract failed"]
        \/ view' = [view EXCEPT !.status = "extracted"]
    BY <1>4, Zenon DEF PickedInVain, Aborted, Copy
  <2>3. QED
    BY <1>1, <1>2, <2>1, <2>2, Zenon DEF TextOnly
<1>5. CASE \/ \E files \in Selections : handleCompressFiles(files)
           \/ onRuntimeInitialized
           \/ \E n \in Runs : \/ ExtractClick(n) \/ Picked(n)
                              \/ PackClick(n) \/ ReadFile(n) \/ ReadFailed(n)
  <2>1. UNCHANGED <<view, table, marks, reading, loads, verify>>
    BY <1>5 DEF handleCompressFiles, onRuntimeInitialized, ExtractClick, Picked, PackClick,
       ReadFile, ReadFailed, shows, loading
  <2>2. QED
    BY <1>3, <2>1
<1>6. CASE UNCHANGED pageVars
  BY <1>3, <1>6 DEF pageVars
<1>7. QED
  BY <1>4, <1>5, <1>6 DEF PageNext, Awaited

LEMMA NextVerify == VerifyInv /\ [PageNext]_pageVars => VerifyInv'
BY OtherSteps, ChosenVerify, LoadedVerify, VerifyClickVerify, DigestedVerify, TextOnlyIs

\* However loads and verifications overlap, a row on display is marked as
\* right only if the data of its entry is, and a verification that nothing
\* disturbs counts every entry with wrong data and, besides these, exactly
\* those whose digest could not be had (app.js:158-205).
THEOREM VerifiedMeansIntactAlways == PageSpec => []VerifiedMeansIntact
<1>1. VerifyInv => VerifiedMeansIntact
  <2> SUFFICES ASSUME VerifyInv PROVE VerifiedMeansIntact
    OBVIOUS
  <2>1. Displayed /\ MarkInv /\ \A v \in Runs : Counting(verify[v])
    BY DEF VerifyInv
  <2>2. ASSUME view.shown, view.buffer = view.parsed, NEW k \in DOMAIN marks, marks[k] = "ok"
        PROVE  k \notin Bad(view.rows)
    BY <2>1, <2>2 DEF MarkInv, Own
  <2>3. ASSUME NEW v \in Runs, verify[v].pc = "done", verify[v].undisturbed,
               view.buffer = view.parsed
        PROVE  verify[v].fail = Cardinality(Bad(view.parsed) \union verify[v].errs)
    BY <2>1, <2>3 DEF Counting, Displayed, Own, Failing
  <2>4. QED
    BY <2>2, <2>3 DEF VerifiedMeansIntact
<1>2. QED
  BY <1>1, InitVerify, NextVerify, PTL DEF PageSpec

LEMMA InitExtract == PageInit => LoadInv /\ CopyInv
<1> SUFFICES ASSUME PageInit PROVE LoadInv /\ CopyInv
  OBVIOUS
<1>1. reading = {} /\ extract = [x \in Runs |-> NotExtracting] /\ local = [x \in Runs |-> <<>>]
  BY Zenon DEF PageInit
<1>2. view.parsed = None
  BY DEF PageInit
<1>3. /\ DOMAIN NotExtracting = {"pc", "todo", "from", "before", "alone"} /\ NotExtracting.pc = "none"
      /\ NotExtracting.alone = TRUE
  BY DEF NotExtracting
<1>4. \A x \in Runs : extract[x] = NotExtracting
  BY <1>1
<1>5. LoadInv
  BY <1>1, <1>2 DEF LoadInv
<1>6. CopyInv
  BY <1>1, <1>3, <1>4 DEF CopyInv, CopyOf
<1>7. QED
  BY <1>5, <1>6

LEMMA ChosenLoad ==
    ASSUME VerifyInv, LoadInv, NEW a \in ArchiveFiles, handleExtractFile(a)
    PROVE  LoadInv'
<1>1. /\ view' = [view EXCEPT !.name = a.name, !.buffer = None, !.parsed = None,
                              !.shown = FALSE, !.status = ""]
      /\ reading' = reading \union {<<loads + 1, a>>}
      /\ overlapped' = (overlapped \/ reading # {})
  BY Zenon DEF handleExtractFile
<1>2. view \in Views
  BY DEF VerifyInv, ViewTypes
<1>3. view'.name = a.name /\ view'.parsed = None
  BY <1>1, <1>2 DEF Views
<1>4. ~overlapped' => reading = {}
  BY <1>1, Zenon
<1>5. \A r \in reading' : ~overlapped' => r = <<loads + 1, a>>
  BY <1>1, <1>4
<1>6. \A r \in reading' : ~overlapped' => r[2].name = view'.name
  BY <1>3, <1>5
<1>7. QED
  BY <1>3, <1>5, <1>6 DEF LoadInv

LEMMA LoadedLoad ==
    ASSUME VerifyInv, LoadInv, NEW r \in reading, onload(r)
    PROVE  LoadInv'
<1> DEFINE a == r[2]
<1>1. /\ reading' = reading \ {r} /\ overlapped' = overlapped /\ runtime' = runtime
  BY DEF onload
<1>2. view \in Views /\ a \in ArchiveFiles
  BY DEF VerifyInv, ViewTypes
<1>3. ~overlapped => reading' = {} /\ a.name = view.name /\ view.parsed = None
  BY <1>1 DEF LoadInv
<1>4. CASE a.valid
  <2>1. /\ view' = [view EXCEPT !.buffer = a, !.parsed = a, !.rows = a,
                                !.canVerify = ~a.indexOnly, !.shown = TRUE]
        /\ IF runtime THEN fs' = Put(fs, a.name, a) /\ UNCHANGED deferred
           ELSE deferred' = a.name /\ UNCHANGED fs
    BY <1>4, Zenon DEF onload
  <2>2. view'.name = view.name /\ view'.parsed = a /\ view'.buffer = a
    <3> DEFINE b == ~a.indexOnly
    <3>1. view' = [view EXCEPT !.buffer = a, !.parsed = a, !.rows = a,
                               !.canVerify = b, !.shown = TRUE]
      BY <2>1, Zenon
    <3> HIDE DEF b
    <3>2. QED
      BY <1>2, <3>1 DEF Views
  <2>3. ~overlapped => IF runtime THEN a.name \in DOMAIN fs' /\ fs'[a.name] = a
                       ELSE deferred' = a.name
    BY <2>1 DEF Put
  <2>4. QED
    BY <1>1, <1>3, <2>2, <2>3 DEF LoadInv, Quiet
<1>5. CASE ~a.valid
  <2>1. view' = [view EXCEPT !.buffer = a]
    BY <1>5, Zenon DEF onload
  <2>2. view'.parsed = view.parsed
    BY <1>2, <2>1 DEF Views
  <2>3. QED
    BY <1>1, <1>3, <2>2 DEF LoadInv, Quiet
<1>6. QED
  BY <1>4, <1>5

LEMMA ReadyLoad ==
    ASSUME VerifyInv, LoadInv, onRuntimeInitialized
    PROVE  LoadInv'
<1>1. /\ ~runtime /\ runtime' = TRUE
      /\ fs' = IF deferred = None THEN fs ELSE Put(fs, deferred, view.buffer)
      /\ view' = view /\ reading' = reading /\ overlapped' = overlapped
  BY Zenon DEF onRuntimeInitialized, loading
<1>2. ASSUME Quiet, ~Repacked, view.parsed # None
      PROVE  view.name \in DOMAIN fs' /\ fs'[view.name] = view.parsed
  <2>1. deferred = view.name /\ view.buffer = view.parsed /\ view.name = view.parsed.name
    BY <1>1, <1>2, Zenon DEF LoadInv
  <2>2. view.parsed \in ArchiveFiles
    BY <1>2, EntriesIs DEF VerifyInv
  <2>3. deferred # None
    BY <2>1, <2>2, FileAssumption
  <2>4. fs' = Put(fs, view.name, view.parsed)
    BY <1>1, <2>1, <2>3, Zenon
  <2>5. QED
    BY <2>4 DEF Put
<1>3. (Quiet' <=> Quiet) /\ (Repacked' <=> Repacked)
  BY <1>1, Zenon DEF Quiet, Repacked, onRuntimeInitialized, packs
<1>4. \A r \in reading' : r \in reading
  BY <1>1
<1>5. ~overlapped' => /\ \A r \in reading' : r[2].name = view'.name /\ view'.parsed = None
                      /\ \A r, q \in reading' : r = q
  BY <1>1, Zenon DEF LoadInv
<1>6. Quiet' /\ ~Repacked' /\ view'.parsed # None =>
          /\ view'.buffer = view'.parsed /\ view'.name = view'.parsed.name
          /\ view'.name \in DOMAIN fs' /\ fs'[view'.name] = view'.parsed
  BY <1>1, <1>2, <1>3, Zenon DEF LoadInv
<1>7. QED
  BY <1>1, <1>5, <1>6, Zenon DEF LoadInv

LEMMA StillLoad ==
    ASSUME LoadInv, SameView, Repacked => Repacked',
           UNCHANGED <<reading, overlapped, runtime, deferred, fs>>
    PROVE  LoadInv'
BY DEF LoadInv, SameView, Quiet

\* What is packed replaces no other archive.
LEMMA ReadFileLoad ==
    ASSUME PackInv, LoadInv, NEW p \in Runs, ReadFile(p), Repacked => Repacked'
    PROVE  LoadInv'
<1>1. UNCHANGED <<view, reading, overlapped, runtime, deferred>> /\ SameView
  BY DEF ReadFile, loading, SameView
<1>2. CASE fs' = fs
  BY <1>1, <1>2, StillLoad
<1>3. CASE pack'[p].pc = "done" /\ fs' = Put(fs, Created, Archived(input'))
  <2>1. ~Repacked' => view.name # Created
    BY <1>1, <1>3 DEF Repacked
  <2>2. ASSUME view.name # Created, view.name \in DOMAIN fs
        PROVE  view.name \in DOMAIN fs' /\ fs'[view.name] = fs[view.name]
    BY <1>3, <2>2 DEF Put
  <2>3. QED
    BY <1>1, <2>1, <2>2 DEF LoadInv, Quiet
<1>4. QED
  <2>1. \/ fs' = fs
        \/ /\ pack' = [pack EXCEPT ![p].pc = "done", ![p].got = input']
           /\ fs' = Put(fs, Created, Archived(input'))
    BY Zenon DEF ReadFile
  <2>2. pack' = [pack EXCEPT ![p].pc = "done", ![p].got = input'] => pack'[p].pc = "done"
    BY DEF PackInv
  <2>3. QED
    BY <1>2, <1>3, <2>1, <2>2

LEMMA NextLoad ==
    ASSUME VerifyInv, PackInv, LoadInv, [PageNext]_pageVars
    PROVE  LoadInv'
<1>1. CASE \/ \E a \in ArchiveFiles : handleExtractFile(a)
           \/ \E r \in reading : onload(r)
           \/ onRuntimeInitialized
  BY <1>1, ChosenLoad, LoadedLoad, ReadyLoad
<1>2. CASE /\ ~onRuntimeInitialized /\ ~\E a \in ArchiveFiles : handleExtractFile(a)
           /\ ~\E r \in reading : onload(r)
  <2>1. SameView
    BY <1>2, OtherSteps, VerifyClickVerify, DigestedVerify, TextOnlyIs
  <2>2. Repacked => Repacked'
    BY <2>1, DoneStays DEF Repacked, SameView
  <2>3. CASE \E p \in Runs : ReadFile(p)
    BY <2>2, <2>3, ReadFileLoad
  <2>4. CASE ~\E p \in Runs : ReadFile(p)
    <3>1. UNCHANGED <<reading, overlapped, runtime, deferred, fs>>
      BY <1>2, <2>4 DEF PageNext, Awaited, handleCompressFiles, Digested, DigestFailed, Copy,
         VerifyClick, ExtractClick, Picked, PickedInVain, Aborted, PackClick, ReadFailed, pageVars,
         loading, module
    <3>2. QED
      BY <2>1, <2>2, <3>1, StillLoad
  <2>5. QED
    BY <2>3, <2>4
<1>3. QED
  BY <1>1, <1>2

-----------------------------------------------------------------------------
\* What was copied stays, for a run that a step does not move.
LEMMA CopyStays ==
    ASSUME NEW x, CopyOf(x), extract'[x] = extract[x], local'[x] = local[x],
           out' = out \/ extract[x].pc # "copy"
    PROVE  CopyOf(x)'
BY DEF CopyOf, IsFrom

LEMMA ExtractClickCopy ==
    ASSUME CopyInv, NEW x \in Runs, ExtractClick(x) \/ PickedInVain(x) \/ Aborted(x)
    PROVE  CopyInv'
<1>1. /\ out' = out /\ local' = local
      /\ \/ extract' = [extract EXCEPT ![x].pc = "pick"]
         \/ extract' = [extract EXCEPT ![x].pc = "failed"]
  BY Zenon DEF ExtractClick, PickedInVain, Aborted
<1>2. DOMAIN extract = Runs /\ DOMAIN local = Runs /\ \A y \in Runs : CopyOf(y)
  BY DEF CopyInv
<1>3. DOMAIN extract' = Runs
  BY <1>1, <1>2
<1>4. ASSUME NEW y \in Runs PROVE CopyOf(y)'
  <2>1. CASE y = x
    <3>1. /\ DOMAIN extract'[y] = {"pc", "todo", "from", "before", "alone"}
          /\ extract'[y].alone = extract[y].alone /\ extract'[y].pc \notin {"copy", "done"}
      BY <1>1, <1>2, <2>1 DEF CopyOf
    <3>2. QED
      BY <1>2, <3>1 DEF CopyOf
  <2>2. CASE y # x
    <3>1. extract'[y] = extract[y]
      BY <1>1, <1>2, <2>2
    <3>2. QED
      BY <1>1, <1>2, <3>1, CopyStays
  <2>3. QED
    BY <2>1, <2>2
<1>5. QED
  BY <1>1, <1>2, <1>3, <1>4 DEF CopyInv

\* The recursive unpacking is the function its equation describes.
UnpacksUpTo(f, o, a, lost, n) ==
    f = [k \in 0..n |-> IF k = 0 THEN o ELSE UnpackedEntry(f[k - 1], a, k, lost)]

LEMMA UnpacksExists == \A o, a, lost : \A n \in Nat : \E f : UnpacksUpTo(f, o, a, lost, n)
<1> SUFFICES ASSUME NEW o, NEW a, NEW lost PROVE \A n \in Nat : \E f : UnpacksUpTo(f, o, a, lost, n)
  OBVIOUS
<1> DEFINE S == {n \in Nat : \E f : UnpacksUpTo(f, o, a, lost, n)}
<1>1. 0 \in S
  <2> DEFINE g == [j \in 0..0 |-> o]
  <2>1. UnpacksUpTo(g, o, a, lost, 0)
    BY DEF UnpacksUpTo
  <2>2. QED
    BY <2>1
<1>2. ASSUME NEW n \in Nat, n \in S PROVE n + 1 \in S
  <2>1. PICK f : UnpacksUpTo(f, o, a, lost, n)
    BY <1>2
  <2> DEFINE g == [j \in 0..n + 1 |-> IF j = n + 1 THEN UnpackedEntry(f[n], a, j, lost) ELSE f[j]]
  <2>2. ASSUME NEW j \in 0..n + 1
        PROVE  g[j] = IF j = 0 THEN o ELSE UnpackedEntry(g[j - 1], a, j, lost)
    <3>1. CASE j = n + 1
      BY <3>1
    <3>2. CASE j # n + 1
      <4>1. j \in 0..n /\ g[j] = f[j] /\ (j # 0 => g[j - 1] = f[j - 1])
        BY <3>2
      <4>2. f[j] = IF j = 0 THEN o ELSE UnpackedEntry(f[j - 1], a, j, lost)
        BY <2>1, <4>1 DEF UnpacksUpTo
      <4> HIDE DEF g
      <4>3. QED
        BY <4>1, <4>2
    <3>3. QED
      BY <3>1, <3>2
  <2>3. g = [j \in 0..n + 1 |-> g[j]]
    OBVIOUS
  <2> HIDE DEF g
  <2>4. UnpacksUpTo(g, o, a, lost, n + 1)
    BY <2>2, <2>3 DEF UnpacksUpTo
  <2>5. QED
    BY <2>4
<1> HIDE DEF S
<1>3. \A n \in Nat : n \in S
  BY <1>1, <1>2, NatInductionOn
<1>4. QED
  BY <1>3 DEF S

\* What is in "/out" behind the first entries: what was there, what is in the
\* archive, and every entry so far that nothing is in the way of.
Unpacking(t, o, a, k) ==
    /\ DOMAIN t.files \subseteq DOMAIN o.files \union Paths(a)
    /\ \A d \in t.dirs : d \in o.dirs \/ \E q \in Paths(a) : d \in Above(q)
    /\ \A j \in 1..k : ~a.entries[j].refused /\ ~InTheWay(o, a, a.entries[j].path) =>
           IsFrom(t.files, a.entries[j].path, a)

LEMMA UnpackingStep ==
    ASSUME NEW o, NEW a, NEW n \in Nat, Len(a.entries) = n, NEW k \in 1..n, NEW t,
           Unpacking(t, o, a, k - 1)
    PROVE  Unpacking(UnpackedEntry(t, a, k, {}), o, a, k)
<1> DEFINE e == a.entries[k]
           p == e.path
           dirs == t.dirs \union
                   {d \in Above(p) : \A q \in Above(p) : Len(q) <= Len(d) => q \notin DOMAIN t.files}
           u == UnpackedEntry(t, a, k, {})
<1>1. \A j \in 1..k : j = k \/ j \in 1..(k - 1)
  OBVIOUS
<1>2. CASE e.refused
  <2>1. u = t
    BY <1>2 DEF UnpackedEntry
  <2> HIDE DEF u
  <2>2. QED
    BY <1>1, <1>2, <2>1 DEF Unpacking, u
<1>3. CASE ~e.refused
  <2>1. p \in Paths(a)
    BY <1>3 DEF Paths
  <2>2. /\ u.dirs = dirs
        /\ u.files = IF p \notin dirs /\ Above(p) \subseteq dirs THEN Put(t.files, p, a) ELSE t.files
    BY <1>3 DEF UnpackedEntry, Overwritten
  <2>3. DOMAIN u.files \subseteq DOMAIN t.files \union {p}
    BY <2>2 DEF Put
  <2>4. \A d \in dirs : d \in t.dirs \/ d \in Above(p)
    OBVIOUS
  <2>5. ASSUME NEW q, IsFrom(t.files, q, a) PROVE IsFrom(u.files, q, a)
    BY <2>2, <2>5 DEF Put, IsFrom
  <2>6. ASSUME ~InTheWay(o, a, p) PROVE IsFrom(u.files, p, a)
    <3>1. \A q \in Above(p) : q \notin DOMAIN t.files
      BY <2>6 DEF InTheWay, Unpacking
    <3>2. Above(p) \subseteq dirs
      BY <3>1
    <3>3. p \notin dirs
      <4>1. p \notin o.dirs /\ \A q \in Paths(a) : p \notin Above(q)
        BY <2>6 DEF InTheWay
      <4>2. QED
        BY <2>1, <2>4, <4>1 DEF Unpacking
    <3>4. u.files = Put(t.files, p, a)
      BY <2>2, <3>2, <3>3
    <3>5. QED
      BY <3>4 DEF Put, IsFrom
  <2> HIDE DEF u, dirs, p
  <2>7. DOMAIN u.files \subseteq DOMAIN o.files \union Paths(a)
    BY <2>1, <2>3 DEF Unpacking
  <2>8. \A d \in u.dirs : d \in o.dirs \/ \E q \in Paths(a) : d \in Above(q)
    BY <2>1, <2>2, <2>4 DEF Unpacking
  <2>9. ASSUME NEW j \in 1..k, ~a.entries[j].refused, ~InTheWay(o, a, a.entries[j].path)
        PROVE  IsFrom(u.files, a.entries[j].path, a)
    <3>1. CASE j = k
      BY <2>6, <2>9, <3>1 DEF p
    <3>2. CASE j \in 1..(k - 1)
      BY <2>5, <2>9, <3>2 DEF Unpacking
    <3>3. QED
      BY <1>1, <3>1, <3>2
  <2>10. QED
    BY <2>7, <2>8, <2>9 DEF Unpacking, u
<1>4. QED
  BY <1>2, <1>3

LEMMA UnpackedGives ==
    ASSUME NEW o, NEW a, Len(a.entries) \in Nat, NEW p \in Paths(a), ~InTheWay(o, a, p)
    PROVE  IsFrom(Unpacked(o, a, {}).files, p, a)
<1> DEFINE n == Len(a.entries)
           f == CHOOSE f : UnpacksUpTo(f, o, a, {}, n)
<1>1. UnpacksUpTo(f, o, a, {}, n)
  <2>1. \E g : UnpacksUpTo(g, o, a, {}, n)
    BY UnpacksExists
  <2>2. QED
    BY <2>1, Zenon
<1>2. Unpacked(o, a, {}) = f[n]
  BY DEF Unpacked, UnpacksUpTo
<1> HIDE DEF f
<1>3. \A k \in 0..n : f[k] = IF k = 0 THEN o ELSE UnpackedEntry(f[k - 1], a, k, {})
  BY <1>1 DEF UnpacksUpTo
<1> DEFINE S == {k \in Nat : k <= n => Unpacking(f[k], o, a, k)}
<1>4. 0 \in S
  <2>1. f[0] = o
    BY <1>3
  <2>2. Unpacking(o, o, a, 0)
    BY DEF Unpacking
  <2>3. QED
    BY <2>1, <2>2
<1>5. ASSUME NEW k \in Nat, k \in S PROVE k + 1 \in S
  <2>1. SUFFICES ASSUME k + 1 <= n PROVE Unpacking(f[k + 1], o, a, k + 1)
    OBVIOUS
  <2> DEFINE m == k + 1
  <2>2. m \in 1..n /\ m - 1 = k /\ m \in 0..n /\ m # 0
    BY <2>1
  <2>3. Unpacking(f[m - 1], o, a, m - 1)
    BY <1>5, <2>1, <2>2
  <2> HIDE DEF m
  <2>4. f[m] = UnpackedEntry(f[m - 1], a, m, {})
    BY <1>3, <2>2
  <2>5. Unpacking(UnpackedEntry(f[m - 1], a, m, {}), o, a, m)
    BY <2>2, <2>3, UnpackingStep
  <2>6. QED
    BY <2>4, <2>5 DEF m
<1> HIDE DEF S
<1>6. n \in S
  BY <1>4, <1>5, NatInductionOn
<1>7. Unpacking(f[n], o, a, n)
  BY <1>6 DEF S
<1>8. PICK j \in 1..n : ~a.entries[j].refused /\ a.entries[j].path = p
  BY DEF Paths
<1>9. QED
  BY <1>2, <1>7, <1>8 DEF Unpacking

LEMMA PickedCopy ==
    ASSUME VerifyInv, LoadInv, CopyInv, NEW x \in Runs, Picked(x)
    PROVE  CopyInv'
<1>1. DOMAIN extract = Runs /\ DOMAIN local = Runs /\ \A y \in Runs : CopyOf(y)
  BY DEF CopyInv
<1>2. local' = local /\ Extractable
  BY DEF Picked
<1>3. PICK lost :
        /\ out' = Unpacked(out, Named, lost)
        /\ extract' = [y \in Runs |->
              IF y = x THEN [extract[x] EXCEPT !.pc = "copy", !.todo = DOMAIN out'.files,
                                               !.from = IF lost = {} THEN ShownNow ELSE None,
                                               !.before = out]
              ELSE [extract[y] EXCEPT !.alone = (extract[y].pc # "copy" /\ @)]]
  BY Zenon DEF Picked
<1> DEFINE from == IF lost = {} THEN ShownNow ELSE None
<1>4. ASSUME from # None
      PROVE  from = Named /\ out' = Unpacked(out, from, {}) /\ Len(from.entries) \in Nat
  <2>1. /\ lost = {} /\ Quiet /\ ~Repacked /\ view.parsed # None
        /\ from = view.parsed
    BY <1>4 DEF ShownNow
  <2>2. view.name \in DOMAIN fs /\ fs[view.name] = view.parsed
    BY <1>2, <2>1, Zenon DEF LoadInv, Extractable
  <2>3. Named = from
    BY <2>1, <2>2 DEF Named
  <2>4. from \in ArchiveFiles
    BY <2>1, EntriesIs DEF VerifyInv
  <2>5. Len(from.entries) \in Nat
    BY <2>4, FileAssumption, ListIs
  <2>6. QED
    BY <1>3, <2>1, <2>3, <2>5
<1>5. /\ DOMAIN extract'[x] = {"pc", "todo", "from", "before", "alone"}
      /\ extract'[x].pc = "copy" /\ extract'[x].todo = DOMAIN out'.files
      /\ extract'[x].from = from /\ extract'[x].before = out
      /\ extract'[x].alone = extract[x].alone
  <2> HIDE DEF from
  <2>1. extract'[x] = [extract[x] EXCEPT !.pc = "copy", !.todo = DOMAIN out'.files,
                                         !.from = from, !.before = out]
    BY <1>3 DEF from
  <2>2. DOMAIN extract[x] = {"pc", "todo", "from", "before", "alone"}
    BY <1>1 DEF CopyOf
  <2>3. QED
    BY <2>1, <2>2
<1> HIDE DEF from
<1>6. CopyOf(x)'
  <2>1. extract[x].alone \in BOOLEAN
    BY <1>1 DEF CopyOf
  <2>2. ASSUME extract'[x].from # None, NEW p \in Paths(extract'[x].from),
               ~InTheWay(extract'[x].before, extract'[x].from, p)
        PROVE  p \in extract'[x].todo /\ IsFrom(out'.files, p, extract'[x].from)
    <3>1. IsFrom(out'.files, p, from)
      BY <1>4, <1>5, <2>2, UnpackedGives
    <3>2. QED
      BY <1>5, <3>1 DEF IsFrom
  <2>3. QED
    BY <1>5, <2>1, <2>2 DEF CopyOf
<1>7. ASSUME NEW y \in Runs, y # x PROVE CopyOf(y)'
  <2>1. extract'[y] = [extract[y] EXCEPT !.alone = (extract[y].pc # "copy" /\ @)]
    BY <1>3, <1>7
  <2>2. /\ DOMAIN extract'[y] = {"pc", "todo", "from", "before", "alone"}
        /\ extract'[y].pc = extract[y].pc /\ extract'[y].todo = extract[y].todo
        /\ extract'[y].from = extract[y].from /\ extract'[y].before = extract[y].before
        /\ extract'[y].alone = (extract[y].pc # "copy" /\ extract[y].alone)
    BY <1>1, <2>1 DEF CopyOf
  <2>3. extract'[y].alone \in BOOLEAN
    BY <2>2, Zenon
  <2>4. extract'[y].alone => extract[y].alone /\ extract[y].pc # "copy"
    BY <2>2, Zenon
  <2>5. ASSUME extract'[y].pc \in {"copy", "done"}, extract'[y].alone, extract'[y].from # None,
               NEW p \in Paths(extract'[y].from),
               ~InTheWay(extract'[y].before, extract'[y].from, p)
        PROVE  extract'[y].pc # "copy" /\ IsFrom(local'[y], p, extract'[y].from)
    BY <1>1, <1>2, <2>2, <2>4, <2>5 DEF CopyOf
  <2>6. QED
    BY <2>2, <2>3, <2>5 DEF CopyOf
<1>8. DOMAIN extract' = Runs
  BY <1>3
<1>9. QED
  BY <1>1, <1>2, <1>6, <1>7, <1>8 DEF CopyInv

LEMMA CopyCopy ==
    ASSUME CopyInv, NEW x \in Runs, Copy(x)
    PROVE  CopyInv'
<1>1. DOMAIN extract = Runs /\ DOMAIN local = Runs /\ \A y \in Runs : CopyOf(y)
  BY DEF CopyInv
<1>2. out' = out /\ extract[x].pc = "copy"
  BY DEF Copy
<1>3. CASE extract[x].todo = {}
  <2>1. extract' = [extract EXCEPT ![x].pc = "done"] /\ local' = local
    BY <1>3, Zenon DEF Copy
  <2>2. /\ DOMAIN extract'[x] = {"pc", "todo", "from", "before", "alone"} /\ extract'[x].pc = "done"
        /\ extract'[x].from = extract[x].from /\ extract'[x].before = extract[x].before
        /\ extract'[x].alone = extract[x].alone
    BY <1>1, <2>1 DEF CopyOf
  <2>3. CopyOf(x)'
    <3>1. extract[x].alone \in BOOLEAN
      BY <1>1 DEF CopyOf
    <3>2. ASSUME extract[x].alone, extract[x].from # None, NEW p \in Paths(extract[x].from),
                 ~InTheWay(extract[x].before, extract[x].from, p)
          PROVE  IsFrom(local[x], p, extract[x].from)
      BY <1>1, <1>2, <1>3, <3>2 DEF CopyOf
    <3>3. QED
      BY <2>1, <2>2, <3>1, <3>2 DEF CopyOf
  <2>4. ASSUME NEW y \in Runs, y # x PROVE CopyOf(y)'
    BY <1>1, <1>2, <2>1, <2>4, CopyStays
  <2>5. DOMAIN extract' = Runs
    BY <1>1, <2>1
  <2>6. QED
    BY <1>1, <2>1, <2>3, <2>4, <2>5 DEF CopyInv
<1>4. CASE extract[x].todo # {}
  <2>1. PICK p \in extract[x].todo :
           /\ local' = [local EXCEPT ![x] = Put(@, p, out.files[p])]
           /\ extract' = [extract EXCEPT ![x].todo = @ \ {p}]
    BY <1>4, Zenon DEF Copy
  <2>2. /\ DOMAIN extract'[x] = {"pc", "todo", "from", "before", "alone"} /\ extract'[x].pc = "copy"
        /\ extract'[x].todo = extract[x].todo \ {p}
        /\ extract'[x].from = extract[x].from /\ extract'[x].before = extract[x].before
        /\ extract'[x].alone = extract[x].alone
    BY <1>1, <1>2, <2>1 DEF CopyOf
  <2>3. /\ DOMAIN local'[x] = DOMAIN local[x] \union {p} /\ local'[x][p] = out.files[p]
        /\ \A q \in DOMAIN local[x] : q # p => local'[x][q] = local[x][q]
    <3>1. local'[x] = Put(local[x], p, out.files[p])
      BY <1>1, <2>1
    <3>2. QED
      BY <3>1 DEF Put
  <2>4. CopyOf(x)'
    <3>1. extract[x].alone \in BOOLEAN
      BY <1>1 DEF CopyOf
    <3>2. ASSUME extract[x].alone, extract[x].from # None, NEW q \in Paths(extract[x].from),
                 ~InTheWay(extract[x].before, extract[x].from, q)
          PROVE  IF q \in extract[x].todo \ {p} THEN IsFrom(out'.files, q, extract[x].from)
                 ELSE IsFrom(local'[x], q, extract[x].from)
      BY <1>1, <1>2, <2>3, <3>2 DEF CopyOf, IsFrom
    <3>3. QED
      BY <2>2, <3>1, <3>2 DEF CopyOf
  <2>5. ASSUME NEW y \in Runs, y # x PROVE CopyOf(y)'
    BY <1>1, <1>2, <2>1, <2>5, CopyStays
  <2>6. DOMAIN extract' = Runs /\ DOMAIN local' = Runs
    BY <1>1, <2>1
  <2>7. QED
    BY <2>4, <2>5, <2>6 DEF CopyInv
<1>5. QED
  BY <1>3, <1>4

LEMMA NextExtract == ExtractInv /\ [PageNext]_pageVars => ExtractInv'
<1> SUFFICES ASSUME ExtractInv, [PageNext]_pageVars PROVE ExtractInv'
  OBVIOUS
<1>1. VerifyInv /\ PackInv /\ LoadInv /\ CopyInv
  BY DEF ExtractInv
<1>2. CopyInv'
  <2>1. CASE UNCHANGED extracts
    BY <1>1, <2>1 DEF extracts, CopyInv, CopyOf
  <2>2. \/ UNCHANGED extracts
        \/ \E x \in Runs : \/ ExtractClick(x) \/ Picked(x) \/ PickedInVain(x) \/ Aborted(x)
                           \/ Copy(x)
    BY DEF PageNext, Awaited, handleExtractFile, onload, onRuntimeInitialized, Digested,
       DigestFailed, VerifyClick, handleCompressFiles, PackClick, ReadFile, ReadFailed, pageVars, extracts
  <2>3. QED
    BY <1>1, <2>1, <2>2, ExtractClickCopy, PickedCopy, CopyCopy
<1>3. QED
  BY <1>1, <1>2, NextVerify, NextPack, NextLoad DEF ExtractInv

\* What lands in the directory are the files of the archive on display, each
\* from that archive, however loads and extractions overlap before, but for
\* refused paths and paths that get in each other's or an earlier
\* extraction's way (app.js:214-262, libpaf_core.c:284-327).
THEOREM ExtractsShownAlways == PageSpec => []ExtractsShown
<1>1. ExtractInv => ExtractsShown
  <2> SUFFICES ASSUME ExtractInv, NEW x \in Runs,
                      extract[x].pc = "done", extract[x].alone, extract[x].from # None,
                      NEW p \in Paths(extract[x].from),
                      ~InTheWay(extract[x].before, extract[x].from, p)
               PROVE  p \in DOMAIN local[x] /\ local[x][p] = extract[x].from
    BY DEF ExtractsShown
  <2>1. QED
    BY DEF ExtractInv, CopyInv, CopyOf, IsFrom
<1>2. PageInit => ExtractInv
  BY InitVerify, InitPack, InitExtract DEF ExtractInv
<1>3. QED
  BY <1>1, <1>2, NextExtract, PTL DEF PageSpec
=============================================================================
