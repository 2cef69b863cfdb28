--------------------------- MODULE Generator_proof ---------------------------
(***************************************************************************)
(* Proofs about the archive generator: whatever the sizes of buffer, slots *)
(* and files, and whoever changes the inputs, it is an append-only log,    *)
(* and the archive it writes gives the readers the log.                    *)
(***************************************************************************)
EXTENDS Generator, Ranges, SequenceTheorems, TLAPS

(***************************************************************************)
(* The kinds of cells.                                                     *)
(***************************************************************************)
ByteSet == {Byte(r, p, j) : r \in RootSet, p \in PathSet, j \in Nat}
CharSet == [kind : {"char"}, char : STRING]
EntryCell == [kind : {"entry"}, pathOff : Nat, pathLen : Nat, off : Nat, size : Nat,
              hash : Seq(ByteSet)]
File == [path : Seq(CharSet), size : Nat, data : Seq(ByteSet)]
Slot == [path : Seq(CharSet), off : Nat, size : Nat]

-----------------------------------------------------------------------------
(***************************************************************************)
(* The generator.                                                          *)
(***************************************************************************)
GenFields == {"indexOnly", "data", "index", "paths", "dataOff", "pathOff", "count", "batch",
              "buf", "pos"}

\* The last path of the index is the last in its file.
EndsWithLast(index, paths) ==
    index # <<>> => LET e == index[Len(index)] IN e.pathOff + e.pathLen = Len(paths)

\* The counters are the lengths of the temporary files, as long as every
\* file was written whole.
GenOK(g) ==
    /\ DOMAIN g = GenFields
    /\ g.data \in Seq(ByteSet) /\ g.index \in Seq(EntryCell) /\ g.paths \in Seq(CharSet)
    /\ g.count = Len(g.index) /\ g.pathOff = Len(g.paths) /\ g.dataOff = Len(g.data)
    /\ EndsWithLast(g.index, g.paths)
    /\ g.indexOnly => g.data = <<>>
    /\ g.batch \in Seq(Slot)
    /\ DOMAIN g.buf = 1..BufCap /\ g.pos \in 0..BufCap

\* Entry e of the index leads to file f.
Leads(g, e, f) ==
    /\ e.pathLen = Len(f.path) /\ Sits(g.paths, e.pathOff, f.path)
    /\ e.size = f.size /\ e.hash = f.data
    /\ ~g.indexOnly => Sits(g.data, e.off, f.data)

\* Slot b of the batch keeps file f.
Keeps(g, b, f) ==
    /\ b.path = f.path /\ b.size = f.size
    /\ b.off + b.size <= g.pos
    /\ \A i \in 1..b.size : g.buf[b.off + i] = f.data[i]

IsFile(f) == f \in File /\ f.size = Len(f.data)

\* The temporary files, and the slots that are not written yet, hold the
\* given files.
Kept(g, from, files) ==
    /\ files \in Seq(File) /\ \A k \in 1..Len(files) : IsFile(files[k])
    /\ from \in 1..Len(g.batch) + 1
    /\ Len(files) = Len(g.index) + Len(g.batch) - from + 1
    /\ \A k \in 1..Len(g.index) : Leads(g, g.index[k], files[k])
    /\ \A j \in from..Len(g.batch) : Keeps(g, g.batch[j], files[Len(g.index) + j - from + 1])

LEMMA FileFields ==
    ASSUME NEW f, IsFile(f)
    PROVE  f.path \in Seq(CharSet) /\ f.data \in Seq(ByteSet) /\ f.size = Len(f.data)
           /\ f.size \in Nat /\ Len(f.path) \in Nat
BY DEF IsFile, File

LEMMA KeptFields ==
    ASSUME NEW g, GenOK(g), NEW from, NEW files, Kept(g, from, files)
    PROVE  /\ Len(g.index) \in Nat /\ Len(g.batch) \in Nat /\ Len(files) \in Nat
           /\ from \in Nat /\ 1 <= from /\ from <= Len(g.batch) + 1
           /\ files \in Seq(File) /\ \A k \in 1..Len(files) : IsFile(files[k])
           /\ Len(files) = Len(g.index) + Len(g.batch) - from + 1
           /\ \A k \in 1..Len(g.index) : Leads(g, g.index[k], files[k])
           /\ \A j \in from..Len(g.batch) :
                  Keeps(g, g.batch[j], files[Len(g.index) + j - from + 1])
<1>1. g.index \in Seq(EntryCell) /\ g.batch \in Seq(Slot)
  BY DEF GenOK
<1>2. files \in Seq(File) /\ from \in 1..Len(g.batch) + 1
  BY DEF Kept
<1>3. Len(g.index) \in Nat /\ Len(g.batch) \in Nat /\ Len(files) \in Nat
  BY <1>1, <1>2, LenProperties
<1>4. from \in Nat /\ 1 <= from /\ from <= Len(g.batch) + 1
  BY <1>2, <1>3
<1>5. QED
  BY <1>2, <1>3, <1>4 DEF Kept

\* Writing a file adds one entry that leads to it and moves no other.
LEMMA EmitWrites ==
    ASSUME NEW g, GenOK(g), NEW f, IsFile(f)
    PROVE  LET h == Emit(g, f.path, f.size, f.data)
           IN  /\ GenOK(h) /\ h.batch = g.batch /\ h.buf = g.buf /\ h.pos = g.pos
               /\ h.indexOnly = g.indexOnly
               /\ Len(h.index) = Len(g.index) + 1
               /\ Leads(h, h.index[Len(g.index) + 1], f)
               /\ \A k \in 1..Len(g.index) : h.index[k] = g.index[k]
               /\ \A k \in 1..Len(g.index) : \A x : IsFile(x) /\ Leads(g, g.index[k], x) =>
                      Leads(h, g.index[k], x)
<1> DEFINE h == Emit(g, f.path, f.size, f.data)
           cell == IndexEntry(g.pathOff, Len(f.path), g.dataOff, f.size, f.data)
<1>1. f.path \in Seq(CharSet) /\ f.data \in Seq(ByteSet) /\ f.size = Len(f.data)
      /\ f.size \in Nat /\ Len(f.path) \in Nat
  BY FileFields
<1>2. /\ g.data \in Seq(ByteSet) /\ g.index \in Seq(EntryCell) /\ g.paths \in Seq(CharSet)
      /\ g.count = Len(g.index) /\ g.pathOff = Len(g.paths) /\ g.dataOff = Len(g.data)
      /\ g.indexOnly => g.data = <<>>
      /\ DOMAIN g = GenFields
  BY DEF GenOK
<1>3. Len(g.data) \in Nat /\ Len(g.index) \in Nat /\ Len(g.paths) \in Nat
  BY <1>2
<1>4. /\ DOMAIN h = GenFields
      /\ h.batch = g.batch /\ h.buf = g.buf /\ h.pos = g.pos /\ h.indexOnly = g.indexOnly
      /\ h.index = Append(g.index, cell) /\ h.paths = g.paths \o f.path
      /\ h.pathOff = g.pathOff + Len(f.path) /\ h.count = g.count + 1
      /\ h.data = IF g.indexOnly THEN g.data ELSE g.data \o f.data
      /\ h.dataOff = IF g.indexOnly THEN g.dataOff ELSE g.dataOff + f.size
  BY <1>2, Zenon DEF Emit, GenFields
<1>5. /\ cell \in EntryCell /\ cell.pathOff = g.pathOff /\ cell.pathLen = Len(f.path)
      /\ cell.off = g.dataOff /\ cell.size = f.size /\ cell.hash = f.data
  BY <1>1, <1>2, <1>3 DEF IndexEntry, EntryCell
<1> HIDE DEF h, cell
<1>6. /\ h.index \in Seq(EntryCell) /\ Len(h.index) = Len(g.index) + 1
      /\ h.index[Len(g.index) + 1] = cell
      /\ \A k \in 1..Len(g.index) : h.index[k] = g.index[k]
  BY <1>2, <1>4, <1>5, AppendProperties
<1>7. h.paths \in Seq(CharSet) /\ Len(h.paths) = Len(g.paths) + Len(f.path)
  BY <1>1, <1>2, <1>4, ConcatProperties
<1>8. /\ h.data \in Seq(ByteSet) /\ h.dataOff = Len(h.data)
      /\ h.indexOnly => h.data = <<>>
  <2>1. g.data \o f.data \in Seq(ByteSet) /\ Len(g.data \o f.data) = Len(g.data) + Len(f.data)
    BY <1>1, <1>2, ConcatProperties
  <2>2. QED
    BY <1>1, <1>2, <1>4, <2>1
<1>13. EndsWithLast(h.index, h.paths)
  BY <1>2, <1>5, <1>6, <1>7 DEF EndsWithLast
<1>9. GenOK(h)
  BY <1>2, <1>4, <1>6, <1>7, <1>8, <1>13 DEF GenOK
<1>10. Leads(h, cell, f)
  <2>1. Sits(h.paths, cell.pathOff, f.path)
    BY <1>1, <1>2, <1>4, <1>5, AtEnd
  <2>2. ~h.indexOnly => Sits(h.data, cell.off, f.data)
    BY <1>1, <1>2, <1>4, <1>5, AtEnd
  <2>3. QED
    BY <1>5, <2>1, <2>2 DEF Leads
<1>11. ASSUME NEW k \in 1..Len(g.index), NEW x, IsFile(x), Leads(g, g.index[k], x)
       PROVE  Leads(h, g.index[k], x)
  <2>1. g.index[k] \in EntryCell
    BY <1>2, ElementOfSeq
  <2>2. g.index[k].pathOff \in Nat /\ g.index[k].off \in Nat
    BY <2>1 DEF EntryCell
  <2>3. Len(x.path) \in Nat /\ Len(x.data) \in Nat
    BY <1>11, FileFields
  <2>4. Sits(g.paths, g.index[k].pathOff, x.path)
    BY <1>11 DEF Leads
  <2>5. Sits(h.paths, g.index[k].pathOff, x.path)
    BY <1>1, <1>2, <1>4, <2>2, <2>3, <2>4, AtStays
  <2>6. ~h.indexOnly => Sits(h.data, g.index[k].off, x.data)
    <3>1. SUFFICES ASSUME ~g.indexOnly PROVE Sits(h.data, g.index[k].off, x.data)
      BY <1>4
    <3>2. Sits(g.data, g.index[k].off, x.data)
      BY <1>11, <3>1 DEF Leads
    <3>3. QED
      BY <1>1, <1>2, <1>4, <2>2, <2>3, <3>1, <3>2, AtStays
  <2>7. QED
    BY <1>11, <2>5, <2>6 DEF Leads
<1>12. QED
  BY <1>4, <1>6, <1>9, <1>10, <1>11 DEF h

\* A flush moves one file from its slot to the temporary files.
LEMMA FlushKeeps ==
    ASSUME NEW g, GenOK(g), NEW from, NEW files, Kept(g, from, files), from <= Len(g.batch)
    PROVE  LET b == g.batch[from]
               h == Emit(g, b.path, b.size, SlotBytes(g, b))
           IN  GenOK(h) /\ h.batch = g.batch /\ h.pos = g.pos /\ Kept(h, from + 1, files)
<1> DEFINE n == Len(g.index)
           m == Len(g.batch)
           q == Len(files)
           b == g.batch[from]
           f == files[n + 1]
           h == Emit(g, f.path, f.size, f.data)
<1>1. /\ n \in Nat /\ m \in Nat /\ q \in Nat /\ from \in Nat /\ 1 <= from /\ from <= m
      /\ q = n + m - from + 1
  BY KeptFields
<1>2. /\ files \in Seq(File) /\ \A k \in 1..q : IsFile(files[k])
      /\ \A k \in 1..n : Leads(g, g.index[k], files[k])
      /\ \A j \in from..m : Keeps(g, g.batch[j], files[n + j - from + 1])
  BY KeptFields
<1>3. m = Len(g.batch) /\ n = Len(g.index) /\ q = Len(files)
  OBVIOUS
<1>4. b \in Slot
  <2>1. g.batch \in Seq(Slot) /\ from \in 1..Len(g.batch)
    BY <1>1 DEF GenOK
  <2>2. QED
    BY <2>1, ElementOfSeq
<1> HIDE DEF n, m, q
<1>5. n + 1 \in 1..q /\ from \in from..m /\ n + from - from + 1 = n + 1
  BY <1>1
<1>6. IsFile(f) /\ Keeps(g, b, f)
  <2>1. Keeps(g, g.batch[from], files[n + from - from + 1])
    BY <1>2, <1>5
  <2>2. QED
    BY <1>2, <1>5, <2>1
<1>7. b.path = f.path /\ b.size = f.size /\ SlotBytes(g, b) = f.data
  <2> HIDE DEF b, f
  <2>1. b.off \in Nat
    BY <1>4 DEF Slot
  <2>2. b.size = Len(f.data) /\ f.data \in Seq(ByteSet) /\ b.size = f.size /\ b.path = f.path
    BY <1>6, FileFields DEF Keeps
  <2>3. \A i \in 1..Len(f.data) : g.buf[b.off + i] = f.data[i]
    BY <1>6, <2>2 DEF Keeps
  <2> DEFINE F == g.buf
             o == b.off
             d == f.data
  <2>4. d \in Seq(ByteSet) /\ o \in Nat /\ \A i \in 1..Len(d) : F[o + i] = d[i]
    BY <2>1, <2>2, <2>3
  <2> HIDE DEF F, o, d
  <2>5. SubSeq(F, o + 1, o + Len(d)) = d
    BY <2>4, AtIsRead
  <2>6. QED
    BY <2>2, <2>5 DEF SlotBytes, F, o, d
<1> HIDE DEF b, f, h
<1>8. /\ GenOK(h) /\ h.batch = g.batch /\ h.buf = g.buf /\ h.pos = g.pos
      /\ h.indexOnly = g.indexOnly
      /\ Len(h.index) = n + 1
      /\ Leads(h, h.index[n + 1], f)
      /\ \A k \in 1..n : h.index[k] = g.index[k]
      /\ \A k \in 1..n : \A x : IsFile(x) /\ Leads(g, g.index[k], x) => Leads(h, g.index[k], x)
  BY <1>6, EmitWrites DEF h, n
<1>9. ASSUME NEW k \in 1..n + 1 PROVE Leads(h, h.index[k], files[k])
  <2>1. CASE k = n + 1
    BY <1>8, <2>1 DEF f
  <2>2. CASE k # n + 1
    <3>1. k \in 1..n /\ k \in 1..q
      BY <1>1, <1>5, <2>2
    <3>2. IsFile(files[k]) /\ Leads(g, g.index[k], files[k])
      BY <1>2, <3>1
    <3>3. QED
      BY <1>8, <3>1, <3>2
  <2>3. QED
    BY <2>1, <2>2
<1>10. ASSUME NEW j \in (from + 1)..m
       PROVE  Keeps(h, h.batch[j], files[(n + 1) + j - (from + 1) + 1])
  <2>1. j \in from..m /\ (n + 1) + j - (from + 1) + 1 = n + j - from + 1
    BY <1>1
  <2>2. Keeps(g, g.batch[j], files[n + j - from + 1])
    BY <1>2, <2>1
  <2>3. QED
    BY <1>8, <2>1, <2>2 DEF Keeps
<1>11. from + 1 \in 1..m + 1 /\ q = (n + 1) + m - (from + 1) + 1
  BY <1>1
<1>12. Len(h.batch) = m
  BY <1>3, <1>8
<1>13. Kept(h, from + 1, files)
  BY <1>2, <1>3, <1>8, <1>9, <1>10, <1>11, <1>12, Zenon DEF Kept
<1>14. QED
  BY <1>7, <1>8, <1>13 DEF b, h

\* An emptied batch holds nothing; nothing was to be written from it.
LEMMA EmptyKeeps ==
    ASSUME NEW g, GenOK(g), NEW from, NEW files, Kept(g, from, files), from > Len(g.batch)
    PROVE  /\ GenOK(Emptied(g)) /\ Kept(Emptied(g), 1, files)
           /\ Emptied(g).batch = <<>> /\ Emptied(g).pos = 0
<1> DEFINE h == Emptied(g)
           n == Len(g.index)
           m == Len(g.batch)
           q == Len(files)
<1>1. DOMAIN g = GenFields
  BY DEF GenOK
<1>2. /\ DOMAIN h = GenFields /\ h.batch = <<>> /\ h.pos = 0 /\ h.indexOnly = g.indexOnly
      /\ h.index = g.index /\ h.paths = g.paths /\ h.data = g.data /\ h.buf = g.buf
      /\ h.pathOff = g.pathOff /\ h.count = g.count /\ h.dataOff = g.dataOff
  BY <1>1, Zenon DEF Emptied, GenFields
<1> HIDE DEF h
<1>3. <<>> \in Seq(Slot) /\ 0 \in 0..BufCap
  BY BatchAssumption
<1>4. GenOK(h)
  BY <1>2, <1>3 DEF GenOK
<1>5. /\ n \in Nat /\ m \in Nat /\ q \in Nat /\ from \in Nat /\ from <= m + 1 /\ from > m
      /\ q = n + m - from + 1
  BY KeptFields
<1>6. /\ files \in Seq(File) /\ \A k \in 1..q : IsFile(files[k])
      /\ \A k \in 1..n : Leads(g, g.index[k], files[k])
  BY KeptFields
<1>7. n = Len(g.index) /\ q = Len(files)
  OBVIOUS
<1> HIDE DEF n, m, q
<1>8. q = n + 0 - 1 + 1 /\ 1 \in 1..0 + 1 /\ \A j \in 1..0 : FALSE
  BY <1>5
<1>9. Len(h.batch) = 0 /\ Len(h.index) = n
  BY <1>2, <1>7
<1>10. \A k \in 1..n : Leads(h, h.index[k], files[k])
  BY <1>2, <1>6 DEF Leads
<1>11. Kept(h, 1, files)
  BY <1>6, <1>7, <1>8, <1>9, <1>10, Zenon DEF Kept
<1>12. QED
  BY <1>2, <1>4, <1>11 DEF h

\* A list of files with one more.
LEMMA OneMore ==
    ASSUME NEW files \in Seq(File), \A k \in 1..Len(files) : IsFile(files[k]), NEW f, IsFile(f)
    PROVE  LET more == Append(files, f)
           IN  /\ more \in Seq(File) /\ \A k \in 1..Len(more) : IsFile(more[k])
               /\ Len(more) = Len(files) + 1 /\ more[Len(files) + 1] = f
               /\ \A k \in 1..Len(files) : more[k] = files[k]
<1>1. f \in File /\ Len(files) \in Nat
  BY DEF IsFile
<1> DEFINE more == Append(files, f)
<1>2. /\ more \in Seq(File) /\ Len(more) = Len(files) + 1 /\ more[Len(files) + 1] = f
      /\ \A k \in 1..Len(files) : more[k] = files[k]
  BY <1>1, AppendProperties
<1> HIDE DEF more
<1>3. ASSUME NEW k \in 1..Len(more) PROVE IsFile(more[k])
  <2>1. CASE k = Len(files) + 1
    BY <1>2, <2>1
  <2>2. CASE k # Len(files) + 1
    BY <1>1, <1>2, <2>2
  <2>3. QED
    BY <2>1, <2>2
<1>4. QED
  BY <1>2, <1>3 DEF more

\* With an empty batch a file goes to the temporary files at once.
LEMMA EmitKeeps ==
    ASSUME NEW g, GenOK(g), NEW files, Kept(g, 1, files), g.batch = <<>>, NEW f, IsFile(f)
    PROVE  LET h == Emit(g, f.path, f.size, f.data)
           IN  GenOK(h) /\ h.batch = <<>> /\ h.pos = g.pos /\ Kept(h, 1, Append(files, f))
<1> DEFINE h == Emit(g, f.path, f.size, f.data)
           more == Append(files, f)
           n == Len(g.index)
           m == Len(g.batch)
           q == Len(files)
<1>1. /\ GenOK(h) /\ h.batch = g.batch /\ h.pos = g.pos /\ Len(h.index) = n + 1
      /\ Leads(h, h.index[n + 1], f)
      /\ \A k \in 1..n : h.index[k] = g.index[k]
      /\ \A k \in 1..n : \A x : IsFile(x) /\ Leads(g, g.index[k], x) => Leads(h, g.index[k], x)
  BY EmitWrites
<1>2. /\ n \in Nat /\ m = 0 /\ q \in Nat /\ q = n + m - 1 + 1
      /\ files \in Seq(File)
      /\ \A k \in 1..q : IsFile(files[k])
      /\ \A k \in 1..n : Leads(g, g.index[k], files[k])
  BY KeptFields
<1>3. /\ more \in Seq(File) /\ \A k \in 1..Len(more) : IsFile(more[k])
      /\ Len(more) = q + 1 /\ more[q + 1] = f
      /\ \A k \in 1..q : more[k] = files[k]
  BY <1>2, OneMore
<1> HIDE DEF h, more, n, m, q
<1>4. q = n
  BY <1>2
<1>5. ASSUME NEW k \in 1..n + 1 PROVE Leads(h, h.index[k], more[k])
  <2>1. CASE k = n + 1
    BY <1>1, <1>3, <1>4, <2>1
  <2>2. CASE k # n + 1
    <3>1. k \in 1..n
      BY <1>2, <2>2
    <3>2. IsFile(files[k]) /\ Leads(g, g.index[k], files[k])
      BY <1>2, <1>4, <3>1
    <3>3. QED
      BY <1>1, <1>3, <1>4, <3>1, <3>2
  <2>3. QED
    BY <2>1, <2>2
<1>6. /\ Len(h.batch) = 0 /\ q + 1 = (n + 1) + 0 - 1 + 1
      /\ 1 \in 1..0 + 1 /\ \A j \in 1..0 : FALSE
  BY <1>1, <1>2, <1>4
<1>7. Kept(h, 1, more)
  BY <1>1, <1>3, <1>5, <1>6, Zenon DEF Kept
<1>8. QED
  BY <1>1, <1>7 DEF h, more

\* A batch with room takes a file behind the ones it has.
LEMMA BatchKeeps ==
    ASSUME NEW g, GenOK(g), NEW files, Kept(g, 1, files), NEW f, IsFile(f), g.pos + f.size <= BufCap
    PROVE  LET h == Batched(g, f.path, f.data)
           IN  GenOK(h) /\ Kept(h, 1, Append(files, f))
<1> DEFINE h == Batched(g, f.path, f.data)
           more == Append(files, f)
           b == [path |-> f.path, off |-> g.pos, size |-> Len(f.data)]
           n == Len(g.index)
           m == Len(g.batch)
           q == Len(files)
           z == Len(f.data)
<1>1. f.path \in Seq(CharSet) /\ f.data \in Seq(ByteSet) /\ f.size = z /\ f.size \in Nat
  BY FileFields
<1>2. /\ DOMAIN g = GenFields /\ g.batch \in Seq(Slot) /\ g.pos \in Nat /\ g.pos <= BufCap
      /\ BufCap \in Nat /\ g.index \in Seq(EntryCell)
  BY BatchAssumption DEF GenOK
<1>3. /\ DOMAIN h = GenFields /\ h.batch = Append(g.batch, b) /\ h.pos = g.pos + z
      /\ h.indexOnly = g.indexOnly
      /\ h.index = g.index /\ h.paths = g.paths /\ h.data = g.data
      /\ h.pathOff = g.pathOff /\ h.count = g.count /\ h.dataOff = g.dataOff
      /\ h.buf = [j \in 1..BufCap |->
                     IF j - g.pos \in 1..z THEN f.data[j - g.pos] ELSE g.buf[j]]
  BY <1>2, Zenon DEF Batched, GenFields
<1>4. b \in Slot /\ b.path = f.path /\ b.off = g.pos /\ b.size = f.size
  BY <1>1, <1>2 DEF Slot
<1> HIDE DEF b
<1>5. /\ h.batch \in Seq(Slot) /\ Len(h.batch) = m + 1 /\ h.batch[m + 1] = b
      /\ \A j \in 1..m : h.batch[j] = g.batch[j] /\ g.batch[j] \in Slot
  <2>1. \A j \in 1..m : g.batch[j] \in Slot
    BY <1>2, ElementOfSeq
  <2>2. QED
    BY <1>2, <1>3, <1>4, <2>1, AppendProperties
<1>6. /\ n \in Nat /\ m \in Nat /\ q \in Nat /\ q = n + m - 1 + 1
      /\ files \in Seq(File)
      /\ \A k \in 1..q : IsFile(files[k])
  BY KeptFields
<1>7. \A k \in 1..n : Leads(g, g.index[k], files[k])
  BY KeptFields
<1>8. \A j \in 1..m : Keeps(g, g.batch[j], files[n + j - 1 + 1])
  BY KeptFields
<1>9. /\ more \in Seq(File) /\ \A k \in 1..Len(more) : IsFile(more[k])
      /\ Len(more) = q + 1 /\ more[q + 1] = f
      /\ \A k \in 1..q : more[k] = files[k]
  BY <1>6, OneMore, ZenonT(30)
<1>10. Len(h.index) = n
  BY <1>3
<1> HIDE DEF n, m, q, z, more
<1>11. DOMAIN h.buf = 1..BufCap /\ h.pos \in 0..BufCap
  BY <1>1, <1>2, <1>3
<1>12. /\ \A i \in 1..z : h.buf[g.pos + i] = f.data[i]
       /\ \A i \in 1..g.pos : h.buf[i] = g.buf[i]
  <2> HIDE DEF h
  <2>0. z \in Nat /\ g.pos + z <= BufCap
    BY <1>1
  <2>1. ASSUME NEW i \in 1..z PROVE h.buf[g.pos + i] = f.data[i]
    <3>1. g.pos + i \in 1..BufCap /\ g.pos + i - g.pos = i
      BY <1>2, <2>0
    <3>2. g.pos + i - g.pos \in 1..z
      BY <3>1
    <3> DEFINE j == g.pos + i
    <3>3. h.buf[j] = IF j - g.pos \in 1..z THEN f.data[j - g.pos] ELSE g.buf[j]
      <4>1. j \in 1..BufCap
        BY <3>1
      <4> HIDE DEF j
      <4>2. QED
        BY <1>3, <4>1
    <3>4. j - g.pos = i
      BY <1>2, <3>1
    <3> HIDE DEF j
    <3>5. h.buf[j] = f.data[i]
      BY <3>3, <3>4
    <3>6. QED
      BY <3>5 DEF j
  <2>2. ASSUME NEW i \in 1..g.pos PROVE h.buf[i] = g.buf[i]
    <3>1. i \in 1..BufCap /\ i - g.pos \notin 1..z
      BY <1>2, <2>0
    <3>2. QED
      BY <1>3, <3>1, Zenon
  <2>3. QED
    BY <2>1, <2>2
<1> HIDE DEF h
<1>13. GenOK(h)
  BY <1>3, <1>5, <1>11 DEF GenOK
<1>14. \A k \in 1..n : Leads(h, h.index[k], more[k])
  <2>1. ASSUME NEW k \in 1..n PROVE Leads(h, h.index[k], more[k])
    <3>1. k \in 1..q
      BY <1>6
    <3>2. Leads(g, g.index[k], files[k]) /\ more[k] = files[k]
      BY <1>7, <1>9, <3>1
    <3>3. QED
      BY <1>3, <3>2 DEF Leads
  <2>2. QED
    BY <2>1
<1>15. ASSUME NEW j \in 1..m + 1
       PROVE  Keeps(h, h.batch[j], more[n + j - 1 + 1])
  <2>1. CASE j = m + 1
    <3>1. n + j - 1 + 1 = q + 1
      BY <1>6, <2>1
    <3>2. h.batch[j] = b /\ more[n + j - 1 + 1] = f
      BY <1>5, <1>9, <2>1, <3>1
    <3>3. b.off + b.size <= h.pos
      BY <1>1, <1>2, <1>3, <1>4
    <3>4. Keeps(h, b, f)
      BY <1>1, <1>4, <1>12, <3>3 DEF Keeps
    <3>5. QED
      BY <3>2, <3>4
  <2>2. CASE j # m + 1
    <3> DEFINE c == g.batch[j]
               x == files[n + j - 1 + 1]
    <3>1. j \in 1..m /\ n + j - 1 + 1 \in 1..q
      BY <1>6, <2>2
    <3>2. Keeps(g, c, x) /\ c \in Slot /\ h.batch[j] = c
      BY <1>5, <1>8, <3>1
    <3>3. more[n + j - 1 + 1] = x
      BY <1>9, <3>1
    <3> HIDE DEF c, x
    <3>4. c.off \in Nat /\ c.size \in Nat
      BY <3>2 DEF Slot
    <3>5. c.path = x.path /\ c.size = x.size /\ c.off + c.size <= g.pos
          /\ \A i \in 1..c.size : g.buf[c.off + i] = x.data[i]
      BY <3>2 DEF Keeps
    <3>6. c.off + c.size <= h.pos
      BY <1>1, <1>2, <1>3, <3>4, <3>5
    <3>7. ASSUME NEW i \in 1..c.size PROVE h.buf[c.off + i] = x.data[i]
      <4>1. c.off + i \in 1..g.pos
        BY <1>2, <3>4, <3>5
      <4>2. QED
        BY <1>12, <3>5, <4>1
    <3>8. Keeps(h, c, x)
      BY <3>5, <3>6, <3>7 DEF Keeps
    <3>9. QED
      BY <3>2, <3>3, <3>8
  <2>3. QED
    BY <2>1, <2>2
<1>16. 1 \in 1..(m + 1) + 1 /\ q + 1 = n + (m + 1) - 1 + 1
  BY <1>6
<1>17. Kept(h, 1, more)
  BY <1>5, <1>9, <1>10, <1>14, <1>15, <1>16, Zenon DEF Kept
<1>18. QED
  BY <1>13, <1>17 DEF h, more

-----------------------------------------------------------------------------
(***************************************************************************)
(* The log that the generator keeps.                                       *)
(***************************************************************************)
\* An entry of the temporary files is read as the file it leads to.
LEMMA StoredIs ==
    ASSUME GenOK(gen), NEW e \in EntryCell, NEW f, IsFile(f), Leads(gen, e, f)
    PROVE  Stored(e) = f
<1> DEFINE P == gen.paths
           D == gen.data
           p == f.path
           d == f.data
           a == e.pathOff
           o == e.off
<1>1. /\ p \in Seq(CharSet) /\ d \in Seq(ByteSet) /\ f.size = Len(d)
      /\ f = [path |-> p, size |-> f.size, data |-> d]
  BY FileFields DEF IsFile, File
<1>2. /\ a \in Nat /\ o \in Nat /\ e.pathLen = Len(p) /\ e.size = f.size /\ e.hash = d
      /\ Sits(P, a, p)
      /\ ~gen.indexOnly => Sits(D, o, d)
  BY DEF Leads, EntryCell
<1>3. Stored(e) = [path |-> SubSeq(P, a + 1, a + Len(p)), size |-> f.size,
                   data |-> IF gen.indexOnly THEN d ELSE SubSeq(D, o + 1, o + Len(d))]
  BY <1>1, <1>2 DEF Stored
<1> HIDE DEF P, D, p, d, a, o
<1>4. SubSeq(P, a + 1, a + Len(p)) = p
  <2>1. \A i \in 1..Len(p) : P[a + i] = p[i]
    BY <1>2 DEF Sits
  <2>2. p \in Seq(CharSet) /\ a \in Nat
    BY <1>1, <1>2
  <2>3. QED
    BY <2>1, <2>2, AtIsRead
<1>5. ~gen.indexOnly => SubSeq(D, o + 1, o + Len(d)) = d
  <2>1. SUFFICES ASSUME ~gen.indexOnly PROVE SubSeq(D, o + 1, o + Len(d)) = d
    OBVIOUS
  <2>2. \A i \in 1..Len(d) : D[o + i] = d[i]
    BY <1>2, <2>1 DEF Sits
  <2>3. QED
    BY <1>1, <1>2, <2>2, AtIsRead, SMTT(20)
<1>6. QED
  BY <1>1, <1>3, <1>4, <1>5, Zenon

\* A slot of the batch is read as the file it keeps.
LEMMA WaitingIs ==
    ASSUME NEW b \in Slot, NEW f, IsFile(f), Keeps(gen, b, f)
    PROVE  Waiting(b) = f
<1> DEFINE B == gen.buf
           d == f.data
           o == b.off
<1>1. /\ d \in Seq(ByteSet) /\ f.size = Len(d)
      /\ f = [path |-> f.path, size |-> f.size, data |-> d]
  BY FileFields DEF IsFile, File
<1>2. /\ o \in Nat /\ b.path = f.path /\ b.size = f.size
      /\ \A i \in 1..Len(d) : B[o + i] = d[i]
  BY <1>1 DEF Keeps, Slot
<1>3. Waiting(b) = [path |-> f.path, size |-> f.size, data |-> SubSeq(B, o + 1, o + Len(d))]
  BY <1>1, <1>2 DEF Waiting, SlotBytes
<1> HIDE DEF B, d, o
<1>4. SubSeq(B, o + 1, o + Len(d)) = d
  BY <1>1, <1>2, AtIsRead
<1>5. QED
  BY <1>1, <1>3, <1>4, Zenon

\* Temporary files and waiting slots, read one after the other, are the
\* files they hold.
LEMMA LogIs ==
    ASSUME GenOK(gen), NEW files, Kept(gen, slot, files)
    PROVE  Log = files
<1> DEFINE n == Len(gen.index)
           m == Len(gen.batch)
           q == Len(files)
           s == slot
           A == [k \in 1..n |-> Stored(gen.index[k])]
           B == [k \in 1..m - s + 1 |-> Waiting(gen.batch[s + k - 1])]
<1>1. /\ n \in Nat /\ m \in Nat /\ q \in Nat /\ s \in Nat /\ 1 <= s /\ s <= m + 1
      /\ q = n + m - s + 1
  BY KeptFields
<1>2. /\ files \in Seq(File) /\ \A k \in 1..q : IsFile(files[k])
      /\ \A k \in 1..n : Leads(gen, gen.index[k], files[k])
      /\ \A j \in s..m : Keeps(gen, gen.batch[j], files[n + j - s + 1])
  BY KeptFields
<1>3. /\ \A k \in 1..n : gen.index[k] \in EntryCell
      /\ \A j \in 1..m : gen.batch[j] \in Slot
  BY ElementOfSeq DEF GenOK
<1>4. Log = A \o B
  BY DEF Log
<1>5. \A k \in 1..q : files[k] \in File
  BY <1>2, ElementOfSeq
<1> HIDE DEF n, m, q
<1> DEFINE w == m - s + 1
<1>6. w \in Nat /\ q = n + w
  BY <1>1
<1>7. ASSUME NEW k \in 1..n PROVE A[k] = files[k] /\ A[k] \in File
  <2>1. k \in 1..q
    BY <1>1
  <2>2. Stored(gen.index[k]) = files[k]
    BY <1>2, <1>3, <2>1, StoredIs
  <2>3. QED
    BY <1>5, <2>1, <2>2
<1>8. ASSUME NEW k \in 1..w PROVE B[k] = files[n + k] /\ B[k] \in File
  <2>1. n + k \in 1..q /\ s + k - 1 \in s..m /\ s + k - 1 \in 1..m
        /\ n + (s + k - 1) - s + 1 = n + k
    BY <1>1
  <2>2. Keeps(gen, gen.batch[s + k - 1], files[n + k])
    BY <1>2, <2>1
  <2>3. Waiting(gen.batch[s + k - 1]) = files[n + k]
    BY <1>2, <1>3, <2>1, <2>2, WaitingIs
  <2>4. B[k] = Waiting(gen.batch[s + k - 1])
    OBVIOUS
  <2>5. QED
    BY <1>5, <2>1, <2>3, <2>4
<1>9. A \in [1..n -> File] /\ B \in [1..w -> File]
  BY <1>7, <1>8
<1>10. DOMAIN A = 1..n /\ DOMAIN B = 1..w
  BY <1>9
<1> HIDE DEF A, B, w
<1>11. A \in Seq(File) /\ B \in Seq(File) /\ Len(A) = n /\ Len(B) = w
  BY <1>1, <1>6, <1>9
<1> DEFINE C == A \o B
<1>12. /\ C \in Seq(File) /\ Len(C) = n + w
       /\ \A i \in 1..n + w : C[i] = IF i <= n THEN A[i] ELSE B[i - n]
  BY <1>11, ConcatProperties
<1> HIDE DEF C
<1>13. ASSUME NEW i \in 1..n + w PROVE C[i] = files[i]
  <2>1. CASE i <= n
    BY <1>1, <1>7, <1>12, <2>1
  <2>2. CASE ~(i <= n)
    <3>1. i - n \in 1..w /\ n + (i - n) = i
      BY <1>1, <1>6, <2>2
    <3>2. B[i - n] = files[n + (i - n)]
      BY <1>8, <3>1
    <3>3. QED
      BY <1>12, <2>2, <3>1, <3>2
  <2>3. QED
    BY <2>1, <2>2
<1>14. Len(C) = Len(files) /\ \A i \in 1..Len(C) : C[i] = files[i]
  BY <1>6, <1>12, <1>13 DEF q
<1>15. C = files
  BY <1>2, <1>12, <1>14, SeqEqual
<1>16. QED
  BY <1>4, <1>15 DEF C, A, B, w, n, m

-----------------------------------------------------------------------------
(***************************************************************************)
(* The invariant: whatever happens to the inputs, the generator keeps      *)
(* exactly the files that were handed to it, but for the one that waits    *)
(* for a flush.                                                            *)
(***************************************************************************)
EntrySet == [root : RootSet, path : PathSet, size : Nat]

Last(s) == s[Len(s)]
Handed == SubSeq(accepted, 1, Len(accepted) - IF Pending THEN 1 ELSE 0)
Streaming == pc = "stream" \/ (pc = "flush" /\ then = "stream")

Inputs ==
    /\ disk \in [RootSet -> [PathSet -> Nat \union {Missing}]]
    /\ entries \in Seq(EntrySet)
    /\ next \in Nat \ {0}
    /\ Streaming => next <= Len(entries) /\ OnDisk # Missing

Control ==
    /\ pc \in {"collect", "next", "flush", "add", "stream", "finish", "done"}
    /\ pc # "flush" => slot = 1
    /\ pc = "flush" => then \in {"add", "stream", "finish"}
    /\ spoiled \in BOOLEAN
    /\ pc = "done" => result \in {"ok", "error"}
    /\ accepted \in Seq(File)
    /\ Pending => accepted # <<>> /\ IsFile(Last(accepted))

Holds ==
    /\ GenOK(gen)
    /\ Kept(gen, slot, Handed)
    /\ pc \in {"stream", "finish", "done"} => gen.batch = <<>>
    /\ pc = "add" =>
           \/ gen.pos + Last(accepted).size <= BufCap
           \/ gen.batch = <<>> /\ gen.pos = 0
    /\ pc = "done" => out = Archive(gen)

Inv == Inputs /\ Control /\ (~spoiled => Holds)

\* The first input directory is one.
LEMMA FirstRoot == Roots[1] \in RootSet
<1>1. Len(Roots) \in Nat /\ Len(Roots) > 0
  BY RootAssumption, LenProperties
<1>2. 1 \in 1..Len(Roots)
  BY <1>1
<1>3. QED
  BY <1>2 DEF RootSet

LEMMA PathsAreChars == \A p \in PathSet : p \in Seq(CharSet)
<1>1. SUFFICES ASSUME NEW k \in 1..Len(Paths) PROVE Paths[k] \in Seq(CharSet)
  BY DEF PathSet
<1>2. Paths \in Seq(Seq(CharSet))
  BY RootAssumption DEF CharSet
<1>3. QED
  BY <1>2, ElementOfSeq

\* Every candidate is a path below a root.
LEMMA CandidateOK ==
    Candidates \in Nat /\ \A k \in 1..Candidates : RootOf(k) \in RootSet /\ PathOf(k) \in PathSet
<1> DEFINE n == Len(Paths)
           r == Len(Roots)
<1>1. n \in Nat /\ r \in Nat
  BY RootAssumption, LenProperties
<1>2. Candidates = r * n
  BY DEF Candidates
<1>3. \A i \in 1..r : Roots[i] \in RootSet
  BY DEF RootSet
<1>4. \A i \in 1..n : Paths[i] \in PathSet
  BY DEF PathSet
<1>5. \A k : RootOf(k) = Roots[((k - 1) \div n) + 1] /\ PathOf(k) = Paths[((k - 1) % n) + 1]
  BY DEF RootOf, PathOf
<1> HIDE DEF n, r
<1>6. r * n \in Nat
  BY <1>1
<1>7. ASSUME NEW k \in 1..r * n
      PROVE  ((k - 1) \div n) + 1 \in 1..r /\ ((k - 1) % n) + 1 \in 1..n
  <2>1. n # 0
    <3>1. SUFFICES ASSUME n = 0 PROVE FALSE
      OBVIOUS
    <3>2. r * n = 0
      BY <1>1, <3>1
    <3>3. QED
      BY <3>2
  <2>2. n \in Nat \ {0} /\ k - 1 \in Nat /\ k - 1 < r * n
    BY <1>1, <1>6, <2>1
  <2> DEFINE a == k - 1
             d == a \div n
  <2>3. a \in Nat /\ ~(r * n <= a)
    BY <1>6, <2>2
  <2> HIDE DEF a
  <2>4. d \in Nat
    BY <2>2, <2>3, DivBounds
  <2>5. ~(r <= d)
    BY <1>1, <2>2, <2>3, DivAtLeast
  <2>6. a % n \in 0..n - 1
    BY <2>2, <2>3
  <2> HIDE DEF d
  <2>7. d + 1 \in 1..r /\ (a % n) + 1 \in 1..n
    BY <1>1, <2>2, <2>4, <2>5, <2>6
  <2>8. QED
    BY <2>7 DEF a, d
<1>8. QED
  BY <1>2, <1>3, <1>4, <1>5, <1>6, <1>7

\* What is collected is a list of files that are there.
FoundSet == {e \in EntrySet : disk[e.root][e.path] # Missing
                               /\ e.size = disk[e.root][e.path] % Word32}
Found(k, before) ==
    IF disk[RootOf(k)][PathOf(k)] = Missing THEN before
    ELSE Append(before, [root |-> RootOf(k), path |-> PathOf(k),
                         size |-> disk[RootOf(k)][PathOf(k)] % Word32])
CollectedUpTo(f, m) == f = [k \in 0..m |-> IF k = 0 THEN <<>> ELSE Found(k, f[k - 1])]

LEMMA CollectedExists == \A m \in Nat : \E f : CollectedUpTo(f, m)
<1> DEFINE S == {m \in Nat : \E f : CollectedUpTo(f, m)}
<1>1. 0 \in S
  <2> DEFINE g == [j \in 0..0 |-> <<>>]
  <2>1. CollectedUpTo(g, 0)
    BY DEF CollectedUpTo
  <2>2. QED
    BY <2>1
<1>2. ASSUME NEW m \in Nat, m \in S PROVE m + 1 \in S
  <2>1. PICK f : CollectedUpTo(f, m)
    BY <1>2
  <2> DEFINE g == [j \in 0..m + 1 |-> IF j = m + 1 THEN Found(j, f[m]) ELSE f[j]]
  <2>2. ASSUME NEW j \in 0..m + 1 PROVE g[j] = IF j = 0 THEN <<>> ELSE Found(j, g[j - 1])
    <3>1. CASE j = m + 1
      BY <3>1
    <3>2. CASE j # m + 1
      <4>1. j \in 0..m /\ g[j] = f[j] /\ (j # 0 => g[j - 1] = f[j - 1])
        BY <3>2
      <4>2. f[j] = IF j = 0 THEN <<>> ELSE Found(j, f[j - 1])
        BY <2>1, <4>1 DEF CollectedUpTo
      <4> HIDE DEF g
      <4>3. QED
        BY <4>1, <4>2
    <3>3. QED
      BY <3>1, <3>2
  <2>3. g = [j \in 0..m + 1 |-> g[j]]
    OBVIOUS
  <2> HIDE DEF g
  <2>4. CollectedUpTo(g, m + 1)
    BY <2>2, <2>3 DEF CollectedUpTo
  <2>5. QED
    BY <2>4
<1> HIDE DEF S
<1>3. \A m \in Nat : m \in S
  BY <1>1, <1>2, NatInductionOn
<1>4. QED
  BY <1>3 DEF S

LEMMA CollectedFits ==
    ASSUME disk \in [RootSet -> [PathSet -> Nat \union {Missing}]]
    PROVE  Collected \in Seq(FoundSet)
<1> DEFINE f == CHOOSE f : CollectedUpTo(f, Candidates)
           C == Candidates
<1>1. CollectedUpTo(f, C)
  <2>1. \E g : CollectedUpTo(g, C)
    BY CandidateOK, CollectedExists
  <2>2. QED
    BY <2>1, Zenon
<1>2. Collected = f[C]
  BY Zenon DEF Collected, CollectedUpTo, Found
<1>3. C \in Nat /\ \A k \in 1..C : RootOf(k) \in RootSet /\ PathOf(k) \in PathSet
  BY CandidateOK
<1> HIDE DEF f, C
<1> DEFINE S == {m \in Nat : m <= C => f[m] \in Seq(FoundSet)}
<1>4. 0 \in S
  <2>1. f[0] = <<>>
    BY <1>1, <1>3 DEF CollectedUpTo
  <2>2. QED
    BY <2>1, EmptySeq
<1>5. ASSUME NEW m \in Nat, m \in S PROVE m + 1 \in S
  <2>1. SUFFICES ASSUME m + 1 <= C PROVE f[m + 1] \in Seq(FoundSet)
    OBVIOUS
  <2> DEFINE k == m + 1
             r == RootOf(k)
             p == PathOf(k)
             z == disk[r][p]
  <2>2. k \in 1..C /\ k \in 0..C /\ k # 0 /\ k - 1 = m
    BY <1>3, <2>1
  <2>3. f[m] \in Seq(FoundSet)
    BY <1>3, <1>5, <2>1
  <2>4. r \in RootSet /\ p \in PathSet
    BY <1>3, <2>2
  <2>5. f[k] = Found(k, f[m])
    <3> HIDE DEF k
    <3>1. QED
      BY <1>1, <2>2 DEF CollectedUpTo
  <2>6. Found(k, f[m]) = IF z = Missing THEN f[m]
                         ELSE Append(f[m], [root |-> r, path |-> p, size |-> z % Word32])
    BY DEF Found
  <2>7. z \in Nat \union {Missing} /\ z = disk[r][p]
    BY <2>4
  <2> HIDE DEF r, p, z, k
  <2>8. z # Missing => z % Word32 \in Nat
    BY <2>7, BatchAssumption
  <2>9. z # Missing => [root |-> r, path |-> p, size |-> z % Word32] \in FoundSet
    BY <2>4, <2>7, <2>8 DEF EntrySet, FoundSet
  <2>10. Found(k, f[m]) \in Seq(FoundSet)
    BY <2>3, <2>6, <2>9, AppendProperties
  <2>11. QED
    BY <2>5, <2>10 DEF k
<1> HIDE DEF S
<1>6. \A m \in Nat : m \in S
  BY <1>4, <1>5, NatInductionOn
<1>7. C \in S
  BY <1>3, <1>6
<1>8. QED
  BY <1>2, <1>3, <1>7 DEF S

LEMMA CollectedGood ==
    ASSUME disk \in [RootSet -> [PathSet -> Nat \union {Missing}]]
    PROVE  Collected \in Seq(EntrySet)
<1>1. FoundSet \subseteq EntrySet
  BY DEF FoundSet
<1>2. QED
  BY <1>1, CollectedFits, SeqMonotonic

\* The last file of a list.
LEMMA LastOf ==
    ASSUME NEW S, NEW s \in Seq(S), NEW x \in S
    PROVE  /\ Append(s, x) \in Seq(S) /\ Append(s, x) # <<>> /\ Last(Append(s, x)) = x
           /\ SubSeq(Append(s, x), 1, Len(Append(s, x)) - 1) = s
<1> DEFINE t == Append(s, x)
           n == Len(s)
<1>1. /\ t \in Seq(S) /\ t # <<>> /\ Len(t) = n + 1 /\ t[n + 1] = x /\ n \in Nat
      /\ \A i \in 1..n : t[i] = s[i]
  BY AppendProperties, LenProperties
<1>2. n + 1 - 1 = n /\ 0 + n = n
  BY <1>1
<1> HIDE DEF t
<1>3. SubSeq(t, 0 + 1, 0 + Len(s)) = s
  <2>1. \A i \in 1..Len(s) : t[0 + i] = s[i]
    BY <1>1
  <2>2. QED
    BY <2>1, AtIsRead
<1>4. SubSeq(t, 1, n) = s
  BY <1>2, <1>3
<1> HIDE DEF n
<1>5. SubSeq(t, 1, Len(t) - 1) = s
  BY <1>1, <1>2, <1>4
<1>6. QED
  BY <1>1, <1>5 DEF t, Last

LEMMA AllOf ==
    ASSUME NEW S, NEW s \in Seq(S)
    PROVE  SubSeq(s, 1, Len(s) - 0) = s
<1>1. Len(s) \in Nat
  BY LenProperties
<1>2. Len(s) - 0 = Len(s)
  BY <1>1
<1>3. QED
  BY <1>2, SubSeqFull

LEMMA AllButLast ==
    ASSUME NEW S, NEW s \in Seq(S), s # <<>>
    PROVE  /\ SubSeq(s, 1, Len(s) - 1) \in Seq(S) /\ Last(s) \in S
           /\ Append(SubSeq(s, 1, Len(s) - 1), Last(s)) = s
<1>1. PICK t \in Seq(S), x \in S : s = Append(t, x)
  BY SequenceEmptyOrAppend
<1>2. Last(s) = x /\ SubSeq(s, 1, Len(s) - 1) = t
  BY <1>1, LastOf
<1>3. QED
  BY <1>1, <1>2

\* The file that is read next, and what of it is read.
LEMMA ReadPart ==
    ASSUME Inputs, next <= Len(entries), OnDisk # Missing
    PROVE  /\ Present \in Nat /\ Entry.size \in Nat /\ Present <= Entry.size
           /\ \A n \in 0..Present :
                  Streamed(n) \in File /\ (n = Entry.size => IsFile(Streamed(n)))
<1>1. Entry \in EntrySet
  <2>1. next \in 1..Len(entries) /\ entries \in Seq(EntrySet)
    BY DEF Inputs
  <2>2. QED
    BY <2>1, ElementOfSeq DEF Entry
<1>2. Entry.path \in PathSet /\ Entry.size \in Nat /\ Entry.path \in Seq(CharSet)
  BY <1>1, PathsAreChars DEF EntrySet
<1>3. OnDisk \in Nat
  BY <1>2, FirstRoot DEF Inputs, OnDisk
<1>4. Present \in Nat /\ Present <= Entry.size
  BY <1>2, <1>3 DEF Present, MinOf
<1>5. ASSUME NEW n \in 0..Present
      PROVE  /\ Bytes(Roots[1], Entry.path, n) \in Seq(ByteSet)
             /\ Len(Bytes(Roots[1], Entry.path, n)) = n
  <2> DEFINE r == Roots[1]
             p == Entry.path
             c == [j \in 1..n |-> Byte(r, p, j)]
  <2>1. Bytes(r, p, n) = c
    BY DEF Bytes
  <2>2. r \in RootSet /\ p \in PathSet /\ n \in Nat
    BY <1>2, <1>4, FirstRoot
  <2> HIDE DEF r, p
  <2>3. \A j \in 1..n : Byte(r, p, j) \in ByteSet
    BY <2>2 DEF ByteSet
  <2>4. c \in [1..n -> ByteSet]
    BY <2>3
  <2> HIDE DEF c
  <2>5. c \in Seq(ByteSet) /\ Len(c) = n
    BY <2>2, <2>4
  <2>6. QED
    BY <2>1, <2>5 DEF r, p
<1>6. ASSUME NEW n \in 0..Present
      PROVE  Streamed(n) \in File /\ (n = Entry.size => IsFile(Streamed(n)))
  <2> DEFINE f == Streamed(n)
  <2>1. f \in File /\ f.size = Entry.size /\ Len(f.data) = n
    BY <1>2, <1>5 DEF File, Streamed
  <2> HIDE DEF f
  <2>2. n = Entry.size => IsFile(f)
    BY <2>1 DEF IsFile
  <2>3. QED
    BY <2>1, <2>2 DEF f
<1>7. QED
  BY <1>2, <1>4, <1>6

LEMMA ReadGood ==
    ASSUME Inputs, next <= Len(entries), OnDisk # Missing
    PROVE  LET f == [path |-> Entry.path, size |-> Entry.size, data |-> Contents]
           IN  /\ f \in File
               /\ Present \in Nat /\ Entry.size \in Nat /\ Present <= Entry.size
               /\ Present = Entry.size => IsFile(f)
<1> DEFINE f == [path |-> Entry.path, size |-> Entry.size, data |-> Contents]
<1>1. f = Streamed(Present)
  BY DEF Streamed, Contents
<1>2. Present \in 0..Present
  BY ReadPart
<1> HIDE DEF f
<1>3. f \in File /\ (Present = Entry.size => IsFile(f))
  BY <1>1, <1>2, ReadPart
<1>4. QED
  BY <1>3, ReadPart DEF f

-----------------------------------------------------------------------------
(***************************************************************************)
(* The steps.                                                              *)
(***************************************************************************)
\* The files handed over, when one of them waits and when none does.
LEMMA HandedIs ==
    ASSUME Control
    PROVE  /\ ~Pending => Handed = accepted
           /\ Pending => Append(Handed, Last(accepted)) = accepted /\ IsFile(Last(accepted))
<1>1. accepted \in Seq(File)
  BY DEF Control
<1>2. ~Pending => Handed = accepted
  BY <1>1, AllOf DEF Handed
<1>3. ASSUME Pending PROVE Append(Handed, Last(accepted)) = accepted /\ IsFile(Last(accepted))
  <2>1. accepted # <<>> /\ IsFile(Last(accepted))
    BY <1>3 DEF Control
  <2>2. QED
    BY <1>1, <1>3, <2>1, AllButLast DEF Handed
<1>4. QED
  BY <1>2, <1>3

LEMMA InvInit == Init => Inv
<1> SUFFICES ASSUME Init PROVE Inv
  OBVIOUS
<1> USE DEF Init
<1>1. Inputs
  <2>1. (0..MaxSize) \union {Missing} \subseteq Nat \union {Missing}
    BY SizeAssumption
  <2>2. disk \in [RootSet -> [PathSet -> Nat \union {Missing}]]
    BY <2>1
  <2>3. entries \in Seq(EntrySet) /\ next \in Nat \ {0}
    BY EmptySeq
  <2>4. QED
    BY <2>2, <2>3 DEF Inputs, Streaming
<1>2. Control
  BY EmptySeq DEF Control, Pending
<1>3. PICK x \in BOOLEAN : gen = NewGenerator(x)
  BY Zenon
<1>4. GenOK(gen)
  <2>1. /\ gen.data = <<>> /\ gen.index = <<>> /\ gen.paths = <<>> /\ gen.batch = <<>>
        /\ gen.dataOff = 0 /\ gen.pathOff = 0 /\ gen.count = 0 /\ gen.pos = 0
        /\ DOMAIN gen.buf = 1..BufCap /\ DOMAIN gen = GenFields
    BY <1>3 DEF NewGenerator, GenFields
  <2>2. QED
    BY <2>1, EmptySeq, BatchAssumption DEF GenOK, EndsWithLast
<1>5. Handed = <<>>
  <2>1. ~Pending /\ accepted = <<>>
    BY DEF Pending
  <2>2. QED
    BY <1>2, <2>1, HandedIs
<1>6. Kept(gen, 1, <<>>)
  <2>1. gen.batch = <<>> /\ gen.index = <<>>
    BY <1>3 DEF NewGenerator
  <2>2. Len(gen.batch) = 0 /\ Len(gen.index) = 0 /\ <<>> \in Seq(File) /\ Len(<<>>) = 0
    BY <2>1, EmptySeq
  <2>3. /\ 1 \in 1..0 + 1 /\ \A k \in 1..0 : FALSE
        /\ 0 = 0 + 0 - 1 + 1
    OBVIOUS
  <2>4. QED
    BY <2>2, <2>3, Zenon DEF Kept
<1>7. Holds
  BY <1>4, <1>5, <1>6 DEF Holds
<1>8. QED
  BY <1>1, <1>2, <1>7 DEF Inv

\* Steps that leave the generator and the files handed over as they are.
LEMMA HoldsStays ==
    ASSUME Holds, gen' = gen, slot' = slot, Handed' = Handed,
           pc' \in {"stream", "finish", "done"} => gen.batch = <<>>,
           pc' # "add", pc' # "done"
    PROVE  Holds'
BY Zenon DEF Holds

\* Collecting the entries hands nothing over.
LEMMA CollectHolds == Inv /\ Collect => Inv'
<1> SUFFICES ASSUME Inv, Collect PROVE Inv'
  OBVIOUS
<1> USE DEF Inv
<1>1. /\ pc = "collect" /\ pc' = "next" /\ entries' = Collected
      /\ UNCHANGED <<disk, next, gen, slot, then, out, result, accepted, changes, spoiled>>
  BY DEF Collect
<1>2. Inputs'
  BY <1>1, CollectedGood DEF Inputs, Streaming
<1>3. Control'
  BY <1>1 DEF Control, Pending
<1>4. Handed' = Handed
  BY <1>1 DEF Handed, Pending
<1>5. ~spoiled' => Holds'
  BY <1>1, <1>4, HoldsStays
<1>6. QED
  BY <1>2, <1>3, <1>5

LEMMA SkipHolds == Inv /\ SkipFile => Inv'
<1> SUFFICES ASSUME Inv, SkipFile PROVE Inv'
  OBVIOUS
<1> USE DEF Inv
<1>1. /\ pc = "next" /\ pc' = pc /\ next' = next + 1
      /\ UNCHANGED <<disk, entries, gen, slot, then, out, result, accepted, changes, spoiled>>
  BY DEF SkipFile
<1>2. Inputs'
  BY <1>1 DEF Inputs, Streaming
<1>3. Control'
  BY <1>1 DEF Control, Pending
<1>4. Handed' = Handed
  BY <1>1 DEF Handed, Pending
<1>5. ~spoiled' => Holds'
  BY <1>1, <1>4, HoldsStays
<1>6. QED
  BY <1>2, <1>3, <1>5

\* A file read whole is handed over and waits for a flush, or has room.
LEMMA ReadWholeHolds == Inv /\ ReadWhole => Inv' /\ Handed' = Handed
<1> SUFFICES ASSUME Inv, ReadWhole PROVE Inv' /\ Handed' = Handed
  OBVIOUS
<1> USE DEF Inv
<1> DEFINE f == [path |-> Entry.path, size |-> Entry.size, data |-> Contents]
<1>1. /\ pc = "next" /\ next <= Len(entries) /\ OnDisk # Missing
      /\ Present = Entry.size
      /\ accepted' = Append(accepted, f)
      /\ \/ Fits(gen, Entry.size) /\ pc' = "add" /\ then' = then
         \/ pc' = "flush" /\ then' = "add"
      /\ UNCHANGED <<disk, entries, next, gen, slot, out, result, changes, spoiled>>
  BY DEF ReadWhole
<1>2. f \in File /\ IsFile(f) /\ f.size = Entry.size
  BY <1>1, ReadGood
<1> HIDE DEF f
<1>3. /\ accepted' \in Seq(File) /\ accepted' # <<>> /\ Last(accepted)' = f
      /\ SubSeq(accepted', 1, Len(accepted') - 1) = accepted
  <2>1. accepted \in Seq(File)
    BY DEF Control
  <2>2. QED
    BY <1>1, <1>2, <2>1, LastOf DEF Last
<1>4. Inputs'
  BY <1>1 DEF Inputs, Streaming
<1>5. Control'
  BY <1>1, <1>2, <1>3 DEF Control, Pending
<1>6. Pending' /\ ~Pending
  BY <1>1 DEF Pending
<1>7. Handed' = Handed
  BY <1>3, <1>6, HandedIs DEF Handed
<1>8. ~spoiled' => Holds'
  <2>1. SUFFICES ASSUME ~spoiled PROVE Holds'
    BY <1>1
  <2>2. GenOK(gen) /\ Kept(gen, slot, Handed)
    BY <2>1 DEF Holds
  <2>3. pc' = "add" => gen.pos + f.size <= BufCap
    BY <1>1, <1>2 DEF Fits
  <2>4. QED
    BY <1>1, <1>3, <1>7, <2>2, <2>3, Zenon DEF Holds
<1>9. QED
  BY <1>4, <1>5, <1>7, <1>8

LEMMA ToFlushHolds == Inv /\ (ReadStream \/ AllRead) => Inv' /\ Handed' = Handed
<1> SUFFICES ASSUME Inv, ReadStream \/ AllRead PROVE Inv' /\ Handed' = Handed
  OBVIOUS
<1> USE DEF Inv
<1>1. /\ pc = "next" /\ pc' = "flush"
      /\ \/ then' = "finish"
         \/ then' = "stream" /\ next <= Len(entries) /\ OnDisk # Missing
      /\ UNCHANGED <<disk, entries, next, gen, slot, out, result, accepted, changes, spoiled>>
  BY DEF ReadStream, AllRead
<1>2. OnDisk' = OnDisk
  BY <1>1 DEF OnDisk, Entry
<1>3. Inputs'
  BY <1>1, <1>2 DEF Inputs, Streaming
<1>4. Control'
  BY <1>1 DEF Control, Pending
<1>5. Handed' = Handed
  BY <1>1 DEF Handed, Pending
<1>6. ~spoiled' => Holds'
  BY <1>1, <1>5, HoldsStays
<1>7. QED
  BY <1>3, <1>4, <1>5, <1>6

LEMMA FlushSlotHolds == Inv /\ FlushSlot => Inv' /\ Handed' = Handed
<1> SUFFICES ASSUME Inv, FlushSlot PROVE Inv' /\ Handed' = Handed
  OBVIOUS
<1> USE DEF Inv
<1> DEFINE b == gen.batch[slot]
<1>1. /\ pc = "flush" /\ pc' = pc /\ slot <= Len(gen.batch) /\ slot' = slot + 1
      /\ gen' = Emit(gen, b.path, b.size, SlotBytes(gen, b))
      /\ UNCHANGED <<disk, entries, next, then, out, result, accepted, changes, spoiled>>
  BY DEF FlushSlot
<1> HIDE DEF b
<1>2. OnDisk' = OnDisk
  BY <1>1 DEF OnDisk, Entry
<1>3. Inputs'
  BY <1>1, <1>2 DEF Inputs, Streaming
<1>4. Control'
  BY <1>1 DEF Control, Pending
<1>5. Handed' = Handed
  BY <1>1 DEF Handed, Pending
<1>6. ~spoiled' => Holds'
  <2>1. SUFFICES ASSUME ~spoiled PROVE Holds'
    BY <1>1
  <2>2. GenOK(gen) /\ Kept(gen, slot, Handed)
    BY <2>1 DEF Holds
  <2>3. GenOK(gen') /\ Kept(gen', slot + 1, Handed)
    BY <1>1, <2>2, FlushKeeps DEF b
  <2>4. QED
    BY <1>1, <1>5, <2>3, Zenon DEF Holds
<1>7. QED
  BY <1>3, <1>4, <1>5, <1>6

\* An emptied batch has room for any file that the buffer can hold.
LEMMA FlushEndHolds == Inv /\ FlushEnd => Inv' /\ Handed' = Handed
<1> SUFFICES ASSUME Inv, FlushEnd PROVE Inv' /\ Handed' = Handed
  OBVIOUS
<1> USE DEF Inv
<1>1. /\ pc = "flush" /\ pc' = then /\ slot > Len(gen.batch) /\ slot' = 1
      /\ gen' = Emptied(gen)
      /\ UNCHANGED <<disk, entries, then, out, result, accepted, changes, spoiled>>
  BY DEF FlushEnd, ReturnTo
<1>2. then \in {"add", "stream", "finish"}
  BY <1>1 DEF Control
<1>3. next' = next
  BY <1>1, <1>2 DEF FlushEnd, ReturnTo
<1>4. OnDisk' = OnDisk
  BY <1>1, <1>3 DEF OnDisk, Entry
<1>5. Inputs'
  BY <1>1, <1>2, <1>3, <1>4 DEF Inputs, Streaming
<1>6. Pending' = Pending
  BY <1>1, <1>2 DEF Pending
<1>7. Control'
  <2>1. Last(accepted)' = Last(accepted)
    BY <1>1
  <2>2. Pending <=> then = "add"
    BY <1>1 DEF Pending
  <2>3. QED
    BY <1>1, <1>2, <1>6, <2>1 DEF Control
<1>8. Handed' = Handed
  BY <1>1, <1>6 DEF Handed
<1>9. ~spoiled' => Holds'
  <2>1. SUFFICES ASSUME ~spoiled PROVE Holds'
    BY <1>1
  <2>2. GenOK(gen) /\ Kept(gen, slot, Handed)
    BY <2>1 DEF Holds
  <2>3. GenOK(gen') /\ Kept(gen', 1, Handed) /\ gen'.batch = <<>> /\ gen'.pos = 0
    BY <1>1, <2>2, EmptyKeeps
  <2>4. pc' # "done"
    BY <1>1, <1>2
  <2>5. QED
    BY <1>1, <1>8, <2>3, <2>4, Zenon DEF Holds
<1>10. QED
  BY <1>5, <1>7, <1>8, <1>9

\* A file that goes to the batch has room there, one that is written at once
\* finds the batch empty: both come behind all files before them.
LEMMA AddHolds ==
    Inv /\ AddFile => Inv' /\ (~spoiled => Handed' = Append(Handed, Last(accepted)))
<1> SUFFICES ASSUME Inv, AddFile
             PROVE  Inv' /\ (~spoiled => Handed' = Append(Handed, Last(accepted)))
  OBVIOUS
<1> USE DEF Inv
<1> DEFINE f == Last(accepted)
<1>1. /\ pc = "add" /\ pc' = "next" /\ next' = next + 1
      /\ gen' = IF f.size > BufCap THEN Emit(gen, f.path, f.size, f.data)
                                   ELSE Batched(gen, f.path, f.data)
      /\ UNCHANGED <<disk, entries, slot, then, out, result, accepted, changes, spoiled>>
  BY DEF AddFile, Last
<1>2. Pending /\ ~Pending' /\ slot = 1
  BY <1>1 DEF Pending, Control
<1>3. Append(Handed, f) = accepted /\ IsFile(f)
  BY <1>2, HandedIs
<1>4. Inputs'
  BY <1>1 DEF Inputs, Streaming
<1>5. Control'
  BY <1>1, <1>2 DEF Control
<1>6. Handed' = accepted
  <2>1. accepted \in Seq(File) /\ accepted' = accepted
    BY <1>1 DEF Control
  <2>2. QED
    BY <1>2, <2>1, AllOf DEF Handed
<1> HIDE DEF f
<1>7. ~spoiled' => Holds'
  <2>1. SUFFICES ASSUME ~spoiled PROVE Holds'
    BY <1>1
  <2>2. /\ GenOK(gen) /\ Kept(gen, 1, Handed)
        /\ gen.pos + f.size <= BufCap \/ (gen.batch = <<>> /\ gen.pos = 0)
    BY <1>1, <1>2, <2>1 DEF Holds, f
  <2>3. gen.pos \in Nat /\ f.size \in Nat /\ BufCap \in Nat
    BY <1>3, <2>2, BatchAssumption, FileFields DEF GenOK
  <2>4. GenOK(gen') /\ Kept(gen', 1, Append(Handed, f))
    <3>1. CASE f.size > BufCap
      <4>1. gen.batch = <<>>
        BY <2>2, <2>3, <3>1
      <4>2. gen' = Emit(gen, f.path, f.size, f.data)
        BY <1>1, <3>1
      <4>3. QED
        BY <1>3, <2>2, <4>1, <4>2, EmitKeeps
    <3>2. CASE ~(f.size > BufCap)
      <4>1. gen.pos + f.size <= BufCap
        BY <2>2, <2>3, <3>2
      <4>2. gen' = Batched(gen, f.path, f.data)
        BY <1>1, <3>2
      <4>3. QED
        BY <1>3, <2>2, <4>1, <4>2, BatchKeeps
    <3>3. QED
      BY <3>1, <3>2
  <2>5. QED
    BY <1>1, <1>2, <1>3, <1>6, <2>4, Zenon DEF Holds
<1>8. QED
  BY <1>3, <1>4, <1>5, <1>6, <1>7 DEF f

\* A file for which memory runs out leaves everything as it was before.
LEMMA LeftOutHolds ==
    Inv /\ ((FlushFails /\ then # "finish") \/ AddFails) =>
        Inv' /\ Handed' = Handed /\ pc # "done" /\ pc' # "done" /\ spoiled' = spoiled
<1> SUFFICES ASSUME Inv, (FlushFails /\ then # "finish") \/ AddFails
             PROVE  /\ Inv' /\ Handed' = Handed
                    /\ pc # "done" /\ pc' # "done" /\ spoiled' = spoiled
  OBVIOUS
<1> USE DEF Inv
<1>1. /\ pc \in {"flush", "add"} /\ pc' = "next" /\ next' = next + 1 /\ slot = 1
      /\ accepted' = IF Pending THEN Withdrawn ELSE accepted
      /\ UNCHANGED <<disk, entries, gen, slot, then, out, result, changes, spoiled>>
  BY DEF FlushFails, AddFails, Pending, Control
<1>2. ~Pending'
  BY <1>1 DEF Pending
<1>3. accepted' = Handed
  <2>1. accepted \in Seq(File)
    BY DEF Control
  <2>2. QED
    BY <1>1, <2>1, HandedIs DEF Handed, Withdrawn
<1>4. Handed \in Seq(File)
  <2>1. accepted \in Seq(File) /\ (Pending => accepted # <<>>)
    BY DEF Control
  <2>2. CASE Pending
    BY <2>1, <2>2, AllButLast DEF Handed
  <2>3. CASE ~Pending
    BY <2>1, <2>3, AllOf DEF Handed
  <2>4. QED
    BY <2>2, <2>3
<1>5. Handed' = Handed
  <2>1. Handed' = SubSeq(accepted', 1, Len(accepted') - 0)
    BY <1>2 DEF Handed
  <2>2. QED
    BY <1>3, <1>4, <2>1, AllOf
<1>6. Inputs'
  BY <1>1 DEF Inputs, Streaming
<1>7. Control'
  BY <1>1, <1>2, <1>3, <1>4 DEF Control
<1>8. ~spoiled' => Holds'
  BY <1>1, <1>5, HoldsStays
<1>9. QED
  BY <1>1, <1>5, <1>6, <1>7, <1>8

\* Memory runs out in the last flush: no archive is written.
LEMMA LastFlushFailsHolds ==
    Inv /\ FlushFails /\ then = "finish" => Inv' /\ spoiled' /\ pc # "done"
<1> SUFFICES ASSUME Inv, FlushFails, then = "finish" PROVE Inv' /\ spoiled' /\ pc # "done"
  OBVIOUS
<1> USE DEF Inv
<1>1. /\ pc = "flush" /\ pc' = "done" /\ slot = 1 /\ result' = "error" /\ spoiled' = TRUE
      /\ UNCHANGED <<disk, entries, next, gen, slot, then, out, accepted, changes>>
  BY DEF FlushFails
<1>2. Inputs'
  BY <1>1 DEF Inputs, Streaming
<1>3. Control'
  BY <1>1 DEF Control, Pending
<1>4. QED
  BY <1>1, <1>2, <1>3

\* A streamed file comes behind all files before it, because the batch is
\* empty then; a file that ends early spoils the archive.
LEMMA StreamHolds ==
    Inv /\ StreamFile =>
        /\ Inv' /\ (spoiled => spoiled')
        /\ ~spoiled' => \E f \in File : Handed' = Append(Handed, f)
<1> SUFFICES ASSUME Inv, StreamFile
             PROVE  /\ Inv' /\ (spoiled => spoiled')
                    /\ ~spoiled' => \E f \in File : Handed' = Append(Handed, f)
  OBVIOUS
<1> USE DEF Inv
<1>0. PICK n \in 0..Present :
          /\ gen' = Emit(gen, Entry.path, Entry.size, Streamed(n).data)
          /\ accepted' = Append(accepted, Streamed(n))
          /\ spoiled' = (spoiled \/ n < Entry.size)
  BY Zenon DEF StreamFile
<1> DEFINE f == Streamed(n)
<1>1. /\ pc = "stream" /\ pc' = "next" /\ next' = next + 1
      /\ gen' = Emit(gen, f.path, f.size, f.data)
      /\ accepted' = Append(accepted, f)
      /\ UNCHANGED <<disk, entries, slot, then, out, result, changes>>
  BY <1>0 DEF StreamFile, Streamed
<1>2. /\ f \in File /\ n \in Nat /\ Entry.size \in Nat /\ n <= Entry.size
      /\ n = Entry.size => IsFile(f)
  <2>1. next <= Len(entries) /\ OnDisk # Missing
    BY <1>1 DEF Inputs, Streaming
  <2>2. QED
    BY <2>1, ReadPart
<1> HIDE DEF f
<1>3. ~Pending /\ ~Pending' /\ slot = 1
  BY <1>1 DEF Pending, Control
<1>4. accepted \in Seq(File) /\ accepted' \in Seq(File)
  BY <1>1, <1>2, AppendProperties DEF Control
<1>5. Inputs'
  BY <1>1 DEF Inputs, Streaming
<1>6. Control'
  <2>1. spoiled' \in BOOLEAN
    BY <1>0, Zenon
  <2>2. QED
    BY <1>1, <1>3, <1>4, <2>1 DEF Control
<1>7. Handed = accepted /\ Handed' = accepted'
  BY <1>3, <1>4, AllOf DEF Handed
<1>8. ~spoiled' => ~spoiled /\ IsFile(f)
  <2>1. ~spoiled' => ~spoiled /\ ~(n < Entry.size)
    BY <1>0, Zenon
  <2>2. ~(n < Entry.size) => n = Entry.size
    BY <1>2
  <2>3. QED
    BY <1>2, <2>1, <2>2, Zenon
<1>9. ~spoiled' => Holds'
  <2>1. SUFFICES ASSUME ~spoiled, IsFile(f) PROVE Holds'
    BY <1>8
  <2>2. GenOK(gen) /\ Kept(gen, 1, Handed) /\ gen.batch = <<>>
    BY <1>1, <1>3, <2>1 DEF Holds
  <2>3. GenOK(gen') /\ Kept(gen', 1, Append(Handed, f))
    BY <1>1, <2>1, <2>2, EmitKeeps
  <2>4. QED
    BY <1>1, <1>3, <1>7, <2>3, Zenon DEF Holds
<1>10. spoiled => spoiled'
  BY <1>0, Zenon
<1>11. QED
  BY <1>1, <1>2, <1>5, <1>6, <1>7, <1>9, <1>10

LEMMA FinishHolds == Inv /\ Finish => Inv' /\ Handed' = Handed
<1> SUFFICES ASSUME Inv, Finish PROVE Inv' /\ Handed' = Handed
  OBVIOUS
<1> USE DEF Inv
<1>1. /\ pc = "finish" /\ pc' = "done" /\ out' = Archive(gen) /\ result' = "ok"
      /\ UNCHANGED <<disk, entries, next, gen, slot, then, accepted, changes, spoiled>>
  BY DEF Finish
<1>2. Inputs'
  BY <1>1 DEF Inputs, Streaming
<1>3. Control'
  BY <1>1 DEF Control, Pending
<1>4. Handed' = Handed
  BY <1>1 DEF Handed, Pending
<1>5. ~spoiled' => Holds'
  BY <1>1, <1>4, Zenon DEF Holds
<1>6. QED
  BY <1>2, <1>3, <1>4, <1>5

LEMMA FinishFailsHolds == Inv /\ FinishFails => Inv' /\ spoiled'
<1> SUFFICES ASSUME Inv, FinishFails PROVE Inv' /\ spoiled'
  OBVIOUS
<1> USE DEF Inv
<1>1. /\ pc = "finish" /\ pc' = "done" /\ result' \in {"ok", "error"} /\ spoiled' = TRUE
      /\ UNCHANGED <<disk, entries, next, gen, slot, then, accepted, changes>>
  BY DEF FinishFails
<1>2. Inputs'
  BY <1>1 DEF Inputs, Streaming
<1>3. Control'
  BY <1>1 DEF Control, Pending
<1>4. QED
  BY <1>1, <1>2, <1>3

\* Other programs change what is read, not what was read.
LEMMA ChangeHolds ==
    Inv /\ (\E r \in RootSet, p \in PathSet : Change(r, p)) => Inv' /\ Handed' = Handed
<1> SUFFICES ASSUME Inv, NEW r \in RootSet, NEW p \in PathSet, Change(r, p)
             PROVE  Inv' /\ Handed' = Handed
  OBVIOUS
<1> USE DEF Inv
<1>1. UNCHANGED <<entries, next, gen, slot, then, pc, out, result, accepted, spoiled>>
  BY DEF Change
<1>2. PICK v \in Nat \union {Missing} :
          disk' = [disk EXCEPT ![r][p] = v] /\ (pc # "next" => v # Missing)
  <2>1. \A n \in NewSizes(disk[r][p]) : n \in Nat /\ n # Missing
    <3>1. disk[r][p] \in Nat \union {Missing}
      BY DEF Inputs
    <3>2. QED
      BY <3>1, SizeAssumption DEF NewSizes
  <2>2. CASE \E n \in NewSizes(disk[r][p]) : disk' = [disk EXCEPT ![r][p] = n]
    BY <2>1, <2>2
  <2>3. CASE pc = "next" /\ disk' = [disk EXCEPT ![r][p] = Missing]
    BY <2>3
  <2>4. QED
    BY <2>2, <2>3 DEF Change
<1>3. disk' \in [RootSet -> [PathSet -> Nat \union {Missing}]]
  BY <1>2 DEF Inputs
<1>4. Streaming => OnDisk' # Missing
  <2>1. SUFFICES ASSUME Streaming PROVE OnDisk' # Missing
    OBVIOUS
  <2>2. next <= Len(entries) /\ OnDisk # Missing /\ pc # "next"
    BY <2>1 DEF Inputs, Streaming
  <2>3. Entry \in EntrySet
    <3>1. next \in 1..Len(entries) /\ entries \in Seq(EntrySet)
      BY <2>2 DEF Inputs
    <3>2. QED
      BY <3>1, ElementOfSeq DEF Entry
  <2> DEFINE q == Entry.path
             s == Roots[1]
  <2>4. q \in PathSet /\ s \in RootSet
    BY <2>3, FirstRoot DEF EntrySet
  <2>5. OnDisk = disk[s][q] /\ OnDisk' = disk'[s][q]
    BY <1>1 DEF OnDisk, Entry
  <2> HIDE DEF q, s
  <2>6. disk'[s][q] = IF s = r /\ q = p THEN v ELSE disk[s][q]
    BY <1>2, <2>4 DEF Inputs
  <2>7. QED
    BY <1>2, <2>2, <2>5, <2>6
<1>5. Inputs'
  BY <1>1, <1>3, <1>4 DEF Inputs, Streaming
<1>6. Control'
  BY <1>1 DEF Control, Pending
<1>7. Handed' = Handed
  BY <1>1 DEF Handed, Pending
<1>8. ~spoiled' => Holds'
  BY <1>1, <1>7, Zenon DEF Holds
<1>9. QED
  BY <1>5, <1>6, <1>7, <1>8

LEMMA InvStep == Inv /\ [Next]_vars => Inv'
<1> SUFFICES ASSUME Inv, [Next]_vars PROVE Inv'
  OBVIOUS
<1>1. CASE Collect
  BY <1>1, CollectHolds
<1>2. CASE SkipFile
  BY <1>2, SkipHolds
<1>3. CASE ReadWhole
  BY <1>3, ReadWholeHolds
<1>4. CASE ReadStream \/ AllRead
  BY <1>4, ToFlushHolds
<1>5. CASE FlushSlot
  BY <1>5, FlushSlotHolds
<1>6. CASE FlushEnd
  BY <1>6, FlushEndHolds
<1>7. CASE AddFile
  BY <1>7, AddHolds
<1>8. CASE StreamFile
  BY <1>8, StreamHolds
<1>9. CASE Finish
  BY <1>9, FinishHolds
<1>10. CASE FinishFails
  BY <1>10, FinishFailsHolds
<1>11. CASE \E r \in RootSet, p \in PathSet : Change(r, p)
  BY <1>11, ChangeHolds
<1>12. CASE FlushFails \/ AddFails
  BY <1>12, LeftOutHolds, LastFlushFailsHolds
<1>13. CASE UNCHANGED vars
  <2>1. UNCHANGED <<disk, entries, next, gen, slot, then, pc, out, result, accepted, spoiled>>
    BY <1>13 DEF vars
  <2>2. /\ Inputs' = Inputs /\ Control' = Control /\ Holds' = Holds /\ spoiled' = spoiled
    BY <2>1 DEF Inputs, Control, Holds, Handed, Pending, Streaming, OnDisk, Entry
  <2>3. QED
    BY <2>2 DEF Inv
<1>14. QED
  BY <1>1, <1>2, <1>3, <1>4, <1>5, <1>6, <1>7, <1>8, <1>9, <1>10, <1>11, <1>12, <1>13
     DEF Next, Step

\* What the generator holds is what was handed to it.
Shown == ~spoiled => Log = Handed

LEMMA LogShown == Inv => Shown
BY LogIs DEF Inv, Holds, Shown

\* At every moment, in the middle of a flush too, the temporary files and the
\* batch hold exactly the files handed to the generator (paf_generator_add_file
\* and paf_generator_add_file_stream), in order and with the bytes that were
\* read, whatever the sizes of buffer, slots and files are.
THEOREM LogKeptAlways == Spec => []LogKept
<1>1. Inv => LogKept
  BY LogShown DEF LogKept, Shown, Handed
<1>2. QED
  BY <1>1, InvInit, InvStep, PTL DEF Spec

-----------------------------------------------------------------------------
(***************************************************************************)
(* The refinement: reading, batching and flushing change nothing that the  *)
(* log shows; adding and streaming a file append it; a finished archive is *)
(* the log, published.                                                     *)
(***************************************************************************)
logNow == IF spoiled THEN <<>> ELSE Log
publishedNow == IF spoiled THEN Lost ELSE IF pc = "done" THEN Log ELSE NoFile

LEMMA PromiseInit == Inv /\ Init => Promise!Init
<1> SUFFICES ASSUME Inv, Init PROVE Promise!Init
  OBVIOUS
<1>1. /\ ~spoiled /\ accepted = <<>> /\ ~Pending /\ pc # "done"
  BY DEF Init, Pending
<1>2. Log = <<>>
  <2>1. Log = Handed
    BY <1>1, LogShown DEF Shown
  <2>2. Handed = accepted
    BY <1>1, HandedIs DEF Inv
  <2>3. QED
    BY <1>1, <2>1, <2>2
<1>3. QED
  BY <1>1, <1>2 DEF Promise!Init

\* A step that hands nothing over and does not end the archive.
LEMMA QuietStep ==
    ASSUME Shown, Shown', Handed' = Handed, spoiled' = spoiled, spoiled \in BOOLEAN,
           pc # "done" /\ pc' # "done"
    PROVE  UNCHANGED <<logNow, publishedNow>>
<1>1. CASE spoiled
  BY <1>1 DEF logNow, publishedNow
<1>2. CASE ~spoiled
  <2>1. Log = Handed /\ Log' = Handed'
    BY <1>2 DEF Shown
  <2>2. QED
    BY <1>2, <2>1 DEF logNow, publishedNow
<1>3. QED
  BY <1>1, <1>2

\* A step that hands one file over.
LEMMA OneMoreAdded ==
    ASSUME Shown, Shown', ~spoiled, ~spoiled', pc # "done", pc' # "done",
           Handed \in Seq(File), NEW f \in File, Handed' = Append(Handed, f)
    PROVE  Promise!Add
<1> DEFINE s == Handed
           t == Append(s, f)
<1>1. /\ Len(t) = Len(s) + 1 /\ Len(s) + 1 - 1 = Len(s)
      /\ SubSeq(t, 1, Len(t) - 1) = s
  <2>1. Len(s) \in Nat /\ Len(t) = Len(s) + 1
    BY LenProperties, AppendProperties
  <2>2. QED
    BY <2>1, LastOf
<1>2. Log = s /\ Log' = t
  BY DEF Shown
<1> HIDE DEF s, t
<1>3. SubSeq(t, 1, Len(s)) = s
  BY <1>1
<1>4. QED
  BY <1>1, <1>2, <1>3 DEF Promise!Add

LEMMA HandedSeq == Inv => Handed \in Seq(File)
<1> SUFFICES ASSUME Inv PROVE Handed \in Seq(File)
  OBVIOUS
<1>1. accepted \in Seq(File) /\ (Pending => accepted # <<>>)
  BY DEF Inv, Control
<1>2. CASE Pending
  BY <1>1, <1>2, AllButLast DEF Handed
<1>3. CASE ~Pending
  BY <1>1, <1>3, AllOf DEF Handed
<1>4. QED
  BY <1>2, <1>3

\* The archive is spoiled and given up, or was given up before.
LEMMA SpoiledStep ==
    ASSUME spoiled', spoiled \in BOOLEAN, pc # "done"
    PROVE  Promise!GiveUp \/ UNCHANGED <<logNow, publishedNow>>
<1>1. CASE spoiled
  BY <1>1 DEF logNow, publishedNow
<1>2. CASE ~spoiled
  BY <1>2 DEF Promise!GiveUp
<1>3. QED
  BY <1>1, <1>2

LEMMA PromiseStep ==
    Inv /\ Shown /\ Shown' /\ [Next]_vars => [Promise!Next]_<<logNow, publishedNow>>
<1> SUFFICES ASSUME Inv, Shown, Shown', [Next]_vars
             PROVE  Promise!Next \/ UNCHANGED <<logNow, publishedNow>>
  OBVIOUS
<1>0. spoiled \in BOOLEAN /\ Handed \in Seq(File)
  BY HandedSeq DEF Inv, Control
<1>1. CASE Collect
  <2>1. /\ pc # "done" /\ pc' # "done" /\ spoiled' = spoiled /\ Handed' = Handed
    BY <1>1 DEF Collect, Handed, Pending
  <2>2. QED
    BY <1>0, <2>1, QuietStep
<1>2. CASE SkipFile
  <2>1. /\ pc # "done" /\ pc' # "done" /\ spoiled' = spoiled /\ Handed' = Handed
    BY <1>2 DEF SkipFile, Handed, Pending
  <2>2. QED
    BY <1>0, <2>1, QuietStep
<1>3. CASE ReadWhole
  <2>1. /\ pc # "done" /\ pc' # "done" /\ spoiled' = spoiled /\ Handed' = Handed
    BY <1>3, ReadWholeHolds DEF ReadWhole
  <2>2. QED
    BY <1>0, <2>1, QuietStep
<1>4. CASE ReadStream \/ AllRead
  <2>1. /\ pc # "done" /\ pc' # "done" /\ spoiled' = spoiled /\ Handed' = Handed
    BY <1>4, ToFlushHolds DEF ReadStream, AllRead
  <2>2. QED
    BY <1>0, <2>1, QuietStep
<1>5. CASE FlushSlot
  <2>1. /\ pc # "done" /\ pc' # "done" /\ spoiled' = spoiled /\ Handed' = Handed
    BY <1>5, FlushSlotHolds DEF FlushSlot
  <2>2. QED
    BY <1>0, <2>1, QuietStep
<1>6. CASE FlushEnd
  <2>1. /\ pc # "done" /\ pc' # "done" /\ spoiled' = spoiled /\ Handed' = Handed
    BY <1>6, FlushEndHolds DEF FlushEnd, ReturnTo, Inv, Control
  <2>2. QED
    BY <1>0, <2>1, QuietStep
<1>7. CASE AddFile
  <2>1. pc # "done" /\ pc' # "done" /\ spoiled' = spoiled
    BY <1>7 DEF AddFile
  <2>2. CASE spoiled
    BY <1>0, <2>1, <2>2, SpoiledStep DEF Promise!Next
  <2>3. CASE ~spoiled
    <3>1. Handed' = Append(Handed, Last(accepted))
      BY <1>7, <2>3, AddHolds
    <3>2. Last(accepted) \in File
      <4>1. Pending
        BY <1>7 DEF AddFile, Pending
      <4>2. QED
        BY <4>1 DEF Inv, Control, IsFile
    <3>3. Promise!Add
      BY <1>0, <2>1, <2>3, <3>1, <3>2, OneMoreAdded
    <3>4. QED
      BY <3>3 DEF Promise!Next
  <2>4. QED
    BY <2>2, <2>3
<1>8. CASE StreamFile
  <2>1. pc # "done" /\ pc' # "done" /\ (spoiled => spoiled')
    BY <1>8, StreamHolds DEF StreamFile
  <2>2. CASE spoiled'
    BY <1>0, <2>1, <2>2, SpoiledStep DEF Promise!Next
  <2>3. CASE ~spoiled'
    <3>1. PICK f \in File : Handed' = Append(Handed, f)
      BY <1>8, <2>3, StreamHolds
    <3>2. Promise!Add
      BY <1>0, <2>1, <2>3, <3>1, OneMoreAdded
    <3>3. QED
      BY <3>2 DEF Promise!Next
  <2>4. QED
    BY <2>2, <2>3
<1>9. CASE Finish
  <2>1. pc # "done" /\ pc' = "done" /\ spoiled' = spoiled /\ Handed' = Handed
    BY <1>9, FinishHolds DEF Finish
  <2>2. CASE spoiled
    BY <1>0, <2>1, <2>2, SpoiledStep DEF Promise!Next
  <2>3. CASE ~spoiled
    <3>1. Log = Handed /\ Log' = Handed'
      BY <2>1, <2>3 DEF Shown
    <3>2. Promise!Close
      BY <2>1, <2>3, <3>1 DEF Promise!Close
    <3>3. QED
      BY <3>2 DEF Promise!Next
  <2>4. QED
    BY <2>2, <2>3
<1>10. CASE FinishFails
  <2>1. pc # "done" /\ spoiled'
    BY <1>10, FinishFailsHolds DEF FinishFails
  <2>2. QED
    BY <1>0, <2>1, SpoiledStep DEF Promise!Next
<1>11. CASE \E r \in RootSet, p \in PathSet : Change(r, p)
  <2>1. /\ pc # "done" /\ pc' # "done" /\ spoiled' = spoiled
    BY <1>11 DEF Change
  <2>2. Handed' = Handed
    BY <1>11, ChangeHolds
  <2>3. QED
    BY <1>0, <2>1, <2>2, QuietStep
<1>12. CASE FlushFails \/ AddFails
  <2>1. CASE FlushFails /\ then = "finish"
    BY <1>0, <2>1, LastFlushFailsHolds, SpoiledStep DEF Promise!Next
  <2>2. CASE (FlushFails /\ then # "finish") \/ AddFails
    BY <1>0, <2>2, LeftOutHolds, QuietStep
  <2>3. QED
    BY <1>12, <2>1, <2>2
<1>13. CASE UNCHANGED vars
  <2>1. UNCHANGED <<gen, slot, pc, spoiled>>
    BY <1>13 DEF vars
  <2>2. QED
    BY <2>1 DEF logNow, publishedNow, Log, Stored, Waiting, SlotBytes
<1>14. QED
  BY <1>1, <1>2, <1>3, <1>4, <1>5, <1>6, <1>7, <1>8, <1>9, <1>10, <1>11, <1>12, <1>13
     DEF Next, Step

\* The generator, with its batch, its flushes in the middle of an add, its
\* streams and its temporary files, is an append-only log that is published
\* when it is closed (paf_generator.c:61-261).
THEOREM GeneratorImplementsLog == Spec => ImplementsArchiveLog
<1>1. Init => Promise!Init
  BY InvInit, PromiseInit
<1>2. Inv => Shown
  BY LogShown
<1>3. Inv /\ Shown /\ Shown' /\ [Next]_vars => [Promise!Next]_<<logNow, publishedNow>>
  BY PromiseStep
<1>4. [Promise!Next]_<<logNow, publishedNow>> =>
      [Promise!Next]_<<IF spoiled THEN <<>> ELSE Log,
                       IF spoiled THEN Lost ELSE IF pc = "done" THEN Log ELSE NoFile>>
  BY DEF logNow, publishedNow
<1>5. QED
  BY <1>1, <1>2, <1>3, <1>4, InvInit, InvStep, PTL DEF Spec, ImplementsArchiveLog, Promise!Spec

-----------------------------------------------------------------------------
(***************************************************************************)
(* The archive and its readers.                                            *)
(***************************************************************************)
\* A reader that asks for as many cells as were put at a place gets them.
LEMMA ReadIs ==
    ASSUME NEW S, NEW T, NEW f \in Seq(T), NEW s \in Seq(S), NEW o \in Nat, Sits(f, o, s)
    PROVE  Read(f, o, Len(s)) = s
BY AtIsGot DEF Read, MinOf

HeaderFields == {"kind", "indexOnly", "count", "indexOff", "pathOff"}

\* The parts of A are the temporary files of g, where the header says.
PartsOf(A, g) ==
    /\ Len(A) = 1 + g.dataOff + Len(g.index) + Len(g.paths)
    /\ DOMAIN Hdr(A) = HeaderFields /\ Hdr(A).kind = "header" /\ Hdr(A).count = Len(g.index)
    /\ Hdr(A).indexOff = 1 + g.dataOff /\ Hdr(A).pathOff = 1 + g.dataOff + Len(g.index)
    /\ IndexCells(A) = g.index
    /\ \A o \in Nat : \A s : Len(s) \in Nat /\ Sits(g.paths, o, s) =>
           Sits(A, 1 + g.dataOff + Len(g.index) + o, s)
    /\ \A o \in Nat : \A s : Len(s) \in Nat /\ Sits(g.data, o, s) => Sits(A, 1 + o, s)

LEMMA ArchiveParts ==
    ASSUME NEW g, GenOK(g)
    PROVE  PartsOf(Archive(g), g) /\ \E T : Archive(g) \in Seq(T)
<1> DEFINE A == Archive(g)
           n == Len(g.index)
           indexOff == HeaderSize + IF g.indexOnly THEN 0 ELSE g.dataOff
           H == Header(g.indexOnly, g.count, indexOff, indexOff + g.count * EntrySize)
           T == ByteSet \union EntryCell \union CharSet \union {H}
<1>1. /\ g.data \in Seq(ByteSet) /\ g.index \in Seq(EntryCell) /\ g.paths \in Seq(CharSet)
      /\ g.count = n /\ n \in Nat /\ g.dataOff \in Nat
      /\ g.indexOnly => g.dataOff = 0
  BY LenProperties, EmptySeq DEF GenOK
<1>2. A = <<H>> \o g.data \o g.index \o g.paths
  BY DEF Archive
<1>3. H.kind = "header" /\ H.count = g.count /\ H.indexOff = indexOff
      /\ H.pathOff = indexOff + g.count * EntrySize /\ DOMAIN H = HeaderFields
  BY DEF Header, HeaderFields
<1>4. H.indexOff = 1 + g.dataOff /\ H.pathOff = 1 + g.dataOff + n /\ H.count = n
  <2> HIDE DEF H, n
  <2>1. indexOff = 1 + g.dataOff /\ indexOff + g.count * EntrySize = 1 + g.dataOff + n
    BY <1>1 DEF HeaderSize, EntrySize
  <2>2. QED
    BY <1>1, <1>3, <2>1
<1> HIDE DEF A, H
<1>5. g.data \in Seq(T) /\ g.index \in Seq(T) /\ g.paths \in Seq(T) /\ H \in T
  BY <1>1, SeqMonotonic
<1> HIDE DEF T
<1>6. /\ A \in Seq(T) /\ Len(A) > 0 /\ A[1] = H
      /\ Len(A) = 1 + g.dataOff + Len(g.index) + Len(g.paths)
      /\ Sits(A, 1 + g.dataOff, g.index)
      /\ \A o \in Nat : \A s : Len(s) \in Nat /\ Sits(g.paths, o, s) =>
             Sits(A, 1 + g.dataOff + Len(g.index) + o, s)
      /\ \A o \in Nat : \A s : Len(s) \in Nat /\ Sits(g.data, o, s) => Sits(A, 1 + o, s)
  <2> DEFINE D == g.data
             I == g.index
             P == g.paths
  <2>1. Len(D) = g.dataOff
    BY DEF GenOK
  <2>2. D \in Seq(T) /\ I \in Seq(T) /\ P \in Seq(T) /\ A = <<H>> \o D \o I \o P
    BY <1>2, <1>5
  <2> HIDE DEF D, I, P
  <2>3. A \in Seq(T) /\ LaidOut(A, H, D, I, P)
    BY <1>5, <2>2, Layout
  <2>4. QED
    BY <2>1, <2>3 DEF D, I, P, LaidOut
<1>7. Hdr(A) = H
  BY <1>6 DEF Hdr
<1>8. IndexCells(A) = g.index
  <2>1. 1 + g.dataOff \in Nat
    BY <1>1
  <2>2. Read(A, 1 + g.dataOff, Len(g.index)) = g.index
    BY <1>1, <1>6, <2>1, ReadIs
  <2>3. H.count * EntrySize = Len(g.index)
    BY <1>1, <1>4 DEF EntrySize
  <2>4. QED
    BY <1>4, <1>7, <2>2, <2>3 DEF IndexCells
<1>9. PartsOf(A, g)
  BY <1>3, <1>4, <1>6, <1>7, <1>8 DEF PartsOf
<1>10. QED
  BY <1>6, <1>9 DEF A

\* What the readers find in the archive of a generator that holds files.
LEMMA ReadersFind ==
    ASSUME NEW g, GenOK(g), NEW files, Kept(g, 1, files), g.batch = <<>>
    PROVE  LET A == Archive(g)
           IN  /\ WellFormed(A) /\ Hdr(A).count = Len(files)
               /\ \A k \in 1..Len(files) :
                      LET e == IndexCells(A)[k]
                      IN  /\ EntryPath(A, e) = files[k].path
                          /\ e.size = files[k].size /\ e.hash = files[k].data
                          /\ ~g.indexOnly => EntryData(A, e) = files[k].data
<1> DEFINE A == Archive(g)
           n == Len(g.index)
           H == Hdr(A)
<1>1. n \in Nat /\ g.dataOff \in Nat /\ Len(g.paths) \in Nat
  BY LenProperties DEF GenOK
<1>2. Len(files) = n
  <2> DEFINE q == Len(files)
             m == Len(g.batch)
  <2>1. q = n + m - 1 + 1 /\ n \in Nat /\ m = 0 /\ q \in Nat
    BY KeptFields
  <2> HIDE DEF q, m, n
  <2>2. q = n
    BY <2>1
  <2>3. QED
    BY <2>2 DEF q
<1>3. /\ \A k \in 1..Len(files) : IsFile(files[k])
      /\ \A k \in 1..n : Leads(g, g.index[k], files[k])
  BY KeptFields
<1>4. PICK T : A \in Seq(T) /\ PartsOf(A, g)
  BY ArchiveParts
<1> HIDE DEF A
<1>5. /\ H.kind = "header" /\ H.pathOff = 1 + g.dataOff + n /\ H.count = n
      /\ IndexCells(A) = g.index
      /\ \A o \in Nat : \A s : Len(s) \in Nat /\ Sits(g.paths, o, s) => Sits(A, 1 + g.dataOff + n + o, s)
      /\ \A o \in Nat : \A s : Len(s) \in Nat /\ Sits(g.data, o, s) => Sits(A, 1 + o, s)
  BY <1>4 DEF PartsOf
<1>6. \A k \in 1..n : g.index[k] \in EntryCell
  BY ElementOfSeq DEF GenOK
<1>7. WellFormed(A)
  <2>1. Len(A) >= HeaderSize
    <3> DEFINE d == g.dataOff
               p == Len(g.paths)
    <3>1. Len(A) = 1 + d + n + p /\ d \in Nat /\ p \in Nat
      BY <1>1, <1>4 DEF PartsOf
    <3> HIDE DEF d, p, n
    <3>2. QED
      BY <1>1, <3>1 DEF HeaderSize
  <2>2. Readable(A)
    BY <1>5, <2>1 DEF Readable
  <2>3. \A k \in 1..n : g.index[k].kind = "entry"
    BY <1>6 DEF EntryCell
  <2>4. QED
    BY <1>5, <2>2, <2>3 DEF WellFormed
<1> HIDE DEF n, H
<1>8. ASSUME NEW k \in 1..n
      PROVE  LET e == IndexCells(A)[k]
             IN  /\ EntryPath(A, e) = files[k].path
                 /\ e.size = files[k].size /\ e.hash = files[k].data
                 /\ ~g.indexOnly => EntryData(A, e) = files[k].data
  <2> DEFINE e == g.index[k]
             p == files[k].path
             d == files[k].data
  <2>1. /\ p \in Seq(CharSet) /\ d \in Seq(ByteSet) /\ files[k].size = Len(d)
    BY <1>2, <1>3, FileFields
  <2>2. Leads(g, e, files[k]) /\ e \in EntryCell
    BY <1>3, <1>6
  <2>3. /\ e.pathLen = Len(p) /\ e.size = files[k].size /\ e.hash = d
        /\ Sits(g.paths, e.pathOff, p)
        /\ (~g.indexOnly => Sits(g.data, e.off, d))
        /\ e.pathOff \in Nat /\ e.off \in Nat
    BY <2>2 DEF Leads, EntryCell
  <2> DEFINE a == e.pathOff
             o == e.off
  <2>4. /\ a \in Nat /\ o \in Nat /\ e.pathLen = Len(p) /\ e.size = Len(d)
        /\ e.pathOff = a /\ e.off = o
    BY <2>1, <2>3
  <2>5. Sits(A, 1 + g.dataOff + n + a, p) /\ (~g.indexOnly => Sits(A, 1 + o, d))
    BY <1>5, <2>1, <2>3, LenProperties
  <2> HIDE DEF p, d, a, o
  <2>6. EntryPath(A, e) = p
    <3> DEFINE w == 1 + g.dataOff + n + a
    <3>1. w \in Nat
      BY <1>1, <2>4, SMTT(20)
    <3>2. Sits(A, w, p)
      BY <2>5
    <3>3. H.pathOff + e.pathOff = w
      BY <1>5, <2>4
    <3> HIDE DEF w
    <3>4. Read(A, w, Len(p)) = p
      BY <1>4, <2>1, <3>1, <3>2, ReadIs
    <3>5. QED
      BY <2>4, <3>3, <3>4 DEF EntryPath, H
  <2>7. ASSUME ~g.indexOnly PROVE EntryData(A, e) = d
    <3>1. Sits(A, 1 + o, d) /\ 1 + o \in Nat
      BY <2>4, <2>5, <2>7
    <3>2. Read(A, 1 + o, Len(d)) = d
      BY <1>4, <2>1, <3>1, ReadIs
    <3>3. QED
      BY <2>4, <3>2 DEF EntryData, HeaderSize
  <2>8. QED
    BY <1>5, <2>3, <2>6, <2>7 DEF p, d
<1>9. QED
  BY <1>2, <1>5, <1>7, <1>8 DEF A, H

\* In every archive reported as written, the readers find, through header,
\* offsets and lengths, exactly the files that were handed over, with their
\* paths, sizes, hashes and bytes (paf_generator.c:211-261 against
\* paf_extractor.c and libpaf_list.c).
THEOREM ArchiveFaithfulAlways == Spec => []ArchiveFaithful
<1>1. Inv => ArchiveFaithful
  <2>1. SUFFICES ASSUME Inv, Finished PROVE ArchiveFaithful
    BY DEF ArchiveFaithful
  <2>2. pc = "done" /\ ~spoiled
    BY <2>1 DEF Finished
  <2>3. /\ GenOK(gen) /\ Kept(gen, 1, Handed) /\ gen.batch = <<>> /\ out = Archive(gen)
    BY <2>1, <2>2 DEF Inv, Holds, Control
  <2>4. Handed = accepted
    <3>1. ~Pending
      BY <2>2 DEF Pending
    <3>2. QED
      BY <2>1, <3>1, HandedIs DEF Inv
  <2>5. Kept(gen, 1, accepted)
    BY <2>3, <2>4
  <2>6. QED
    BY <2>3, <2>5, ReadersFind DEF ArchiveFaithful
<1>2. QED
  BY <1>1, InvInit, InvStep, PTL DEF Spec

-----------------------------------------------------------------------------
(***************************************************************************)
(* Nothing is left out.                                                    *)
(***************************************************************************)
\* What AllArchived promises of entry k.
Promised(k) == [path |-> entries[k].path, size |-> entries[k].size,
                data |-> Bytes(entries[k].root, entries[k].path, entries[k].size)]
Taken == next - 1 + IF Pending THEN 1 ELSE 0

\* Under one root, what was collected is still there and no smaller.
EntriesStand ==
    \A k \in 1..Len(entries) :
        /\ entries[k].root = Roots[1] /\ entries[k].size \in Nat
        /\ disk[Roots[1]][entries[k].path] \in Nat
        /\ disk[Roots[1]][entries[k].path] # Missing
        /\ entries[k].size <= disk[Roots[1]][entries[k].path]

Undisturbed == changes = 0 /\ ~dropped /\ ~spoiled

TakenInv ==
    /\ changes \in Nat
    /\ Undisturbed =>
          /\ EntriesStand
          /\ Len(accepted) = Taken /\ Taken <= Len(entries)
          /\ \A k \in 1..Taken : accepted[k] = Promised(k)
          /\ pc = "collect" => entries = <<>>
          /\ pc \in {"finish", "done"} \/ (pc = "flush" /\ then = "finish") => next > Len(entries)

\* What is collected under one root stands.
LEMMA CollectedStands ==
    ASSUME Inputs, Len(Roots) = 1, Collect
    PROVE  EntriesStand'
<1>1. Collected \in Seq(FoundSet) /\ entries' = Collected /\ disk' = disk
  BY CollectedFits DEF Inputs, Collect
<1>2. SUFFICES ASSUME NEW k \in 1..Len(Collected)
               PROVE  /\ Collected[k].root = Roots[1] /\ Collected[k].size \in Nat
                      /\ disk[Roots[1]][Collected[k].path] \in Nat
                      /\ disk[Roots[1]][Collected[k].path] # Missing
                      /\ Collected[k].size <= disk[Roots[1]][Collected[k].path]
  BY <1>1 DEF EntriesStand
<1> DEFINE e == Collected[k]
           z == disk[e.root][e.path]
<1>3. e \in FoundSet
  BY <1>1, <1>2, ElementOfSeq
<1> HIDE DEF e
<1>4. e.root \in RootSet /\ e.path \in PathSet /\ z # Missing /\ e.size = z % Word32
  BY <1>3 DEF FoundSet, EntrySet
<1>5. e.root = Roots[1]
  BY <1>4 DEF RootSet
<1>6. z \in Nat
  BY <1>4 DEF Inputs
<1> HIDE DEF z
<1>7. z % Word32 \in Nat /\ z % Word32 <= z
  <2>1. Word32 \in Nat \ {0}
    BY BatchAssumption
  <2>2. z % Word32 \in 0..Word32 - 1
    BY <1>6, <2>1
  <2>3. CASE z < Word32
    BY <1>6, <2>1, <2>3
  <2>4. CASE ~(z < Word32)
    BY <1>6, <2>1, <2>2, <2>4
  <2>5. QED
    BY <2>3, <2>4
<1>8. QED
  BY <1>4, <1>5, <1>6, <1>7 DEF e, z

\* The file that is taken next is the next that was promised.
LEMMA TakesPromised ==
    ASSUME Inv, TakenInv, Undisturbed, ~Pending, next <= Len(entries),
           entries' = entries, Present = Entry.size,
           accepted' = Append(accepted, [path |-> Entry.path, size |-> Entry.size,
                                         data |-> Contents])
    PROVE  Len(accepted') = next /\ \A k \in 1..next : accepted'[k] = Promised(k)'
<1> DEFINE x == [path |-> Entry.path, size |-> Entry.size, data |-> Contents]
<1>1. /\ next \in Nat \ {0} /\ Len(accepted) = next - 1 /\ accepted \in Seq(File)
      /\ \A k \in 1..next - 1 : accepted[k] = Promised(k)
  BY DEF Inv, Inputs, Control, TakenInv, Taken
<1>2. x = Promised(next)
  <2>1. entries[next].root = Roots[1]
    BY <1>1 DEF TakenInv, EntriesStand
  <2>2. QED
    BY <2>1 DEF Promised, Contents, Entry
<1> HIDE DEF x
<1>3. /\ Len(accepted') = next
      /\ \A k \in 1..next : accepted'[k] = IF k = next THEN x ELSE accepted[k]
  BY <1>1, AppendProperties DEF x
<1>4. \A k : Promised(k)' = Promised(k)
  BY DEF Promised
<1>5. QED
  BY <1>1, <1>2, <1>3, <1>4

LEMMA OnDiskStands ==
    ASSUME Inv, TakenInv, Undisturbed, next <= Len(entries)
    PROVE  OnDisk # Missing /\ Present = Entry.size
<1>1. next \in 1..Len(entries)
  BY DEF Inv, Inputs
<1>2. OnDisk \in Nat /\ OnDisk # Missing /\ Entry.size \in Nat /\ Entry.size <= OnDisk
  BY <1>1 DEF TakenInv, EntriesStand, OnDisk, Entry
<1>3. QED
  BY <1>2 DEF Present, MinOf

\* Steps that take no file.
LEMMA NothingTaken ==
    ASSUME Inv, TakenInv, UNCHANGED <<disk, entries, accepted, changes>>, Taken' = Taken,
           pc' # "collect", Undisturbed' => Undisturbed,
           pc' \in {"finish", "done"} \/ (pc' = "flush" /\ then' = "finish") =>
               (Undisturbed => next' > Len(entries))
    PROVE  TakenInv'
<1>1. EntriesStand' = EntriesStand /\ \A k : Promised(k)' = Promised(k)
  BY DEF EntriesStand, Promised
<1>2. QED
  BY <1>1 DEF TakenInv

LEMMA TakenStep ==
    ASSUME Inv, Inv', TakenInv, Len(Roots) = 1, [Next]_vars
    PROVE  TakenInv'
<1>0. next \in Nat \ {0} /\ changes \in Nat /\ Len(entries) \in Nat
  BY LenProperties DEF Inv, Inputs, TakenInv
<1>1. CASE Collect
  <2>1. /\ pc = "collect" /\ pc' = "next"
        /\ UNCHANGED <<next, accepted, changes>> /\ Undisturbed' = Undisturbed
    BY <1>1 DEF Collect, Undisturbed
  <2>2. ~Pending /\ ~Pending' /\ Taken = next - 1 /\ Taken' = next - 1
    BY <1>0, <2>1 DEF Pending, Taken
  <2>3. Undisturbed => next - 1 = 0 /\ Len(accepted) = 0
    BY <1>0, <2>1, <2>2 DEF TakenInv
  <2>4. EntriesStand'
    BY <1>1, CollectedStands DEF Inv
  <2>5. Len(entries') \in Nat
    BY LenProperties DEF Inv, Inputs
  <2>6. Undisturbed => /\ Len(accepted') = Taken' /\ Taken' <= Len(entries')
                       /\ \A k \in 1..Taken' : accepted'[k] = Promised(k)'
    BY <1>0, <2>1, <2>2, <2>3, <2>5
  <2>7. QED
    BY <1>0, <2>1, <2>4, <2>6 DEF TakenInv
<1>2. CASE SkipFile
  <2>1. ~Undisturbed' /\ changes' = changes
    <3>1. Undisturbed' => Undisturbed /\ OnDisk = Missing
      BY <1>2 DEF SkipFile, Undisturbed
    <3>2. next <= Len(entries)
      BY <1>2 DEF SkipFile
    <3>3. QED
      BY <1>2, <3>1, <3>2, OnDiskStands DEF SkipFile
  <2>2. QED
    BY <1>0, <2>1 DEF TakenInv
<1>3. CASE ReadWhole
  <2>1. /\ pc = "next" /\ next <= Len(entries) /\ Present = Entry.size
        /\ UNCHANGED <<disk, entries, next, changes>> /\ Undisturbed' = Undisturbed
        /\ accepted' = Append(accepted, [path |-> Entry.path, size |-> Entry.size,
                                         data |-> Contents])
        /\ pc' = "add" \/ (pc' = "flush" /\ then' = "add")
    BY <1>3 DEF ReadWhole, Undisturbed
  <2>2. ~Pending /\ Pending' /\ Taken' = next
    BY <1>0, <2>1 DEF Pending, Taken
  <2>3. Undisturbed => Len(accepted') = next /\ \A k \in 1..next : accepted'[k] = Promised(k)'
    BY <2>1, <2>2, TakesPromised
  <2>4. EntriesStand' = EntriesStand
    BY <2>1 DEF EntriesStand
  <2>5. QED
    BY <1>0, <2>1, <2>2, <2>3, <2>4 DEF TakenInv
<1>4. CASE ReadStream \/ AllRead
  <2>1. /\ pc = "next" /\ pc' = "flush" /\ then' \in {"stream", "finish"}
        /\ then' = "finish" => next > Len(entries)
        /\ UNCHANGED <<disk, entries, next, accepted, changes>> /\ Undisturbed' = Undisturbed
    BY <1>4 DEF ReadStream, AllRead, Undisturbed
  <2>2. Taken' = Taken
    BY <2>1 DEF Taken, Pending
  <2>3. QED
    BY <2>1, <2>2, NothingTaken
<1>5. CASE FlushSlot
  <2>1. /\ pc = "flush" /\ pc' = "flush" /\ then' = then
        /\ UNCHANGED <<disk, entries, next, accepted, changes>> /\ Undisturbed' = Undisturbed
    BY <1>5 DEF FlushSlot, Undisturbed
  <2>2. Taken' = Taken
    BY <2>1 DEF Taken, Pending
  <2>3. QED
    BY <2>1, <2>2, NothingTaken DEF TakenInv
<1>6. CASE FlushEnd
  <2>1. /\ pc = "flush" /\ then \in {"add", "stream", "finish"} /\ pc' = then
        /\ UNCHANGED <<disk, entries, next, accepted, changes>> /\ Undisturbed' = Undisturbed
    BY <1>6 DEF FlushEnd, ReturnTo, Inv, Control, Undisturbed
  <2>2. Taken' = Taken
    BY <2>1 DEF Taken, Pending
  <2>3. QED
    BY <2>1, <2>2, NothingTaken DEF TakenInv
<1>7. CASE AddFile
  <2>1. /\ pc = "add" /\ pc' = "next" /\ next' = next + 1
        /\ UNCHANGED <<disk, entries, accepted, changes>> /\ Undisturbed' = Undisturbed
    BY <1>7 DEF AddFile, Undisturbed
  <2>2. Taken' = Taken
    BY <1>0, <2>1 DEF Taken, Pending
  <2>3. QED
    BY <2>1, <2>2, NothingTaken
<1>8. CASE StreamFile
  <2>0. PICK n \in 0..Present : /\ accepted' = Append(accepted, Streamed(n))
                                /\ spoiled' = (spoiled \/ n < Entry.size)
    BY <1>8, Zenon DEF StreamFile
  <2>1. /\ pc = "stream" /\ pc' = "next" /\ next' = next + 1
        /\ UNCHANGED <<disk, entries, changes, dropped>>
    BY <1>8 DEF StreamFile
  <2>2. next <= Len(entries)
    BY <2>1 DEF Inv, Inputs, Streaming
  <2>3. ~Pending /\ Taken' = next
    BY <1>0, <2>1 DEF Pending, Taken
  <2>4. Undisturbed' => Undisturbed /\ ~(n < Entry.size)
    BY <2>0, <2>1, Zenon DEF Undisturbed
  <2>5. Undisturbed' =>
            /\ Present = Entry.size
            /\ accepted' = Append(accepted, [path |-> Entry.path, size |-> Entry.size,
                                             data |-> Contents])
    <3>1. SUFFICES ASSUME Undisturbed, ~(n < Entry.size)
                   PROVE  Present = Entry.size /\ Streamed(n) = [path |-> Entry.path,
                              size |-> Entry.size, data |-> Contents]
      BY <2>0, <2>4
    <3>2. OnDisk # Missing /\ Present = Entry.size
      BY <2>2, <3>1, OnDiskStands
    <3>3. n = Present
      <4>1. Present \in Nat
        BY <2>2, <3>2, ReadPart DEF Inv
      <4>2. QED
        BY <3>1, <3>2, <4>1
    <3>4. QED
      BY <3>2, <3>3 DEF Streamed, Contents
  <2>6. Undisturbed' => Len(accepted') = next /\ \A k \in 1..next : accepted'[k] = Promised(k)'
    BY <2>1, <2>2, <2>3, <2>4, <2>5, TakesPromised
  <2>7. EntriesStand' = EntriesStand
    BY <2>1 DEF EntriesStand
  <2>8. QED
    BY <1>0, <2>1, <2>2, <2>3, <2>4, <2>6, <2>7 DEF TakenInv
<1>9. CASE Finish \/ FinishFails
  <2>1. /\ pc = "finish" /\ pc' = "done"
        /\ UNCHANGED <<disk, entries, next, accepted, changes>>
        /\ Undisturbed' => Undisturbed
    BY <1>9 DEF Finish, FinishFails, Undisturbed
  <2>2. Taken' = Taken
    BY <2>1 DEF Taken, Pending
  <2>3. QED
    BY <2>1, <2>2, NothingTaken DEF TakenInv
<1>10. CASE \E r \in RootSet, p \in PathSet : Change(r, p)
  <2>1. changes' = changes + 1
    BY <1>10 DEF Change
  <2>2. QED
    BY <1>0, <2>1 DEF TakenInv, Undisturbed
<1>11. CASE UNCHANGED vars
  BY <1>11 DEF vars, TakenInv, EntriesStand, Promised, Taken, Pending, Undisturbed
<1>12. CASE FlushFails \/ AddFails
  <2>1. changes' = changes /\ (dropped' \/ spoiled')
    BY <1>12 DEF FlushFails, AddFails
  <2>2. QED
    BY <1>0, <2>1, Zenon DEF TakenInv, Undisturbed
<1>13. QED
  BY <1>1, <1>2, <1>3, <1>4, <1>5, <1>6, <1>7, <1>8, <1>9, <1>10, <1>11, <1>12 DEF Next, Step

\* With one input directory that nobody changes, an archive reported as
\* written holds every collected file, in order, with the content it has
\* (libpaf.h:31), if each could be opened and memory lasted; with two
\* directories it need not.
THEOREM AllArchivedAlways == Len(Roots) = 1 => (Spec => []AllArchived)
<1> SUFFICES ASSUME Len(Roots) = 1 PROVE Spec => []AllArchived
  OBVIOUS
<1>1. Init => TakenInv
  <2> SUFFICES ASSUME Init PROVE TakenInv
    OBVIOUS
  <2>1. /\ entries = <<>> /\ Len(entries) = 0 /\ accepted = <<>> /\ Len(accepted) = 0
        /\ next = 1 /\ pc = "collect" /\ changes = 0
    BY EmptySeq DEF Init
  <2>2. Taken = 0
    BY <2>1 DEF Taken, Pending
  <2>3. QED
    BY <2>1, <2>2 DEF TakenInv, EntriesStand
<1>2. Inv /\ TakenInv => AllArchived
  <2> SUFFICES ASSUME Inv, TakenInv, Finished, changes = 0, ~dropped
               PROVE  accepted = [k \in 1..Len(entries) |-> Promised(k)]
    BY DEF AllArchived, Promised
  <2>0. Undisturbed
    BY DEF Finished, Undisturbed
  <2>1. pc = "done" /\ ~Pending
    BY DEF Finished, Pending
  <2>2. next \in Nat /\ Len(entries) \in Nat /\ accepted \in Seq(File)
    BY LenProperties DEF Inv, Inputs, Control
  <2>3. next > Len(entries) /\ Len(accepted) = next - 1 /\ next - 1 <= Len(entries)
    BY <2>0, <2>1, <2>2 DEF TakenInv, Taken
  <2>4. Len(accepted) = Len(entries) /\ Taken = Len(entries)
    BY <2>1, <2>2, <2>3 DEF Taken
  <2>5. \A k \in 1..Len(entries) : accepted[k] = Promised(k)
    BY <2>0, <2>4 DEF TakenInv
  <2>6. accepted = [k \in 1..Len(accepted) |-> accepted[k]]
    BY <2>2
  <2>7. QED
    BY <2>4, <2>5, <2>6
<1>3. Inv /\ TakenInv /\ [Next]_vars => Inv' /\ TakenInv'
  BY InvStep, TakenStep
<1>4. QED
  BY <1>1, <1>2, <1>3, InvInit, PTL DEF Spec

-----------------------------------------------------------------------------
(***************************************************************************)
(* What the readers give.                                                  *)
(***************************************************************************)
\* The archive gives the files, one entry each.
Gives(A, files) ==
    /\ WellFormed(A) /\ Hdr(A).count = Len(files)
    /\ \A k \in 1..Len(files) :
           /\ IsFile(files[k])
           /\ EntryPath(A, IndexCells(A)[k]) = files[k].path
           /\ IndexCells(A)[k].size = files[k].size
           /\ EntryData(A, IndexCells(A)[k]) = files[k].data

LEMMA ExistsGiven ==
    ASSUME NEW A, NEW files, Gives(A, files), NEW p
    PROVE  FileExists(A, p) <=> \E k \in 1..Len(files) : files[k].path = p
<1>1. \A k \in 1..Len(files) : List(A)[k].path = files[k].path
  BY DEF Gives, List
<1>2. Hdr(A).count = Len(files)
  BY DEF Gives
<1>3. QED
  BY <1>1, <1>2 DEF FileExists

\* The file of a path, when no other has the path.
LEMMA FileGiven ==
    ASSUME NEW A, NEW files, Len(files) \in Nat, Gives(A, files), NEW k \in 1..Len(files),
           \A j \in 1..Len(files) : files[j].path = files[k].path => j = k
    PROVE  ExtractFile(A, files[k].path) = files[k].data
<1> DEFINE p == files[k].path
           hit(j) == EntryPath(A, IndexCells(A)[j]) = p
           first(j) == hit(j) /\ \A i \in 1..j - 1 : ~hit(i)
           n == Hdr(A).count
           c == CHOOSE j \in 1..n : first(j)
           e == IndexCells(A)[c]
           d == EntryData(A, e)
<1>1. FileExists(A, p)
  BY ExistsGiven
<1>2. n = Len(files) /\ \A j \in 1..n : hit(j) <=> j = k
  BY DEF Gives
<1>3. k \in 1..n /\ first(k)
  <2>1. \A i \in 1..k - 1 : i \in 1..n /\ i # k
    BY <1>2
  <2> HIDE DEF hit, n
  <2>2. QED
    BY <1>2, <2>1
<1>4. c \in 1..n /\ first(c)
  <2> HIDE DEF first, n
  <2>1. QED
    BY <1>3, Zenon
<1>5. c = k
  BY <1>2, <1>4
<1>6. d = files[k].data /\ Len(d) = e.size
  BY <1>5 DEF Gives, IsFile
<1>7. ExtractFile(A, p) = IF Len(d) = e.size THEN d ELSE NotExtracted
  BY <1>1 DEF ExtractFile
<1>8. QED
  BY <1>6, <1>7

\* What becomes of a directory: every file below it has a name of its own or
\* shares it with a later one.
Below(files, dir) == {k \in 1..Len(files) : StartsWith(files[k].path, dir) /\ Safe(files[k].path)}
NameOf(files, dir, k) == Target(files[k].path, dir)
Fitting(files, dir) ==
    \A i, k \in Below(files, dir) :
        /\ IsName(NameOf(files, dir, k))
        /\ NameOf(files, dir, i) \notin DirsOf(NameOf(files, dir, k))
LastUpTo(files, dir, m) ==
    {k \in Below(files, dir) : k <= m /\ \A i \in Below(files, dir) :
        i <= m /\ NameOf(files, dir, i) = NameOf(files, dir, k) => i <= k}
FilesOf(files, dir, K) ==
    {[file |-> NameOf(files, dir, k), data |-> files[k].data] : k \in K}
DirsUpTo(files, dir, m) ==
    UNION {DirsOf(NameOf(files, dir, k)) : k \in {i \in Below(files, dir) : i <= m}}

\* The loop of paf_extract_folder: what one entry adds to the tree.
NoTree == [dirs |-> {}, files |-> {}]
Grown(A, dir, k, tree) ==
    IF StartsWith(EntryPath(A, IndexCells(A)[k]), dir) /\ Safe(EntryPath(A, IndexCells(A)[k]))
    THEN Extracted(tree, Target(EntryPath(A, IndexCells(A)[k]), dir), Written(A, IndexCells(A)[k]))
    ELSE tree
GrownUpTo(A, dir, f, m) ==
    f = [k \in 0..m |-> IF k = 0 THEN NoTree ELSE Grown(A, dir, k, f[k - 1])]

LEMMA GrownExists == \A A, dir : \A m \in Nat : \E f : GrownUpTo(A, dir, f, m)
<1> SUFFICES ASSUME NEW A, NEW dir PROVE \A m \in Nat : \E f : GrownUpTo(A, dir, f, m)
  OBVIOUS
<1> DEFINE S == {m \in Nat : \E f : GrownUpTo(A, dir, f, m)}
<1>1. 0 \in S
  <2> DEFINE g == [j \in 0..0 |-> NoTree]
  <2>1. GrownUpTo(A, dir, g, 0)
    BY DEF GrownUpTo
  <2>2. QED
    BY <2>1
<1>2. ASSUME NEW m \in Nat, m \in S PROVE m + 1 \in S
  <2>1. PICK f : GrownUpTo(A, dir, f, m)
    BY <1>2
  <2> DEFINE g == [j \in 0..m + 1 |-> IF j = m + 1 THEN Grown(A, dir, j, f[m]) ELSE f[j]]
  <2>2. ASSUME NEW j \in 0..m + 1
        PROVE  g[j] = IF j = 0 THEN NoTree ELSE Grown(A, dir, j, g[j - 1])
    <3>1. CASE j = m + 1
      BY <3>1
    <3>2. CASE j # m + 1
      <4>1. j \in 0..m /\ g[j] = f[j] /\ (j # 0 => g[j - 1] = f[j - 1])
        BY <3>2
      <4>2. f[j] = IF j = 0 THEN NoTree ELSE Grown(A, dir, j, f[j - 1])
        BY <2>1, <4>1 DEF GrownUpTo
      <4> HIDE DEF g
      <4>3. QED
        BY <4>1, <4>2
    <3>3. QED
      BY <3>1, <3>2
  <2>3. g = [j \in 0..m + 1 |-> g[j]]
    OBVIOUS
  <2> HIDE DEF g
  <2>4. GrownUpTo(A, dir, g, m + 1)
    BY <2>2, <2>3 DEF GrownUpTo
  <2>5. QED
    BY <2>4
<1> HIDE DEF S
<1>3. \A m \in Nat : m \in S
  BY <1>1, <1>2, NatInductionOn
<1>4. QED
  BY <1>3 DEF S

\* An entry whose target is a name, no directory and in no file's place takes
\* the place of a file of that name.
LEMMA ExtractedGives ==
    ASSUME NEW dirs, NEW recs, NEW t, NEW d, IsName(t), t \notin dirs, t \notin DirsOf(t),
           \A r \in recs : r.file \notin DirsOf(t)
    PROVE  Extracted([dirs |-> dirs, files |-> recs], t, d) =
               [dirs  |-> dirs \union DirsOf(t),
                files |-> {r \in recs : r.file # t} \union {[file |-> t, data |-> d]}]
<1> DEFINE isFile(e) == \E r \in recs : r.file = e
           more == {e \in DirsOf(t) : \A x \in DirsOf(t) : Len(x) <= Len(e) => ~isFile(x)}
<1>1. more = DirsOf(t)
  OBVIOUS
<1> HIDE DEF more
<1>2. /\ IsName(t) /\ t \notin dirs \union more
      /\ DirsOf(t) \subseteq dirs \union more
  BY <1>1
<1>3. QED
  BY <1>1, <1>2 DEF Extracted, more

LEMMA TreeStep ==
    ASSUME NEW files, NEW dir, Fitting(files, dir), NEW m \in Nat,
           NEW k \in Below(files, dir), k = m + 1, Below(files, dir) \subseteq Nat
    PROVE  Extracted([dirs  |-> DirsUpTo(files, dir, m),
                      files |-> FilesOf(files, dir, LastUpTo(files, dir, m))],
                     NameOf(files, dir, k), files[k].data)
             = [dirs  |-> DirsUpTo(files, dir, m + 1),
                files |-> FilesOf(files, dir, LastUpTo(files, dir, m + 1))]
<1> DEFINE B == Below(files, dir)
           N(i) == NameOf(files, dir, i)
           t == N(k)
           dirs == DirsUpTo(files, dir, m)
           L == LastUpTo(files, dir, m)
           M == LastUpTo(files, dir, m + 1)
           recs == FilesOf(files, dir, L)
           new == [file |-> t, data |-> files[k].data]
<1>1. \A i, j \in B : IsName(N(j)) /\ N(i) \notin DirsOf(N(j))
  BY DEF Fitting
<1>2. k \in B /\ B \subseteq Nat /\ \A i \in B : i <= m + 1 <=> i <= m \/ i = k
  OBVIOUS
<1>3. L \subseteq B
  BY DEF LastUpTo
<1>4. t \notin dirs /\ t \notin DirsOf(t) /\ IsName(t)
  BY <1>1, <1>2 DEF DirsUpTo
<1>5. \A r \in recs : r.file \notin DirsOf(t)
  BY <1>1, <1>2, <1>3 DEF FilesOf
<1>6. Extracted([dirs |-> dirs, files |-> recs], t, files[k].data)
        = [dirs |-> dirs \union DirsOf(t), files |-> {r \in recs : r.file # t} \union {new}]
  <2> HIDE DEF t, dirs, recs
  <2>1. QED
    BY <1>4, <1>5, ExtractedGives
<1>7. dirs \union DirsOf(t) = DirsUpTo(files, dir, m + 1)
  BY <1>2 DEF DirsUpTo
<1>8. M = {i \in L : N(i) # t} \union {k}
  <2>1. ASSUME NEW i \in M PROVE i = k \/ (i \in L /\ N(i) # t)
    BY <1>2 DEF LastUpTo
  <2>2. ASSUME NEW i \in L, N(i) # t PROVE i \in M
    <3>1. /\ i \in B /\ i <= m /\ i <= m + 1
          /\ \A j \in B : j <= m /\ N(j) = N(i) => j <= i
      BY <1>2, <2>2 DEF LastUpTo
    <3>2. \A j \in B : j <= m + 1 /\ N(j) = N(i) => j <= i
      BY <1>2, <2>2, <3>1
    <3>3. QED
      BY <3>1, <3>2 DEF LastUpTo
  <2>3. k \in M
    BY <1>2 DEF LastUpTo
  <2>4. QED
    BY <2>1, <2>2, <2>3
<1>9. {r \in recs : r.file # t} \union {new} = FilesOf(files, dir, M)
  <2> HIDE DEF L, M
  <2>1. {r \in recs : r.file # t} = FilesOf(files, dir, {i \in L : N(i) # t})
    BY DEF FilesOf
  <2>2. FilesOf(files, dir, {i \in L : N(i) # t} \union {k})
          = FilesOf(files, dir, {i \in L : N(i) # t}) \union {new}
    BY DEF FilesOf
  <2>3. QED
    BY <1>8, <2>1, <2>2
<1>10. QED
  BY <1>6, <1>7, <1>9

LEMMA TreeGives ==
    ASSUME NEW A, NEW files, Len(files) \in Nat, Gives(A, files), NEW dir, Fitting(files, dir),
           NEW f, GrownUpTo(A, dir, f, Len(files))
    PROVE  f[Len(files)].files = FilesOf(files, dir, LastUpTo(files, dir, Len(files)))
<1> DEFINE n == Len(files)
           Tree(m) == [dirs  |-> DirsUpTo(files, dir, m),
                       files |-> FilesOf(files, dir, LastUpTo(files, dir, m))]
           S == {m \in Nat : m <= n => f[m] = Tree(m)}
<1>1. n \in Nat /\ Below(files, dir) \subseteq 1..n
  BY DEF Below
<1>2. \A k \in 1..n : /\ EntryPath(A, IndexCells(A)[k]) = files[k].path
                      /\ Written(A, IndexCells(A)[k]) = files[k].data
  BY DEF Gives, IsFile, Written
<1>3. \A k \in 0..n : f[k] = IF k = 0 THEN NoTree ELSE Grown(A, dir, k, f[k - 1])
  BY DEF GrownUpTo
<1> HIDE DEF n
<1>4. 0 \in S
  <2>1. f[0] = NoTree
    BY <1>1, <1>3
  <2>2. \A i \in Below(files, dir) : ~(i <= 0)
    BY <1>1
  <2>3. DirsUpTo(files, dir, 0) = {} /\ LastUpTo(files, dir, 0) = {}
    BY <2>2 DEF DirsUpTo, LastUpTo
  <2>4. FilesOf(files, dir, {}) = {}
    BY DEF FilesOf
  <2>5. QED
    BY <2>1, <2>3, <2>4 DEF NoTree
<1>5. ASSUME NEW m \in Nat, m \in S PROVE m + 1 \in S
  <2>1. SUFFICES ASSUME m + 1 <= n PROVE f[m + 1] = Tree(m + 1)
    OBVIOUS
  <2> DEFINE k == m + 1
  <2>2. k \in 1..n /\ k \in 0..n /\ k # 0 /\ k - 1 = m
    BY <1>1, <2>1
  <2>3. f[m] = Tree(m)
    BY <1>1, <1>5, <2>1
  <2> HIDE DEF k
  <2>4. f[k] = Grown(A, dir, k, Tree(m))
    BY <1>3, <2>2, <2>3
  <2>5. f[k] = IF k \in Below(files, dir)
               THEN Extracted(Tree(m), NameOf(files, dir, k), files[k].data) ELSE Tree(m)
    <3> HIDE DEF Tree
    <3>1. QED
      BY <1>2, <2>2, <2>4 DEF Grown, Below, NameOf, n
  <2>6. CASE k \in Below(files, dir)
    <3>1. Below(files, dir) \subseteq Nat
      BY <1>1
    <3>2. QED
      BY <2>5, <2>6, <3>1, TreeStep DEF k
  <2>7. CASE k \notin Below(files, dir)
    <3>1. \A i \in Below(files, dir) : i <= m + 1 <=> i <= m
      BY <1>1, <2>7 DEF k
    <3>2. /\ DirsUpTo(files, dir, m + 1) = DirsUpTo(files, dir, m)
          /\ LastUpTo(files, dir, m + 1) = LastUpTo(files, dir, m)
      BY <3>1 DEF DirsUpTo, LastUpTo
    <3>3. QED
      BY <2>5, <2>7, <3>2 DEF k
  <2>8. QED
    BY <2>6, <2>7
<1> HIDE DEF S
<1>6. n \in S
  BY <1>1, <1>4, <1>5, NatInductionOn
<1>7. f[n] = Tree(n)
  BY <1>1, <1>6 DEF S
<1>8. QED
  BY <1>7 DEF n

\* A directory of a path that is found is one, and what its name begins.
LEMMA FolderGiven ==
    ASSUME NEW A, NEW files, Len(files) \in Nat, Gives(A, files),
           NEW p \in Seq(CharSet), FileExists(A, p), NEW j \in 1..Len(p) - 1, p[j] = Slash,
           p[1] # Slash, NEW dir, dir = SubSeq(p, 1, j - 1), Fitting(files, dir)
    PROVE  ExtractFolder(A, dir) = FilesOf(files, dir, LastUpTo(files, dir, Len(files)))
<1>1. Len(p) \in Nat /\ j - 1 \in Nat /\ j \in Nat /\ j # 1
  BY LenProperties
<1>2. dir \in Seq(CharSet) /\ Len(dir) = j - 1 /\ \A i \in 1..j - 1 : dir[i] = p[i]
  <2> DEFINE s == SubSeq(p, 1, j - 1)
  <2>1. \A i \in 1..j - 1 : p[i] \in CharSet
    BY <1>1
  <2>2. 1 \in Int /\ j - 1 \in Int
    BY <1>1
  <2>3. /\ SubSeq(p, 1, j - 1) \in Seq(CharSet)
        /\ Len(SubSeq(p, 1, j - 1)) = IF 1 <= j - 1 THEN j - 1 - 1 + 1 ELSE 0
        /\ \A i \in 1..j - 1 - 1 + 1 : SubSeq(p, 1, j - 1)[i] = p[1 + i - 1]
    BY <2>1, <2>2, SubSeqProperties
  <2>4. s = dir
    OBVIOUS
  <2> HIDE DEF s
  <2>5. s \in Seq(CharSet) /\ Len(s) = j - 1
    BY <1>1, <2>3 DEF s
  <2>6. ASSUME NEW i \in 1..j - 1 PROVE s[i] = p[i]
    <3>1. i \in 1..j - 1 - 1 + 1 /\ 1 + i - 1 = i
      BY <1>1
    <3>2. QED
      BY <2>3, <3>1 DEF s
  <2>7. QED
    BY <2>4, <2>5, <2>6
<1>3. StartsWith(p, dir \o <<Slash>>)
  <2> DEFINE t == dir \o <<Slash>>
             one == <<Slash>>
  <2>1. Slash \in CharSet
    BY DEF Slash, Char, CharSet
  <2>2. one \in Seq(CharSet) /\ Len(one) = 1 /\ one[1] = Slash
    BY <2>1
  <2> HIDE DEF one
  <2>3. /\ dir \o one \in Seq(CharSet) /\ Len(dir \o one) = Len(dir) + Len(one)
        /\ \A i \in 1..Len(dir) + Len(one) :
              (dir \o one)[i] = IF i <= Len(dir) THEN dir[i] ELSE one[i - Len(dir)]
    BY <1>2, <2>2, ConcatProperties, ZenonT(60)
  <2>4. t = dir \o one
    BY DEF one
  <2> HIDE DEF t
  <2>5. t \in Seq(CharSet) /\ Len(t) = j
    BY <1>1, <1>2, <2>2, <2>3, <2>4
  <2>6. ASSUME NEW i \in 1..Len(t) PROVE p[0 + i] = t[i]
    <3>1. i \in 1..Len(dir) + Len(one) /\ t[i] = IF i <= Len(dir) THEN dir[i] ELSE one[i - Len(dir)]
      BY <2>3, <2>4
    <3>2. CASE i <= j - 1
      <4>1. i \in 1..j - 1 /\ 0 + i = i
        BY <1>1, <3>2
      <4>2. QED
        BY <1>2, <3>1, <3>2, <4>1
    <3>3. CASE i = j
      <4>1. ~(i <= Len(dir)) /\ i - Len(dir) = 1 /\ 0 + i = j
        BY <1>1, <1>2, <3>3
      <4>2. QED
        BY <2>2, <3>1, <4>1
    <3>4. QED
      BY <1>1, <2>5, <3>2, <3>3
  <2>7. SubSeq(p, 0 + 1, 0 + Len(t)) = t
    BY <2>5, <2>6, AtIsRead
  <2>8. 0 + 1 = 1 /\ 0 + Len(t) = Len(t) /\ Len(t) <= Len(p)
    BY <1>1, <2>5
  <2>9. QED
    BY <2>7, <2>8 DEF StartsWith, t
<1>4. FolderExists(A, dir)
  <2>1. dir # <<>>
    <3>1. Len(dir) # 0
      BY <1>1, <1>2
    <3>2. QED
      BY <3>1, EmptySeq
  <2>2. PICK k \in 1..Len(files) : files[k].path = p
    BY ExistsGiven
  <2>3. k \in 1..Hdr(A).count /\ List(A)[k].path = p
    BY <2>2 DEF Gives, List
  <2>4. QED
    BY <1>3, <2>1, <2>3 DEF FolderExists
<1> DEFINE n == Hdr(A).count
           f == CHOOSE f : GrownUpTo(A, dir, f, n)
<1>5. n = Len(files)
  BY DEF Gives
<1>6. GrownUpTo(A, dir, f, n)
  <2>1. \E g : GrownUpTo(A, dir, g, n)
    BY <1>5, GrownExists
  <2>2. QED
    BY <2>1, Zenon
<1>7. ExtractFolder(A, dir) = f[n].files
  BY <1>4, Zenon DEF ExtractFolder, GrownUpTo, Grown, NoTree
<1> HIDE DEF f, n
<1>8. QED
  BY <1>5, <1>6, <1>7, TreeGives

\* Two files that agree behind the header are read alike behind it.
LEMMA ReadAlike ==
    ASSUME NEW T, NEW A \in Seq(T), NEW X \in Seq(T), Len(X) = Len(A),
           \A i \in 2..Len(A) : X[i] = A[i], NEW o \in Nat \ {0}, NEW n \in Nat
    PROVE  Read(X, o, n) = Read(A, o, n)
<1> DEFINE b == MinOf(o + n, Len(A))
<1>1. Len(A) \in Nat
  BY LenProperties
<1>2. b \in Nat /\ b <= Len(A)
  BY <1>1 DEF MinOf
<1>3. Read(X, o, n) = SubSeq(X, o + 1, b) /\ Read(A, o, n) = SubSeq(A, o + 1, b)
  BY DEF Read
<1> HIDE DEF b
<1>4. \A i \in o + 1..b : i \in 2..Len(A) /\ i \in 1..Len(A)
  BY <1>1, <1>2
<1>5. (\A i \in o + 1..b : X[i] \in T) /\ (\A i \in o + 1..b : A[i] \in T)
  BY <1>4
<1>6. o + 1 \in Int /\ b \in Int
  BY <1>2
<1>7. /\ SubSeq(X, o + 1, b) \in Seq(T)
      /\ Len(SubSeq(X, o + 1, b)) = IF o + 1 <= b THEN b - (o + 1) + 1 ELSE 0
      /\ \A i \in 1..b - (o + 1) + 1 : SubSeq(X, o + 1, b)[i] = X[o + 1 + i - 1]
  BY <1>5, <1>6, SubSeqProperties
<1>8. /\ SubSeq(A, o + 1, b) \in Seq(T)
      /\ Len(SubSeq(A, o + 1, b)) = IF o + 1 <= b THEN b - (o + 1) + 1 ELSE 0
      /\ \A i \in 1..b - (o + 1) + 1 : SubSeq(A, o + 1, b)[i] = A[o + 1 + i - 1]
  BY <1>5, <1>6, SubSeqProperties
<1> DEFINE x == SubSeq(X, o + 1, b)
           a == SubSeq(A, o + 1, b)
<1>9. ASSUME NEW i \in 1..Len(x) PROVE x[i] = a[i]
  <2>1. o + 1 <= b /\ i \in 1..b - (o + 1) + 1
    BY <1>2, <1>7
  <2>2. o + 1 + i - 1 \in o + 1..b
    BY <1>2, <2>1
  <2>3. X[o + 1 + i - 1] = A[o + 1 + i - 1]
    BY <1>4, <2>2
  <2>4. QED
    BY <1>7, <1>8, <2>1, <2>3
<1>10. x \in Seq(T) /\ a \in Seq(T) /\ Len(x) = Len(a)
  BY <1>7, <1>8
<1> HIDE DEF x, a
<1>11. x = a
  BY <1>9, <1>10, SeqEqual
<1>12. QED
  BY <1>3, <1>11 DEF x, a

\* A file whose parts are behind the header.
InOrder(A) ==
    /\ WellFormed(A) /\ DOMAIN Hdr(A) = HeaderFields
    /\ Hdr(A).count \in Nat /\ Hdr(A).indexOff \in Nat \ {0} /\ Hdr(A).pathOff \in Nat \ {0}
    /\ \A k \in 1..Hdr(A).count :
           IndexCells(A)[k].pathOff \in Nat /\ IndexCells(A)[k].pathLen \in Nat

\* If it is exported to its end, or has no entries, nothing is lost.
LEMMA ExportGives ==
    ASSUME NEW T, NEW A \in Seq(T), InOrder(A),
           Hdr(A).count # 0 => ExportEnd(A) = Len(A)
    PROVE  WellFormed(ExportIndex(A)) /\ List(ExportIndex(A)) = List(A)
<1> DEFINE H == Hdr(A)
           G == [Hdr(A) EXCEPT !.indexOnly = TRUE]
           X == ExportIndex(A)
           R == Read(A, HeaderSize, ExportEnd(A) - HeaderSize)
           U == T \union {G}
           n == H.count
<1>1. /\ G.kind = H.kind /\ G.count = H.count /\ G.indexOff = H.indexOff /\ G.pathOff = H.pathOff
  BY DEF InOrder, HeaderFields
<1>2. /\ Len(A) \in Nat /\ Len(A) >= 1 /\ H.kind = "header" /\ Len(IndexCells(A)) = n
      /\ n \in Nat /\ H.indexOff \in Nat \ {0} /\ H.pathOff \in Nat \ {0}
      /\ \A k \in 1..n : IndexCells(A)[k].kind = "entry"
      /\ \A k \in 1..n : IndexCells(A)[k].pathOff \in Nat /\ IndexCells(A)[k].pathLen \in Nat
  BY LenProperties DEF InOrder, WellFormed, Readable, HeaderSize
<1>3. X = <<G>> \o R
  BY DEF ExportIndex
<1>4. A \in Seq(U)
  BY SeqMonotonic
<1> DEFINE g == <<G>>
<1>5. g \in Seq(U) /\ Len(g) = 1 /\ g[1] = G
  OBVIOUS
<1> HIDE DEF G, H, X, U, n, g
<1>6. ASSUME n # 0
      PROVE  /\ X \in Seq(U) /\ Len(X) = Len(A) /\ X[1] = G
             /\ \A i \in 2..Len(A) : X[i] = A[i]
  <2> DEFINE m == Len(A)
  <2>1. R = SubSeq(A, 2, m)
    <3>1. ExportEnd(A) = m
      BY <1>6 DEF n, H
    <3>2. MinOf(1 + (m - 1), m) = m /\ 1 + 1 = 2
      BY <1>2 DEF MinOf
    <3>3. QED
      BY <3>1, <3>2 DEF Read, HeaderSize
  <2>2. \A i \in 2..m : A[i] \in U
    BY <1>2, <1>4
  <2>3. 2 \in Int /\ m \in Int
    BY <1>2
  <2>4. /\ SubSeq(A, 2, m) \in Seq(U)
        /\ Len(SubSeq(A, 2, m)) = IF 2 <= m THEN m - 2 + 1 ELSE 0
        /\ \A i \in 1..m - 2 + 1 : SubSeq(A, 2, m)[i] = A[2 + i - 1]
    BY <2>2, <2>3, SubSeqProperties
  <2> HIDE DEF R
  <2>5. R \in Seq(U) /\ Len(R) = m - 1 /\ \A i \in 1..m - 1 : R[i] = A[i + 1]
    <3>1. Len(R) = m - 1
      <4>1. Len(R) = IF 2 <= m THEN m - 2 + 1 ELSE 0
        BY <2>1, <2>4
      <4>2. m \in Nat /\ m >= 1
        BY <1>2
      <4> HIDE DEF m
      <4>3. QED
        BY <4>1, <4>2
    <3>2. ASSUME NEW i \in 1..m - 1 PROVE R[i] = A[i + 1]
      <4>1. i \in 1..m - 2 + 1 /\ 2 + i - 1 = i + 1
        BY <1>2
      <4>2. QED
        BY <2>1, <2>4, <4>1
    <3>3. QED
      BY <2>1, <2>4, <3>1, <3>2
  <2>6. /\ g \o R \in Seq(U) /\ Len(g \o R) = Len(g) + Len(R)
        /\ \A i \in 1..Len(g) + Len(R) : (g \o R)[i] = IF i <= Len(g) THEN g[i] ELSE R[i - Len(g)]
    BY <1>5, <2>5, ConcatProperties, ZenonT(60)
  <2>7. X = g \o R
    BY <1>3 DEF g
  <2>8. Len(g) + Len(R) = m
    BY <1>2, <1>5, <2>5
  <2>9. X[1] = G
    <3>1. 1 \in 1..Len(g) + Len(R) /\ 1 <= Len(g)
      BY <1>2, <1>5, <2>8
    <3>2. QED
      BY <1>5, <2>6, <2>7, <3>1
  <2>10. ASSUME NEW i \in 2..m PROVE X[i] = A[i]
    <3>1. i \in 1..Len(g) + Len(R) /\ ~(i <= Len(g)) /\ i - Len(g) = i - 1
      BY <1>2, <1>5, <2>8
    <3>2. i - 1 \in 1..m - 1 /\ i - 1 + 1 = i
      BY <1>2
    <3>3. X[i] = R[i - 1]
      BY <2>6, <2>7, <3>1
    <3>4. R[i - 1] = A[i - 1 + 1]
      BY <2>5, <3>2
    <3>5. QED
      BY <3>2, <3>3, <3>4
  <2>11. X \in Seq(U) /\ Len(X) = m
    BY <2>6, <2>7, <2>8
  <2>12. QED
    BY <2>9, <2>10, <2>11
<1>7. CASE n # 0
  <2>1. Hdr(X) = G
    BY <1>6, <1>7 DEF Hdr
  <2>2. \A o \in Nat \ {0}, l \in Nat : Read(X, o, l) = Read(A, o, l)
    BY <1>4, <1>6, <1>7, ReadAlike
  <2>3. IndexCells(X) = IndexCells(A)
    <3>1. H.count * EntrySize \in Nat
      BY <1>2 DEF EntrySize, n
    <3>2. QED
      BY <1>1, <1>2, <2>1, <2>2, <3>1 DEF IndexCells, H
  <2>4. ASSUME NEW k \in 1..n
        PROVE  EntryPath(X, IndexCells(X)[k]) = EntryPath(A, IndexCells(A)[k])
    <3> DEFINE o == H.pathOff + IndexCells(A)[k].pathOff
               l == IndexCells(A)[k].pathLen
    <3>1. o \in Nat \ {0} /\ l \in Nat
      BY <1>2
    <3>2. Hdr(X).pathOff + IndexCells(X)[k].pathOff = o /\ IndexCells(X)[k].pathLen = l
      BY <1>1, <2>1, <2>3
    <3> HIDE DEF o, l
    <3>3. Read(X, o, l) = Read(A, o, l)
      BY <2>2, <3>1
    <3>4. QED
      BY <3>2, <3>3 DEF EntryPath, H, o, l
  <2>5. Hdr(X).count = n /\ Hdr(A).count = n
    BY <1>1, <2>1 DEF n, H
  <2>6. List(X) = List(A)
    BY <2>3, <2>4, <2>5 DEF List
  <2>7. WellFormed(X)
    BY <1>1, <1>2, <1>6, <1>7, <2>1, <2>3, <2>5 DEF WellFormed, Readable, HeaderSize
  <2>8. QED
    BY <2>6, <2>7 DEF X
<1>8. CASE n = 0
  <2>1. R = <<>>
    <3>1. ExportEnd(A) = 1
      BY <1>8 DEF ExportEnd, HeaderSize, n, H
    <3>2. MinOf(1 + (1 - 1), Len(A)) = 1
      <4> DEFINE m == Len(A)
      <4>1. m \in Nat /\ m >= 1
        BY <1>2
      <4> HIDE DEF m
      <4>2. MinOf(1 + (1 - 1), m) = 1
        BY <4>1 DEF MinOf
      <4>3. QED
        BY <4>2 DEF m
    <3>3. R = SubSeq(A, 1 + 1, 1)
      BY <3>1, <3>2 DEF Read, HeaderSize
    <3>4. QED
      BY <3>3, SubSeqEmpty
  <2>2. X = g
    <3> HIDE DEF R
    <3>1. QED
      BY <1>3, <1>5, <2>1, ConcatEmptySeq DEF g
  <2>3. Hdr(X) = G /\ Len(X) = 1
    BY <1>5, <2>2 DEF Hdr
  <2>4. Hdr(X).count = 0 /\ Hdr(A).count = 0 /\ Hdr(X).kind = "header"
    BY <1>1, <1>2, <1>8, <2>3 DEF n, H
  <2>5. IndexCells(X) = <<>>
    <3> DEFINE o == H.indexOff
               b == MinOf(o + 0 * EntrySize, Len(X))
    <3>1. o \in Nat \ {0}
      BY <1>2
    <3>2. o + 1 \in Int /\ b \in Int /\ b < o + 1
      BY <2>3, <3>1 DEF MinOf, EntrySize
    <3>3. IndexCells(X) = SubSeq(X, o + 1, b)
      BY <1>1, <2>3, <2>4 DEF IndexCells, Read
    <3> HIDE DEF b, o
    <3>4. QED
      BY <3>2, <3>3, SubSeqEmpty
  <2>6. WellFormed(X)
    BY <2>3, <2>4, <2>5, EmptySeq DEF WellFormed, Readable, HeaderSize
  <2>7. List(X) = List(A)
    BY <2>4 DEF List
  <2>8. QED
    BY <2>6, <2>7 DEF X
<1>9. QED
  BY <1>7, <1>8

\* In what the generator wrote, the last path is the end of the file.
LEMMA ArchiveExports ==
    ASSUME NEW g, GenOK(g), WellFormed(Archive(g))
    PROVE  WellFormed(ExportIndex(Archive(g))) /\ List(ExportIndex(Archive(g))) = List(Archive(g))
<1> DEFINE A == Archive(g)
           n == Len(g.index)
           d == g.dataOff
           p == Len(g.paths)
<1>1. PICK T : A \in Seq(T) /\ PartsOf(A, g)
  BY ArchiveParts
<1>2. WellFormed(A)
  OBVIOUS
<1> HIDE DEF A
<1>3. n \in Nat /\ d \in Nat /\ p \in Nat
  BY LenProperties DEF GenOK
<1>4. /\ Len(A) = 1 + d + n + p
      /\ DOMAIN Hdr(A) = HeaderFields /\ Hdr(A).count = n
      /\ Hdr(A).indexOff = 1 + d /\ Hdr(A).pathOff = 1 + d + n
      /\ IndexCells(A) = g.index
  BY <1>1 DEF PartsOf
<1>5. \A k \in 1..n : g.index[k].pathOff \in Nat /\ g.index[k].pathLen \in Nat
  <2>1. \A k \in 1..n : g.index[k] \in EntryCell
    BY ElementOfSeq DEF GenOK
  <2>2. QED
    BY <2>1 DEF EntryCell
<1>6. n # 0 => g.index[n].pathOff + g.index[n].pathLen = p
  BY EmptySeq DEF GenOK, EndsWithLast
<1> HIDE DEF n, d, p
<1>7. InOrder(A)
  <2>1. 1 + d \in Nat \ {0} /\ 1 + d + n \in Nat \ {0}
    BY <1>3
  <2>2. QED
    BY <1>2, <1>3, <1>4, <1>5, <2>1 DEF InOrder
<1>8. ASSUME n # 0 PROVE ExportEnd(A) = Len(A)
  <2> DEFINE e == g.index[n]
             a == e.pathOff
             l == e.pathLen
  <2>1. PathEnd(A) = 1 + d + n + a + l
    BY <1>4 DEF PathEnd
  <2>2. a \in Nat /\ l \in Nat /\ a + l = p
    <3>1. n \in 1..n
      BY <1>3, <1>8
    <3>2. QED
      BY <1>5, <1>6, <1>8, <3>1
  <2>3. IndexEnd(A) = 1 + d + n * EntrySize
    BY <1>4 DEF IndexEnd
  <2> HIDE DEF a, l, e
  <2>4. PathEnd(A) = 1 + d + n + p /\ IndexEnd(A) = 1 + d + n
    BY <1>3, <2>1, <2>2, <2>3 DEF EntrySize
  <2>5. ~(1 + d + n > 1 + d + n + p)
    BY <1>3
  <2>6. ExportEnd(A) = PathEnd(A)
    BY <1>4, <1>8, <2>4, <2>5 DEF ExportEnd
  <2>7. QED
    BY <1>4, <2>4, <2>6
<1>9. WellFormed(ExportIndex(A)) /\ List(ExportIndex(A)) = List(A)
  BY <1>1, <1>4, <1>7, <1>8, ExportGives
<1>10. QED
  BY <1>9 DEF A

-----------------------------------------------------------------------------
(***************************************************************************)
(* Under one root no path is there twice.                                  *)
(***************************************************************************)
NamedOnce(s) == \A i, j \in 1..Len(s) : s[i].path = s[j].path => i = j

LEMMA OnceMore ==
    ASSUME NEW S, NEW s \in Seq(S), NEW x \in S, NamedOnce(s),
           \A i \in 1..Len(s) : s[i].path # x.path
    PROVE  NamedOnce(Append(s, x))
<1> DEFINE t == Append(s, x)
           n == Len(s)
<1>1. /\ n \in Nat /\ Len(t) = n + 1 /\ t[n + 1] = x /\ \A i \in 1..n : t[i] = s[i]
  BY AppendProperties, LenProperties
<1>2. \A i \in 1..n + 1 : i \in 1..n \/ i = n + 1
  BY <1>1
<1> HIDE DEF t
<1>3. \A i \in 1..n : s[i].path # x.path /\ \A j \in 1..n : s[i].path = s[j].path => i = j
  BY DEF NamedOnce
<1> HIDE DEF n
<1>4. QED
  BY <1>1, <1>2, <1>3 DEF NamedOnce, t

\* Of the candidates of one root, no path is collected twice.
LEMMA CollectedOnce ==
    ASSUME disk \in [RootSet -> [PathSet -> Nat \union {Missing}]], Len(Roots) = 1
    PROVE  NamedOnce(Collected)
<1> DEFINE f == CHOOSE f : CollectedUpTo(f, Candidates)
           C == Candidates
           n == Len(Paths)
<1>1. CollectedUpTo(f, C)
  <2>1. \E g : CollectedUpTo(g, C)
    BY CandidateOK, CollectedExists
  <2>2. QED
    BY <2>1, Zenon
<1>2. Collected = f[C]
  BY Zenon DEF Collected, CollectedUpTo, Found
<1>3. n \in Nat
  BY RootAssumption, LenProperties
<1>4. C = n
  BY <1>3 DEF Candidates
<1>5. ASSUME NEW k \in 1..n PROVE PathOf(k) = Paths[k]
  <2>1. n \in Nat \ {0} /\ k - 1 \in 0..n - 1
    BY <1>3
  <2> HIDE DEF n
  <2>2. (k - 1) % n = k - 1
    BY <2>1
  <2>3. ((k - 1) % n) + 1 = k
    BY <2>2
  <2>4. QED
    BY <2>3 DEF PathOf, n
<1>6. \A i, j \in 1..n : Paths[i] = Paths[j] => i = j
  BY RootAssumption
<1> HIDE DEF f, C, n
<1> DEFINE Within(s, m) ==
               /\ s \in Seq([root : {RootOf(k) : k \in 1..n}, path : {Paths[k] : k \in 1..n}, size : Nat])
               /\ \A i \in 1..Len(s) : \E q \in 1..m : s[i].path = Paths[q]
           S == {m \in Nat : m <= n => Within(f[m], m) /\ NamedOnce(f[m])}
<1>7. 0 \in S
  <2>1. f[0] = <<>>
    BY <1>1, <1>3, <1>4 DEF CollectedUpTo
  <2>2. Len(f[0]) = 0
    BY <2>1, EmptySeq
  <2>3. f[0] \in Seq([root : {RootOf(k) : k \in 1..n}, path : {Paths[k] : k \in 1..n}, size : Nat])
    BY <2>1, EmptySeq
  <2>4. QED
    BY <2>2, <2>3 DEF NamedOnce
<1>8. ASSUME NEW m \in Nat, m \in S PROVE m + 1 \in S
  <2> HIDE DEF Within
  <2>1. SUFFICES ASSUME m + 1 <= n PROVE Within(f[m + 1], m + 1) /\ NamedOnce(f[m + 1])
    OBVIOUS
  <2> USE DEF Within
  <2> DEFINE k == m + 1
             z == disk[RootOf(k)][PathOf(k)]
             x == [root |-> RootOf(k), path |-> PathOf(k), size |-> z % Word32]
             E == [root : {RootOf(q) : q \in 1..n}, path : {Paths[q] : q \in 1..n}, size : Nat]
  <2>2. Within(f[m], m) /\ NamedOnce(f[m])
    BY <1>3, <1>8, <2>1
  <2>3. k \in 1..n /\ k \in 0..n /\ k # 0 /\ k - 1 = m
    BY <1>3, <2>1
  <2>4. f[k] = IF z = Missing THEN f[m] ELSE Append(f[m], x)
    <3> HIDE DEF k
    <3>1. f[k] = Found(k, f[m])
      BY <1>1, <1>4, <2>3 DEF CollectedUpTo
    <3>2. QED
      BY <3>1 DEF Found
  <2>5. z \in Nat \union {Missing}
    <3>1. RootOf(k) \in RootSet /\ PathOf(k) \in PathSet
      BY <1>4, <2>3, CandidateOK DEF C
    <3>2. QED
      BY <3>1
  <2>6. PathOf(k) = Paths[k]
    BY <1>5, <2>3
  <2>7. f[m] \in Seq(E) /\ Len(f[m]) \in Nat
    BY <2>2, LenProperties
  <2>8. CASE z = Missing
    <3>1. \A q \in 1..m : q \in 1..k
      BY <2>3
    <3> HIDE DEF k
    <3>2. QED
      BY <2>2, <2>4, <2>8, <3>1 DEF k
  <2>9. CASE z # Missing
    <3>1. z % Word32 \in Nat
      BY <2>5, <2>9, BatchAssumption
    <3> HIDE DEF z
    <3>2. x \in E /\ x.path = Paths[k]
      BY <2>3, <2>6, <3>1
    <3> HIDE DEF x
    <3>3. ASSUME NEW i \in 1..Len(f[m]) PROVE f[m][i].path # x.path
      <4>1. PICK q \in 1..m : f[m][i].path = Paths[q]
        BY <2>2
      <4>2. q \in 1..n /\ q # k
        BY <1>3, <2>1
      <4>3. QED
        BY <1>6, <2>3, <3>2, <4>1, <4>2
    <3> HIDE DEF E
    <3>4. NamedOnce(Append(f[m], x))
      BY <2>2, <2>7, <3>2, <3>3, OnceMore
    <3>5. /\ Append(f[m], x) \in Seq(E) /\ Len(Append(f[m], x)) = Len(f[m]) + 1
          /\ Append(f[m], x)[Len(f[m]) + 1] = x
          /\ \A i \in 1..Len(f[m]) : Append(f[m], x)[i] = f[m][i]
      BY <2>7, <3>2, AppendProperties
    <3>6. ASSUME NEW i \in 1..Len(Append(f[m], x))
          PROVE  \E q \in 1..k : Append(f[m], x)[i].path = Paths[q]
      <4>1. CASE i = Len(f[m]) + 1
        <5>1. k \in 1..k
          BY <2>3
        <5>2. QED
          BY <3>2, <3>5, <4>1, <5>1
      <4>2. CASE i # Len(f[m]) + 1
        <5>1. i \in 1..Len(f[m])
          BY <2>7, <3>5, <4>2
        <5>2. PICK q \in 1..m : f[m][i].path = Paths[q]
          BY <2>2, <5>1
        <5>3. q \in 1..k
          BY <2>3
        <5>4. QED
          BY <3>5, <5>1, <5>2, <5>3
      <4>3. QED
        BY <4>1, <4>2
    <3>7. QED
      BY <2>4, <2>9, <3>4, <3>5, <3>6 DEF E
  <2>10. QED
    BY <2>8, <2>9
<1>9. n \in S
  <2> HIDE DEF S
  <2>1. QED
    BY <1>3, <1>7, <1>8, NatInductionOn
<1>10. QED
  BY <1>2, <1>3, <1>4, <1>9

\* No path is in the list twice, and what was handed over is from the part of
\* the list that was gone through.
NamesInv ==
    /\ NamedOnce(entries) /\ NamedOnce(accepted)
    /\ pc = "collect" => accepted = <<>>
    /\ \A k \in 1..Len(accepted) :
           \E i \in 1..Len(entries) : i <= Taken /\ accepted[k].path = entries[i].path

LEMMA NamesStay ==
    ASSUME Inv, NamesInv, UNCHANGED <<entries, accepted>>, pc' # "collect",
           Taken \in Nat, Taken' \in Nat, Taken <= Taken'
    PROVE  NamesInv'
<1>1. ASSUME NEW k \in 1..Len(accepted)
      PROVE  \E i \in 1..Len(entries) : i <= Taken' /\ accepted[k].path = entries[i].path
  <2>1. PICK i \in 1..Len(entries) : i <= Taken /\ accepted[k].path = entries[i].path
    BY DEF NamesInv
  <2>2. i \in Nat /\ i <= Taken'
    <3>1. i \in Nat
      BY LenProperties DEF Inv, Inputs
    <3> DEFINE t == Taken
               u == Taken'
    <3>2. t \in Nat /\ u \in Nat /\ t <= u /\ i <= t
      BY <2>1
    <3> HIDE DEF t, u
    <3>3. i <= u
      BY <3>1, <3>2
    <3>4. QED
      BY <3>1, <3>3 DEF u
  <2>3. QED
    BY <2>1, <2>2
<1>2. QED
  BY <1>1 DEF NamesInv, NamedOnce

\* A file that is handed over is the next, and none before had its path.
LEMMA NameTaken ==
    ASSUME Inv, NamesInv, ~Pending, next <= Len(entries), entries' = entries, pc' # "collect",
           NEW x \in File, x.path = Entry.path, accepted' = Append(accepted, x), Taken' = next
    PROVE  NamesInv'
<1>1. /\ next \in 1..Len(entries) /\ Len(entries) \in Nat /\ Taken = next - 1
      /\ accepted \in Seq(File) /\ entries[next] = Entry
  BY LenProperties DEF Inv, Inputs, Control, Taken, Entry
<1>2. ASSUME NEW k \in 1..Len(accepted)
      PROVE  \E i \in 1..Len(entries) : i <= next - 1 /\ accepted[k].path = entries[i].path
  BY <1>1 DEF NamesInv
<1>3. ASSUME NEW k \in 1..Len(accepted) PROVE accepted[k].path # x.path
  <2>1. PICK i \in 1..Len(entries) : i <= next - 1 /\ accepted[k].path = entries[i].path
    BY <1>2
  <2>2. i # next
    BY <1>1, <2>1
  <2>3. entries[i].path # entries[next].path
    BY <1>1, <2>2 DEF NamesInv, NamedOnce
  <2>4. QED
    BY <1>1, <2>1, <2>3
<1>4. NamedOnce(accepted')
  <2>1. NamedOnce(accepted)
    BY DEF NamesInv
  <2>2. NamedOnce(Append(accepted, x))
    BY <1>1, <1>3, <2>1, OnceMore
  <2>3. QED
    BY <2>2
<1>5. /\ Len(accepted') = Len(accepted) + 1 /\ Len(accepted) \in Nat
      /\ accepted'[Len(accepted) + 1] = x
      /\ \A k \in 1..Len(accepted) : accepted'[k] = accepted[k]
  BY <1>1, AppendProperties, LenProperties
<1>6. ASSUME NEW k \in 1..Len(accepted')
      PROVE  \E i \in 1..Len(entries) : i <= next /\ accepted'[k].path = entries[i].path
  <2>1. CASE k = Len(accepted) + 1
    <3>1. accepted'[k].path = entries[next].path /\ next <= next
      BY <1>1, <1>5, <2>1
    <3>2. QED
      BY <1>1, <3>1
  <2>2. CASE k # Len(accepted) + 1
    <3>1. k \in 1..Len(accepted)
      BY <1>5, <2>2
    <3>2. PICK i \in 1..Len(entries) : i <= next - 1 /\ accepted[k].path = entries[i].path
      BY <1>2, <3>1
    <3>3. i <= next
      BY <1>1, <3>2
    <3>4. QED
      BY <1>5, <3>1, <3>2, <3>3
  <2>3. QED
    BY <2>1, <2>2
<1>7. NamedOnce(entries')
  BY DEF NamesInv, NamedOnce
<1>8. QED
  BY <1>4, <1>6, <1>7 DEF NamesInv

\* A file that waited is left out, or none was handed over.
LEMMA NameDropped ==
    ASSUME Inv, NamesInv, UNCHANGED entries, pc' # "collect",
           accepted' = IF Pending THEN Withdrawn ELSE accepted,
           Taken \in Nat, Taken' \in Nat, Taken <= Taken'
    PROVE  NamesInv'
<1>1. accepted \in Seq(File) /\ (Pending => accepted # <<>>)
  BY DEF Inv, Control
<1>2. CASE ~Pending
  BY <1>2, NamesStay
<1>3. CASE Pending
  <2>1. PICK t \in Seq(File), x \in File : accepted = Append(t, x)
    BY <1>1, <1>3, SequenceEmptyOrAppend
  <2>2. accepted' = t
    BY <1>3, <2>1, LastOf DEF Withdrawn
  <2>3. /\ Len(t) \in Nat /\ Len(accepted) = Len(t) + 1
        /\ \A k \in 1..Len(t) : k \in 1..Len(accepted) /\ accepted[k] = t[k]
    BY <2>1, AppendProperties, LenProperties
  <2>4. NamedOnce(t)
    BY <2>3 DEF NamesInv, NamedOnce
  <2>5. ASSUME NEW k \in 1..Len(t)
        PROVE  \E i \in 1..Len(entries) : i <= Taken' /\ t[k].path = entries[i].path
    <3>1. PICK i \in 1..Len(entries) : i <= Taken /\ t[k].path = entries[i].path
      BY <2>3 DEF NamesInv
    <3>2. i \in Nat
      BY LenProperties DEF Inv, Inputs
    <3> DEFINE a == Taken
               b == Taken'
    <3>3. a \in Nat /\ b \in Nat /\ a <= b /\ i <= a
      BY <3>1
    <3> HIDE DEF a, b
    <3>4. i <= b
      BY <3>2, <3>3
    <3>5. QED
      BY <3>1, <3>4 DEF b
  <2>6. NamedOnce(entries')
    BY DEF NamesInv, NamedOnce
  <2>7. NamedOnce(accepted')
    BY <2>2, <2>4
  <2>8. QED
    BY <2>2, <2>5, <2>6, <2>7 DEF NamesInv
<1>4. QED
  BY <1>2, <1>3

LEMMA NamesStep ==
    ASSUME Inv, NamesInv, Len(Roots) = 1, [Next]_vars
    PROVE  NamesInv'
<1>0. next \in Nat \ {0} /\ Taken \in Nat /\ Taken = next - 1 + IF Pending THEN 1 ELSE 0
  BY DEF Inv, Inputs, Taken
<1>1. CASE Collect
  <2>1. /\ pc = "collect" /\ pc' = "next" /\ accepted' = accepted /\ entries' = Collected
    BY <1>1 DEF Collect
  <2>2. NamedOnce(Collected)
    BY CollectedOnce DEF Inv, Inputs
  <2>3. Len(accepted') = 0
    BY <2>1, EmptySeq DEF NamesInv
  <2>4. NamedOnce(accepted') /\ NamedOnce(entries')
    BY <2>1, <2>2, <2>3 DEF NamedOnce
  <2>5. QED
    BY <2>1, <2>3, <2>4 DEF NamesInv
<1>2. CASE SkipFile
  <2>1. /\ pc = "next" /\ pc' = "next" /\ next' = next + 1 /\ UNCHANGED <<entries, accepted>>
    BY <1>2 DEF SkipFile
  <2>2. Taken = next - 1 /\ Taken' = next
    BY <1>0, <2>1 DEF Taken, Pending
  <2>3. Taken' \in Nat /\ Taken <= Taken'
    BY <1>0, <2>2
  <2>4. QED
    BY <1>0, <2>1, <2>3, NamesStay
<1>3. CASE ReadWhole
  <2> DEFINE x == [path |-> Entry.path, size |-> Entry.size, data |-> Contents]
  <2>1. /\ pc = "next" /\ next <= Len(entries) /\ OnDisk # Missing
        /\ UNCHANGED <<entries, next>> /\ accepted' = Append(accepted, x)
        /\ pc' = "add" \/ (pc' = "flush" /\ then' = "add")
    BY <1>3 DEF ReadWhole
  <2>2. ~Pending /\ Taken' = next /\ pc' # "collect"
    BY <1>0, <2>1 DEF Pending, Taken
  <2>3. x \in File
    BY <2>1, ReadGood DEF Inv
  <2>4. x.path = Entry.path
    OBVIOUS
  <2> HIDE DEF x
  <2>5. QED
    BY <2>1, <2>2, <2>3, <2>4, NameTaken
<1>4. CASE ReadStream \/ AllRead \/ FlushSlot \/ FlushEnd
  <2>1. /\ pc \in {"next", "flush"} /\ pc' # "collect" /\ UNCHANGED <<entries, accepted>>
        /\ next' = next /\ (Pending' <=> Pending)
    BY <1>4 DEF ReadStream, AllRead, FlushSlot, FlushEnd, ReturnTo, Pending, Inv, Control
  <2>2. Taken' = Taken
    BY <2>1 DEF Taken
  <2>3. Taken' \in Nat /\ Taken <= Taken'
    BY <1>0, <2>2
  <2>4. QED
    BY <1>0, <2>1, <2>3, NamesStay
<1>5. CASE AddFile
  <2>1. /\ pc = "add" /\ pc' = "next" /\ next' = next + 1 /\ UNCHANGED <<entries, accepted>>
    BY <1>5 DEF AddFile
  <2>2. Taken = next /\ Taken' = next
    BY <1>0, <2>1 DEF Taken, Pending
  <2>3. Taken' \in Nat /\ Taken <= Taken'
    BY <1>0, <2>2
  <2>4. QED
    BY <1>0, <2>1, <2>3, NamesStay
<1>6. CASE StreamFile
  <2>0. PICK n \in 0..Present : accepted' = Append(accepted, Streamed(n))
    BY <1>6, Zenon DEF StreamFile
  <2> DEFINE x == Streamed(n)
  <2>1. /\ pc = "stream" /\ pc' = "next" /\ next' = next + 1 /\ entries' = entries
        /\ accepted' = Append(accepted, x)
    BY <1>6, <2>0 DEF StreamFile
  <2>2. next <= Len(entries) /\ OnDisk # Missing
    BY <2>1 DEF Inv, Inputs, Streaming
  <2>3. ~Pending /\ Taken' = next
    BY <1>0, <2>1 DEF Pending, Taken
  <2>4. x \in File
    BY <2>2, ReadPart DEF Inv
  <2>5. x.path = Entry.path
    BY DEF Streamed
  <2> HIDE DEF x
  <2>6. QED
    BY <2>1, <2>2, <2>3, <2>4, <2>5, NameTaken
<1>7. CASE Finish \/ FinishFails \/ (\E r \in RootSet, p \in PathSet : Change(r, p)) \/ UNCHANGED vars
  <2>1. /\ UNCHANGED <<entries, accepted, next>> /\ (Pending' <=> Pending)
        /\ pc' # "collect" \/ pc' = pc
    BY <1>7 DEF Finish, FinishFails, Change, vars, Pending
  <2>2. Taken' = Taken
    BY <2>1 DEF Taken
  <2>3. CASE pc' # "collect"
    <3>1. Taken' \in Nat /\ Taken <= Taken'
      BY <1>0, <2>2
    <3>2. QED
      BY <1>0, <2>1, <2>3, <3>1, NamesStay
  <2>4. CASE pc' = pc
    BY <2>1, <2>2, <2>4 DEF NamesInv, NamedOnce
  <2>5. QED
    BY <2>1, <2>3, <2>4
<1>8. CASE AddFails \/ FlushFails
  <2>1. /\ UNCHANGED entries /\ pc' # "collect" /\ ~Pending'
        /\ accepted' = IF Pending THEN Withdrawn ELSE accepted
        /\ next' = next + 1 \/ (next' = next /\ ~Pending)
    BY <1>8 DEF AddFails, FlushFails, Pending
  <2>2. Taken' = next' - 1
    <3>1. next' \in Nat
      BY <1>0, <2>1
    <3>2. QED
      BY <2>1, <3>1 DEF Taken
  <2>3. Taken' \in Nat /\ Taken <= Taken'
    BY <1>0, <2>1, <2>2
  <2>4. QED
    BY <1>0, <2>1, <2>3, NameDropped
<1>9. QED
  BY <1>1, <1>2, <1>3, <1>4, <1>5, <1>6, <1>7, <1>8 DEF Next, Step

LEMMA ReadersGiven == Inv /\ NamesInv => ReadersAgree
<1> SUFFICES ASSUME Inv, NamesInv, Finished, ~gen.indexOnly PROVE ReadersAgree
  BY DEF ReadersAgree
<1>1. pc = "done" /\ ~spoiled
  BY DEF Finished
<1>2. GenOK(gen) /\ Kept(gen, 1, Handed) /\ gen.batch = <<>> /\ out = Archive(gen)
  BY <1>1 DEF Inv, Holds, Control
<1>3. Handed = accepted
  <2>1. ~Pending
    BY <1>1 DEF Pending
  <2>2. QED
    BY <2>1, HandedIs DEF Inv
<1>4. Kept(gen, 1, accepted) /\ accepted \in Seq(File) /\ Len(accepted) \in Nat
  BY <1>2, <1>3, LenProperties DEF Inv, Control
<1>5. Gives(out, accepted)
  <2>1. \A k \in 1..Len(accepted) : IsFile(accepted[k])
    BY <1>4 DEF Kept
  <2>2. QED
    BY <1>2, <1>4, <2>1, ReadersFind DEF Gives
<1>6. \A p \in PathSet : FileExists(out, p) <=> \E k \in 1..Len(accepted) : accepted[k].path = p
  BY <1>5, ExistsGiven
<1>7. ASSUME NEW k \in 1..Len(accepted)
      PROVE  ExtractFile(out, accepted[k].path) = accepted[k].data
  <2>1. \A j \in 1..Len(accepted) : accepted[j].path = accepted[k].path => j = k
    BY DEF NamesInv, NamedOnce
  <2>2. QED
    BY <1>4, <1>5, <2>1, FileGiven
<1>8. ASSUME NEW p \in PathSet, NEW j \in 1..Len(p) - 1, p[j] = Slash, FileExists(out, p),
             Fitting(accepted, SubSeq(p, 1, j - 1))
      PROVE  ExtractFolder(out, SubSeq(p, 1, j - 1)) =
                 FilesOf(accepted, SubSeq(p, 1, j - 1),
                         LastUpTo(accepted, SubSeq(p, 1, j - 1), Len(accepted)))
  <2>1. p \in Seq(CharSet) /\ p[1] # Slash
    <3>1. p[1] # Slash
      BY RootAssumption DEF PathSet
    <3>2. QED
      BY <3>1, PathsAreChars
  <2> DEFINE dir == SubSeq(p, 1, j - 1)
  <2>2. FileExists(out, p) /\ p[j] = Slash /\ dir = SubSeq(p, 1, j - 1) /\ Fitting(accepted, dir)
    BY <1>8
  <2> HIDE DEF dir
  <2>3. QED
    BY <1>4, <1>5, <2>1, <2>2, FolderGiven, ZenonT(60)
<1>9. WellFormed(ExportIndex(out)) /\ List(ExportIndex(out)) = List(out)
  <2>1. WellFormed(out)
    BY <1>5 DEF Gives
  <2>2. QED
    BY <1>2, <2>1, ArchiveExports
<1>10. ASSUME NEW p \in PathSet, NEW j \in 1..Len(p) - 1
       PROVE  LET dir  == SubSeq(p, 1, j - 1)
                  kept == {k \in 1..Len(accepted) : StartsWith(accepted[k].path, dir)
                                                     /\ Safe(accepted[k].path)}
                  file(k) == Target(accepted[k].path, dir)
                  fits == \A i, k \in kept : /\ IsName(file(k))
                                              /\ file(i) \notin DirsOf(file(k))
                  last == {k \in kept : \A i \in kept : file(i) = file(k) => i <= k}
              IN  p[j] = Slash /\ FileExists(out, p) /\ fits =>
                    ExtractFolder(out, dir) =
                      {[file |-> file(k), data |-> accepted[k].data] : k \in last}
  <2> DEFINE dir  == SubSeq(p, 1, j - 1)
             kept == {k \in 1..Len(accepted) : StartsWith(accepted[k].path, dir)
                                                /\ Safe(accepted[k].path)}
             file(k) == Target(accepted[k].path, dir)
             last == {k \in kept : \A i \in kept : file(i) = file(k) => i <= k}
  <2>1. kept = Below(accepted, dir) /\ \A k : file(k) = NameOf(accepted, dir, k)
    BY DEF Below, NameOf
  <2>2. \A k \in kept : k <= Len(accepted)
    BY <1>4
  <2> HIDE DEF kept, file, dir
  <2>3. last = LastUpTo(accepted, dir, Len(accepted))
    BY <2>1, <2>2 DEF LastUpTo
  <2> HIDE DEF last
  <2>4. {[file |-> file(k), data |-> accepted[k].data] : k \in last}
          = FilesOf(accepted, dir, LastUpTo(accepted, dir, Len(accepted)))
    BY <2>1, <2>3 DEF FilesOf
  <2>5. (\A i, k \in kept : IsName(file(k)) /\ file(i) \notin DirsOf(file(k)))
            => Fitting(accepted, dir)
    BY <2>1 DEF Fitting
  <2>6. p[j] = Slash /\ FileExists(out, p) /\ Fitting(accepted, dir) =>
          ExtractFolder(out, dir)
            = FilesOf(accepted, dir, LastUpTo(accepted, dir, Len(accepted)))
    BY <1>8 DEF dir
  <2>7. p[j] = Slash /\ FileExists(out, p)
          /\ (\A i, k \in kept : IsName(file(k)) /\ file(i) \notin DirsOf(file(k))) =>
          ExtractFolder(out, dir) = {[file |-> file(k), data |-> accepted[k].data] : k \in last}
    BY <2>4, <2>5, <2>6
  <2>8. QED
    BY <2>7 DEF dir, kept, file, last
<1>11. QED
  BY <1>6, <1>7, <1>9, <1>10 DEF ReadersAgree

\* With one input directory, whoever changes it: in an archive reported as
\* written, each file that was handed over is found and extracted alone with
\* the bytes that were read, each of its directories with all the safe paths in
\* it and the later of two that become one file, unless a file is in the place
\* of a directory, and the exported index lists what the archive lists
\* (libpaf_exists.c, libpaf_extract.c, libpaf_list.c:48-104).  Two directories may have files of
\* one path, of which only the first can be extracted.
THEOREM ReadersAgreeAlways == Len(Roots) = 1 => (Spec => []ReadersAgree)
<1> SUFFICES ASSUME Len(Roots) = 1 PROVE Spec => []ReadersAgree
  OBVIOUS
<1>1. Init => NamesInv
  <2> SUFFICES ASSUME Init PROVE NamesInv
    OBVIOUS
  <2>1. Len(entries) = 0 /\ Len(accepted) = 0 /\ accepted = <<>>
    BY EmptySeq DEF Init
  <2>2. QED
    BY <2>1 DEF NamesInv, NamedOnce
<1>2. Inv /\ NamesInv /\ [Next]_vars => Inv' /\ NamesInv'
  BY InvStep, NamesStep
<1>3. Inv /\ NamesInv => ReadersAgree
  BY ReadersGiven
<1>4. QED
  BY <1>1, <1>2, <1>3, InvInit, PTL DEF Spec
=============================================================================
