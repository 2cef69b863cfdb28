---------------------------- MODULE ArchiveFile -----------------------------
(***************************************************************************)
(* A .paf file and its readers.  A file is a sequence of cells: one for    *)
(* the 32-byte header, one per data byte, one per 128-byte index entry,    *)
(* one per path byte; an offset counts the cells before it.  The readers   *)
(* see the file only through header, offsets and lengths, as the C readers *)
(* do, so a writer that miscounts by one cell makes them read wrong cells. *)
(*                                                                         *)
(* A path is a sequence of characters, in which a slash separates          *)
(* directories.  A hash is abstracted to the bytes it was computed from.   *)
(***************************************************************************)
EXTENDS Integers, Sequences

CONSTANT Word32  \* the modulus of uint32_t, scaled to the instance

HeaderSize == 1  \* sizeof(paf_header_t), in cells
EntrySize  == 1  \* sizeof(paf_index_entry_t), in cells

Char(c) == [kind |-> "char", char |-> c]
Slash == Char("/")
Dot   == Char(".")
Backslash == Char("\\")

Header(indexOnly, count, indexOff, pathOff) ==
    [kind |-> "header", indexOnly |-> indexOnly, count |-> count,
     indexOff |-> indexOff, pathOff |-> pathOff]

IndexEntry(pathOff, pathLen, off, size, hash) ==
    [kind |-> "entry", pathOff |-> pathOff, pathLen |-> pathLen,
     off |-> off, size |-> size, hash |-> hash]

(***************************************************************************)
(* fseek + fread: the n cells at offset o, fewer at the end of the file.   *)
(***************************************************************************)
MinOf(a, b) == IF a < b THEN a ELSE b
Read(f, o, n) == SubSeq(f, o + 1, MinOf(o + n, Len(f)))

Hdr(f) == f[1]

\* The index block, or fewer cells if the file ends before it does.
IndexCells(f) == Read(f, Hdr(f).indexOff, Hdr(f).count * EntrySize)

\* All readers refuse a file whose index is cut short.  Cells that are not
\* entries would be decoded as arbitrary numbers; no reader notices.
Readable(f) ==
    /\ Len(f) >= HeaderSize /\ Hdr(f).kind = "header"
    /\ Len(IndexCells(f)) = Hdr(f).count
WellFormed(f) ==
    Readable(f) /\ \A k \in 1..Hdr(f).count : IndexCells(f)[k].kind = "entry"

EntryPath(f, e) == Read(f, Hdr(f).pathOff + e.pathOff, e.pathLen)

DataFromStart(f, e) == Read(f, e.off, e.size)  \* mutant: offsets absolute
EntryData(f, e) == Read(f, HeaderSize + e.off, e.size)

\* paf_list_binary: sizes and offsets are cut to 32 bits on the way.
List(f) ==
    [k \in 1..Hdr(f).count |->
        LET e == IndexCells(f)[k]
        IN  [path |-> EntryPath(f, e), size |-> e.size % Word32,
             offset |-> e.off % Word32, hash |-> e.hash]]

FileExists(f, path) == \E k \in 1..Hdr(f).count : List(f)[k].path = path

StartsWith(path, prefix) ==
    /\ Len(prefix) <= Len(path)
    /\ SubSeq(path, 1, Len(prefix)) = prefix

FolderExists(f, dir) ==
    /\ dir # <<>>
    /\ \E k \in 1..Hdr(f).count : StartsWith(List(f)[k].path, dir \o <<Slash>>)

\* paf_extract_file: the first entry of that path; a short read is an error.
NotExtracted == <<"error">>
ExtractFile(f, path) ==
    IF ~FileExists(f, path) THEN NotExtracted
    ELSE LET hit(k) == EntryPath(f, IndexCells(f)[k]) = path
             k == CHOOSE k \in 1..Hdr(f).count :
                      hit(k) /\ \A j \in 1..k - 1 : ~hit(j)
             e == IndexCells(f)[k]
             d == EntryData(f, e)
         IN  IF Len(d) = e.size THEN d ELSE NotExtracted

(***************************************************************************)
(* paf_extract_folder: the files that are written below an empty           *)
(* output_dir.                                                             *)
(***************************************************************************)
Safe(path) ==
    /\ path # <<>> => Head(path) \notin {Slash, Backslash}
    /\ \A j \in 1..Len(path) - 1 : ~(path[j] = Dot /\ path[j + 1] = Dot)
Written(f, e) == LET d == EntryData(f, e) IN IF Len(d) = e.size THEN d ELSE <<>>

\* The file that the path of an entry becomes: what comes after the name of
\* the directory, with or without a separator.  A backslash separates too, and
\* separators in a row are one.
Target(path, dir) ==
    LET c(j) == IF path[j] = Backslash THEN Slash ELSE path[j]
        name[j \in Len(dir)..Len(path)] ==
            IF j = Len(dir) THEN <<>>
            ELSE IF c(j) = Slash /\ (j = Len(dir) + 1 \/ c(j - 1) = Slash) THEN name[j - 1]
            ELSE Append(name[j - 1], c(j))
    IN  name[Len(path)]

IsName(t) == t # <<>> /\ t[Len(t)] # Slash
DirsOf(t) == {SubSeq(t, 1, j - 1) : j \in {j \in 2..Len(t) : t[j] = Slash}}

\* One entry: MKDIR on every directory of its target, results ignored, then
\* fopen and the data, none of it if the read is short.
Extracted(tree, t, data) ==
    LET isFile(d) == \E r \in tree.files : r.file = d
        dirs == tree.dirs \union
                {d \in DirsOf(t) : \A e \in DirsOf(t) : Len(e) <= Len(d) => ~isFile(e)}
    IN  [dirs  |-> dirs,
         files |-> IF IsName(t) /\ t \notin dirs /\ DirsOf(t) \subseteq dirs
                   THEN {r \in tree.files : r.file # t} \union {[file |-> t, data |-> data]}
                   ELSE tree.files]

\* The prefix test does not ask for a separator after dir.
ExtractFolder(f, dir) ==
    LET path(k) == EntryPath(f, IndexCells(f)[k])
        tree[k \in 0..Hdr(f).count] ==
            IF k = 0 THEN [dirs |-> {}, files |-> {}]
            ELSE IF StartsWith(path(k), dir) /\ Safe(path(k))
                 THEN Extracted(tree[k - 1], Target(path(k), dir), Written(f, IndexCells(f)[k]))
                 ELSE tree[k - 1]
    IN  IF FolderExists(f, dir) THEN tree[Hdr(f).count].files ELSE {}

\* paf_export_index: the header flagged INDEX_ONLY, then everything up to
\* the end of the index or of the last entry's path, data block included.
IndexEnd(f) == Hdr(f).indexOff + Hdr(f).count * EntrySize
PathEnd(f) ==
    LET last == IndexCells(f)[Hdr(f).count]
    IN  Hdr(f).pathOff + last.pathOff + last.pathLen
ExportEnd(f) ==
    IF Hdr(f).count = 0 THEN HeaderSize
    ELSE IF IndexEnd(f) > PathEnd(f) THEN IndexEnd(f) ELSE PathEnd(f)
ExportIndex(f) ==
    <<[Hdr(f) EXCEPT !.indexOnly = TRUE]>> \o Read(f, HeaderSize, ExportEnd(f) - HeaderSize)

=============================================================================
