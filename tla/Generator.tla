------------------------------ MODULE Generator -----------------------------
(***************************************************************************)
(* Creation of an archive: paf_create_binary and paf_create_index_only     *)
(* (libpaf/src/libpaf_core.c) collect the regular files of the input       *)
(* directories with their sizes, then read them one by one into the        *)
(* generator (libpaf/src/paf_generator.c), which gathers small files in a  *)
(* batch, streams the others, and writes the archive at the end.  Other    *)
(* programs may change the input files between the collection and the      *)
(* read.                                                                   *)
(*                                                                         *)
(* Every byte is a token that names the file and the position it is from.  *)
(* A file may fail to open or to be read and memory may run out.  Writes   *)
(* to the three temporary files succeed; the last write may fail.          *)
(***************************************************************************)
EXTENDS ArchiveFile

CONSTANTS
    Roots,       \* input_paths: a sequence of directories
    Paths,       \* the relative paths found in every root, in readdir order
    MaxSize,     \* bound: the largest file
    MaxChanges,  \* bound: changes other programs make
    MayShrink,   \* may a file lose bytes between collection and read?
    BufCap,      \* 128 MB: the batch buffer
    SlotCap,     \* 4096: the batch slots
    Missing,     \* the size of a file that is not there
    NoFile,      \* the archive before it is written
    Lost         \* what is published by a creation that was spoiled

ASSUME RootAssumption  ==
    /\ Roots \in Seq(STRING) /\ Len(Roots) > 0
    /\ Paths \in Seq(Seq([kind : {"char"}, char : STRING]))
    \* a directory has a name once, and a relative path begins with a name
    /\ \A j, k \in 1..Len(Paths) : Paths[j] = Paths[k] => j = k
    /\ \A k \in 1..Len(Paths) : Paths[k] # <<>> /\ Paths[k][1] # Slash
ASSUME SizeAssumption  ==
    /\ MaxSize \in Nat /\ MaxChanges \in Nat /\ MayShrink \in BOOLEAN
    /\ Missing \notin Nat
ASSUME BatchAssumption ==
    BufCap \in Nat \ {0} /\ SlotCap \in Nat \ {0} /\ Word32 \in Nat \ {0}

RootSet == {Roots[k] : k \in 1..Len(Roots)}
PathSet == {Paths[k] : k \in 1..Len(Paths)}
Byte(r, p, j)  == [kind |-> "byte", root |-> r, path |-> p, pos |-> j]
Bytes(r, p, n) == [j \in 1..n |-> Byte(r, p, j)]

VARIABLES
    disk,       \* disk[r][p]: the size of file p below root r, or Missing
    entries,    \* what collect_files_binary returned
    next,       \* the loop index over entries
    gen,        \* the generator
    slot,       \* the loop index of a flush
    then,       \* where a flush returns to
    pc,
    out,        \* the archive file
    result,     \* "ok" for 0, "error" for -1, or "none"
    accepted,   \* history: the files handed to the generator, as read
    changes,    \* history: the number of changes by other programs
    spoiled,    \* history: a stream ended early, or the last write failed
    dropped     \* history: a file that was there was left out

vars == <<disk, entries, next, gen, slot, then, pc, out, result,
          accepted, changes, spoiled, dropped>>

(***************************************************************************)
(* The generator, as functions from one generator to another.              *)
(***************************************************************************)
NewGenerator(indexOnly) ==
    [indexOnly |-> indexOnly, data |-> <<>>, index |-> <<>>, paths |-> <<>>,
     dataOff |-> 0, pathOff |-> 0, count |-> 0,
     batch |-> <<>>, buf |-> [j \in 1..BufCap |-> 0], pos |-> 0]

\* The entry's path, index cell and data go to the three temporary files.
\* The data offset moves by size, whatever number of bytes was written.
Emit(g, p, size, bytes) ==
    [g EXCEPT !.index = Append(@, IndexEntry(g.pathOff, Len(p), g.dataOff, size, bytes)),
              !.data = IF g.indexOnly THEN @ ELSE @ \o bytes,
              !.dataOff = IF g.indexOnly THEN @ ELSE @ + size,
              !.paths = @ \o p, !.pathOff = @ + Len(p), !.count = @ + 1]

Fits(g, size) == g.pos + size <= BufCap /\ Len(g.batch) < SlotCap

BatchedInPlace(g, p, bytes) ==  \* mutant: the write position stays
    [g EXCEPT !.batch = Append(@, [path |-> p, off |-> g.pos, size |-> Len(bytes)]),
              !.buf = [j \in 1..BufCap |->
                          IF j - g.pos \in 1..Len(bytes) THEN bytes[j - g.pos] ELSE @[j]]]
Batched(g, p, bytes) ==
    [g EXCEPT !.batch = Append(@, [path |-> p, off |-> g.pos, size |-> Len(bytes)]),
              !.buf = [j \in 1..BufCap |->
                          IF j - g.pos \in 1..Len(bytes) THEN bytes[j - g.pos] ELSE @[j]],
              !.pos = @ + Len(bytes)]

SlotBytes(g, b) == SubSeq(g.buf, b.off + 1, b.off + b.size)

\* paf_generator_finalize's layout.  In an index-only archive the block of
\* data is absent and the offsets skip the header only.
ArchiveWithDataSkipped(g) ==  \* mutant: index_offset forgets the data block
    <<Header(g.indexOnly, g.count, HeaderSize, HeaderSize + g.count * EntrySize)>>
        \o g.data \o g.index \o g.paths
Archive(g) ==
    LET indexOff == HeaderSize + IF g.indexOnly THEN 0 ELSE g.dataOff
    IN  <<Header(g.indexOnly, g.count, indexOff, indexOff + g.count * EntrySize)>>
            \o g.data \o g.index \o g.paths

(***************************************************************************)
(* The create functions.                                                   *)
(***************************************************************************)
\* The regular files of all roots, in order; st_size is cut to 32 bits.
Candidates == Len(Roots) * Len(Paths)
RootOf(k) == Roots[((k - 1) \div Len(Paths)) + 1]
PathOf(k) == Paths[((k - 1) % Len(Paths)) + 1]
Collected ==
    LET found[k \in 0..Candidates] ==
            IF k = 0 THEN <<>>
            ELSE IF disk[RootOf(k)][PathOf(k)] = Missing THEN found[k - 1]
            ELSE Append(found[k - 1], [root |-> RootOf(k), path |-> PathOf(k),
                                       size |-> disk[RootOf(k)][PathOf(k)] % Word32])
    IN  found[Candidates]

Collect ==
    /\ pc = "collect"
    /\ entries' = Collected
    /\ pc' = "next"
    /\ UNCHANGED <<disk, next, gen, slot, then, out, result, accepted, changes, spoiled, dropped>>

Entry == entries[next]
OnDisk == disk[Roots[1]][Entry.path]  \* every entry is opened below the first root
Present == MinOf(Entry.size, OnDisk)  \* the bytes fread returns
Contents == Bytes(Roots[1], Entry.path, Present)
Withdrawn == SubSeq(accepted, 1, Len(accepted) - 1)

\* fopen fails, because the file is gone or for any other reason: the loop
\* goes on with the next, and nothing is reported.
SkipFile ==
    /\ pc = "next" /\ next <= Len(entries)
    /\ next' = next + 1
    /\ dropped' = (dropped \/ OnDisk # Missing)
    /\ UNCHANGED <<disk, entries, gen, slot, then, pc, out, result, accepted, changes, spoiled>>

\* The whole file was read: paf_generator_add_file, which flushes first if
\* the batch has no room.
ReadWhole ==
    /\ pc = "next" /\ next <= Len(entries)
    /\ OnDisk # Missing /\ Entry.size > 0 /\ Present = Entry.size
    /\ accepted' = Append(accepted, [path |-> Entry.path, size |-> Entry.size, data |-> Contents])
    /\ IF Fits(gen, Entry.size) THEN pc' = "add" /\ UNCHANGED then
                                ELSE pc' = "flush" /\ then' = "add"
    /\ UNCHANGED <<disk, entries, next, gen, slot, out, result, changes, spoiled, dropped>>

\* An empty file, a failed malloc (any file) or a short read: rewind and
\* paf_generator_add_file_stream, which always flushes first.
ReadStream ==
    /\ pc = "next" /\ next <= Len(entries)
    /\ OnDisk # Missing
    /\ pc' = "flush" /\ then' = "stream"
    /\ UNCHANGED <<disk, entries, next, gen, slot, out, result, accepted, changes, spoiled, dropped>>

AllRead ==
    /\ pc = "next" /\ next > Len(entries)
    /\ pc' = "flush" /\ then' = "finish"
    /\ UNCHANGED <<disk, entries, next, gen, slot, out, result, accepted, changes, spoiled, dropped>>

\* paf_generator_flush_batch, one slot at a time.
FlushSlot ==
    /\ pc = "flush" /\ slot <= Len(gen.batch)
    /\ LET b == gen.batch[slot]
       IN  gen' = Emit(gen, b.path, b.size, SlotBytes(gen, b))
    /\ slot' = slot + 1
    /\ UNCHANGED <<disk, entries, next, then, pc, out, result, accepted, changes, spoiled, dropped>>

EmptiedKeepingSlots(g) == [g EXCEPT !.pos = 0]  \* mutant: batch_count stays
Emptied(g) == [g EXCEPT !.batch = <<>>, !.pos = 0]

ReturnToNext(t) == IF t = "stream" THEN "next" ELSE t  \* mutant: the file is forgotten
ReturnTo(t) == t

FlushEnd ==
    /\ pc = "flush" /\ slot > Len(gen.batch)
    /\ gen' = Emptied(gen)
    /\ slot' = 1
    /\ pc' = ReturnTo(then)
    /\ next' = IF pc' = "next" THEN next + 1 ELSE next
    /\ UNCHANGED <<disk, entries, then, out, result, accepted, changes, spoiled, dropped>>

\* There is no memory for the hashes of a batch.  The batch stays; the file
\* that caused the flush is left out, for the loop does not look at what
\* paf_generator_add_file and _stream return, or the archive is not written.
FlushFails ==
    /\ pc = "flush" /\ slot = 1 /\ gen.batch # <<>>
    /\ IF then = "finish"
       THEN /\ pc' = "done" /\ result' = "error" /\ spoiled' = TRUE
            /\ UNCHANGED <<next, accepted, dropped>>
       ELSE /\ pc' = "next" /\ next' = next + 1 /\ dropped' = TRUE
            /\ accepted' = IF then = "add" THEN Withdrawn ELSE accepted
            /\ UNCHANGED <<result, spoiled>>
    /\ UNCHANGED <<disk, entries, gen, slot, then, out, changes>>

\* The rest of paf_generator_add_file: a file larger than the whole buffer
\* is written at once, any other goes into the batch.
AddFile ==
    /\ pc = "add"
    /\ LET f == accepted[Len(accepted)]
       IN  gen' = IF f.size > BufCap THEN Emit(gen, f.path, f.size, f.data)
                                     ELSE Batched(gen, f.path, f.data)
    /\ next' = next + 1
    /\ pc' = "next"
    /\ UNCHANGED <<disk, entries, slot, then, out, result, accepted, changes, spoiled, dropped>>

\* _strdup of the path fails: the file is left out, and what was copied
\* behind the batch's position is overwritten by the next.
AddFails ==
    /\ pc = "add" /\ accepted[Len(accepted)].size <= BufCap
    /\ accepted' = Withdrawn
    /\ next' = next + 1
    /\ pc' = "next"
    /\ dropped' = TRUE
    /\ UNCHANGED <<disk, entries, gen, slot, then, out, result, changes, spoiled>>

\* The rest of paf_generator_add_file_stream: it stops at the end of the
\* file, however short, or at a read that fails, and records the collected
\* size.
Streamed(n) == [path |-> Entry.path, size |-> Entry.size, data |-> Bytes(Roots[1], Entry.path, n)]
StreamFile ==
    /\ pc = "stream"
    /\ \E n \in 0..Present :
          /\ gen' = Emit(gen, Entry.path, Entry.size, Streamed(n).data)
          /\ accepted' = Append(accepted, Streamed(n))
          /\ spoiled' = (spoiled \/ n < Entry.size)
    /\ next' = next + 1
    /\ pc' = "next"
    /\ UNCHANGED <<disk, entries, slot, then, out, result, changes, dropped>>

Finish ==
    /\ pc = "finish"
    /\ out' = Archive(gen)
    /\ result' = "ok"
    /\ pc' = "done"
    /\ UNCHANGED <<disk, entries, next, gen, slot, then, accepted, changes, spoiled, dropped>>

\* fopen or a write fails, or fclose does, which is not looked at.
FinishFails ==
    /\ pc = "finish"
    /\ \/ out' = out /\ result' = "error"
       \/ /\ \E n \in 0..Len(Archive(gen)) - 1 : out' = SubSeq(Archive(gen), 1, n)
          /\ result' \in {"ok", "error"}
    /\ spoiled' = TRUE
    /\ pc' = "done"
    /\ UNCHANGED <<disk, entries, next, gen, slot, then, accepted, changes, dropped>>

\* Another program rewrites a file or removes it.  A file removed while it
\* is open stays readable, which is as if it were removed after the close.
NewSizes(old) ==
    IF old = Missing THEN 0..MaxSize
    ELSE IF MayShrink THEN (0..MaxSize) \ {old} ELSE old + 1..MaxSize
Change(r, p) ==
    /\ pc # "done" /\ pc # "collect" /\ changes < MaxChanges
    /\ \/ \E n \in NewSizes(disk[r][p]) : disk' = [disk EXCEPT ![r][p] = n]
       \/ /\ pc = "next" /\ disk[r][p] # Missing
          /\ disk' = [disk EXCEPT ![r][p] = Missing]
    /\ changes' = changes + 1
    /\ UNCHANGED <<entries, next, gen, slot, then, pc, out, result, accepted, spoiled, dropped>>

Init ==
    /\ disk \in [RootSet -> [PathSet -> (0..MaxSize) \union {Missing}]]
    /\ entries = <<>> /\ next = 1
    /\ gen \in {NewGenerator(FALSE), NewGenerator(TRUE)}
    /\ slot = 1 /\ then = "none" /\ pc = "collect"
    /\ out = NoFile /\ result = "none"
    /\ accepted = <<>> /\ changes = 0 /\ spoiled = FALSE /\ dropped = FALSE

Step ==
    \/ Collect \/ SkipFile \/ ReadWhole \/ ReadStream \/ AllRead
    \/ FlushSlot \/ FlushEnd \/ FlushFails \/ AddFile \/ AddFails \/ StreamFile
    \/ Finish \/ FinishFails

Next ==
    \/ Step
    \/ \E r \in RootSet, p \in PathSet : Change(r, p)

Spec == Init /\ [][Next]_vars

-----------------------------------------------------------------------------
(***************************************************************************)
(* Properties                                                              *)
(***************************************************************************)
\* Every variable has its type, and the batch never outgrows the buffer and
\* the slot arrays that paf_generator_init allocated.
TypeOK ==
    /\ disk \in [RootSet -> [PathSet -> (0..MaxSize) \union {Missing}]]
    /\ next \in 1..Len(entries) + 1
    /\ gen.count = Len(gen.index)
    /\ gen.pos \in 0..BufCap /\ Len(gen.batch) <= SlotCap
    /\ slot \in 1..Len(gen.batch) + 1
    /\ then \in {"none", "add", "stream", "finish"}
    /\ pc \in {"collect", "next", "flush", "add", "stream", "finish", "done"}
    /\ result \in {"none", "ok", "error"}
    /\ changes \in 0..MaxChanges /\ spoiled \in BOOLEAN /\ dropped \in BOOLEAN

\* What the three temporary files and the batch hold, file by file.  While a
\* flush runs, the slots before slot are in the files already.
Stored(e) ==
    [path |-> SubSeq(gen.paths, e.pathOff + 1, e.pathOff + e.pathLen),
     size |-> e.size,
     data |-> IF gen.indexOnly THEN e.hash ELSE SubSeq(gen.data, e.off + 1, e.off + e.size)]
Waiting(b) == [path |-> b.path, size |-> b.size, data |-> SlotBytes(gen, b)]
Log ==
    [k \in 1..Len(gen.index) |-> Stored(gen.index[k])]
    \o [k \in 1..Len(gen.batch) - slot + 1 |-> Waiting(gen.batch[slot + k - 1])]

\* The file that was read and waits for a flush to make room for it.
Pending == pc = "add" \/ (pc = "flush" /\ then = "add")

\* paf_generator.c:61-199: at every moment, in the middle of a flush too,
\* temporary files and batch together hold exactly the files handed over, in
\* order, each with the bytes that were read: no slot is overwritten by a
\* later file, none is written twice, and offsets follow the data.
LogKept ==
    ~spoiled => Log = SubSeq(accepted, 1, Len(accepted) - (IF Pending THEN 1 ELSE 0))

Finished == pc = "done" /\ result = "ok" /\ ~spoiled

\* paf_generator.c:211-261 against paf_extractor.c and libpaf_list.c: what the
\* readers find through header, offsets and lengths in an archive reported as
\* written is what was handed over, with its sizes and contents or, in an
\* index-only archive, its hashes.  Of sizes and offsets in an index-only
\* archive nothing is said: SPEC.md:192 has them 0, the code records the sizes
\* (paf_generator.c:84,122,188).
ArchiveFaithful ==
    Finished =>
        /\ WellFormed(out)
        /\ Hdr(out).count = Len(accepted)
        /\ \A k \in 1..Len(accepted) :
               LET e == IndexCells(out)[k]
               IN  /\ EntryPath(out, e) = accepted[k].path
                   /\ e.hash = accepted[k].data
                   /\ ~gen.indexOnly =>
                         e.size = accepted[k].size /\ EntryData(out, e) = accepted[k].data

\* libpaf_exists.c, libpaf_extract.c: a file found in the archive can be
\* extracted alone and with its directory, and both give the bytes that were
\* read when the archive was made - but for paths that are not safe, which a
\* directory is extracted without; nothing else is found.  A directory's name
\* is taken for the beginning of a path only, so that "d/b" and "db" become
\* one file, the later of the two: that is what the extraction of a directory
\* gives if no file of it takes the place of a directory.  The index exported
\* from the archive (libpaf_list.c:48-104) lists what the archive lists; the
\* data block, which SPEC.md:186 says it is without, is still in it.
ReadersAgree ==
    Finished /\ ~gen.indexOnly =>
        /\ \A p \in PathSet : FileExists(out, p) <=>
               \E k \in 1..Len(accepted) : accepted[k].path = p
        /\ \A k \in 1..Len(accepted) : ExtractFile(out, accepted[k].path) = accepted[k].data
        /\ \A p \in PathSet : \A j \in 1..Len(p) - 1 :
               LET dir  == SubSeq(p, 1, j - 1)
                   kept == {k \in 1..Len(accepted) : StartsWith(accepted[k].path, dir)
                                                      /\ Safe(accepted[k].path)}
                   file(k) == Target(accepted[k].path, dir)
                   fits == \A i, k \in kept : /\ IsName(file(k))
                                               /\ file(i) \notin DirsOf(file(k))
                   last == {k \in kept : \A i \in kept : file(i) = file(k) => i <= k}
               IN  p[j] = Slash /\ FileExists(out, p) /\ fits =>
                     ExtractFolder(out, dir) =
                       {[file |-> file(k), data |-> accepted[k].data] : k \in last}
        /\ WellFormed(ExportIndex(out)) /\ List(ExportIndex(out)) = List(out)

\* libpaf.h:31 "Create a .paf archive from specified files or folders": if
\* nobody changes the inputs, every collected file is archived, in order,
\* with the content it has below the root it was found in.  A file that could
\* not be opened, and one for which memory ran out, is left out of an archive
\* that is still reported as written: of these nothing is promised.
AllArchived ==
    Finished /\ changes = 0 /\ ~dropped =>
        accepted = [k \in 1..Len(entries) |->
                       [path |-> entries[k].path, size |-> entries[k].size,
                        data |-> Bytes(entries[k].root, entries[k].path, entries[k].size)]]

\* SPEC.md:51 "index_offset  Absolute offset of Index Block": in an archive
\* written to its end, the header leads to the index, whatever happened to
\* the inputs while it was made.
IndexFound == pc = "done" /\ out = Archive(gen) => WellFormed(out)

\* The generator is an append-only log that is published when it is closed:
\* a flush, which moves files from the batch to the temporary files, is
\* invisible, and neither loses, repeats nor reorders a file.
Promise == INSTANCE ArchiveLog WITH
    Open <- NoFile, Void <- Lost,
    log <- IF spoiled THEN <<>> ELSE Log,
    published <- IF spoiled THEN Lost ELSE IF pc = "done" THEN Log ELSE NoFile
ImplementsArchiveLog == Promise!Spec

=============================================================================
