-------------------------------- MODULE Page --------------------------------
(***************************************************************************)
(* The browser application (wasm/app.js over wasm/paf_wasm.c): the tab     *)
(* that shows an archive, checks it and copies its files to a directory,   *)
(* and the tab that packs files.  Handlers run to their next await; what   *)
(* they awaited - a FileReader, a digest, a directory picker, a file - may *)
(* come in any order, and any button that is enabled may be pressed in     *)
(* between.  A session is what a visitor does before leaving: so many      *)
(* archives loaded, so many presses of each button.                        *)
(***************************************************************************)
EXTENDS Integers, Sequences, FiniteSets

CONSTANTS
    ArchiveFiles, \* files to view: [name, valid, indexOnly, bytes, entries],
                  \* an entry being [path, refused, big, deleted, offset,
                  \* size, hash]; a path is a sequence of names
    Hash(_),      \* SHA-256 of a sequence of bytes
    HeaderSize,   \* sizeof(paf_header_t)
    Selections,   \* lists of files to pack: [name, data]
    Created,      \* the name "created.paf"
    Archived(_),  \* the archive libpaf makes of the files of a directory
    None,         \* nothing, the null buffer, a missing file
    Sessions,     \* bounds: [loads, verify, extract, pack]
    MaxRuns       \* bound: presses of one button

\* The entries of an archive and the files selected are lists; a file has a
\* name.
IsListOf(s) == s \in Seq({s[k] : k \in DOMAIN s})
ASSUME FileAssumption ==
    /\ None \notin ArchiveFiles
    /\ \A a \in ArchiveFiles : IsListOf(a.entries) /\ a.name # None
    /\ \A files \in Selections : IsListOf(files)

Runs == 1..MaxRuns

VARIABLES
    session,    \* the session
    view,       \* [name, buffer, parsed, rows, shown, canVerify, status]:
                \* currentArchiveName, currentBuffer, parsedFiles, the
                \* archive of the rows, visible results, the button, the text
    table, marks, \* the number of the table and the marks in its rows
    reading,    \* the FileReaders under way: <<number, archive>>
    loads,      \* archives loaded so far
    overlapped, \* history: two FileReaders were under way
    runtime, deferred, fs, \* the WASM module: is it ready, what it is to
                \* write when it is, the archives it holds, by name
    verify,     \* verify[v]: a run of the click handler
    extract, out, local, \* likewise; "/out", [files, dirs]; what runs copied
    selection, input, pack \* filesToCompress; "/paf_input"; runs

pageVars == <<session, view, table, marks, reading, loads, overlapped, runtime, deferred, fs,
              verify, extract, out, local, selection, input, pack>>
module == <<runtime, deferred, fs>>
loading == <<reading, loads, overlapped>>
shows == <<table, marks>>
extracts == <<extract, out, local>>
packs == <<selection, input, pack>>

\* parsedFiles: empty while an archive is loaded.
Entries(a) == IF a = None THEN <<>> ELSE a.entries
Skip(e) == e.deleted \/ e.size = 0

Put(f, k, v) == [x \in DOMAIN f \union {k} |-> IF x = k THEN v ELSE f[x]]

(***************************************************************************)
(* Loading an archive.                                                     *)
(***************************************************************************)
handleExtractFile(a) ==
    /\ loads < session.loads
    /\ view' = [view EXCEPT !.name = a.name, !.buffer = None, !.parsed = None,
                            !.shown = FALSE, !.status = ""]
    /\ loads' = loads + 1
    /\ reading' = reading \union {<<loads + 1, a>>}
    /\ overlapped' = (overlapped \/ reading # {})
    /\ verify' = [v \in Runs |-> [verify[v] EXCEPT !.undisturbed = FALSE]]
    /\ UNCHANGED <<session, shows, module, extracts, packs>>

\* What the rows of a new table show.
renderFileList(a) ==
    /\ table' = table + 1
    /\ marks' = [k \in 1..Len(a.entries) |-> "-"]

\* reader.onload: an archive that cannot be parsed is kept as the buffer.
onload(r) ==
    LET a == r[2] IN
    /\ reading' = reading \ {r}
    /\ IF a.valid
       THEN /\ view' = [view EXCEPT !.buffer = a, !.parsed = a, !.rows = a,
                                    !.canVerify = ~a.indexOnly, !.shown = TRUE]
            /\ renderFileList(a)
            /\ IF runtime THEN fs' = Put(fs, a.name, a) /\ UNCHANGED deferred
               ELSE deferred' = a.name /\ UNCHANGED fs
       ELSE view' = [view EXCEPT !.buffer = a] /\ UNCHANGED <<shows, fs, deferred>>
    /\ verify' = [v \in Runs |-> [verify[v] EXCEPT !.undisturbed = FALSE]]
    /\ UNCHANGED <<session, loads, overlapped, runtime, extracts, packs>>

\* The last deferred write is done, with the bytes that are current now.
onRuntimeInitialized ==
    /\ ~runtime /\ runtime' = TRUE
    /\ fs' = IF deferred = None THEN fs ELSE Put(fs, deferred, view.buffer)
    /\ UNCHANGED <<session, view, shows, loading, deferred, verify, extracts, packs>>

(***************************************************************************)
(* Verification: for each row of the table as it was at the click, the     *)
(* entry parsedFiles has at that moment.                                   *)
(***************************************************************************)
NotRunning == [pc |-> "none", table |-> 0, rows |-> 0, at |-> 0, good |-> FALSE,
               fail |-> 0, errs |-> {}, undisturbed |-> TRUE]

\* ArrayBuffer.slice stops at the end.
Slice(bytes, from, size) ==
    SubSeq(bytes, from + 1, IF from + size <= Len(bytes) THEN from + size ELSE Len(bytes))

\* Is the digest of what is cut out of the buffer the hash of the entry?
Match(buffer, e) ==
    Hash(Slice(buffer.bytes, e.offset, e.size)) = e.hash

\* The handler goes on behind row "at" to the next row with data, where it
\* awaits a digest, to the end, or to a row without an entry, where it throws
\* and leaves the button as it is.
GoOn(v, w, m) ==
    LET E    == Entries(view.parsed)
        stop == {k \in (w.at + 1)..w.rows : k <= Len(E) => ~Skip(E[k])}
        next == IF stop = {} THEN w.rows + 1 ELSE CHOOSE k \in stop : \A j \in stop : k <= j
    IN  /\ marks' = IF w.table # table THEN m
                    ELSE [k \in DOMAIN m |-> IF k > w.at /\ k < next THEN "skip" ELSE m[k]]
        /\ IF next > w.rows
           THEN /\ verify' = [verify EXCEPT ![v] = [w EXCEPT !.pc = "done"]]
                /\ view' = [view EXCEPT !.canVerify = TRUE,
                                        !.status = IF w.fail = 0 THEN "ok" ELSE "errors"]
           ELSE IF next > Len(E)
           THEN /\ verify' = [verify EXCEPT ![v] = [w EXCEPT !.pc = "thrown"]]
                /\ UNCHANGED view
           ELSE /\ verify' = [verify EXCEPT ![v] = [w EXCEPT !.pc = "digest", !.at = next,
                                                    !.good = Match(view.buffer, E[next])]]
                /\ view' = IF w.at > 0 THEN view
                           ELSE [view EXCEPT !.canVerify = FALSE, !.status = "running"]

VerifyClick(v) ==
    /\ verify[v].pc = "none" /\ \A u \in 1..(v - 1) : verify[u].pc # "none"
    /\ v <= session.verify /\ view.shown /\ view.canVerify /\ Len(Entries(view.parsed)) > 0
    /\ GoOn(v, [NotRunning EXCEPT !.table = table, !.rows = Len(view.rows.entries)], marks)
    /\ UNCHANGED <<session, table, loading, module, extracts, packs>>

\* The mark goes into the row the handler holds, displayed or not.
MarkedByIndex(w, mark) ==  \* mutant: into the row of that number that is displayed
    IF w.at \notin DOMAIN marks THEN marks ELSE [marks EXCEPT ![w.at] = mark]
Marked(w, mark) ==
    IF w.table # table THEN marks ELSE [marks EXCEPT ![w.at] = mark]

Digested(v) ==
    /\ verify[v].pc = "digest"
    /\ IF verify[v].good
       THEN GoOn(v, verify[v], Marked(verify[v], "ok"))
       ELSE GoOn(v, [verify[v] EXCEPT !.fail = @ + 1], Marked(verify[v], "fail"))
    /\ UNCHANGED <<session, table, loading, module, extracts, packs>>

\* The digest is rejected, or there is no crypto.subtle, as on a page that is
\* not served securely; the handler is then here without having waited.  The
\* row counts as failed.
DigestFailed(v) ==
    /\ verify[v].pc = "digest"
    /\ GoOn(v, [verify[v] EXCEPT !.fail = @ + 1, !.errs = @ \union {verify[v].at}],
            Marked(verify[v], "err"))
    /\ UNCHANGED <<session, table, loading, module, extracts, packs>>

(***************************************************************************)
(* Extraction to a directory of the computer.                              *)
(***************************************************************************)
Empty == [files |-> <<>>, dirs |-> {}]
NotExtracting == [pc |-> "none", todo |-> {}, from |-> None, before |-> Empty, alone |-> TRUE]

ExtractClick(x) ==
    /\ extract[x].pc = "none" /\ \A y \in 1..(x - 1) : extract[y].pc # "none"
    /\ x <= session.extract /\ view.shown /\ view.name # "" /\ view.buffer # None
    /\ extract' = [extract EXCEPT ![x].pc = "pick"]
    /\ UNCHANGED <<session, view, shows, loading, module, verify, out, local, packs>>

\* wasm_paf_extract_all of what the file system has under the name that is
\* current when the directory has been picked.
Named == IF view.name \in DOMAIN fs THEN fs[view.name] ELSE None
Extractable == runtime /\ Named # None /\ Named.valid

\* History: what was shown, if no archive was being loaded, each had finished
\* before the next, and what was packed did not replace it in the file system;
\* and whether another extraction was in the way.
Quiet == reading = {} /\ ~overlapped
Repacked == view.name = Created /\ \E p \in Runs : pack[p].pc = "done"
ShownNow == IF Quiet /\ ~Repacked THEN view.parsed ELSE None

\* The directories a path lies in.
Above(path) == {SubSeq(path, 1, n) : n \in 1..(Len(path) - 1)}

\* "/out" holds, by path, the archive the file there is from.
Kept(files, path, a) ==  \* mutant: without overwrite, files that are there stay
    IF path \in DOMAIN files THEN files ELSE Put(files, path, a)
Overwritten(files, path, a) == Put(files, path, a)

\* One entry, deleted or not: nothing if its path is refused - unsafe,
\* unreadable or too long.  Its directories are made where no file is in the
\* way; fopen fails if one is not there or the path is a directory, and the
\* entry is passed over, as one too big for the memory is ("lost").
UnpackedEntry(o, a, k, lost) ==
    LET e    == a.entries[k]
        dirs == o.dirs \union
                {d \in Above(e.path) :
                    \A q \in Above(e.path) : Len(q) <= Len(d) => q \notin DOMAIN o.files}
    IN  IF e.refused THEN o
        ELSE [dirs  |-> dirs,
              files |-> IF k \notin lost /\ e.path \notin dirs /\ Above(e.path) \subseteq dirs
                        THEN Overwritten(o.files, e.path, a) ELSE o.files]

\* The module has no threads: one worker takes all entries in order.  What
\* earlier extractions left in "/out" stays there.
Unpacked(o, a, lost) ==
    LET after[k \in 0..Len(a.entries)] ==
            IF k = 0 THEN o ELSE UnpackedEntry(after[k - 1], a, k, lost)
    IN  after[Len(a.entries)]

Picked(x) ==
    /\ extract[x].pc = "pick" /\ Extractable
    /\ \E lost \in SUBSET {k \in 1..Len(Named.entries) : Named.entries[k].big} :
          /\ out' = Unpacked(out, Named, lost)
          /\ extract' = [y \in Runs |->
                IF y = x THEN [extract[x] EXCEPT !.pc = "copy", !.todo = DOMAIN out'.files,
                                                 !.from = IF lost = {} THEN ShownNow ELSE None,
                                                 !.before = out]
                ELSE [extract[y] EXCEPT !.alone = (extract[y].pc # "copy" /\ @)]]
    /\ UNCHANGED <<session, view, shows, loading, module, verify, local, packs>>

\* There is no such archive, or no memory for its index.
PickedInVain(x) ==
    /\ extract[x].pc = "pick"
    /\ view' = [view EXCEPT !.status = "extract failed"]
    /\ extract' = [extract EXCEPT ![x].pc = "failed"]
    /\ UNCHANGED <<session, shows, loading, module, verify, out, local, packs>>

\* No directory is picked, or a file cannot be created or written in it, with
\* a message unless it was the user who stopped.
Aborted(x) ==
    /\ extract[x].pc \in {"pick", "copy"}
    /\ extract' = [extract EXCEPT ![x].pc = "failed"]
    /\ view' \in {view, [view EXCEPT !.status = "extract failed"]}
    /\ UNCHANGED <<session, shows, loading, module, verify, out, local, packs>>

\* copyVirtualDirToLocal: each file is read when its local file is open.
Copy(x) ==
    /\ extract[x].pc = "copy"
    /\ IF extract[x].todo = {}
       THEN /\ view' = [view EXCEPT !.status = "extracted"]
            /\ extract' = [extract EXCEPT ![x].pc = "done"]
            /\ UNCHANGED local
       ELSE \E p \in extract[x].todo :
            /\ local' = [local EXCEPT ![x] = Put(@, p, out.files[p])]
            /\ extract' = [extract EXCEPT ![x].todo = @ \ {p}]
            /\ UNCHANGED view
    /\ UNCHANGED <<session, shows, loading, module, verify, out, packs>>

(***************************************************************************)
(* Packing.                                                                *)
(***************************************************************************)
NotPacking == [pc |-> "none", files |-> <<>>, at |-> 0, got |-> <<>>, alone |-> TRUE]

handleCompressFiles(files) ==
    /\ session.pack > 0 /\ selection # files
    /\ selection' = files
    /\ UNCHANGED <<session, view, shows, loading, module, verify, extracts, input, pack>>

PackClick(p) ==
    /\ pack[p].pc = "none" /\ \A q \in 1..(p - 1) : pack[q].pc # "none"
    /\ p <= session.pack /\ Len(selection) > 0 /\ runtime
    /\ pack' = [q \in Runs |->
          IF q = p THEN [NotPacking EXCEPT !.pc = "read", !.files = selection,
                            !.alone = \A o \in Runs \ {p} : pack[o].pc # "read"]
          ELSE [pack[q] EXCEPT !.alone = (pack[q].pc # "read" /\ @)]]
    /\ UNCHANGED <<session, view, shows, loading, module, verify, extracts, selection, input>>

\* The loop goes over the list it began with.
ListedNow(p) == selection  \* mutant: over the files selected meanwhile
Listed(p) == pack[p].files

\* A file has been read and is written; behind the last one the archive is
\* made of all that "/paf_input" holds, as created.paf, where an archive on
\* display may be too, and downloaded.
ReadFile(p) ==
    /\ pack[p].pc = "read"
    /\ LET at   == pack[p].at + 1
           file == Listed(p)[at]
       IN  /\ at <= Len(Listed(p))
           /\ input' = Put(input, file.name, file.data)
           /\ IF at < Len(Listed(p))
              THEN pack' = [pack EXCEPT ![p].at = at] /\ UNCHANGED fs
              ELSE /\ pack' = [pack EXCEPT ![p].pc = "done", ![p].got = input']
                   /\ fs' = Put(fs, Created, Archived(input'))
    /\ UNCHANGED <<session, view, shows, loading, runtime, deferred, verify, extracts, selection>>

\* A file cannot be read any more.
ReadFailed(p) ==
    /\ pack[p].pc = "read"
    /\ pack' = [pack EXCEPT ![p].pc = "failed"]
    /\ UNCHANGED <<session, view, shows, loading, module, verify, extracts, selection, input>>

PageInit ==
    /\ session \in Sessions
    /\ view = [name |-> "", buffer |-> None, parsed |-> None, rows |-> None,
               shown |-> FALSE, canVerify |-> FALSE, status |-> ""]
    /\ table = 0 /\ marks = <<>> /\ reading = {} /\ loads = 0 /\ overlapped = FALSE
    /\ runtime = FALSE /\ deferred = None /\ fs = <<>>
    /\ verify = [v \in Runs |-> NotRunning]
    /\ extract = [x \in Runs |-> NotExtracting] /\ out = Empty /\ local = [x \in Runs |-> <<>>]
    /\ selection = <<>> /\ input = <<>> /\ pack = [p \in Runs |-> NotPacking]

Awaited ==
    \/ onRuntimeInitialized
    \/ \E r \in reading : onload(r)
    \/ \E n \in Runs : Digested(n) \/ DigestFailed(n) \/ Copy(n)

PageNext ==
    \/ \E a \in ArchiveFiles : handleExtractFile(a)
    \/ \E files \in Selections : handleCompressFiles(files)
    \/ Awaited
    \/ \E n \in Runs :
          \/ VerifyClick(n)
          \/ ExtractClick(n) \/ Picked(n) \/ PickedInVain(n) \/ Aborted(n)
          \/ PackClick(n) \/ ReadFile(n) \/ ReadFailed(n)

PageSpec == PageInit /\ [][PageNext]_pageVars

-----------------------------------------------------------------------------
(***************************************************************************)
(* Properties                                                              *)
(***************************************************************************)
\* The variables have their types.
PageTypeOK ==
    /\ session \in Sessions /\ view.buffer \in ArchiveFiles \union {None}
    /\ view.parsed \in {None, view.rows} /\ loads \in 0..session.loads
    /\ \A n \in Runs : /\ verify[n].pc \in {"none", "digest", "done", "thrown"}
                       /\ extract[n].pc \in {"none", "pick", "copy", "done", "failed"}
                       /\ pack[n].pc \in {"none", "read", "done", "failed"}

\* app.js:158-205: however loads and verifications overlap, a row on display
\* is marked as right only if the data of its own entry is; and a verification
\* during which no archive was chosen or came in counts every entry with wrong
\* data, and besides exactly those whose digest could not be had (app.js:191) -
\* unless a file that could not be parsed came in behind the archive on
\* display (app.js:111): the rows are then checked against its bytes.
Bad(a) == {k \in 1..Len(a.entries) : ~Skip(a.entries[k]) /\ ~Match(a, a.entries[k])}
VerifiedMeansIntact ==
    /\ view.shown /\ view.buffer = view.parsed =>
           \A k \in DOMAIN marks : marks[k] = "ok" => k \notin Bad(view.rows)
    /\ \A v \in Runs : verify[v].pc = "done" /\ verify[v].undisturbed /\ view.buffer = view.parsed =>
           verify[v].fail = Cardinality(Bad(view.parsed) \union verify[v].errs)

\* app.js:214-262: what lands in the directory that was picked are the files
\* of the archive on display, and each from that archive - if nothing was
\* being loaded when the directory was picked, FileReaders never overlapped,
\* no other extraction came between, nothing was packed over an archive that
\* is named created.paf (app.js:123, :304), and memory sufficed.  Three kinds
\* of entries are missing without a word: those with a refused path, those
\* that get in each other's way, and those where an earlier extraction left a
\* file in the place of a directory or the reverse, for "/out" is never
\* emptied (libpaf_core.c:294, :320); what it holds besides comes along.
Paths(a) == {a.entries[k].path : k \in {k \in 1..Len(a.entries) : ~a.entries[k].refused}}
InTheWay(o, a, p) ==
    \/ \E q \in Above(p) : q \in DOMAIN o.files \union Paths(a)
    \/ p \in o.dirs \/ \E q \in Paths(a) : p \in Above(q)
ExtractsShown ==
    \A x \in Runs : extract[x].pc = "done" /\ extract[x].alone /\ extract[x].from # None =>
        \A p \in Paths(extract[x].from) : ~InTheWay(extract[x].before, extract[x].from, p) =>
            p \in DOMAIN local[x] /\ local[x][p] = extract[x].from

\* app.js:279-312: whatever is selected while files are read, the archive
\* holds every file that was selected when the button was pressed, with its
\* data - if no other packing ran at the time.  Files of earlier selections
\* stay in.
PacksSelected ==
    \A p \in Runs : pack[p].pc = "done" /\ pack[p].alone =>
        \A i \in 1..Len(pack[p].files) :
            LET file == pack[p].files[i]
            IN  /\ file.name \in DOMAIN pack[p].got
                /\ (\A j \in (i + 1)..Len(pack[p].files) : pack[p].files[j].name # file.name) =>
                       pack[p].got[file.name] = file.data

\* README.md:141 "Byte offset within Data Block", and so libpaf writes it
\* (libpaf_core.c:316): an archive whose data, counted from there, is what
\* was archived verifies.  app.js:179 counts from the start of the file.
WrittenByLibpaf(a) ==
    \A k \in 1..Len(a.entries) :
        LET e == a.entries[k]
        IN  Hash(Slice(a.bytes, HeaderSize + e.offset, e.size)) = e.hash
IntactVerifies ==
    \A v \in Runs : verify[v].pc = "done" /\ verify[v].undisturbed /\ WrittenByLibpaf(view.parsed) =>
        view.status = "ok"
=============================================================================
