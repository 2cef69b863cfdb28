------------------------------- MODULE Mount -------------------------------
(***************************************************************************)
(* The ProjFS provider (projfs/paf_mount.c) and the extractor it reads     *)
(* with (libpaf/src/paf_extractor.c).  The entries of an archive are       *)
(* arranged in a tree; Windows then calls back, from as many threads as it *)
(* likes, to walk directories and to read files.  Walks keep their place   *)
(* in a fixed pool of sessions; all reads share one open archive.          *)
(*                                                                         *)
(* Assumed of ProjFS: it ends an enumeration, and lets the provider stop,  *)
(* only when no callback for it is running, and enumeration ids are        *)
(* unique.  The provider is built for Windows, where fseek takes a 32-bit  *)
(* offset: an archive whose index or paths begin 2 GiB or more into the    *)
(* file is not opened rightly in the first place (paf_extractor.c:58,90)   *)
(* and is none of those considered here.                                   *)
(***************************************************************************)
EXTENDS Integers, Sequences, FiniteSets

CONSTANTS
    Archives,     \* the archives: sequences of [path, data, refused, at]; a refused path
                  \* is unsafe or too long, and at is where the data begins in the file
    LongMax,      \* 2^31 - 1 in the units of this instance
    Other,        \* a byte of another place of the archive
    Fold(_),      \* the name without case, as _wcsicmp compares it
    InCwd,        \* paths the current directory has a file for: path -> data
    Enums,        \* enumeration ids
    Slots,        \* the places of the pool (MAX_SESSIONS = 64)
    Readers,      \* threads that read files
    Filters, All, \* search expressions; "*"
    FileNameMatch(_, _), \* PrjFileNameMatch(name, filter)
    Requests,     \* what may be read: [from, length]
    Workloads,    \* who calls back in one run: sets of enumerations and readers
    Free          \* the zero GUID, no directory, no reader

\* A path without case, and the directory of its first j components.
Folded(path) == [j \in 1..Len(path) |-> Fold(path[j])]
Prefix(path, j) == SubSeq(path, 1, j)

ASSUME SlotAssumption ==
    /\ Slots \subseteq Nat /\ IsFiniteSet(Slots) /\ Free \notin Enums
    /\ Free \notin Readers /\ Free # <<>> /\ All \in Filters
    /\ Requests \subseteq [from : Nat, length : Nat]
    /\ LongMax \in Nat /\ Other \in Nat
ASSUME ArchiveAssumption ==
    \A a \in Archives :
        /\ a \in Seq([path : Seq(STRING), data : Seq(Nat), refused : BOOLEAN, at : Nat])
        /\ \A k \in 1..Len(a) :
               Free # a[k].data /\ \A j \in 0..Len(a[k].path) : Free # Prefix(Folded(a[k].path), j)

VARIABLES
    archive,    \* the archive mounted
    callers,    \* the workload
    phase,      \* "build", "mounted", "unmounted"
    next,       \* the next entry to insert
    tree,       \* the nodes, by folded path
    sessions,   \* sessions[s]: [id, dir, cursor, filter]
    scan,       \* scan[e]: the GetDirectoryEnumeration callback for e
    shown,      \* history: children given to e since its start or restart
    complete,   \* history: the enumerations that were told they are complete
    lock,       \* the reader that holds cs_ext, or Free
    filePos,    \* the position of the open archive
    reader      \* reader[r]: the GetFileData callback of thread r

vars == <<archive, callers, phase, next, tree, sessions, scan, shown, complete, lock, filePos, reader>>
walks == <<sessions, scan, shown, complete>>
reads == <<lock, filePos, reader>>

(***************************************************************************)
(* The tree.  A node is found by its folded path; the root's is empty.     *)
(***************************************************************************)
Root == [name |-> "", isDir |-> TRUE, index |-> 0, kids |-> <<>>]

\* VNode_AddChild: the child goes to the end of its parent's list.
AddNode(t, key, node) ==
    [k \in DOMAIN t \union {key} |->
        IF k = key THEN node
        ELSE IF k = Prefix(key, Len(key) - 1)
             THEN [t[k] EXCEPT !.kids = Append(@, key)] ELSE t[k]]

\* Tree_Insert: missing directories are added on the way, then the file,
\* unless a node has its name; the node a component is found at is used as
\* a directory whether it is one or not.
InsertLastWins(t, path, k) ==  \* mutant: a second file of the name replaces the first
    LET key == Folded(path)
        in[j \in 0..Len(path)] ==
            IF j = 0 THEN t
            ELSE IF Prefix(key, j) \in DOMAIN in[j - 1]
                 THEN IF j = Len(path) THEN [in[j - 1] EXCEPT ![key].index = k] ELSE in[j - 1]
                 ELSE AddNode(in[j - 1], Prefix(key, j),
                         [name |-> path[j], isDir |-> j < Len(path),
                          index |-> IF j < Len(path) THEN 0 ELSE k, kids |-> <<>>])
    IN  in[Len(path)]
Insert(t, path, k) ==
    LET key == Folded(path)
        in[j \in 0..Len(path)] ==
            IF j = 0 THEN t
            ELSE IF Prefix(key, j) \in DOMAIN in[j - 1] THEN in[j - 1]
            ELSE AddNode(in[j - 1], Prefix(key, j),
                         [name |-> path[j], isDir |-> j < Len(path),
                          index |-> IF j < Len(path) THEN 0 ELSE k, kids |-> <<>>])
    IN  in[Len(path)]

\* Tree_Lookup, of a path spelled in any case.
Known(path) == Folded(path) \in DOMAIN tree
Node(path) == tree[Folded(path)]
Directories == {d \in DOMAIN tree : tree[d].isDir}
Kid(d, k) == tree[tree[d].kids[k]]

BuildTree ==
    /\ phase = "build" /\ next <= Len(archive)
    /\ tree' = Insert(tree, archive[next].path, next)
    /\ next' = next + 1
    /\ UNCHANGED <<archive, callers, phase, walks, reads>>

StartVirtualizing ==
    /\ phase = "build" /\ next > Len(archive)
    /\ phase' = "mounted"
    /\ UNCHANGED <<archive, callers, next, tree, walks, reads>>

\* PrjStopVirtualizing returns when no callback runs; then all is freed.
Unmount ==
    /\ phase = "mounted"
    /\ \A e \in Enums : scan[e].pc = "none"
    /\ \A r \in Readers : reader[r].pc = "none"
    /\ phase' = "unmounted"
    /\ UNCHANGED <<archive, callers, next, tree, walks, reads>>

(***************************************************************************)
(* Directory enumeration.                                                  *)
(***************************************************************************)
EmptySession == [id |-> Free, dir |-> <<>>, cursor |-> 0, filter |-> All]
NoScan == [pc |-> "none", slot |-> 0]

Held == {s \in Slots : sessions[s].id # Free}
Unused == Slots \ Held
SlotOf(e) == CHOOSE s \in Slots : sessions[s].id = e
Holds(e) == \E s \in Slots : sessions[s].id = e

FirstUnused == {s \in Unused : \A u \in Unused : s <= u}

\* Session_Create, under the lock: the first free place, or a refusal.
StartDirectoryEnumeration(e) ==
    /\ e \in callers /\ phase = "mounted" /\ ~Holds(e) /\ scan[e].pc = "none"
    /\ \E d \in Directories, s \in FirstUnused :
           sessions' = [sessions EXCEPT ![s] = [id |-> e, dir |-> d, cursor |-> 0, filter |-> All]]
    /\ shown' = [shown EXCEPT ![e] = {}]
    /\ complete' = complete \ {e}
    /\ UNCHANGED <<archive, callers, phase, next, tree, scan, reads>>

\* Session_Destroy.
DestroyedKept(s) == [sessions EXCEPT ![s].dir = <<>>, ![s].cursor = 0]  \* mutant: the id stays
Destroyed(s) == [sessions EXCEPT ![s].id = Free, ![s].dir = <<>>, ![s].cursor = 0]

EndDirectoryEnumeration(e) ==
    /\ phase = "mounted" /\ Holds(e) /\ scan[e].pc = "none"
    /\ sessions' = Destroyed(SlotOf(e))
    /\ shown' = [shown EXCEPT ![e] = {}]
    /\ complete' = complete \ {e}
    /\ UNCHANGED <<archive, callers, phase, next, tree, scan, reads>>

\* Session_Find; from here on the session is used without the lock.  A
\* restart takes the search expression; without one it is not looked at.
GetDirectoryEnumeration(e) ==
    /\ phase = "mounted" /\ Holds(e) /\ scan[e].pc = "none"
    /\ scan' = [scan EXCEPT ![e] = [pc |-> "scan", slot |-> SlotOf(e)]]
    /\ \/ UNCHANGED <<sessions, shown, complete>>
       \/ \E f \in Filters :
              /\ sessions' = [sessions EXCEPT ![SlotOf(e)].cursor = 0, ![SlotOf(e)].filter = f]
              /\ shown' = [shown EXCEPT ![e] = {}]
              /\ complete' = complete \ {e}
    /\ UNCHANGED <<archive, callers, phase, next, tree, reads>>

AdvanceNever(s) == UNCHANGED sessions  \* mutant: a child that does not match is met again
Advance(s) == sessions' = [sessions EXCEPT ![s].cursor = @ + 1]

Scanned(e) == sessions[scan[e].slot]
MoreToScan(e) == scan[e].pc = "scan" /\ Scanned(e).cursor < Len(tree[Scanned(e).dir].kids)
Candidate(e) == Kid(Scanned(e).dir, Scanned(e).cursor + 1).name

SkipChild(e) ==
    /\ MoreToScan(e) /\ ~FileNameMatch(Candidate(e), Scanned(e).filter)
    /\ Advance(scan[e].slot)
    /\ UNCHANGED <<archive, callers, phase, next, tree, scan, shown, complete, reads>>

\* PrjFillDirEntryBuffer takes the child, or has no room for it.
FillChild(e) ==
    /\ MoreToScan(e) /\ FileNameMatch(Candidate(e), Scanned(e).filter)
    /\ sessions' = [sessions EXCEPT ![scan[e].slot].cursor = @ + 1]
    /\ shown' = [shown EXCEPT ![e] = @ \union {Scanned(e).cursor + 1}]
    /\ UNCHANGED <<archive, callers, phase, next, tree, scan, complete, reads>>

\* No room, or another error: the child is met again by the next callback.
BufferFull(e) ==
    /\ MoreToScan(e) /\ FileNameMatch(Candidate(e), Scanned(e).filter)
    /\ scan' = [scan EXCEPT ![e] = NoScan]
    /\ UNCHANGED <<archive, callers, phase, next, tree, sessions, shown, complete, reads>>

\* S_OK with the last child passed: the enumeration is complete.
EndScan(e) ==
    /\ scan[e].pc = "scan" /\ ~MoreToScan(e)
    /\ scan' = [scan EXCEPT ![e] = NoScan]
    /\ complete' = complete \union {e}
    /\ UNCHANGED <<archive, callers, phase, next, tree, sessions, shown, reads>>

(***************************************************************************)
(* Reading a file: paf_extractor_get_file on the one open archive, under   *)
(* cs_ext.  Any read and any allocation may fail; failed remembers it.     *)
(***************************************************************************)
NoReader == [pc |-> "none", index |-> 0, request |-> [from |-> 0, length |-> 0],
             rc |-> 0, data |-> Free, failed |-> FALSE]
Failed(r, pc, rc) ==
    reader' = [reader EXCEPT ![r].pc = pc, ![r].rc = rc, ![r].failed = TRUE]
ReaderGoto(r, pc) == reader' = [reader EXCEPT ![r].pc = pc]
Of(r) == archive[reader[r].index]

\* What a placeholder says of a node; no state changes.
NotFound == [isDir |-> FALSE, size |-> -1]
BasicInfo(node) ==
    [isDir |-> node.isDir, size |-> IF node.isDir THEN 0 ELSE Len(archive[node.index].data)]
GetPlaceholderInfo(path) == IF Known(path) THEN BasicInfo(Node(path)) ELSE NotFound

\* The lookup; a directory, or no node, is refused at once.  Without memory
\* for the answer the callback gives E_OUTOFMEMORY and reads nothing.
GetFileData(r) ==
    /\ r \in callers /\ phase = "mounted" /\ reader[r].pc = "none"
    /\ \E key \in DOMAIN tree \ Directories, q \in Requests :
           LET call == [NoReader EXCEPT !.index = tree[key].index, !.request = q]
           IN  \/ reader' = [reader EXCEPT ![r] = [call EXCEPT !.pc = "enter"]]
               \/ reader' = [reader EXCEPT ![r] =
                                [call EXCEPT !.pc = "write", !.rc = -1, !.failed = TRUE]]
    /\ UNCHANGED <<archive, callers, phase, next, tree, walks, lock, filePos>>

EnterUnlocked(r) == TRUE  \* mutant: the critical section is not entered
MayEnter(r) == lock = Free

EnterExtractor(r) ==
    /\ reader[r].pc = "enter" /\ MayEnter(r)
    /\ lock' = r
    /\ ReaderGoto(r, "path")
    /\ UNCHANGED <<archive, callers, phase, next, tree, walks, filePos>>

\* The path is read and checked.
ReadPath(r) ==
    /\ reader[r].pc = "path"
    /\ filePos' = <<"path", reader[r].index>>
    /\ \/ Of(r).refused /\ reader' = [reader EXCEPT ![r].pc = "leave", ![r].rc = -3]
       \/ ~Of(r).refused /\ ReaderGoto(r, "compare")
       \/ Failed(r, "leave", -1)
    /\ UNCHANGED <<archive, callers, phase, next, tree, walks, lock>>

\* The smart-overwrite test: a file of that path, size and hash below the
\* current directory makes the call succeed without data.  It counts as
\* another file when it cannot be read.
SameInCwd(path, data) == path \in DOMAIN InCwd /\ InCwd[path] = data
Compare(r) ==
    /\ reader[r].pc = "compare"
    /\ \/ SameInCwd(Of(r).path, Of(r).data) /\ ReaderGoto(r, "leave")
       \/ ReaderGoto(r, "seek")
    /\ UNCHANGED <<archive, callers, phase, next, tree, walks, lock, filePos>>

\* Data over 2 GiB is refused, and malloc may fail.  The 64-bit offset goes
\* to fseek as a long of 32 bits: one that does not fit becomes negative, and
\* the position stays, or another place of the file.
SeekData(r) ==
    /\ reader[r].pc = "seek"
    /\ \/ /\ Len(Of(r).data) > LongMax
          /\ reader' = [reader EXCEPT ![r].pc = "leave", ![r].rc = -4]
          /\ UNCHANGED filePos
       \/ /\ Len(Of(r).data) <= LongMax /\ Failed(r, "leave", -5)
          /\ UNCHANGED filePos
       \/ /\ Len(Of(r).data) <= LongMax /\ ReaderGoto(r, "read")
          /\ filePos' = <<IF Of(r).at <= LongMax THEN "data" ELSE "astray", reader[r].index>>
    /\ UNCHANGED <<archive, callers, phase, next, tree, walks, lock>>

\* fread gives what is at the position, whoever set it; away from the data of
\* a file that is something else, or too little.
ReadData(r) ==
    /\ reader[r].pc = "read"
    /\ filePos' = <<"end", filePos[2]>>
    /\ \/ reader' = [reader EXCEPT ![r].pc = "leave",
              ![r].data = IF filePos[1] = "data" THEN archive[filePos[2]].data
                          ELSE [j \in 1..Len(Of(r).data) |-> Other]]
       \/ Failed(r, "leave", -1)
    /\ UNCHANGED <<archive, callers, phase, next, tree, walks, lock>>

LeaveExtractor(r) ==
    /\ reader[r].pc = "leave"
    /\ lock' = Free
    /\ ReaderGoto(r, "write")
    /\ UNCHANGED <<archive, callers, phase, next, tree, walks, filePos>>

\* What is handed to PrjWriteFileData: the part of the data that was asked
\* for, zeros behind its end, and zeros only if there is no data.
Answer(data, q) ==
    [j \in 1..q.length |-> IF q.from + j <= Len(data) THEN data[q.from + j] ELSE 0]

\* A failed read and an offset behind the end give an error, not data.
Served(r) ==
    LET w == reader[r]
    IN  IF w.rc # 0 THEN Free
        ELSE IF w.data = Free THEN Answer(<<>>, w.request)
        ELSE IF w.request.from > Len(w.data) THEN Free
        ELSE Answer(w.data, w.request)

WriteFileData(r) ==
    /\ reader[r].pc = "write"
    /\ reader' = [reader EXCEPT ![r] = NoReader]
    /\ UNCHANGED <<archive, callers, phase, next, tree, walks, lock, filePos>>

Init ==
    /\ archive \in Archives /\ callers \in Workloads
    /\ phase = "build" /\ next = 1
    /\ tree = [k \in {<<>>} |-> Root]
    /\ sessions = [s \in Slots |-> EmptySession]
    /\ scan = [e \in Enums |-> NoScan] /\ shown = [e \in Enums |-> {}] /\ complete = {}
    /\ lock = Free /\ filePos = <<"end", 0>>
    /\ reader = [r \in Readers |-> NoReader]

ScanStep(e) == SkipChild(e) \/ FillChild(e) \/ BufferFull(e) \/ EndScan(e)
ReadStep(r) == EnterExtractor(r) \/ ReadPath(r) \/ Compare(r) \/ SeekData(r) \/ ReadData(r)
               \/ LeaveExtractor(r) \/ WriteFileData(r)

Next ==
    \/ BuildTree \/ StartVirtualizing \/ Unmount
    \/ \E e \in Enums :
          \/ StartDirectoryEnumeration(e) \/ EndDirectoryEnumeration(e)
          \/ GetDirectoryEnumeration(e) \/ ScanStep(e)
    \/ \E r \in Readers : GetFileData(r) \/ ReadStep(r)

Spec == Init /\ [][Next]_vars

\* A callback that runs goes on running.
FairSpec == /\ Spec
            /\ \A e \in Enums : WF_vars(ScanStep(e))
            /\ \A r \in Readers : WF_vars(ReadStep(r))

-----------------------------------------------------------------------------
(***************************************************************************)
(* Properties                                                              *)
(***************************************************************************)
Labels == {"none", "enter", "path", "compare", "seek", "read", "leave", "write"}

\* The variables have their types; no session is held twice.
TypeOK ==
    /\ archive \in Archives /\ phase \in {"build", "mounted", "unmounted"}
    /\ \A s \in Slots : sessions[s].id \in Enums \union {Free} /\ sessions[s].cursor \in Nat
    /\ \A e \in Enums : scan[e].pc \in {"none", "scan"}
    /\ \A r \in Readers : reader[r].pc \in Labels
    /\ lock \in Readers \union {Free} /\ complete \subseteq Enums

\* paf_mount.c:143-200: when the tree is complete every entry is found under
\* its path in any case: as the first file of that name, whose size the
\* placeholder shows, or as a directory if an earlier entry needed one or the
\* path is empty; and every node is listed by its parent exactly once.
TreeFaithful ==
    phase = "mounted" =>
        /\ \A k \in 1..Len(archive) :
               LET key   == Folded(archive[k].path)
                   same  == {j \in 1..Len(archive) : Folded(archive[j].path) = key}
                   first == CHOOSE j \in same : \A i \in same : j <= i
                   below == {j \in 1..first : Len(archive[j].path) > Len(key)
                                               /\ Prefix(Folded(archive[j].path), Len(key)) = key}
                   isDir == below # {} \/ key = <<>>
               IN  /\ GetPlaceholderInfo(archive[k].path) =
                         [isDir |-> isDir,
                          size  |-> IF isDir THEN 0 ELSE Len(archive[first].data)]
                   /\ ~isDir => Node(archive[k].path).index = first
        /\ \A key \in DOMAIN tree \ {<<>>} :
               LET kids == tree[Prefix(key, Len(key) - 1)].kids
               IN  Cardinality({i \in 1..Len(kids) : kids[i] = key}) = 1

\* paf_mount.c:390-442: with any number of threads on the one open archive,
\* a read gives the bytes of the file that was asked for and zeros behind its
\* end, or an error if a read or an allocation of this very call failed.
\* Nothing is claimed of an entry whose data begins 2 GiB or more into the
\* archive, which is looked for at a truncated offset (paf_extractor.c:134),
\* nor of one whose path and content the current directory of the provider
\* holds too, for which zeros are given.
DataServed ==
    \A r \in Readers :
        reader[r].pc = "write" /\ ~SameInCwd(Of(r).path, Of(r).data) /\ Of(r).at <= LongMax =>
            LET data == Of(r).data
                q    == reader[r].request
            IN  IF Of(r).refused \/ Len(data) > LongMax \/ q.from > Len(data)
                THEN Served(r) = Free
                ELSE \/ reader[r].failed /\ Served(r) = Free
                     \/ /\ Len(Served(r)) = q.length
                        /\ \A j \in 1..q.length :
                              Served(r)[j] = IF q.from + j \in 1..Len(data)
                                             THEN data[q.from + j] ELSE 0

\* paf_mount.c:206-360: though the places of the pool are given from one
\* enumeration to the next and are used without the lock, every caller gets
\* its own directory, entry by entry, from the start or the last restart,
\* and is told that this was all only when nothing that matches is left.
L == INSTANCE Listing WITH
        Matches <- FileNameMatch, None <- Free,
        content <- [d \in Directories |-> [k \in 1..Len(tree[d].kids) |-> Kid(d, k).name]],
        dirOf <- [e \in Enums |-> IF Holds(e) THEN sessions[SlotOf(e)].dir ELSE Free],
        want  <- [e \in Enums |-> IF Holds(e) THEN sessions[SlotOf(e)].filter ELSE All],
        shown <- shown, complete <- complete
ImplementsListing == L!Spec

\* paf_mount.c:331-357 and 399-405: a callback that fills a buffer returns,
\* and the extractor is always left again, whatever the call gave.
CallbacksReturn ==
    /\ \A e \in Enums : scan[e].pc = "scan" ~> scan[e].pc = "none"
    /\ \A r \in Readers : lock = r ~> lock # r
=============================================================================
