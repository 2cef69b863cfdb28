----------------------------- MODULE PatchApply -----------------------------
(***************************************************************************)
(* paf_patch_apply_atomic (libpaf/src/libpaf_patch.c): one entry of the    *)
(* patch after the other, each staged beside its target, verified and      *)
(* renamed into place.  One action per step the process can be stopped     *)
(* after; the process may be killed between any two of them, and the       *)
(* caller may run the patch again on whatever the last run left.           *)
(*                                                                         *)
(* A file's content is a value; a hash is abstracted to the content it is  *)
(* the hash of (no collisions).  A Fault is a system call that fails or a  *)
(* buffered write that is lost at fclose (whose result the code ignores).  *)
(***************************************************************************)
EXTENDS Integers, Sequences, FiniteSets

CONSTANTS
    Names,          \* every path under dst_dir the run can touch
    Anc,            \* Anc[n]: the proper ancestors of n under dst_dir
    Files,          \* the paths of the files of the two snapshots
    Stage,          \* Stage[n]: n with ".paf_stage" appended
    Content,        \* complete file contents
    Old, New,       \* the snapshots: Files -> Content \cup {Absent}
    Patch,          \* the entries of the patch, in archive order
    Absent, Dir,    \* no such path; the path is a directory
    Torn,           \* any content that is neither snapshot's
    EmptyOld,       \* the files whose delta was made from an empty file
    RefusedPaths,   \* the files whose path the application refuses
    RenameReplaces, \* TRUE: POSIX rename; FALSE: the Windows CRT's
    MaxRuns,        \* bound: times the caller starts the patch
    MaxFaults       \* bound: faults and crashes over all runs

Kinds   == {"deleted", "delta", "full"}
Node    == Content \cup {Absent, Dir, Torn}
Regular == Content \cup {Torn}

ASSUME NodeAssumption ==
    /\ Absent \notin Content /\ Dir \notin Content /\ Torn \notin Content
    /\ Absent # Dir /\ Absent # Torn /\ Dir # Torn

ASSUME BoundAssumption ==
    /\ MaxRuns \in Nat /\ MaxFaults \in Nat
    /\ RenameReplaces \in BOOLEAN

ASSUME NameAssumption ==
    /\ Files \subseteq Names
    /\ Anc \in [Names -> SUBSET Names]
    /\ Stage \in [Names -> Names]
    /\ EmptyOld \subseteq Files /\ RefusedPaths \subseteq Files

ASSUME SnapshotAssumption ==
    /\ Old \in [Files -> Content \cup {Absent}]
    /\ New \in [Files -> Content \cup {Absent}]

(* The patch is the one paf_create_patch makes of the two snapshots. *)
ASSUME PatchAssumption ==
    /\ Patch \in Seq([path : Files, kind : Kinds])
    /\ \A k \in 1..Len(Patch) :
          (Patch[k].kind = "deleted") <=> (New[Patch[k].path] = Absent)

(* No file of the snapshots bears the name of a staging file. *)
ASSUME StageAssumption == \A p \in Files : Stage[p] \notin Files

VARIABLES
    fs,      \* the destination directory: Names -> Node
    pc,      \* the next step of the running patch
    i,       \* the loop index, 1-based
    errors,  \* the local error counter
    ret,     \* what the last finished run returned
    runs,    \* history: runs started
    faults,  \* history: faults and crashes so far
    faulted  \* history: did a fault hit the current run?

vars == <<fs, pc, i, errors, ret, runs, faults, faulted>>

Working == {"entry", "unlink", "stage", "write", "verify", "rename"}
Halted  == {"idle", "refused", "returned"}

Path   == Patch[i].path
Kind   == Patch[i].kind
Staged == Stage[Patch[i].path]

(***************************************************************************)
(* The file system calls, as functions from a file system to another.      *)
(***************************************************************************)

\* mkdir on every prefix of n, top down, results ignored.
NoParentDirs(f, n) == f  \* mutant: the stage is opened in a missing directory
MakeParentDirs(f, n) ==
    [q \in Names |->
        IF q \in Anc[n] /\ f[q] = Absent
              /\ \A r \in Anc[q] : f[r] \in {Absent, Dir}
        THEN Dir ELSE f[q]]

CanCreate(f, n) == f[n] # Dir /\ \A r \in Anc[n] : f[r] = Dir

Unlink(f, n) == IF f[n] \in Regular THEN [f EXCEPT ![n] = Absent] ELSE f

CanRename(f, to) == f[to] # Dir /\ (RenameReplaces \/ f[to] = Absent)

Rename(f, from, to) ==
    [q \in Names |-> IF q = to THEN f[from]
                     ELSE IF q = from THEN Absent ELSE f[q]]

\* What paf_bdelta_apply can leave in the staging file of p when p holds c.
\* Only a file shorter than old_file_size is refused; on any other content
\* the COPY and LITERAL instructions produce whatever they produce.
DeltaResults(p, c) ==
    IF c = Old[p] \/ p \in EmptyOld THEN {New[p]} ELSE {New[p], Torn}

DeltaReadable(p, c) == p \in EmptyOld \/ c \in Regular

(***************************************************************************)
(* Control.                                                                *)
(***************************************************************************)

Fault == /\ faults < MaxFaults
         /\ faults' = faults + 1
         /\ faulted' = TRUE

NoFault == UNCHANGED <<faults, faulted>>

\* "continue", with the file system left as f.
NextEntry(f) ==
    /\ fs' = f
    /\ i' = i + 1
    /\ pc' = "entry"
    /\ UNCHANGED <<ret, runs>>

FailUncounted(f) == NextEntry(f) /\ UNCHANGED errors      \* mutant
FailNegative(f)  == NextEntry(f) /\ errors' = errors - 1  \* mutant
FailSameEntry(f) ==                                       \* mutant
    fs' = f /\ pc' = "entry" /\ UNCHANGED <<i, errors, ret, runs>>
Fail(f) == NextEntry(f) /\ errors' = errors + 1

\* UNLINK(stage_path), result ignored.
KeepStage(f) == f  \* mutant: an error path forgets the stage
DropStage(f) == Unlink(f, Staged)

\* hash_file on the stage against the entry's hash, that of the new file.
HashUnchecked == TRUE  \* mutant: rename whatever was staged
HashMatches == fs[Staged] = New[Path]

Goto(label, f) ==
    /\ fs' = f
    /\ pc' = label
    /\ UNCHANGED <<i, errors, ret, runs>>

\* fopen, header, index: any of them may fail and the run ends at once.
Open ==
    /\ pc \in Halted
    /\ runs < MaxRuns
    /\ runs' = runs + 1
    /\ i' = 1
    /\ errors' = 0
    /\ \/ /\ pc' = "entry" /\ faulted' = FALSE
          /\ UNCHANGED <<ret, faults>>
       \/ /\ pc' = "refused" /\ Fault
          /\ ret' \in {-1, -2, -3}
    /\ UNCHANGED fs

\* Read the entry's path.  Too long a path, and one with ".." anywhere in
\* it, be it in a name like "v1..2.txt", is an error without any fault; the
\* collection of the files and the making of the patch let both through.
ReadPath ==
    /\ pc = "entry" /\ i <= Len(Patch)
    /\ \/ /\ Path \notin RefusedPaths
          /\ Goto(IF Kind = "deleted" THEN "unlink" ELSE "stage", fs)
          /\ NoFault
       \/ Path \in RefusedPaths /\ Fail(fs) /\ NoFault
       \/ Fail(fs) /\ Fault

DeleteFile ==
    /\ pc = "unlink"
    /\ \/ /\ fs[Path] \in Regular
          /\ NextEntry(Unlink(fs, Path))
          /\ UNCHANGED errors /\ NoFault
       \/ fs[Path] \notin Regular /\ Fail(fs) /\ NoFault
       \/ Fail(fs) /\ Fault

\* make_parent_dirs, then fopen(stage_path, "wb"), which truncates what an
\* earlier run left there.  A delta first reads the target.
OpenStage ==
    /\ pc = "stage"
    /\ LET f       == MakeParentDirs(fs, Staged)
           opens   == CanCreate(f, Staged)
           given   == Kind = "delta" => DeltaReadable(Path, f[Path])
           \* the delta branch removes the stage when the apply fails
           failed  == IF Kind = "delta" THEN DropStage(f) ELSE f
       IN \/ /\ opens /\ given
             /\ Goto("write", [f EXCEPT ![Staged] = Torn])
             /\ NoFault
          \/ ~(opens /\ given) /\ Fail(failed) /\ NoFault
          \/ \* a target shorter than old_file_size is refused
             /\ Kind = "delta" /\ f[Path] # Old[Path] /\ Path \notin EmptyOld
             /\ Fail(failed) /\ NoFault
          \/ \E g \in {f, failed} : Fail(g) /\ Fault

\* The chunk loop or the delta's instructions.  A detected error removes
\* the stage; a write lost at fclose goes unnoticed here.
WriteStage ==
    /\ pc = "write"
    /\ \/ /\ \E c \in IF Kind = "delta" THEN DeltaResults(Path, fs[Path])
                      ELSE {New[Path]} :
                 Goto("verify", [fs EXCEPT ![Staged] = c])
          /\ NoFault
       \/ Goto("verify", [fs EXCEPT ![Staged] = Torn]) /\ Fault
       \/ Fail(DropStage(fs)) /\ Fault

VerifyStage ==
    /\ pc = "verify"
    /\ \/ HashMatches /\ Goto("rename", fs) /\ NoFault
       \/ /\ ~HashMatches
          /\ Fail(DropStage(fs)) /\ NoFault
       \/ Fail(DropStage(fs)) /\ Fault

RenameStage ==
    /\ pc = "rename"
    /\ \/ /\ CanRename(fs, Path)
          /\ NextEntry(Rename(fs, Staged, Path))
          /\ UNCHANGED errors /\ NoFault
       \/ /\ ~CanRename(fs, Path)
          /\ Fail(DropStage(fs)) /\ NoFault
       \/ Fail(DropStage(fs)) /\ Fault

Return ==
    /\ pc = "entry" /\ i > Len(Patch)
    /\ pc' = "returned"
    /\ ret' = -errors
    /\ UNCHANGED <<fs, i, errors, runs, faults, faulted>>

\* The process is killed: locals are lost, the directory stays as it is.
Crash ==
    /\ pc \in Working
    /\ pc' = "idle" /\ i' = 1 /\ errors' = 0
    /\ Fault
    /\ UNCHANGED <<fs, ret, runs>>

Init ==
    /\ fs = [n \in Names |->
                IF n \in Files /\ Old[n] # Absent THEN Old[n]
                ELSE IF \E p \in Files : Old[p] # Absent /\ n \in Anc[p]
                     THEN Dir ELSE Absent]
    /\ pc = "idle" /\ i = 1 /\ errors = 0
    /\ ret = 0 /\ runs = 0 /\ faults = 0 /\ faulted = FALSE

Step == \/ ReadPath \/ DeleteFile \/ OpenStage \/ WriteStage
        \/ VerifyStage \/ RenameStage \/ Return

Next == Open \/ Step \/ Crash

Spec == Init /\ [][Next]_vars

\* A process that is scheduled takes its next step; nothing obliges the
\* caller to start the patch, or a fault to happen.
FairSpec == Spec /\ WF_vars(Step)
-----------------------------------------------------------------------------
(***************************************************************************)
(* Properties.                                                             *)
(***************************************************************************)

\* The file at p, as a reader of the snapshots sees it.
View(p) == IF fs[p] = Dir THEN Absent ELSE fs[p]

\* The variables hold values of their types: type correctness of the run's
\* locals and of the directory.
TypeOK ==
    /\ fs \in [Names -> Node]
    /\ pc \in Working \cup Halted
    /\ i \in 1..Len(Patch) + 1
    /\ errors \in Nat /\ ret \in Int /\ runs \in Nat
    /\ faults \in Nat /\ faulted \in BOOLEAN

\* A file of the destination holds its old or its new content, whole, in
\* every state of every run: while a stage is being written, after a crash,
\* and while a second run works on what a crash left (paf_delta.h:88).
OldOrNew == \A p \in Files : View(p) \in {Old[p], New[p]}

\* The inductive strengthening of OldOrNew.  Inside the loop body i is the
\* index of an entry of the right kind whose path is not refused, and
\* between hash_file and rename the stage holds the new content of that
\* entry: only verified content is ever renamed, although the stage file may
\* have been left by another run.
InBody == pc \in {"unlink", "stage", "write", "verify", "rename"} =>
              /\ i <= Len(Patch) /\ Path \notin RefusedPaths
              /\ Kind = "deleted" <=> pc = "unlink"
RenameIsVerified == pc = "rename" => fs[Staged] = New[Path]
IInv == TypeOK /\ InBody /\ RenameIsVerified /\ OldOrNew

\* A run that met no fault leaves every file at its new content, whatever
\* crashed or failed runs came before it, save those whose paths the code
\* refuses on every run (libpaf_patch.c:163-171); these are counted
\* (MissingAreCounted).
CleanRunInstalls ==
    pc = "returned" /\ ~faulted => \A p \in Files \ RefusedPaths : View(p) = New[p]

\* A run that met no fault leaves no staging file behind, its own or one
\* abandoned by a crashed run.
CleanRunSweeps ==
    pc = "returned" /\ ~faulted =>
        \A k \in 1..Len(Patch) :
            Patch[k].kind # "deleted" => fs[Stage[Patch[k].path]] \notin Regular

\* The snapshots under which a clean run is promised to install everything
\* but the refused files: rename replaces its target, the patch names each
\* changed file once, and no file or staging file of one snapshot is a
\* directory of the other.
Flat ==
    /\ RenameReplaces
    /\ \A p \in Files : Old[p] # New[p] => \E k \in 1..Len(Patch) : Patch[k].path = p
    /\ \A j, k \in 1..Len(Patch) : Patch[j].path = Patch[k].path => j = k
    /\ \A k \in 1..Len(Patch) : Patch[k].kind = "delta" => Old[Patch[k].path] # Absent
    /\ \A p, q \in Files : Stage[p] = Stage[q] => p = q
    /\ \A p \in Files :
          /\ Anc[Stage[p]] = Anc[p]
          /\ \A r \in Anc[p] : /\ Anc[r] \subseteq Anc[p]
                               /\ \A q \in Files : r # q /\ r # Stage[q]

\* The inductive strengthening of CleanRunInstalls and CleanRunSweeps: the
\* entries before i are done, a refused file has no stage, and a stage that
\* will fail the comparison belongs to a file that an earlier run installed.
DirsClear ==
    \A p \in Files : /\ fs[p] # Dir /\ fs[Stage[p]] # Dir
                     /\ \A r \in Anc[p] : fs[r] \in {Absent, Dir}
EntryDone(k) ==
    /\ Patch[k].path \notin RefusedPaths => fs[Patch[k].path] = New[Patch[k].path]
    /\ Patch[k].kind # "deleted" => fs[Stage[Patch[k].path]] \notin Regular
RefusedUnstaged == \A p \in RefusedPaths : fs[Stage[p]] \notin Regular
PrefixDone == pc \in Working \cup {"returned"} /\ ~faulted =>
                  \A k \in 1..Len(Patch) : k < i => EntryDone(k)
StageExplained == pc = "verify" /\ ~faulted =>
                      fs[Staged] = New[Path] \/ fs[Path] = New[Path]
CInv == /\ IInv /\ DirsClear /\ RefusedUnstaged /\ PrefixDone /\ StageExplained
        /\ pc = "returned" => i > Len(Patch)

\* Every file still missing its new content when the run returns is counted
\* in the absolute value of the result; in particular 0 means installed.
MissingAreCounted ==
    pc = "returned" =>
        Cardinality({p \in Files : View(p) # New[p]}) <= -ret

\* A failing result of a run means that some file is not at its new content
\* (paf_delta.h:94: "0: success, other: failure (absolute value = number of
\* errors)").
FailureMeansMissing ==
    pc = "returned" /\ ret # 0 /\ ~faulted =>
        \E p \in Files : View(p) # New[p]

\* A started run ends: the loop advances on every path through its body.
RunEnds == pc \in Working ~> pc \in Halted

\* The run implements the atomic update of AtomicUpdate: seen through View,
\* each step moves at most one file, from old to new.
Promise == INSTANCE AtomicUpdate WITH tree <- [p \in Files |-> View(p)]
ImplementsAtomicUpdate == Promise!Spec

=============================================================================
