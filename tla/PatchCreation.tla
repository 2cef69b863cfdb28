---------------------------- MODULE PatchCreation ---------------------------
(***************************************************************************)
(* paf_create_patch (libpaf/src/libpaf_core.c): index-only snapshots of    *)
(* two directories, their difference (module Delta), then one patch entry  *)
(* per difference, for which the files are read a second time, and the     *)
(* patch archive.  Other programs may change the files all the while.      *)
(*                                                                         *)
(* A hash is abstracted to the bytes it was computed from.  A binary delta *)
(* is one cell naming the contents it was made from; module BinaryDelta    *)
(* has the instruction stream behind it.  Changes are placed between the   *)
(* steps that read the directories; elsewhere they commute with the step.  *)
(***************************************************************************)
EXTENDS Delta, ArchiveFile, FiniteSets

CONSTANTS
    Order,       \* the relative paths of the files, in readdir order
    Contents,    \* file contents: sequences of bytes
    Unreadable,  \* pairs <<side, path>>: files that cannot be opened
    TooBig,      \* contents of more than 128 MB
    Refused,     \* paths paf_patch_apply_atomic refuses: empty, with two dots
                 \* in a row, absolute, or too long below the directory
    MaxChanges,  \* bound: files changed by other programs, once each
    Absent,      \* no file of that path
    NoFile       \* out_paf before it is written

Side == {"old", "new"}

\* A directory has every path once; paths and contents are strings of any
\* characters and bytes; a file can have the hash of any part of a content.
IsString(s) == s \in Seq({s[i] : i \in DOMAIN s})
ASSUME PathAssumption ==
    /\ Order \in Seq(Path) /\ \A p \in Path : \E j \in 1..Len(Order) : Order[j] = p
    /\ \A i, j \in 1..Len(Order) : Order[i] = Order[j] => i = j
    /\ \A s \in Path \cup Contents : IsString(s)
    /\ \A c \in Contents : \A n \in 0..Len(c) : SubSeq(c, 1, n) \in Hash
ASSUME ContentAssumption ==
    /\ Absent \notin Contents /\ TooBig \subseteq Contents
    /\ Unreadable \subseteq Side \X Path /\ Refused \subseteq Path
    /\ MaxChanges \in Nat

VARIABLES
    tree,     \* tree[s][p]: the content of file p below directory s
    pc,
    side,     \* the directory whose snapshot is taken
    todo,     \* the files collected there, with their sizes
    next,     \* the running loop index
    snap,     \* the entries of the two snapshots
    patch,    \* the three temporary files, their offsets, and errors
    out,      \* the file out_paf
    result,   \* "ok" for 0, "error" for a negative value, "none" before
    changed,  \* history: the files that were changed
    lost,     \* history: bytes for a temporary file were lost
    cut       \* history: the last bytes of out_paf were lost

pvars == <<tree, pc, side, todo, next, snap, patch, out, result, changed, lost, cut>>
vars  == <<dvars, pvars>>

\* One of the paths is a directory of the other.
Related(p, q) == StartsWith(p, q \o <<Slash>>) \/ StartsWith(q, p \o <<Slash>>)
IsTree(t) == \A p, q \in Path : Related(p, q) => t[p] = Absent \/ t[q] = Absent

CanOpen(s, p) == tree[s][p] # Absent /\ <<s, p>> \notin Unreadable

(***************************************************************************)
(* paf_create_index_only, once per directory: the files are collected with *)
(* their sizes, then opened one by one; one that cannot be opened is left  *)
(* out, and of one that has grown only the collected size is read.         *)
(***************************************************************************)
CollectedIn(t) ==
    LET upTo[n \in 0..Len(Order)] ==
            IF n = 0 THEN <<>>
            ELSE LET p == Order[n]
                 IN  IF t[p] = Absent THEN upTo[n - 1]
                     ELSE Append(upTo[n - 1], [path |-> p, size |-> Len(t[p])])
    IN  upTo[Len(Order)]

Collect ==
    /\ pc = "collect"
    /\ todo' = CollectedIn(tree[side])
    /\ next' = 1
    /\ pc' = "read"
    /\ UNCHANGED <<dvars, tree, side, snap, patch, out, result, changed, lost, cut>>

ReadFile ==
    /\ pc = "read" /\ next <= Len(todo)
    /\ LET e == todo[next]
       IN  snap' = IF CanOpen(side, e.path)
                   THEN [snap EXCEPT ![side] = Append(@,
                            [path |-> e.path, hash |-> Read(tree[side][e.path], 0, e.size)])]
                   ELSE snap
    /\ next' = next + 1
    /\ UNCHANGED <<dvars, tree, pc, side, todo, patch, out, result, changed, lost, cut>>

EndOldSnapshot ==
    /\ pc = "read" /\ next > Len(todo) /\ side = "old"
    /\ side' = "new" /\ pc' = "collect"
    /\ UNCHANGED <<dvars, tree, todo, next, snap, patch, out, result, changed, lost, cut>>

\* The snapshots are written, listed, compared and removed.
EndNewSnapshot ==
    /\ pc = "read" /\ next > Len(todo) /\ side = "new"
    /\ Calculate(snap["old"], snap["new"])
    /\ pc' = "delta"
    /\ UNCHANGED <<tree, side, todo, next, snap, patch, out, result, changed, lost, cut>>

CompareStep == pc = "delta" /\ DeltaStep /\ UNCHANGED pvars

EndDelta ==
    /\ pc = "delta" /\ phase = "done"
    /\ pc' = "entries" /\ next' = 1
    /\ UNCHANGED <<dvars, tree, side, todo, snap, patch, out, result, changed, lost, cut>>

(***************************************************************************)
(* The loop over the delta entries.                                        *)
(***************************************************************************)
R == results[next]
Pafd(base, target) == <<[kind |-> "pafd", base |-> base, target |-> target]>>

\* The three fwrites of an entry.  None is checked: bytes of one may be lost
\* (the last ones, here), while the offsets count all of it.
ShortOf(s) == {SubSeq(s, 1, n) : n \in 0..Len(s) - 1}

AddEntryFixedPath(flag, bytes, hash) ==  \* mutant: path_offset stays
    /\ patch' = [patch EXCEPT
           !.data = @ \o bytes, !.dataOff = @ + Len(bytes),
           !.index = Append(@, [kind |-> "entry", flag |-> flag, hash |-> hash,
                                pathOff |-> patch.pathOff, pathLen |-> Len(R.path),
                                off |-> patch.dataOff, size |-> Len(bytes)]),
           !.paths = @ \o R.path]
    /\ UNCHANGED lost
AddEntry(flag, bytes, hash) ==
    LET e == [kind |-> "entry", flag |-> flag, hash |-> hash,
              pathOff |-> patch.pathOff, pathLen |-> Len(R.path),
              off |-> patch.dataOff, size |-> Len(bytes)]
        Stored(b, index, q) ==
            patch' = [patch EXCEPT !.data = @ \o b, !.dataOff = @ + Len(bytes), !.index = index,
                                   !.paths = @ \o q, !.pathOff = @ + Len(R.path)]
    IN  \/ Stored(bytes, Append(patch.index, e), R.path) /\ UNCHANGED lost
        \/ /\ \/ \E b \in ShortOf(bytes) : Stored(b, Append(patch.index, e), R.path)
              \/ Stored(bytes, patch.index, R.path)
              \/ \E q \in ShortOf(R.path) : Stored(bytes, Append(patch.index, e), q)
           /\ lost' = TRUE

NextEntry ==
    /\ next' = next + 1
    /\ UNCHANGED <<dvars, tree, pc, side, todo, snap, out, result, changed, cut>>

DeletedEntry ==
    /\ pc = "entries" /\ next <= Len(results) /\ R.status = "deleted"
    /\ AddEntry("deleted", <<>>, NoHash)
    /\ NextEntry

\* An added file, or an updated one for which no delta was made: it is too
\* big, the old file is gone, or paf_bdelta_create ran out of memory.
FullEntry ==
    /\ pc = "entries" /\ next <= Len(results) /\ R.status # "deleted"
    /\ CanOpen("new", R.path)
    /\ AddEntry("full", tree["new"][R.path], R.hash)
    /\ NextEntry

DeltaEntry ==
    /\ pc = "entries" /\ next <= Len(results) /\ R.status = "updated"
    /\ CanOpen("old", R.path) /\ tree["old"][R.path] \notin TooBig
    /\ CanOpen("new", R.path)
    /\ AddEntry("delta", Pafd(tree["old"][R.path], tree["new"][R.path]), R.hash)
    /\ NextEntry

\* The entry is written all the same, with no data; the error is counted, so
\* that no archive is made and what is lost of this entry does not matter.
FailedEntryUncounted ==  \* mutant
    /\ pc = "entries" /\ next <= Len(results) /\ R.status # "deleted"
    /\ ~CanOpen("new", R.path)
    /\ patch' = [patch EXCEPT
           !.index = Append(@, [kind |-> "entry", flag |-> "full", hash |-> NoHash,
                                pathOff |-> patch.pathOff, pathLen |-> Len(R.path),
                                off |-> 0, size |-> 0]),
           !.paths = @ \o R.path, !.pathOff = @ + Len(R.path)]
    /\ NextEntry /\ UNCHANGED lost
FailedEntry ==
    /\ pc = "entries" /\ next <= Len(results) /\ R.status # "deleted"
    /\ ~CanOpen("new", R.path)
    /\ patch' = [patch EXCEPT
           !.index = Append(@, [kind |-> "entry", flag |-> "full", hash |-> NoHash,
                                pathOff |-> patch.pathOff, pathLen |-> Len(R.path),
                                off |-> 0, size |-> 0]),
           !.paths = @ \o R.path, !.pathOff = @ + Len(R.path),
           !.errors = @ + 1]
    /\ NextEntry /\ UNCHANGED lost

EndEntries ==
    /\ pc = "entries" /\ next > Len(results)
    /\ IF patch.errors > 0 THEN pc' = "done" /\ result' = "error"
                           ELSE pc' = "publish" /\ UNCHANGED result
    /\ UNCHANGED <<dvars, tree, side, todo, next, snap, patch, out, changed, lost, cut>>

(***************************************************************************)
(* The archive.  No fwrite is checked: bytes at its end may be lost.       *)
(***************************************************************************)
PatchFile ==
    LET indexOff == HeaderSize + patch.dataOff
        count    == Len(patch.index)
    IN  <<Header(FALSE, count, indexOff, indexOff + count * EntrySize)>>
            \o patch.data \o patch.index \o patch.paths

Publish ==
    /\ pc = "publish"
    /\ \/ out' = PatchFile /\ cut' = FALSE
       \/ \E n \in 0..Len(PatchFile) - 1 :
             out' = SubSeq(PatchFile, 1, n) /\ cut' = TRUE
    /\ pc' = "done" /\ result' = "ok"
    /\ UNCHANGED <<dvars, tree, side, todo, next, snap, patch, changed, lost>>

\* A snapshot, paf_delta_calculate, a tmpfile or the last fopen fails.
GiveUp ==
    /\ \/ pc \in {"collect", "publish"}
       \/ pc = "read" /\ next > Len(todo)
       \/ pc = "delta" /\ phase = "failed"
       \/ pc = "entries" /\ next = 1
    /\ pc' = "done" /\ result' = "error"
    /\ UNCHANGED <<dvars, tree, side, todo, next, snap, patch, out, changed, lost, cut>>

\* Another program writes, creates or removes a file; no directory appears
\* where a file was.
Change ==
    /\ pc \in {"collect", "read", "entries"}
    /\ \E s \in Side, p \in Path, c \in Contents \cup {Absent} :
          /\ tree[s][p] # c /\ <<s, p>> \notin changed
          /\ c # Absent => \A q \in Path :
                Related(p, q) => tree[s][q] = Absent /\ <<s, q>> \notin changed
          /\ tree' = [tree EXCEPT ![s][p] = c]
          /\ changed' = changed \cup {<<s, p>>}
    /\ Cardinality(changed) < MaxChanges
    /\ UNCHANGED <<dvars, pc, side, todo, next, snap, patch, out, result, lost, cut>>

Init ==
    /\ DeltaInit
    /\ tree \in [Side -> [Path -> Contents \cup {Absent}]]
    /\ IsTree(tree["old"]) /\ IsTree(tree["new"])
    /\ pc = "collect" /\ side = "old" /\ todo = <<>> /\ next = 1
    /\ snap = [s \in Side |-> <<>>]
    /\ patch = [data |-> <<>>, dataOff |-> 0, index |-> <<>>,
                paths |-> <<>>, pathOff |-> 0, errors |-> 0]
    /\ out = NoFile /\ result = "none"
    /\ changed = {} /\ lost = FALSE /\ cut = FALSE

Step ==
    \/ Collect \/ ReadFile \/ EndOldSnapshot \/ EndNewSnapshot
    \/ CompareStep \/ EndDelta
    \/ DeletedEntry \/ FullEntry \/ DeltaEntry \/ FailedEntry \/ EndEntries
    \/ Publish \/ GiveUp

Next == Step \/ Change

Spec == Init /\ [][Next]_vars

\* The thread that runs paf_create_patch is scheduled until it returns.
FairSpec == Spec /\ WF_vars(Step)
-----------------------------------------------------------------------------
Statuses == {"deleted", "updated", "added"}

TypeOK ==
    /\ IsList(oldList) /\ IsList(newList)
    /\ slots \in [0..MapSize - 1 -> 0..Len(newList)]
    /\ used \subseteq 0..MapSize - 1
    /\ k \in 1..MapSize + Len(oldList) + 1 /\ probe \in 0..MapSize - 1
    /\ phase \in {"idle", "insert", "compare", "sweep", "done", "failed"}
    /\ results \in Seq([path : Path, status : Statuses, hash : Hash \cup {NoHash}])
    /\ tree \in [Side -> [Path -> Contents \cup {Absent}]]
    /\ pc \in {"collect", "read", "delta", "entries", "publish", "done"}
    /\ side \in Side
    /\ snap \in [Side -> Seq([path : Path, hash : Hash])]
    /\ Len(results) <= Len(oldList) + Len(newList)
    /\ patch.errors \in 0..Len(results)
    /\ Len(patch.index) <= Len(results)
    /\ result \in {"none", "ok", "error"}
    /\ changed \subseteq Side \X Path

(***************************************************************************)
(* What paf_patch_apply_atomic makes of the archive (module PatchApply):   *)
(* the contents file p, which was c, can have after a run without faults.  *)
(* An entry whose path it cannot read or refuses is skipped; in the way of *)
(* a path that is not free may be a directory, or a file instead of one.   *)
(***************************************************************************)
Entries    == {e \in 1..Hdr(out).count :
                  LET p == EntryPath(out, IndexCells(out)[e])
                  IN  Len(p) = IndexCells(out)[e].pathLen /\ p \notin Refused}
EntryOf(p) == {e \in Entries : EntryPath(out, IndexCells(out)[e]) = p}

Staged(e, c) ==
    LET d == EntryData(out, e)
    IN  IF Len(d) # e.size THEN Absent
        ELSE IF e.flag = "full" THEN d
        ELSE IF d[1].base = c THEN d[1].target ELSE Absent

Effect(e, c) ==
    IF e.flag = "deleted" THEN Absent
    ELSE IF Staged(e, c) = e.hash THEN e.hash ELSE c

Applied(p, c, free) ==
    IF ~Readable(out) \/ EntryOf(p) = {} THEN {c}
    ELSE {Effect(IndexCells(out)[j], c) : j \in EntryOf(p)} \cup (IF free THEN {} ELSE {c})

\* Neither directory has a file in place of a directory of p, or below p.
Free(p) == \A q \in Path : Related(p, q) => tree["old"][q] = Absent /\ tree["new"][q] = Absent

SnapshotOf(s, p) ==
    IF Listed(snap[s], p)
    THEN snap[s][CHOOSE j \in 1..Len(snap[s]) : snap[s][j].path = p].hash
    ELSE Absent

\* A patch that was returned with 0 and has all its bytes has one entry per
\* difference, in order, none of a file that could not be opened; through
\* the readers of the format each entry yields its own path and payload, and
\* the payload is the one the hash is of unless a file changed meanwhile.
PatchFaithful ==
    out # NoFile /\ ~lost /\ ~cut =>
        /\ WellFormed(out) /\ Hdr(out).count = Len(results)
        /\ \A j \in 1..Len(results) :
              LET e == IndexCells(out)[j]
                  d == EntryData(out, e)
                  r == results[j]
                  same(s) == <<s, r.path>> \notin changed
              IN  /\ EntryPath(out, e) = r.path /\ e.hash = r.hash
                  /\ Len(d) = e.size
                  /\ r.status = "deleted" <=> e.flag = "deleted"
                  /\ e.flag = "deleted" => e.size = 0
                  /\ e.flag = "full" /\ same("new") => d = e.hash
                  /\ e.flag = "delta" => r.status = "updated" /\ Len(d) = 1
                  /\ e.flag = "delta" /\ same("new") => d[1].target = e.hash
                  /\ e.flag = "delta" /\ same("old") =>
                        d[1].base = SnapshotOf("old", r.path)

\* Whatever changed while the patch was made, and wherever the archive was
\* cut: applied to a file of any content, the patch leaves that content or
\* installs what the snapshot of the new directory recorded.  Not if bytes for
\* a temporary file were lost (libpaf_core.c:501,518,544,558,572): all that
\* follows is then at other places than the offsets say, the path of an entry
\* may be that of another file, and paf_create_patch returns 0 all the same.
ApplySafe ==
    out # NoFile /\ ~lost =>
        \A p \in Path, c \in Contents \cup {Absent}, free \in BOOLEAN :
            Applied(p, c, free) \subseteq {c, SnapshotOf("new", p)}

\* If nothing changed, the patch turns the old directory into the new one,
\* except for files of the new directory that cannot be opened, and for
\* deleted ones that could not be opened in the old directory; except for
\* files whose paths the applier refuses, such as "v1..2.txt", which a patch
\* is made of all the same (libpaf_patch.c:168); and except where a file has
\* turned into a directory or a directory into a file.
PatchTransforms ==
    out # NoFile /\ ~lost /\ ~cut /\ changed = {} =>
        \A p \in Path :
            /\ <<"new", p>> \notin Unreadable
            /\ tree["new"][p] = Absent => <<"old", p>> \notin Unreadable
            /\ p \notin Refused /\ Free(p)
            => Applied(p, tree["old"][p], TRUE) = {tree["new"][p]}

\* paf_create_patch returns: no lookup in the map runs round for ever.
Returns == <>(pc = "done")

\* README.md, on PAF_DELTA_DELETED: "File present in old version only".
DeletedIsGone ==
    out # NoFile /\ ~lost /\ ~cut /\ changed = {} =>
        \A j \in 1..Len(results) :
            results[j].status = "deleted" => tree["new"][results[j].path] = Absent
=============================================================================
