-------------------------- MODULE PatchApply_proof --------------------------
(***************************************************************************)
(* Proofs about PatchApply, for every patch, every pair of snapshots and   *)
(* every number of runs, faults and crashes; about the PAFD deltas of      *)
(* BinaryDelta, for every pair of files, every hash and every block size;  *)
(* and that what PatchApply takes a delta to be is what BinaryDelta makes. *)
(***************************************************************************)
EXTENDS PatchApply, BinaryDelta, Ranges, SequenceTheorems, FiniteSetTheorems, TLAPS

\* The types of the constants, in the form the steps below use them.
LEMMA ConstantTypes ==
    /\ Len(Patch) \in Nat
    /\ \A k \in 1..Len(Patch) :
          /\ Patch[k].path \in Files
          /\ Patch[k].kind \in Kinds
          /\ (Patch[k].kind = "deleted") <=> (New[Patch[k].path] = Absent)
    /\ \A p \in Files :
          /\ p \in Names /\ Stage[p] \in Names /\ Stage[p] # p
          /\ Stage[p] \notin Files
          /\ Old[p] \in Content \cup {Absent}
          /\ New[p] \in Content \cup {Absent}
    /\ Absent \in Node /\ Dir \in Node /\ Torn \in Node
    /\ Content \subseteq Node /\ Regular \subseteq Node
    /\ Absent \notin Regular /\ Dir \notin Regular /\ Torn \notin Content
    /\ Absent # Dir /\ Absent # Torn /\ Dir # Torn
    /\ Absent \notin Content /\ Dir \notin Content
<1>1. Len(Patch) \in Nat /\ \A k \in 1..Len(Patch) :
          Patch[k] \in [path : Files, kind : Kinds]
  BY PatchAssumption, ElementOfSeq, LenProperties
<1>2. \A k \in 1..Len(Patch) : Patch[k].path \in Files /\ Patch[k].kind \in Kinds
  BY <1>1
<1>3. QED
  BY <1>1, <1>2, PatchAssumption, NameAssumption, SnapshotAssumption,
     StageAssumption, NodeAssumption DEF Node, Regular

\* The file system calls map file systems to file systems.
LEMMA CallTypes ==
    ASSUME NEW f \in [Names -> Node], NEW n \in Names, NEW m \in Names
    PROVE  /\ MakeParentDirs(f, n) \in [Names -> Node]
           /\ Unlink(f, n) \in [Names -> Node]
           /\ Rename(f, n, m) \in [Names -> Node]
BY ConstantTypes DEF MakeParentDirs, Unlink, Rename

\* Seen through View, the parent directories a run makes and the staging
\* files it removes are invisible.
LEMMA CallViews ==
    ASSUME NEW f \in [Names -> Node], NEW n \in Names
    PROVE  /\ \A q \in Names :
                 \/ MakeParentDirs(f, n)[q] = f[q]
                 \/ f[q] = Absent /\ MakeParentDirs(f, n)[q] = Dir
           /\ n \notin Files => \A q \in Files : Unlink(f, n)[q] = f[q]
BY ConstantTypes, NameAssumption DEF MakeParentDirs, Unlink

\* Every fault step is a step of the counters.
LEMMA FaultTypes ==
    ASSUME TypeOK, Fault \/ NoFault
    PROVE  faults' \in Nat /\ faulted' \in BOOLEAN
<1>1. faults' \in Nat
  BY BoundAssumption DEF TypeOK, Fault, NoFault
<1>2. faulted' \in BOOLEAN
  BY Zenon DEF TypeOK, Fault, NoFault
<1>3. QED
  BY <1>1, <1>2

\* Inside the loop body the current entry is an entry of the patch.
LEMMA Current ==
    ASSUME TypeOK, i <= Len(Patch)
    PROVE  /\ i \in 1..Len(Patch)
           /\ Path \in Files /\ Staged \in Names /\ Staged \notin Files
           /\ Path \in Names /\ Kind \in Kinds
           /\ New[Path] \in Node
           /\ (Kind = "deleted") <=> (New[Path] = Absent)
<1>1. i \in 1..Len(Patch)
  BY ConstantTypes DEF TypeOK
<1>2. QED
  BY <1>1, ConstantTypes, NameAssumption DEF Path, Kind, Staged

LEMMA NextEntryTypes ==
    ASSUME TypeOK, i <= Len(Patch), NEW f \in [Names -> Node],
           NextEntry(f), errors' \in Nat, Fault \/ NoFault
    PROVE  TypeOK'
BY FaultTypes, ConstantTypes DEF TypeOK, NextEntry, Working, Halted

LEMMA FailTypes ==
    ASSUME TypeOK, i <= Len(Patch), NEW f \in [Names -> Node],
           Fail(f), Fault \/ NoFault
    PROVE  TypeOK'
<1>1. NextEntry(f) /\ errors' \in Nat
  BY DEF Fail, TypeOK
<1>2. QED
  BY <1>1, NextEntryTypes

LEMMA GotoTypes ==
    ASSUME TypeOK, NEW f \in [Names -> Node], NEW label \in Working,
           Goto(label, f), Fault \/ NoFault
    PROVE  TypeOK'
BY FaultTypes DEF TypeOK, Goto

-----------------------------------------------------------------------------
\* Every step keeps the variables in their types.
LEMMA TypeStep == TypeOK /\ InBody /\ [Next]_vars => TypeOK'
<1> SUFFICES ASSUME TypeOK, InBody, [Next]_vars
             PROVE  TypeOK'
  OBVIOUS
<1>0. fs \in [Names -> Node]
  BY DEF TypeOK
<1>1. CASE Open
  <2>1. pc' \in Working \cup Halted
    BY <1>1 DEF Open, Working, Halted
  <2>2. ret' \in Int
    BY <1>1 DEF Open, TypeOK
  <2>3. faults' \in Nat /\ faulted' \in BOOLEAN
    <3>1. CASE Fault
      BY <3>1, FaultTypes
    <3>2. CASE faults' = faults /\ faulted' = FALSE
      BY <3>2 DEF TypeOK
    <3>3. QED
      BY <1>1, <3>1, <3>2 DEF Open
  <2>4. i' \in 1..Len(Patch) + 1 /\ errors' \in Nat /\ runs' \in Nat
    BY <1>1, ConstantTypes DEF Open, TypeOK
  <2>5. QED
    BY <1>0, <1>1, <2>1, <2>2, <2>3, <2>4 DEF Open, TypeOK
<1>2. CASE ReadPath
  <2>1. i <= Len(Patch)
    BY <1>2 DEF ReadPath
  <2>2. CASE Fail(fs) /\ Fault
    BY <1>0, <2>1, <2>2, FailTypes
  <2>5. CASE Fail(fs) /\ NoFault
    BY <1>0, <2>1, <2>5, FailTypes
  <2>3. CASE NoFault /\ Goto(IF Kind = "deleted" THEN "unlink" ELSE "stage", fs)
    BY <1>0, <2>3, GotoTypes DEF Working
  <2>4. QED
    BY <1>2, <2>2, <2>3, <2>5 DEF ReadPath
<1>3. CASE DeleteFile
  <2>1. i <= Len(Patch)
    BY <1>3 DEF DeleteFile, InBody
  <2>2. Unlink(fs, Path) \in [Names -> Node]
    BY <1>0, <2>1, Current, CallTypes DEF DropStage
  <2>3. CASE NextEntry(Unlink(fs, Path)) /\ UNCHANGED errors /\ NoFault
    BY <2>1, <2>2, <2>3, NextEntryTypes DEF TypeOK
  <2>4. CASE Fail(fs) /\ (Fault \/ NoFault)
    BY <1>0, <2>1, <2>4, FailTypes
  <2>5. QED
    BY <1>3, <2>3, <2>4 DEF DeleteFile
<1>4. CASE OpenStage
  <2> DEFINE f == MakeParentDirs(fs, Staged)
             g == [f EXCEPT ![Staged] = Torn]
             h == IF Kind = "delta" THEN DropStage(f) ELSE f
  <2>1. i <= Len(Patch)
    BY <1>4 DEF OpenStage, InBody
  <2>2. f \in [Names -> Node]
    BY <1>0, <2>1, Current, CallTypes DEF DropStage
  <2>3. g \in [Names -> Node]
    BY <2>2, ConstantTypes
  <2>4. h \in [Names -> Node]
    BY <2>1, <2>2, Current, CallTypes DEF DropStage
  <2>5. CASE Goto("write", g) /\ NoFault
    <3> HIDE DEF g
    <3> QED BY <2>3, <2>5, GotoTypes DEF Working
  <2>6. CASE (Fail(f) \/ Fail(h)) /\ (Fault \/ NoFault)
    <3> HIDE DEF f, h
    <3> QED BY <2>1, <2>2, <2>4, <2>6, FailTypes
  <2>7. QED
    BY <1>4, <2>5, <2>6 DEF OpenStage
<1>5. CASE WriteStage
  <2>1. i <= Len(Patch)
    BY <1>5 DEF WriteStage, InBody
  <2>2. \A c \in Node : [fs EXCEPT ![Staged] = c] \in [Names -> Node]
    BY <1>0
  <2>3. DropStage(fs) \in [Names -> Node]
    BY <1>0, <2>1, Current, CallTypes DEF DropStage
  <2>4. CASE \E c \in Node : /\ Goto("verify", [fs EXCEPT ![Staged] = c])
                             /\ Fault \/ NoFault
    BY <2>2, <2>4, GotoTypes DEF Working
  <2>5. CASE Fail(DropStage(fs)) /\ Fault
    BY <2>1, <2>3, <2>5, FailTypes
  <2>6. Torn \in Node /\ New[Path] \in Node
          /\ DeltaResults(Path, fs[Path]) \subseteq Node
    BY <2>1, Current, ConstantTypes DEF DeltaResults
  <2>7. QED
    BY <1>5, <2>4, <2>5, <2>6 DEF WriteStage
<1>6. CASE VerifyStage
  <2>1. i <= Len(Patch)
    BY <1>6 DEF VerifyStage, InBody
  <2>2. DropStage(fs) \in [Names -> Node]
    BY <1>0, <2>1, Current, CallTypes DEF DropStage
  <2>3. CASE Goto("rename", fs) /\ NoFault
    BY <1>0, <2>3, GotoTypes DEF Working
  <2>4. CASE Fail(DropStage(fs)) /\ (Fault \/ NoFault)
    BY <2>1, <2>2, <2>4, FailTypes
  <2>5. QED
    BY <1>6, <2>3, <2>4 DEF VerifyStage
<1>7. CASE RenameStage
  <2>1. i <= Len(Patch)
    BY <1>7 DEF RenameStage, InBody
  <2>2. /\ DropStage(fs) \in [Names -> Node]
        /\ Rename(fs, Staged, Path) \in [Names -> Node]
    BY <1>0, <2>1, Current, CallTypes DEF DropStage
  <2>3. CASE NextEntry(Rename(fs, Staged, Path)) /\ UNCHANGED errors /\ NoFault
    BY <2>1, <2>2, <2>3, NextEntryTypes DEF TypeOK
  <2>4. CASE Fail(DropStage(fs)) /\ (Fault \/ NoFault)
    BY <2>1, <2>2, <2>4, FailTypes
  <2>5. QED
    BY <1>7, <2>3, <2>4 DEF RenameStage
<1>8. CASE Return
  BY <1>8 DEF Return, TypeOK, Halted
<1>9. CASE Crash
  BY <1>9, ConstantTypes, BoundAssumption DEF Crash, Fault, TypeOK, Halted
<1>10. CASE UNCHANGED vars
  BY <1>10 DEF vars, TypeOK
<1>11. QED
  BY <1>1, <1>2, <1>3, <1>4, <1>5, <1>6, <1>7, <1>8, <1>9, <1>10 DEF Next, Step

-----------------------------------------------------------------------------
\* What a step does to the files of the snapshots.
Quiet == \A p \in Files : View(p)' = View(p)
InstallsPath == \A p \in Files : View(p)' = IF p = Path THEN New[p] ELSE View(p)

\* A step is invisible through View, or it brings the current entry's file
\* to its new content: an unlink of a deleted file, or the rename of a
\* verified stage.
LEMMA Effect ==
    IInv /\ [Next]_vars => Quiet \/ (Path \in Files /\ InstallsPath)
<1> SUFFICES ASSUME IInv, [Next]_vars
             PROVE  Quiet \/ (Path \in Files /\ InstallsPath)
  OBVIOUS
<1>0. fs \in [Names -> Node] /\ TypeOK /\ InBody
  BY DEF IInv, TypeOK
<1>1. ASSUME fs' = fs PROVE Quiet
  BY <1>1 DEF Quiet, View
<1>2. ASSUME NEW f \in [Names -> Node], fs' = f,
             \A p \in Files : f[p] = fs[p]
      PROVE  Quiet
  BY <1>2 DEF Quiet, View
<1>3. CASE DeleteFile
  <2>1. i <= Len(Patch) /\ Kind = "deleted"
    BY <1>0, <1>3 DEF DeleteFile, InBody
  <2>2. Path \in Files /\ Path \in Names /\ New[Path] = Absent
    BY <1>0, <2>1, Current
  <2>3. CASE fs[Path] \in Regular /\ fs' = Unlink(fs, Path)
    <3>1. fs' = [fs EXCEPT ![Path] = Absent]
      BY <2>3 DEF Unlink
    <3>2. InstallsPath
      BY <1>0, <2>2, <3>1, NameAssumption, NodeAssumption DEF InstallsPath, View
    <3>3. QED
      BY <2>2, <3>2
  <2>4. QED
    BY <1>1, <1>3, <2>3 DEF DeleteFile, NextEntry, Fail
<1>4. CASE OpenStage
  <2> DEFINE f == MakeParentDirs(fs, Staged)
             g == [f EXCEPT ![Staged] = Torn]
             h == IF Kind = "delta" THEN DropStage(f) ELSE f
  <2>1. Staged \in Names /\ Staged \notin Files
    BY <1>0, <1>4, Current DEF OpenStage, InBody
  <2>2. f \in [Names -> Node]
    BY <1>0, <2>1, CallTypes DEF DropStage
  <2>3. \A p \in Files : g[p] = f[p] /\ h[p] = f[p]
    BY <2>1, <2>2, CallViews, NameAssumption DEF DropStage
  <2>4. \A p \in Files : f[p] = fs[p] \/ (fs[p] = Absent /\ f[p] = Dir)
    BY <1>0, <2>1, CallViews, NameAssumption DEF DropStage
  <2>5. fs' = f \/ fs' = g \/ fs' = h
    BY <1>4 DEF OpenStage, Goto, Fail, NextEntry
  <2>6. \A p \in Files : fs'[p] = fs[p] \/ (fs[p] = Absent /\ fs'[p] = Dir)
    <3> HIDE DEF f, g, h
    <3> QED BY <2>3, <2>4, <2>5
  <2>7. QED
    BY <2>6, NodeAssumption DEF Quiet, View
<1>5. CASE WriteStage
  <2>1. Staged \in Names /\ Staged \notin Files
    BY <1>0, <1>5, Current DEF WriteStage, InBody
  <2>2. \/ \E c : fs' = [fs EXCEPT ![Staged] = c]
        \/ fs' = DropStage(fs)
    BY <1>5 DEF WriteStage, Goto, Fail, NextEntry
  <2>3. \A p \in Files : fs'[p] = fs[p]
    BY <1>0, <2>1, <2>2, CallViews, NameAssumption DEF DropStage
  <2>4. QED
    BY <2>3 DEF Quiet, View
<1>6. CASE VerifyStage
  <2>1. Staged \in Names /\ Staged \notin Files
    BY <1>0, <1>6, Current DEF VerifyStage, InBody
  <2>2. fs' = fs \/ fs' = DropStage(fs)
    BY <1>6 DEF VerifyStage, Goto, Fail, NextEntry
  <2>3. \A p \in Files : fs'[p] = fs[p]
    BY <1>0, <2>1, <2>2, CallViews DEF DropStage
  <2>4. QED
    BY <2>3 DEF Quiet, View
<1>7. CASE RenameStage
  <2>1. /\ Staged \in Names /\ Staged \notin Files
        /\ Path \in Files /\ Path \in Names
    BY <1>0, <1>7, Current DEF RenameStage, InBody
  <2>2. CASE fs' = DropStage(fs)
    <3>1. \A p \in Files : fs'[p] = fs[p]
      BY <1>0, <2>1, <2>2, CallViews DEF DropStage
    <3>2. QED
      BY <3>1 DEF Quiet, View
  <2>3. CASE fs' = Rename(fs, Staged, Path)
    <3>1. fs[Staged] = New[Path]
      BY <1>7 DEF IInv, RenameIsVerified, RenameStage
    <3>2. \A p \in Files : fs'[p] = IF p = Path THEN New[Path] ELSE fs[p]
      BY <2>1, <2>3, <3>1, NameAssumption DEF Rename
    <3>3. New[Path] # Dir
      BY <2>1, ConstantTypes
    <3>4. QED
      BY <2>1, <3>2, <3>3 DEF InstallsPath, View
  <2>4. QED
    BY <1>7, <2>2, <2>3 DEF RenameStage, NextEntry, Fail
<1>8. CASE Open \/ ReadPath \/ Return \/ Crash \/ UNCHANGED vars
  <2>1. fs' = fs
    BY <1>8 DEF Open, ReadPath, Return, Crash, vars, Goto, Fail, NextEntry
  <2>2. QED
    BY <1>1, <2>1
<1>9. QED
  BY <1>3, <1>4, <1>5, <1>6, <1>7, <1>8 DEF Next, Step

\* Only VerifyStage leads to the rename, and it leaves the stage as it
\* checked it; the loop body is entered with an entry of its kind.
LEMMA ControlStep ==
    IInv /\ [Next]_vars => InBody' /\ RenameIsVerified'
<1> SUFFICES ASSUME TypeOK, InBody, RenameIsVerified, [Next]_vars
             PROVE  InBody' /\ RenameIsVerified'
  BY DEF IInv
<1>1. ASSUME pc' \in Halted \cup {"entry"}
      PROVE  InBody' /\ RenameIsVerified'
  BY <1>1 DEF InBody, RenameIsVerified, Halted
<1>2. ASSUME NEW f, Fail(f) \/ NextEntry(f)
      PROVE  InBody' /\ RenameIsVerified'
  BY <1>1, <1>2 DEF Fail, NextEntry
<1>3. CASE ReadPath
  BY <1>2, <1>3 DEF ReadPath, Goto, InBody, RenameIsVerified, Kind, Path
<1>4. CASE OpenStage \/ WriteStage
  <2>1. CASE \E f : Fail(f)
    BY <1>2, <2>1
  <2>2. CASE /\ pc \in {"stage", "write"}
             /\ pc' \in {"write", "verify"} /\ i' = i
    BY <2>2 DEF InBody, RenameIsVerified, Kind, Path
  <2>3. QED
    BY <1>4, <2>1, <2>2 DEF OpenStage, WriteStage, Goto
<1>5. CASE VerifyStage
  <2>1. CASE \E f : Fail(f)
    BY <1>2, <2>1
  <2>2. CASE HashMatches /\ Goto("rename", fs)
    BY <1>5, <2>2
       DEF VerifyStage, Goto, InBody, RenameIsVerified, HashMatches, Kind,
           Staged, Path
  <2>3. QED
    BY <1>5, <2>1, <2>2 DEF VerifyStage
<1>6. CASE DeleteFile \/ RenameStage
  BY <1>2, <1>6 DEF DeleteFile, RenameStage
<1>7. CASE Open \/ Return \/ Crash
  BY <1>1, <1>7 DEF Open, Return, Crash, Halted
<1>8. CASE UNCHANGED vars
  BY <1>8 DEF vars, InBody, RenameIsVerified, Kind, Path, Staged
<1>9. QED
  BY <1>3, <1>4, <1>5, <1>6, <1>7, <1>8 DEF Next, Step

-----------------------------------------------------------------------------
LEMMA InitIInv == Init => IInv
<1> SUFFICES ASSUME Init PROVE IInv
  OBVIOUS
<1>1. \A p \in Files : Old[p] # Absent => Old[p] \in Content
  BY ConstantTypes
<1>2. fs \in [Names -> Node]
  BY <1>1, ConstantTypes DEF Init
<1>3. TypeOK
  <2>1. i \in 1..Len(Patch) + 1 /\ pc \in Halted
    BY ConstantTypes DEF Init, Halted
  <2>2. errors \in Nat /\ ret \in Int /\ runs \in Nat /\ faults \in Nat
    BY DEF Init
  <2>3. faulted \in BOOLEAN
    BY DEF Init
  <2>4. QED
    BY <1>2, <2>1, <2>2, <2>3 DEF TypeOK
<1>4. InBody /\ RenameIsVerified
  BY DEF Init, InBody, RenameIsVerified
<1>5. \A p \in Files : View(p) = Old[p]
  BY ConstantTypes DEF Init, View
<1>6. QED
  BY <1>3, <1>4, <1>5 DEF IInv, OldOrNew

LEMMA StepIInv == IInv /\ [Next]_vars => IInv'
<1> SUFFICES ASSUME IInv, [Next]_vars PROVE IInv'
  OBVIOUS
<1>1. TypeOK'
  BY TypeStep DEF IInv
<1>2. InBody' /\ RenameIsVerified'
  BY ControlStep
<1>3. OldOrNew'
  BY Effect DEF IInv, OldOrNew, Quiet, InstallsPath
<1>4. QED
  BY <1>1, <1>2, <1>3 DEF IInv

\* The inductive invariant holds in every reachable state.
THEOREM Invariance == Spec => []IInv
<1>1. QED
  BY InitIInv, StepIInv, PTL DEF Spec

\* Type correctness of the run's locals and of the directory.
THEOREM TypeCorrect == Spec => []TypeOK
<1>1. IInv => TypeOK
  BY DEF IInv
<1>2. QED
  BY <1>1, Invariance, PTL

\* No run, crash, fault or retry shows a file of the snapshots in a state
\* other than its old or its new content (paf_delta.h:88).
THEOREM Atomicity == Spec => []OldOrNew
<1>1. IInv => OldOrNew
  BY DEF IInv
<1>2. QED
  BY <1>1, Invariance, PTL

\* The patch run implements the atomic update: a file once new stays new,
\* and no step moves two files.
THEOREM Refinement == Spec => ImplementsAtomicUpdate
<1> DEFINE tree == [p \in Files |-> View(p)]
<1>1. Init => Promise!Init
  <2> SUFFICES ASSUME Init PROVE Promise!Init
    OBVIOUS
  <2>1. \A p \in Files : View(p) = Old[p]
    BY ConstantTypes DEF Init, View
  <2>2. QED
    BY <2>1 DEF Promise!Init
<1>2. IInv /\ [Next]_vars => [Promise!Next]_tree
  <2> SUFFICES ASSUME IInv, [Next]_vars
               PROVE  Promise!Next \/ tree' = tree
    OBVIOUS
  <2>1. CASE Quiet
    BY <2>1 DEF Quiet
  <2>2. CASE Path \in Files /\ InstallsPath
    <3>1. View(Path) \in {Old[Path], New[Path]}
      BY <2>2 DEF IInv, OldOrNew
    <3>2. CASE View(Path) = Old[Path]
      <4>1. tree' = [tree EXCEPT ![Path] = New[Path]]
        BY <2>2 DEF InstallsPath
      <4>2. tree[Path] = Old[Path]
        BY <2>2, <3>2
      <4>3. QED
        BY <2>2, <4>1, <4>2 DEF Promise!Next, Promise!Install
    <3>3. CASE View(Path) = New[Path]
      BY <2>2, <3>3 DEF InstallsPath
    <3>4. QED
      BY <3>1, <3>2, <3>3
  <2>3. QED
    BY <2>1, <2>2, Effect
<1>3. QED
  BY <1>1, <1>2, Invariance, PTL DEF Spec, Promise!Spec, ImplementsAtomicUpdate

-----------------------------------------------------------------------------
(***************************************************************************)
(* Convergence: under Flat, a run that meets no fault installs every file  *)
(* and removes every stage, whatever happened before it.                   *)
(***************************************************************************)

\* Where a step may change the directory: the current target and its stage,
\* which never become directories, and the missing parents of the stage.
LEMMA Frame ==
    ASSUME IInv, [Next]_vars, NEW q \in Names
    PROVE  \/ fs'[q] = fs[q]
           \/ /\ i <= Len(Patch) /\ q \in {Path, Staged}
              /\ fs'[q] # Dir
           \/ /\ i <= Len(Patch) /\ q \in Anc[Staged]
              /\ fs[q] = Absent /\ fs'[q] = Dir
<1>0. fs \in [Names -> Node] /\ TypeOK /\ InBody
  BY DEF IInv, TypeOK
<1>1. CASE DeleteFile
  <2>1. i <= Len(Patch)
    BY <1>0, <1>1 DEF DeleteFile, InBody
  <2>2. fs' = fs \/ fs' = [fs EXCEPT ![Path] = Absent]
    BY <1>1 DEF DeleteFile, NextEntry, Fail, Unlink
  <2>3. QED
    BY <1>0, <2>1, <2>2, NodeAssumption
<1>2. CASE OpenStage
  <2> DEFINE f == MakeParentDirs(fs, Staged)
             g == [f EXCEPT ![Staged] = Torn]
             h == IF Kind = "delta" THEN DropStage(f) ELSE f
  <2>1. i <= Len(Patch) /\ Staged \in Names
    BY <1>0, <1>2, Current DEF OpenStage, InBody
  <2>2. f \in [Names -> Node]
    BY <1>0, <2>1, CallTypes
  <2>3. /\ g[q] = f[q] \/ (q = Staged /\ g[q] = Torn)
        /\ h[q] = f[q] \/ (q = Staged /\ h[q] = Absent)
    <3> HIDE DEF f
    <3> QED BY <2>1, <2>2 DEF DropStage, Unlink
  <2>4. f[q] = fs[q] \/ (q \in Anc[Staged] /\ fs[q] = Absent /\ f[q] = Dir)
    BY DEF MakeParentDirs
  <2>5. fs' = f \/ fs' = g \/ fs' = h
    BY <1>2 DEF OpenStage, Goto, Fail, NextEntry
  <2>6. QED
    <3> HIDE DEF f, g, h
    <3> QED BY <2>1, <2>3, <2>4, <2>5, NodeAssumption
<1>3. CASE WriteStage
  <2>1. i <= Len(Patch) /\ Staged \in Names
    BY <1>0, <1>3, Current DEF WriteStage, InBody
  <2>2. Torn # Dir /\ New[Path] # Dir
          /\ \A c \in DeltaResults(Path, fs[Path]) : c # Dir
    BY <1>0, <2>1, Current, ConstantTypes DEF DeltaResults
  <2>3. \/ \E c : c # Dir /\ fs' = [fs EXCEPT ![Staged] = c]
        \/ fs' = DropStage(fs)
    BY <1>3, <2>2 DEF WriteStage, Goto, Fail, NextEntry
  <2>4. QED
    BY <1>0, <2>1, <2>3, NodeAssumption DEF DropStage, Unlink
<1>4. CASE VerifyStage
  <2>1. i <= Len(Patch)
    BY <1>0, <1>4 DEF VerifyStage, InBody
  <2>2. fs' = fs \/ fs' = DropStage(fs)
    BY <1>4 DEF VerifyStage, Goto, Fail, NextEntry
  <2>3. QED
    BY <1>0, <2>1, <2>2, NodeAssumption DEF DropStage, Unlink
<1>5. CASE RenameStage
  <2>1. i <= Len(Patch) /\ New[Path] # Dir /\ fs[Staged] = New[Path]
    BY <1>0, <1>5, Current, ConstantTypes
       DEF RenameStage, InBody, IInv, RenameIsVerified
  <2>2. fs' = DropStage(fs) \/ fs' = Rename(fs, Staged, Path)
    BY <1>5 DEF RenameStage, NextEntry, Fail
  <2>3. QED
    BY <1>0, <2>1, <2>2, NodeAssumption DEF DropStage, Unlink, Rename
<1>6. CASE Open \/ ReadPath \/ Return \/ Crash \/ UNCHANGED vars
  BY <1>6 DEF Open, ReadPath, Return, Crash, vars, Goto, Fail, NextEntry
<1>7. QED
  BY <1>1, <1>2, <1>3, <1>4, <1>5, <1>6 DEF Next, Step

LEMMA ClearStep ==
    ASSUME Flat, IInv, DirsClear, [Next]_vars
    PROVE  DirsClear'
<1>1. TypeOK
  BY DEF IInv
<1>2. ASSUME i <= Len(Patch)
      PROVE  /\ Path \in Files /\ Staged = Stage[Path]
             /\ \A p \in Files : /\ p \notin Anc[Staged]
                                 /\ Stage[p] \notin Anc[Staged]
             /\ \A p \in Files : \A r \in Anc[p] : r # Path /\ r # Staged
  BY <1>1, <1>2, Current DEF Flat, Staged, Path
<1>3. ASSUME NEW p \in Files PROVE fs'[p] # Dir /\ fs'[Stage[p]] # Dir
  BY <1>2, Frame, ConstantTypes DEF DirsClear
<1>4. ASSUME NEW p \in Files, NEW r \in Anc[p]
      PROVE  fs'[r] \in {Absent, Dir}
  <2>1. r \in Names
    BY NameAssumption
  <2>2. QED
    BY <1>2, <2>1, Frame DEF DirsClear
<1>5. QED
  BY <1>3, <1>4 DEF DirsClear

\* A refused file has no stage: no step of the loop body works on its entry.
LEMMA UnstagedStep ==
    ASSUME Flat, IInv, RefusedUnstaged, [Next]_vars
    PROVE  RefusedUnstaged'
<1> SUFFICES ASSUME NEW p \in RefusedPaths PROVE (fs[Stage[p]] \notin Regular)'
  BY DEF RefusedUnstaged
<1>0. TypeOK /\ InBody /\ p \in Files
  BY NameAssumption DEF IInv
<1>1. CASE Open \/ ReadPath \/ Return \/ Crash \/ UNCHANGED vars
  BY <1>1 DEF Open, ReadPath, Return, Crash, vars, Goto, Fail, NextEntry, RefusedUnstaged
<1>2. CASE DeleteFile \/ OpenStage \/ WriteStage \/ VerifyStage \/ RenameStage
  <2>1. i <= Len(Patch) /\ Path \notin RefusedPaths
    BY <1>0, <1>2 DEF InBody, DeleteFile, OpenStage, WriteStage, VerifyStage, RenameStage
  <2>2. Path \in Files /\ Staged = Stage[Path]
    BY <1>0, <2>1, Current DEF Staged, Path
  <2>3. Stage[p] # Path /\ Stage[p] # Staged
    BY <1>0, <2>1, <2>2, ConstantTypes DEF Flat
  <2>4. fs'[Stage[p]] = fs[Stage[p]] \/ fs'[Stage[p]] = Dir
    BY <1>0, <2>3, Frame, ConstantTypes
  <2>5. QED
    BY <1>0, <2>4, ConstantTypes DEF RefusedUnstaged
<1>3. QED
  BY <1>1, <1>2 DEF Next, Step

\* An entry that is done stays done while other entries are processed.
LEMMA DoneStays ==
    ASSUME Flat, IInv, DirsClear, [Next]_vars,
           NEW k \in 1..Len(Patch), k # i, EntryDone(k)
    PROVE  EntryDone(k)'
<1>1. TypeOK /\ DirsClear'
  BY ClearStep DEF IInv
<1>2. ASSUME i <= Len(Patch)
      PROVE  /\ Patch[k].path # Path /\ Stage[Patch[k].path] # Staged
             /\ Patch[k].path # Staged /\ Stage[Patch[k].path] # Path
  BY <1>1, <1>2, Current, ConstantTypes DEF Flat, Path, Staged
<1>3. /\ fs'[Patch[k].path] = fs[Patch[k].path]
      /\ fs'[Stage[Patch[k].path]] = fs[Stage[Patch[k].path]]
  BY <1>1, <1>2, Frame, ConstantTypes DEF DirsClear
<1>4. QED
  BY <1>3 DEF EntryDone

\* Under Flat the stage can always be created, the old file can always be
\* read and the rename can always be made: only a fault, or a target that is
\* already new, fails an entry.
LEMMA DoneByStep ==
    ASSUME Flat, CInv, [Next]_vars, ~faulted', pc \in Working,
           i <= Len(Patch), i' = i + 1, NEW k, k = i
    PROVE  EntryDone(k)'
<1> USE DEF EntryDone
<1>0. /\ fs \in [Names -> Node] /\ TypeOK /\ DirsClear
      /\ Path \in Files /\ Staged \in Names /\ Staged \notin Files
      /\ k \in 1..Len(Patch) /\ i \in Nat
      /\ Path = Patch[k].path /\ Staged = Stage[Patch[k].path]
      /\ Kind = Patch[k].kind
      /\ (Kind = "deleted") <=> (New[Path] = Absent)
      /\ View(Path) \in {Old[Path], New[Path]}
      /\ fs[Path] # Dir
  BY Current DEF CInv, IInv, TypeOK, DirsClear, Path, Staged, Kind, OldOrNew
<1>1. Fault => FALSE
  BY DEF Fault
<1>2. CASE DeleteFile
  <2>1. Kind = "deleted"
    BY <1>2 DEF DeleteFile, CInv, IInv, InBody
  <2>2. fs'[Path] = Absent
    <3>1. CASE fs[Path] \in Regular /\ fs' = Unlink(fs, Path)
      BY <1>0, <3>1, NameAssumption DEF Unlink
    <3>2. CASE fs[Path] \notin Regular /\ fs' = fs
      BY <1>0, <3>2, NameAssumption DEF Node, Regular, TypeOK
    <3>3. QED
      BY <1>1, <1>2, <3>1, <3>2 DEF DeleteFile, NextEntry, Fail
  <2>3. QED
    BY <1>0, <2>1, <2>2
<1>3. CASE OpenStage
  <2> DEFINE f == MakeParentDirs(fs, Staged)
  <2>1. Kind # "deleted"
    BY <1>3 DEF OpenStage, CInv, IInv, InBody
  <2>2. f[Path] = fs[Path] /\ f[Staged] = fs[Staged] /\ fs[Staged] # Dir
    BY <1>0, ConstantTypes, NameAssumption DEF Flat, MakeParentDirs, DirsClear
  <2>3. \A r \in Anc[Staged] : f[r] = Dir
    BY <1>0, NameAssumption DEF Flat, MakeParentDirs, DirsClear
  <2>4. CanCreate(f, Staged)
    BY <2>2, <2>3 DEF CanCreate
  <2>5. Kind = "delta" => f[Path] \in Regular
    <3>1. fs[Path] \in {Old[Path], New[Path]} /\ New[Path] # Absent
      BY <1>0, <2>1 DEF View
    <3>2. Kind = "delta" => Old[Path] # Absent
      BY <1>0 DEF Flat
    <3>3. Old[Path] \in Content \cup {Absent} /\ New[Path] \in Content \cup {Absent}
      BY <1>0, ConstantTypes
    <3>4. QED
      BY <2>2, <3>1, <3>2, <3>3 DEF Regular
  <2>6. /\ Kind = "delta" /\ f[Path] # Old[Path]
        /\ fs' = DropStage(f)
    <3>1. ~Goto("write", [f EXCEPT ![Staged] = Torn])
      BY <1>0 DEF Goto
    <3> HIDE DEF f
    <3>2. Kind = "delta" => DeltaReadable(Path, f[Path])
      BY <2>5 DEF DeltaReadable
    <3> USE DEF f
    <3>3. QED
      BY <1>1, <1>3, <2>4, <3>1, <3>2 DEF OpenStage, Fail, NextEntry
  <2>7. fs'[Path] = New[Path]
    BY <1>0, <2>2, <2>6, NameAssumption DEF DropStage, Unlink, View
  <2>8. fs'[Staged] \notin Regular
    <3>1. f \in [Names -> Node]
      BY <1>0, CallTypes
    <3> HIDE DEF f
    <3>2. QED
      BY <1>0, <2>6, <3>1, NodeAssumption DEF DropStage, Unlink, Regular
  <2>9. QED
    BY <1>0, <2>7, <2>8
<1>4. CASE WriteStage
  BY <1>0, <1>1, <1>4 DEF WriteStage, Goto
<1>5. CASE VerifyStage
  <2>1. ~HashMatches /\ fs' = DropStage(fs)
    BY <1>0, <1>1, <1>5 DEF VerifyStage, Goto, Fail, NextEntry
  <2>2. fs[Path] = New[Path]
    BY <1>5, <2>1
       DEF VerifyStage, HashMatches, CInv, StageExplained, NoFault, Fault
  <2>3. fs'[Path] = New[Path] /\ fs'[Staged] \notin Regular
    BY <1>0, <2>1, <2>2, NameAssumption, NodeAssumption
       DEF DropStage, Unlink, Regular
  <2>4. QED
    BY <1>0, <2>3
<1>6. CASE RenameStage
  <2>1. CanRename(fs, Path)
    BY <1>0 DEF CanRename, Flat
  <2>2. fs' = Rename(fs, Staged, Path)
    BY <1>1, <1>6, <2>1 DEF RenameStage, NextEntry
  <2>3. fs[Staged] = New[Path]
    BY <1>6 DEF RenameStage, CInv, IInv, RenameIsVerified
  <2>4. fs'[Path] = New[Path] /\ fs'[Staged] = Absent
    BY <1>0, <2>2, <2>3, NameAssumption DEF Rename
  <2>5. QED
    BY <1>0, <2>4, ConstantTypes
<1>7. CASE ReadPath
  <2>1. Path \in RefusedPaths /\ fs' = fs
    BY <1>0, <1>1, <1>7 DEF ReadPath, Goto, Fail, NextEntry
  <2>2. QED
    BY <1>0, <2>1 DEF CInv, RefusedUnstaged
<1>8. CASE Return \/ UNCHANGED vars
  BY <1>0, <1>8 DEF Return, vars
<1>9. CASE Open \/ Crash
  BY <1>1, <1>9 DEF Open, Crash, Working, Halted
<1>10. QED
  BY <1>2, <1>3, <1>4, <1>5, <1>6, <1>7, <1>8, <1>9 DEF Next, Step

\* How a step that meets no fault moves the loop index.
LEMMA Advance ==
    ASSUME IInv, [Next]_vars, ~faulted', pc' \in Working \cup {"returned"}
    PROVE  \/ i' = 1
           \/ /\ ~faulted /\ pc \in Working \cup {"returned"}
              /\ \/ i' = i
                 \/ i' = i + 1 /\ i <= Len(Patch) /\ pc \in Working
<1>0. InBody
  BY DEF IInv
<1>1. CASE Open
  BY <1>1 DEF Open
<1>2. CASE Step
  <2>1. NoFault
    BY <1>2 DEF Step, Fault, NoFault, ReadPath, DeleteFile, OpenStage,
       WriteStage, VerifyStage, RenameStage, Return
  <2>2. ~faulted /\ pc \in Working
    BY <1>2, <2>1 DEF Step, NoFault, Working, ReadPath, DeleteFile, OpenStage,
       WriteStage, VerifyStage, RenameStage, Return
  <2>3. pc # "entry" => i <= Len(Patch)
    BY <1>0, <2>2 DEF InBody, Working
  <2>4. i' = i \/ (i' = i + 1 /\ i <= Len(Patch))
    BY <1>2, <2>3 DEF Step, Goto, Fail, NextEntry, ReadPath, DeleteFile,
       OpenStage, WriteStage, VerifyStage, RenameStage, Return
  <2>5. QED
    BY <2>2, <2>4
<1>3. CASE Crash
  BY <1>3 DEF Crash, Fault
<1>4. CASE UNCHANGED vars
  BY <1>4 DEF vars
<1>5. QED
  BY <1>1, <1>2, <1>3, <1>4 DEF Next

LEMMA StepCInv == Flat /\ CInv /\ [Next]_vars => CInv'
<1> SUFFICES ASSUME Flat, CInv, [Next]_vars PROVE CInv'
  OBVIOUS
<1>0. IInv /\ DirsClear /\ TypeOK /\ InBody /\ i \in Nat /\ Len(Patch) \in Nat
  BY ConstantTypes DEF CInv, IInv, TypeOK
<1>1. IInv' /\ DirsClear' /\ RefusedUnstaged'
  BY <1>0, StepIInv, ClearStep, UnstagedStep DEF CInv
<1>2. PrefixDone'
  <2> SUFFICES ASSUME pc' \in Working \cup {"returned"}, ~faulted',
                      NEW k \in 1..Len(Patch), k < i'
               PROVE  EntryDone(k)'
    BY DEF PrefixDone
  <2>1. CASE i' = 1
    BY <2>1
  <2>2. CASE ~faulted /\ pc \in Working \cup {"returned"} /\ k < i
    <3>1. EntryDone(k) /\ k # i
      BY <1>0, <2>2 DEF CInv, PrefixDone
    <3>2. QED
      BY <1>0, <3>1, DoneStays
  <2>3. CASE i' = i + 1 /\ i <= Len(Patch) /\ pc \in Working /\ ~(k < i)
    <3>1. k = i
      BY <1>0, <2>3
    <3>2. QED
      BY <2>3, <3>1, DoneByStep
  <2>4. QED
    BY <1>0, <2>1, <2>2, <2>3, Advance
<1>3. StageExplained'
  <2> SUFFICES ASSUME pc' = "verify", ~faulted'
               PROVE  (fs[Staged] = New[Path] \/ fs[Path] = New[Path])'
    BY DEF StageExplained
  <2>1. CASE WriteStage
    <3>1. /\ fs \in [Names -> Node] /\ i <= Len(Patch) /\ i' = i
          /\ Path \in Files /\ Staged \in Names /\ Staged # Path
          /\ View(Path) \in {Old[Path], New[Path]} /\ fs[Path] # Dir
      BY <1>0, <2>1, Current
         DEF TypeOK, WriteStage, Goto, Fail, NextEntry, InBody, IInv, OldOrNew,
             DirsClear
    <3>2. Path' = Path /\ Staged' = Staged
      BY <3>1 DEF Path, Staged
    <3>3. fs[Path] \in {Old[Path], New[Path]}
      BY <3>1 DEF View
    <3>4. PICK c : /\ fs' = [fs EXCEPT ![Staged] = c]
                   /\ c = New[Path] \/ (Kind = "delta"
                                        /\ c \in DeltaResults(Path, fs[Path]))
      BY <2>1 DEF WriteStage, Goto, Fail, NextEntry, Fault
    <3>5. fs'[Staged] = c /\ fs'[Path] = fs[Path]
      BY <3>1, <3>4, NameAssumption
    <3>6. c = New[Path] \/ fs[Path] = New[Path]
      BY <3>3, <3>4 DEF DeltaResults
    <3>7. QED
      BY <3>2, <3>5, <3>6
  <2>2. CASE UNCHANGED vars
    BY <2>2 DEF vars, CInv, StageExplained, Path, Staged
  <2>3. QED
    BY <2>1, <2>2 DEF Next, Step, Open, ReadPath, DeleteFile, OpenStage,
       VerifyStage, RenameStage, Return, Crash, Goto, Fail, NextEntry
<1>4. pc' = "returned" => i' > Len(Patch)
  <2>1. CASE Return
    BY <1>0, <2>1 DEF Return
  <2>2. CASE UNCHANGED vars
    BY <2>2 DEF vars, CInv
  <2>3. QED
    BY <2>1, <2>2 DEF Next, Step, Open, ReadPath, DeleteFile, OpenStage,
       WriteStage, VerifyStage, RenameStage, Crash, Goto, Fail, NextEntry
<1>5. QED
  BY <1>1, <1>2, <1>3, <1>4 DEF CInv

LEMMA InitCInv == Flat /\ Init => CInv
<1> SUFFICES ASSUME Flat, Init PROVE CInv
  OBVIOUS
<1>1. DirsClear
  <2>1. ASSUME NEW p \in Files PROVE fs[p] # Dir /\ fs[Stage[p]] # Dir
    BY ConstantTypes DEF Init, Flat
  <2>2. ASSUME NEW p \in Files, NEW r \in Anc[p] PROVE fs[r] \in {Absent, Dir}
    BY NameAssumption DEF Init, Flat
  <2>3. QED
    BY <2>1, <2>2 DEF DirsClear
<1>3. RefusedUnstaged
  BY ConstantTypes, NameAssumption DEF Init, RefusedUnstaged
<1>2. QED
  BY <1>1, <1>3, InitIInv
     DEF Init, CInv, PrefixDone, StageExplained, Working

\* Under Flat, a run that meets no fault leaves every file whose path is not
\* refused at its new content, whatever crashed, failed or partial runs came before it.
THEOREM Convergence == Flat => (Spec => []CleanRunInstalls)
<1> SUFFICES ASSUME Flat PROVE Spec => []CleanRunInstalls
  OBVIOUS
<1>1. CInv => CleanRunInstalls
  <2> SUFFICES ASSUME CInv, pc = "returned", ~faulted, NEW p \in Files \ RefusedPaths
               PROVE  View(p) = New[p]
    BY DEF CleanRunInstalls
  <2>1. CASE Old[p] = New[p]
    BY <2>1 DEF CInv, IInv, OldOrNew
  <2>2. CASE Old[p] # New[p]
    <3>1. PICK k \in 1..Len(Patch) : Patch[k].path = p
      BY <2>2 DEF Flat
    <3>2. k < i
      BY ConstantTypes DEF CInv, IInv, TypeOK
    <3>3. fs[p] = New[p] /\ fs[p] # Dir
      BY <3>1, <3>2 DEF CInv, PrefixDone, EntryDone, DirsClear
    <3>4. QED
      BY <3>3 DEF View
  <2>3. QED
    BY <2>1, <2>2
<1>2. QED
  BY <1>1, InitCInv, StepCInv, PTL DEF Spec

\* Under Flat, a run that meets no fault leaves no staging file, its own or
\* one that a crashed run abandoned.
THEOREM Sweeping == Flat => (Spec => []CleanRunSweeps)
<1> SUFFICES ASSUME Flat PROVE Spec => []CleanRunSweeps
  OBVIOUS
<1>1. CInv => CleanRunSweeps
  <2> SUFFICES ASSUME CInv, pc = "returned", ~faulted,
                      NEW k \in 1..Len(Patch), Patch[k].kind # "deleted"
               PROVE  fs[Stage[Patch[k].path]] \notin Regular
    BY DEF CleanRunSweeps
  <2>1. k < i
    BY ConstantTypes DEF CInv, IInv, TypeOK
  <2>2. QED
    BY <2>1 DEF CInv, PrefixDone, EntryDone
<1>2. QED
  BY <1>1, InitCInv, StepCInv, PTL DEF Spec

-----------------------------------------------------------------------------
(***************************************************************************)
(* The result of a run.                                                    *)
(***************************************************************************)
\* The files that the entries before m name and that are still not new.
Missed(m) == {p \in Files : View(p) # New[p] /\ \E k \in 1..Len(Patch) : k < m /\ Patch[k].path = p}

\* The number n is no smaller than the number of these files.
Covers(m, n) == IsFiniteSet(Missed(m)) /\ Cardinality(Missed(m)) <= n

CountInv ==
    /\ IInv
    /\ pc \in Working => Covers(i, errors)
    /\ pc = "returned" => i > Len(Patch) /\ ret \in Int /\ -ret \in Nat /\ Covers(i, -ret)

LEMMA Fewer ==
    ASSUME NEW S, IsFiniteSet(S), NEW n \in Nat, Cardinality(S) <= n, NEW T \in SUBSET S
    PROVE  IsFiniteSet(T) /\ Cardinality(T) <= n
<1>1. IsFiniteSet(T) /\ Cardinality(T) <= Cardinality(S)
  BY FS_Subset
<1>2. Cardinality(S) \in Nat /\ Cardinality(T) \in Nat
  BY <1>1, FS_CardinalityType
<1>3. QED
  BY <1>1, <1>2

\* No step makes a file that is new not new.
LEMMA NoneMoreMissed == IInv /\ [Next]_vars => \A m : Missed(m)' \subseteq Missed(m)
<1> SUFFICES ASSUME IInv, [Next]_vars, NEW m, NEW p \in Missed(m)'
             PROVE  p \in Missed(m)
  OBVIOUS
<1>1. /\ p \in Files /\ View(p)' # New[p]
      /\ \E k \in 1..Len(Patch) : k < m /\ Patch[k].path = p
  BY DEF Missed
<1>2. View(p) # New[p]
  BY <1>1, Effect DEF Quiet, InstallsPath
<1>3. QED
  BY <1>1, <1>2 DEF Missed

\* The next entry adds at most its own file.
LEMMA OneMoreNamed ==
    ASSUME TypeOK, i <= Len(Patch)
    PROVE  Missed(i + 1) \subseteq Missed(i) \cup {Path}
<1> SUFFICES ASSUME NEW p \in Missed(i + 1), p \notin Missed(i) PROVE p = Path
  OBVIOUS
<1>1. PICK k \in 1..Len(Patch) : k < i + 1 /\ Patch[k].path = p
  BY DEF Missed
<1>2. ~(k < i)
  BY <1>1 DEF Missed
<1>3. k = i
  BY <1>1, <1>2, ConstantTypes DEF TypeOK
<1>4. QED
  BY <1>1, <1>3 DEF Path

LEMMA InstallIsSeen ==
    ASSUME IInv,
           \/ pc = "unlink" /\ fs[Path] \in Regular /\ fs' = Unlink(fs, Path)
           \/ pc = "rename" /\ fs' = Rename(fs, Staged, Path)
    PROVE  i <= Len(Patch) /\ \A p \in Files : p = Path => View(p)' = New[p]
<1>1. i <= Len(Patch) /\ (Kind = "deleted" <=> pc = "unlink")
  BY DEF IInv, InBody
<1>2. /\ Path \in Files /\ Path \in Names /\ fs \in [Names -> Node]
      /\ (Kind = "deleted") <=> (New[Path] = Absent)
  BY <1>1, Current DEF IInv, TypeOK
<1>3. CASE pc = "unlink" /\ fs[Path] \in Regular /\ fs' = Unlink(fs, Path)
  <2>1. fs'[Path] = Absent
    BY <1>2, <1>3 DEF Unlink
  <2>2. QED
    BY <1>1, <1>2, <1>3, <2>1 DEF View
<1>4. CASE pc = "rename" /\ fs' = Rename(fs, Staged, Path)
  <2>1. fs'[Path] = New[Path]
    BY <1>2, <1>4 DEF Rename, IInv, RenameIsVerified
  <2>2. New[Path] # Dir
    BY <1>2, ConstantTypes
  <2>3. QED
    BY <1>1, <2>1, <2>2 DEF View
<1>5. QED
  BY <1>3, <1>4

\* What a step does to the count, by what it does to the loop.
LEMMA CountMoves ==
    ASSUME CountInv, IInv', [Next]_vars, pc \in Working
    PROVE  /\ i' = i /\ errors' = errors => Covers(i, errors)'
           /\ i <= Len(Patch) /\ i' = i + 1 /\ errors' = errors + 1 => Covers(i, errors)'
           /\ (/\ i <= Len(Patch) /\ i' = i + 1 /\ errors' = errors
               /\ \A p \in Files : p = Path => View(p)' = New[p]) => Covers(i, errors)'
<1>1. IInv /\ TypeOK /\ Covers(i, errors) /\ errors \in Nat /\ i \in Nat
  BY ConstantTypes DEF CountInv, IInv, TypeOK
<1>2. \A m : Missed(m)' \subseteq Missed(m)
  BY <1>1, NoneMoreMissed
<1>3. ASSUME NEW m, NEW n, i' = m, errors' = n, IsFiniteSet(Missed(m)'), Cardinality(Missed(m)') <= n
      PROVE  Covers(i, errors)'
  BY <1>3 DEF Covers, Missed
<1>4. CASE i' = i /\ errors' = errors
  <2>1. IsFiniteSet(Missed(i)) /\ Cardinality(Missed(i)) <= errors
    BY <1>1 DEF Covers
  <2>2. ASSUME NEW m, m = i PROVE IsFiniteSet(Missed(m)') /\ Cardinality(Missed(m)') <= errors
    <3>1. Missed(m)' \subseteq Missed(m) /\ Missed(m) = Missed(i)
      BY <1>2, <2>2
    <3>2. QED
      BY <1>1, <2>1, <3>1, Fewer
  <2>3. QED
    BY <1>3, <1>4, <2>2
<1>5. CASE i <= Len(Patch) /\ i' = i + 1 /\ errors' = errors + 1
  <2>1. IsFiniteSet(Missed(i)) /\ Cardinality(Missed(i)) <= errors
    BY <1>1 DEF Covers
  <2>2. Missed(i + 1) \subseteq Missed(i) \cup {Path}
    BY <1>1, <1>5, OneMoreNamed
  <2>3. /\ IsFiniteSet(Missed(i) \cup {Path})
        /\ Cardinality(Missed(i) \cup {Path}) <= errors + 1
    <3>1. Cardinality(Missed(i)) \in Nat
      BY <2>1, FS_CardinalityType
    <3>2. /\ IsFiniteSet(Missed(i) \cup {Path})
          /\ \/ Cardinality(Missed(i) \cup {Path}) = Cardinality(Missed(i))
             \/ Cardinality(Missed(i) \cup {Path}) = Cardinality(Missed(i)) + 1
      BY <2>1, FS_AddElement
    <3>3. QED
      BY <1>1, <2>1, <3>1, <3>2
  <2>4. ASSUME NEW m, m = i + 1
        PROVE  IsFiniteSet(Missed(m)') /\ Cardinality(Missed(m)') <= errors + 1
    <3>1. Missed(m)' \subseteq Missed(m) /\ Missed(m) = Missed(i + 1)
      BY <1>2, <2>4
    <3>2. Missed(m)' \subseteq Missed(i) \cup {Path}
      BY <2>2, <3>1
    <3>3. errors + 1 \in Nat
      BY <1>1
    <3>4. QED
      BY <2>3, <3>2, <3>3, Fewer
  <2>5. QED
    BY <1>3, <1>5, <2>4
<1>6. CASE /\ i <= Len(Patch) /\ i' = i + 1 /\ errors' = errors
           /\ \A p \in Files : p = Path => View(p)' = New[p]
  <2>1. IsFiniteSet(Missed(i)) /\ Cardinality(Missed(i)) <= errors
    BY <1>1 DEF Covers
  <2>2. Missed(i + 1) \subseteq Missed(i) \cup {Path}
    BY <1>1, <1>6, OneMoreNamed
  <2>3. ASSUME NEW m, m = i + 1
        PROVE  IsFiniteSet(Missed(m)') /\ Cardinality(Missed(m)') <= errors
    <3>1. Missed(m)' \subseteq Missed(m) /\ Missed(m) = Missed(i + 1)
      BY <1>2, <2>3
    <3>2. Path \notin Missed(m)'
      BY <1>6 DEF Missed
    <3>3. Missed(m)' \subseteq Missed(i)
      BY <2>2, <3>1, <3>2
    <3>4. QED
      BY <1>1, <2>1, <3>3, Fewer
  <2>4. QED
    BY <1>3, <1>6, <2>3
<1>7. QED
  BY <1>4, <1>5, <1>6

\* Each step of a run keeps the count; the result is the count at the end.
LEMMA StepCountInv == CountInv /\ [Next]_vars => CountInv'
<1> SUFFICES ASSUME CountInv, [Next]_vars PROVE CountInv'
  OBVIOUS
<1>1. IInv /\ IInv' /\ TypeOK
  BY StepIInv DEF CountInv, IInv
<1>2. ASSUME pc \in Working, pc' # "returned",
             \/ i' = i /\ errors' = errors
             \/ i <= Len(Patch) /\ i' = i + 1 /\ errors' = errors + 1
             \/ /\ i <= Len(Patch) /\ i' = i + 1 /\ errors' = errors
                /\ \A p \in Files : p = Path => View(p)' = New[p]
      PROVE  CountInv'
  BY <1>1, <1>2, CountMoves DEF CountInv
<1>3. ASSUME NEW f, Fail(f), pc \in Working, i <= Len(Patch) PROVE CountInv'
  BY <1>2, <1>3 DEF Fail, NextEntry
<1>4. ASSUME NEW f, NEW label, Goto(label, f), pc \in Working, label # "returned"
      PROVE  CountInv'
  BY <1>2, <1>4 DEF Goto
<1>5. pc \notin Halted \cup {"entry"} /\ pc \in Working => i <= Len(Patch)
  BY <1>1 DEF IInv, InBody, Working
<1>6. CASE Open
  <2>1. Covers(1, 0)'
    <3>1. Missed(1)' = {}
      BY DEF Missed
    <3>2. QED
      BY <3>1, FS_EmptySet DEF Covers
  <2>2. i' = 1 /\ errors' = 0 /\ pc' # "returned"
    BY <1>6 DEF Open
  <2>3. Covers(i, errors)'
    BY <2>1, <2>2 DEF Covers, Missed
  <2>4. QED
    BY <1>1, <2>2, <2>3 DEF CountInv
<1>7. CASE ReadPath
  BY <1>3, <1>4, <1>7 DEF ReadPath, Working
<1>8. CASE DeleteFile
  <2>1. CASE fs[Path] \in Regular /\ NextEntry(Unlink(fs, Path)) /\ UNCHANGED errors
    <3>1. i <= Len(Patch) /\ \A p \in Files : p = Path => View(p)' = New[p]
      BY <1>1, <1>8, <2>1, InstallIsSeen DEF DeleteFile, NextEntry
    <3>2. QED
      BY <1>2, <1>8, <2>1, <3>1 DEF DeleteFile, NextEntry, Working
  <2>2. QED
    BY <1>3, <1>5, <1>8, <2>1 DEF DeleteFile, Working, Halted
<1>9. CASE OpenStage \/ WriteStage \/ VerifyStage
  <2>1. pc \in Working /\ i <= Len(Patch)
    BY <1>5, <1>9 DEF OpenStage, WriteStage, VerifyStage, Working, Halted
  <2>2. \/ \E f : Fail(f)
        \/ \E f : Goto("write", f) \/ Goto("verify", f) \/ Goto("rename", f)
    BY <1>9 DEF OpenStage, WriteStage, VerifyStage
  <2>3. QED
    BY <1>3, <1>4, <2>1, <2>2
<1>10. CASE RenameStage
  <2>1. CASE NextEntry(Rename(fs, Staged, Path)) /\ UNCHANGED errors
    <3>1. i <= Len(Patch) /\ \A p \in Files : p = Path => View(p)' = New[p]
      BY <1>1, <1>10, <2>1, InstallIsSeen DEF RenameStage, NextEntry
    <3>2. QED
      BY <1>2, <1>10, <2>1, <3>1 DEF RenameStage, NextEntry, Working
  <2>2. QED
    BY <1>3, <1>5, <1>10, <2>1 DEF RenameStage, Working, Halted
<1>11. CASE Return
  <2>1. pc \in Working /\ i' = i /\ errors' = errors
    BY <1>11 DEF Return, Working
  <2>2. Covers(i, errors)'
    BY <1>1, <2>1, CountMoves DEF CountInv
  <2>3. errors \in Nat /\ ret' = -errors /\ -ret' = errors /\ i > Len(Patch)
    BY <1>1, <1>11 DEF Return, TypeOK
  <2>4. Covers(i, -ret)'
    BY <2>1, <2>2, <2>3 DEF Covers
  <2>5. pc' \notin Working
    BY <1>11 DEF Return, Working
  <2>6. QED
    BY <1>1, <2>1, <2>3, <2>4, <2>5 DEF CountInv
<1>12. CASE Crash
  BY <1>1, <1>12 DEF Crash, CountInv, Working
<1>13. CASE UNCHANGED vars
  BY <1>1, <1>13 DEF vars, CountInv, Covers, Missed, View
<1>14. QED
  BY <1>6, <1>7, <1>8, <1>9, <1>10, <1>11, <1>12, <1>13 DEF Next, Step

\* If the patch names every file that differs, the result of a run counts at
\* least the files still missing their new content, whatever failed, and
\* whatever earlier runs left (paf_delta.h:94).
THEOREM Counting ==
    (\A p \in Files : Old[p] # New[p] => \E k \in 1..Len(Patch) : Patch[k].path = p)
        => (Spec => []MissingAreCounted)
<1> SUFFICES ASSUME \A p \in Files : Old[p] # New[p] =>
                        \E k \in 1..Len(Patch) : Patch[k].path = p
             PROVE  Spec => []MissingAreCounted
  OBVIOUS
<1>1. Init => CountInv
  BY InitIInv DEF Init, CountInv, Working
<1>2. CountInv => MissingAreCounted
  <2> SUFFICES ASSUME CountInv, pc = "returned"
               PROVE  Cardinality({p \in Files : View(p) # New[p]}) <= -ret
    BY DEF MissingAreCounted
  <2>1. i > Len(Patch) /\ Len(Patch) \in Nat /\ i \in Nat
    BY ConstantTypes DEF CountInv, IInv, TypeOK
  <2>2. \A p \in Files : View(p) # New[p] =>
            \E k \in 1..Len(Patch) : k < i /\ Patch[k].path = p
    BY <2>1 DEF CountInv, IInv, OldOrNew
  <2>3. {p \in Files : View(p) # New[p]} = Missed(i)
    BY <2>2 DEF Missed
  <2>4. QED
    BY <2>3 DEF CountInv, Covers
<1>3. QED
  BY <1>1, <1>2, StepCountInv, PTL DEF Spec

-----------------------------------------------------------------------------
(***************************************************************************)
(* Pieces of files.                                                        *)
(***************************************************************************)
\* A part that lies inside is as long as asked for and has the file's bytes.
LEMMA PartInside ==
    ASSUME NEW f \in Seq(Byte), NEW o \in Nat, NEW n \in Nat, o + n <= Len(f)
    PROVE  Part(f, o, n) \in Seq(Byte) /\ Len(Part(f, o, n)) = n
<1>1. Len(f) \in Nat /\ \A j \in 1..Len(f) : f[j] \in Byte
  OBVIOUS
<1>2. o + 1 \in Int /\ o + n \in Int /\ \A j \in o + 1..o + n : f[j] \in Byte
  BY <1>1
<1>3. /\ SubSeq(f, o + 1, o + n) \in Seq(Byte)
      /\ Len(SubSeq(f, o + 1, o + n)) = IF o + 1 <= o + n THEN o + n - (o + 1) + 1 ELSE 0
  BY <1>2, SubSeqProperties
<1>4. (IF o + 1 <= o + n THEN o + n - (o + 1) + 1 ELSE 0) = n
  OBVIOUS
<1>5. QED
  BY <1>3, <1>4 DEF Part

\* A block has a hash.
LEMMA BlockHashed ==
    ASSUME NEW f \in Seq(Byte), NEW o \in Nat, o + BlockSize <= Len(f)
    PROVE  HashAt(f, o) \in Nat
<1>1. BlockSize \in Nat
  BY SizesAssumption
<1>2. Part(f, o, BlockSize) \in Seq(Byte) /\ Len(Part(f, o, BlockSize)) = BlockSize
  BY <1>1, PartInside
<1>3. Part(f, o, BlockSize) \in [1..BlockSize -> Byte]
  BY <1>2, LenProperties
<1>4. QED
  BY <1>3, FilesAssumption DEF HashAt, BlockAt

\* How the number of chunks goes down with every chunk.
LEMMA ChunkStep ==
    /\ Chunks(0) = 0
    /\ \A n \in Nat \ {0} :
          /\ Chunks(n) \in Nat
          /\ n > MaxLit => Chunks(n) = 1 + Chunks(n - MaxLit)
          /\ n <= MaxLit => Chunks(n) = 1
<1>1. MaxLit \in Nat \ {0}
  BY SizesAssumption
<1>2. Chunks(0) = 0
  <2>1. MaxLit - 1 \in Nat /\ 0 + MaxLit - 1 = MaxLit - 1
    BY <1>1
  <2>2. (MaxLit - 1) \div MaxLit \in Nat
        /\ (1 <= (MaxLit - 1) \div MaxLit <=> 1 * MaxLit <= MaxLit - 1)
    BY <1>1, <2>1, DivBounds, DivAtLeast
  <2>3. QED
    BY <1>1, <2>1, <2>2 DEF Chunks
<1>3. ASSUME NEW n \in Nat \ {0}
      PROVE  /\ Chunks(n) \in Nat
             /\ n > MaxLit => Chunks(n) = 1 + Chunks(n - MaxLit)
             /\ n <= MaxLit => Chunks(n) = 1
  <2>1. n + MaxLit - 1 \in Nat /\ n - 1 \in Nat /\ (n + MaxLit - 1) \div MaxLit \in Nat
    BY <1>1, DivBounds
  <2>2. ASSUME n > MaxLit PROVE Chunks(n) = 1 + Chunks(n - MaxLit)
    <3>1. n - MaxLit + MaxLit - 1 = n - 1
      BY <1>1
    <3>2. (n + MaxLit - 1) \div MaxLit = 1 + (n - 1) \div MaxLit
      BY <1>1, <2>1, SMT
    <3>3. QED
      BY <3>1, <3>2 DEF Chunks
  <2>3. ASSUME n <= MaxLit PROVE Chunks(n) = 1
    <3>1. 1 <= (n + MaxLit - 1) \div MaxLit <=> 1 * MaxLit <= n + MaxLit - 1
      BY <1>1, <2>1, DivAtLeast
    <3>2. 2 <= (n + MaxLit - 1) \div MaxLit <=> 2 * MaxLit <= n + MaxLit - 1
      BY <1>1, <2>1, DivAtLeast
    <3>3. QED
      BY <1>1, <2>1, <2>3, <3>1, <3>2 DEF Chunks
  <2>4. QED
    BY <2>1, <2>2, <2>3 DEF Chunks
<1>4. QED
  BY <1>2, <1>3

-----------------------------------------------------------------------------
(***************************************************************************)
(* The encoder.                                                            *)
(***************************************************************************)
\* Blocks of the table lie inside the old file.
TableInside == \A s \in 0..Slots - 1 : table[s] # Free => table[s].off + BlockSize <= Len(old)

\* A block that was found is still the one that will be copied.
AtBlock == phase = "copy" => BlockLeft /\ Ends(HashAt(new, pos)) /\ SameBlock

\* The new file is through when the tail is emitted.
AtTail == /\ phase = "tail" => pos = Len(new)
          /\ phase \in {"encoded", "apply", "done"} => lit = Len(new)

\* The parts of EncodedSoFar: what one instruction stands for, and that the
\* instructions are adjacent.
Gives(x) == IF x.op = "copy" THEN Part(old, x.off, BlockSize) ELSE x.data
GoodPiece(x, from, to) ==
    /\ from < to
    /\ Gives(x) = SubSeq(new, from + 1, to)
    /\ x.op = "literal" => Len(x.data) <= MaxLit
    /\ x.op = "copy" => x.off + BlockSize <= Len(old)
Pieces ==
    /\ Len(ends) = Len(instr) /\ From(Len(ends) + 1) = lit
    /\ \A j \in 1..Len(instr) : GoodPiece(instr[j], From(j), ends[j]) /\ ends[j] <= lit
Counted ==
    /\ phase \notin {"copy", "tail"} => cnt = Len(instr)
    /\ phase \in {"copy", "tail"} => cnt = Len(instr) + Chunks(pos - lit)

EncInv == BDeltaTypeOK /\ TableInside /\ AtBlock /\ AtTail /\ Pieces /\ Counted

LEMMA EncodedHolds == EncInv => EncodedSoFar
BY DEF EncInv, Pieces, Counted, GoodPiece, Gives, EncodedSoFar, Yields

LEMMA FilesAre ==
    ASSUME BDeltaTypeOK
    PROVE  /\ old \in Seq(Byte) /\ new \in Seq(Byte)
           /\ Len(old) \in Nat /\ Len(new) \in Nat
BY FilesAssumption DEF BDeltaTypeOK

\* The slot where a probe ends is one of the table.
LEMMA SlotInside ==
    ASSUME NEW h \in Nat, Ends(h)
    PROVE  SlotOf(h) \in 0..Slots - 1
<1>1. Slots \in Nat \ {0}
  BY SizesAssumption
<1>2. PICK d \in 0..Slots - 1 : SlotOf(h) = Probe(h, d)
  BY DEF Ends, SlotOf
<1>3. h + d \in Nat
  BY <1>1
<1>4. QED
  BY <1>1, <1>2, <1>3 DEF Probe

\* An instruction behind the others that stands for what follows.
LEMMA PieceAdded ==
    ASSUME BDeltaTypeOK, Pieces, NEW x \in Instruction, NEW to \in Nat, GoodPiece(x, lit, to),
           instr' = Append(instr, x), ends' = Append(ends, to), lit' = to,
           UNCHANGED <<old, new>>
    PROVE  Pieces'
<1>1. instr \in Seq(Instruction) /\ ends \in Seq(Nat) /\ Len(ends) = Len(instr)
      /\ Len(instr) \in Nat /\ lit \in Nat
  BY DEF BDeltaTypeOK, Pieces
<1>2. /\ Len(instr') = Len(instr) + 1 /\ Len(ends') = Len(instr) + 1
      /\ instr'[Len(instr) + 1] = x /\ ends'[Len(instr) + 1] = to
      /\ \A j \in 1..Len(instr) : instr'[j] = instr[j] /\ ends'[j] = ends[j]
  BY <1>1
<1>3. \A j \in 1..Len(instr) + 1 : From(j)' = From(j)
  BY <1>1, <1>2 DEF From
<1>4. From(Len(instr) + 1) = lit /\ lit < to
  BY <1>1 DEF Pieces, GoodPiece
<1>5. \A y, a, b : GoodPiece(y, a, b)' <=> GoodPiece(y, a, b)
  BY DEF GoodPiece, Gives
<1>6. ASSUME NEW j \in 1..Len(instr) + 1
      PROVE  GoodPiece(instr'[j], From(j)', ends'[j]) /\ ends'[j] <= lit'
  <2>1. CASE j = Len(instr) + 1
    BY <1>2, <1>3, <1>4, <2>1
  <2>2. CASE j \in 1..Len(instr)
    <3>1. GoodPiece(instr[j], From(j), ends[j]) /\ ends[j] <= lit /\ ends[j] \in Nat
      BY <1>1, <2>2 DEF Pieces
    <3>2. QED
      BY <1>1, <1>2, <1>3, <1>4, <2>2, <3>1
  <2>3. QED
    BY <1>1, <2>1, <2>2
<1>7. (From(Len(ends) + 1) = lit)'
  BY <1>1, <1>2 DEF From
<1>8. QED
  BY <1>1, <1>2, <1>5, <1>6, <1>7 DEF Pieces

\* Where the step leaves the files and what was emitted alone.
LEMMA PiecesStay ==
    ASSUME Pieces, UNCHANGED <<old, new, instr, ends, lit>>
    PROVE  Pieces'
BY DEF Pieces, GoodPiece, Gives, From

LEMMA EncInit == BDeltaInit => EncInv
<1> SUFFICES ASSUME BDeltaInit PROVE EncInv
  OBVIOUS
<1>1. old \in Seq(Byte) /\ new \in Seq(Byte) /\ Len(old) \in Nat /\ Len(new) \in Nat
  BY FilesAssumption DEF BDeltaInit
<1>2. BDeltaTypeOK
  BY <1>1 DEF BDeltaInit, BDeltaTypeOK
<1>3. TableInside /\ AtBlock /\ AtTail /\ Counted
  BY DEF BDeltaInit, TableInside, AtBlock, AtTail, Counted
<1>4. Pieces
  BY DEF BDeltaInit, Pieces, From
<1>5. QED
  BY <1>2, <1>3, <1>4 DEF EncInv

\* The steps of the encoder.
LEMMA EncInsert == EncInv /\ InsertBlock => EncInv'
<1> SUFFICES ASSUME EncInv, InsertBlock PROVE EncInv'
  OBVIOUS
<1> DEFINE h == HashAt(old, off)
           e == [hash |-> h, off |-> off]
<1>1. BDeltaTypeOK /\ BlockSize \in Nat \ {0} /\ old \in Seq(Byte) /\ Len(old) \in Nat /\ off \in Nat
  BY SizesAssumption, FilesAre DEF EncInv, BDeltaTypeOK
<1>2. off + BlockSize <= Len(old) /\ h \in Nat
  BY <1>1, BlockHashed DEF InsertBlock
<1>3. /\ e \in [hash : Nat, off : Nat] /\ e.off + BlockSize <= Len(old)
      /\ table' = [table EXCEPT ![SlotOf(h)] = e] /\ off' = off + BlockSize /\ off' \in Nat
  BY <1>1, <1>2 DEF InsertBlock
<1> HIDE DEF e, h
<1>4. table \in [0..Slots - 1 -> [hash : Nat, off : Nat] \cup {Free}]
  BY <1>1 DEF BDeltaTypeOK
<1>5. table' \in [0..Slots - 1 -> [hash : Nat, off : Nat] \cup {Free}]
  BY <1>3, <1>4
<1>6. BDeltaTypeOK'
  BY <1>1, <1>3, <1>5 DEF InsertBlock, BDeltaTypeOK
<1>7. TableInside'
  BY <1>3, <1>4 DEF EncInv, TableInside, InsertBlock
<1>8. Pieces'
  BY PiecesStay DEF EncInv, InsertBlock
<1>9. AtBlock' /\ AtTail' /\ Counted'
  BY DEF EncInv, AtBlock, AtTail, Counted, InsertBlock
<1>10. QED
  BY <1>6, <1>7, <1>8, <1>9 DEF EncInv

LEMMA EncScan == EncInv /\ (EndTable \/ FindBlock \/ NextByte \/ EndScan) => EncInv'
<1> SUFFICES ASSUME EncInv, EndTable \/ FindBlock \/ NextByte \/ EndScan PROVE EncInv'
  OBVIOUS
<1>1. /\ BDeltaTypeOK /\ BlockSize \in Nat \ {0} /\ Len(new) \in Nat
      /\ pos \in Nat /\ pos <= Len(new) /\ lit \in Nat /\ lit <= pos /\ cnt \in Nat
      /\ UNCHANGED <<old, new, table, lit, instr, ends, base, at, out, result, off>>
  BY SizesAssumption, FilesAre
  DEF EncInv, BDeltaTypeOK, EndTable, FindBlock, NextByte, EndScan
<1>2. pos - lit \in Nat /\ Chunks(pos - lit) \in Nat
  BY <1>1, ChunkStep
<1>3. Pieces'
  BY <1>1, PiecesStay DEF EncInv
<1>4. TableInside'
  BY <1>1 DEF EncInv, TableInside
<1>5. CASE EndTable
  <2>1. BDeltaTypeOK'
    BY <1>1, <1>5 DEF EndTable, BDeltaTypeOK
  <2>2. AtBlock' /\ AtTail' /\ Counted'
    BY <1>5 DEF EncInv, EndTable, AtBlock, AtTail, Counted
  <2>3. QED
    BY <1>3, <1>4, <2>1, <2>2 DEF EncInv
<1>6. CASE FindBlock
  <2>1. BDeltaTypeOK'
    BY <1>1, <1>2, <1>6 DEF FindBlock, BDeltaTypeOK
  <2>2. AtBlock'
    BY <1>1, <1>6 DEF FindBlock, AtBlock, BlockLeft, Ends, SameBlock, Reaches, StopsAt, SlotOf
  <2>3. AtTail' /\ Counted'
    BY <1>1, <1>6 DEF EncInv, FindBlock, AtTail, Counted
  <2>4. QED
    BY <1>3, <1>4, <2>1, <2>2, <2>3 DEF EncInv
<1>7. CASE NextByte
  <2>1. BDeltaTypeOK'
    BY <1>1, <1>7 DEF NextByte, BDeltaTypeOK
  <2>2. AtBlock' /\ AtTail' /\ Counted'
    BY <1>7 DEF EncInv, NextByte, AtBlock, AtTail, Counted
  <2>3. QED
    BY <1>3, <1>4, <2>1, <2>2 DEF EncInv
<1>8. CASE EndScan
  <2>1. BDeltaTypeOK'
    BY <1>1, <1>2, <1>8 DEF EndScan, BDeltaTypeOK
  <2>2. AtBlock' /\ AtTail' /\ Counted'
    BY <1>1, <1>8 DEF EncInv, EndScan, AtBlock, AtTail, Counted
  <2>3. QED
    BY <1>3, <1>4, <2>1, <2>2 DEF EncInv
<1>9. QED
  BY <1>5, <1>6, <1>7, <1>8

\* An iteration of emit_literal takes as much as it may of what lies before
\* the block, and one of the chunks that were counted.
LEMMA EncLiteral == EncInv /\ EmitLiteral => EncInv'
<1> SUFFICES ASSUME EncInv, EmitLiteral PROVE EncInv'
  OBVIOUS
<1> DEFINE n == IF pos - lit > MaxLit THEN MaxLit ELSE pos - lit
<1>1. /\ BDeltaTypeOK /\ MaxLit \in Nat \ {0} /\ new \in Seq(Byte) /\ Len(new) \in Nat
      /\ pos \in Nat /\ pos <= Len(new) /\ lit \in Nat /\ lit < pos /\ cnt \in Nat
      /\ instr \in Seq(Instruction) /\ ends \in Seq(Nat) /\ Len(ends) = Len(instr)
      /\ phase \in {"copy", "tail"}
  BY SizesAssumption, FilesAre DEF EncInv, BDeltaTypeOK, EmitLiteral, Pieces
<1>2. n \in Nat /\ n > 0 /\ n <= MaxLit /\ lit + n <= pos /\ lit + n <= Len(new)
  BY <1>1
<1> DEFINE x == Literal(Part(new, lit, n))
<1>3. Part(new, lit, n) \in Seq(Byte) /\ Len(Part(new, lit, n)) = n
  BY <1>1, <1>2, PartInside
<1>4. x \in Instruction
  BY <1>3 DEF Literal, Instruction
<1>5. GoodPiece(x, lit, lit + n)
  <2>1. x.op = "literal" /\ x.data = SubSeq(new, lit + 1, lit + n) /\ Len(x.data) = n
    BY <1>3 DEF Literal, Part
  <2>2. lit < lit + n
    BY <1>1, <1>2
  <2> HIDE DEF n, x
  <2>3. QED
    BY <1>2, <2>1, <2>2, Zenon DEF GoodPiece, Gives
<1>6. /\ instr' = Append(instr, x) /\ ends' = Append(ends, lit + n) /\ lit' = lit + n
      /\ UNCHANGED <<old, new, table, off, pos, cnt, base, at, out, phase, result>>
  BY DEF EmitLiteral
<1>7. Chunks(pos - lit) = 1 + Chunks(pos - (lit + n))
  <2>1. pos - lit \in Nat \ {0} /\ pos - (lit + n) = pos - lit - n
    BY <1>1, <1>2
  <2>2. CASE pos - lit > MaxLit
    BY <1>1, <2>1, <2>2, ChunkStep
  <2>3. CASE ~(pos - lit > MaxLit)
    <3>1. pos - lit - n = 0
      BY <1>1, <2>3
    <3>2. Chunks(pos - lit) = 1 /\ Chunks(0) = 0
      BY <1>1, <2>1, <2>3, ChunkStep
    <3>3. QED
      BY <2>1, <3>1, <3>2
  <2>4. QED
    BY <2>2, <2>3
<1> HIDE DEF n, x
<1>8. Pieces'
  BY <1>1, <1>2, <1>4, <1>5, <1>6, PieceAdded DEF EncInv
<1>9. instr' \in Seq(Instruction) /\ ends' \in Seq(Nat) /\ Len(instr') = Len(instr) + 1
      /\ Len(instr) \in Nat
  BY <1>1, <1>2, <1>4, <1>6
<1>10. BDeltaTypeOK'
  BY <1>1, <1>2, <1>6, <1>9 DEF BDeltaTypeOK
<1>11. pos - (lit + n) \in Nat /\ Chunks(pos - (lit + n)) \in Nat
  <2>1. pos - (lit + n) \in Nat
    BY <1>1, <1>2
  <2>2. Chunks(0) \in Nat /\ \A k \in Nat \ {0} : Chunks(k) \in Nat
    BY ChunkStep
  <2>3. QED
    BY <2>1, <2>2
<1>12. Counted'
  <2>1. cnt = Len(instr) + Chunks(pos - lit)
    BY <1>1 DEF EncInv, Counted
  <2>2. cnt = Len(instr') + Chunks(pos - (lit + n))
    BY <1>7, <1>9, <1>11, <2>1
  <2>3. pos' - lit' = pos - (lit + n) /\ cnt' = cnt /\ phase' = phase
    BY <1>6
  <2>4. QED
    BY <1>1, <2>2, <2>3 DEF Counted, Chunks
<1>13. TableInside' /\ AtTail'
  BY <1>1, <1>6 DEF EncInv, TableInside, AtTail
<1>14. AtBlock'
  BY <1>6 DEF EncInv, AtBlock, BlockLeft, Ends, SameBlock, Reaches, StopsAt, SlotOf
<1>15. QED
  BY <1>8, <1>10, <1>12, <1>13, <1>14 DEF EncInv

LEMMA EncCopy == EncInv /\ EmitCopy => EncInv'
<1> SUFFICES ASSUME EncInv, EmitCopy PROVE EncInv'
  OBVIOUS
<1> DEFINE h == HashAt(new, pos)
           o == table[SlotOf(h)].off
           x == Copy(o)
<1>1. /\ BDeltaTypeOK /\ BlockSize \in Nat \ {0} /\ new \in Seq(Byte) /\ Len(new) \in Nat
      /\ pos \in Nat /\ pos <= Len(new) /\ lit = pos /\ cnt \in Nat
      /\ instr \in Seq(Instruction) /\ ends \in Seq(Nat) /\ phase = "copy"
      /\ Len(instr) \in Nat
  BY SizesAssumption, FilesAre DEF EncInv, BDeltaTypeOK, EmitCopy
<1>2. pos + BlockSize <= Len(new) /\ h \in Nat /\ Ends(h) /\ SameBlock
  BY <1>1, BlockHashed DEF EncInv, AtBlock, BlockLeft
<1>3. SlotOf(h) \in 0..Slots - 1
  BY <1>2, SlotInside
<1>4. table[SlotOf(h)] # Free /\ BlockAt(old, o) = BlockAt(new, pos)
  BY <1>2 DEF SameBlock
<1>5. table \in [0..Slots - 1 -> [hash : Nat, off : Nat] \cup {Free}]
  BY <1>1 DEF BDeltaTypeOK
<1>6. o \in Nat /\ o + BlockSize <= Len(old)
  BY <1>3, <1>4, <1>5 DEF EncInv, TableInside
<1>7. /\ instr' = Append(instr, x) /\ ends' = Append(ends, pos + BlockSize)
      /\ lit' = pos + BlockSize /\ pos' = pos + BlockSize /\ cnt' = cnt + 1 /\ phase' = "scan"
      /\ UNCHANGED <<old, new, table, off, base, at, out, result>>
  BY DEF EmitCopy
<1> HIDE DEF o, h
<1>8. x \in Instruction
  BY <1>6 DEF Copy, Instruction
<1>9. GoodPiece(x, lit, pos + BlockSize)
  BY <1>1, <1>4, <1>6 DEF GoodPiece, Gives, Copy, BlockAt, Part
<1> HIDE DEF x
<1>10. Pieces'
  BY <1>1, <1>7, <1>8, <1>9, PieceAdded DEF EncInv
<1>11. instr' \in Seq(Instruction) /\ ends' \in Seq(Nat) /\ Len(instr') = Len(instr) + 1
  BY <1>1, <1>7, <1>8
<1>12. BDeltaTypeOK'
  BY <1>1, <1>2, <1>7, <1>11 DEF BDeltaTypeOK
<1>13. Counted'
  <2>1. cnt = Len(instr) + Chunks(pos - lit) /\ pos - lit = 0
    BY <1>1 DEF EncInv, Counted
  <2>2. cnt = Len(instr)
    BY <1>1, <2>1, ChunkStep
  <2>3. QED
    BY <1>1, <1>7, <1>11, <2>2 DEF Counted
<1>14. TableInside' /\ AtBlock' /\ AtTail'
  BY <1>7 DEF EncInv, TableInside, AtBlock, AtTail
<1>15. QED
  BY <1>10, <1>12, <1>13, <1>14 DEF EncInv

LEMMA EncAssemble == EncInv /\ Assemble => EncInv'
<1> SUFFICES ASSUME EncInv, Assemble PROVE EncInv'
  OBVIOUS
<1>1. /\ BDeltaTypeOK /\ pos \in Nat /\ Len(instr) \in Nat /\ lit = pos /\ phase = "tail" /\ phase' = "encoded"
      /\ UNCHANGED <<old, new, table, off, pos, lit, instr, cnt, base, at, out, result, ends>>
  BY FilesAre DEF EncInv, BDeltaTypeOK, Assemble
<1>2. BDeltaTypeOK'
  BY <1>1 DEF BDeltaTypeOK
<1>3. Pieces'
  BY <1>1, PiecesStay DEF EncInv
<1>4. Counted'
  <2>1. cnt = Len(instr) + Chunks(pos - lit) /\ pos - lit = 0
    BY <1>1 DEF EncInv, Counted
  <2>2. cnt = Len(instr)
    BY <1>1, <2>1, ChunkStep
  <2>3. QED
    BY <1>1, <2>2 DEF Counted
<1>5. TableInside' /\ AtBlock' /\ AtTail'
  BY <1>1 DEF EncInv, TableInside, AtBlock, AtTail
<1>6. QED
  BY <1>2, <1>3, <1>4, <1>5 DEF EncInv

-----------------------------------------------------------------------------
(***************************************************************************)
(* The decoder.                                                            *)
(***************************************************************************)
\* The base is long enough to have the old file in it.
BaseFits == Len(old) > 0 => base # NoBase /\ Len(base) >= Len(old)

\* The instructions before at are played.
Played ==
    /\ at \in 1..cnt + 1 /\ Len(out) = From(at)
    /\ OldBuf = old => out = SubSeq(new, 1, From(at))

Decoding ==
    /\ phase \notin {"apply", "done"} => at = 1 /\ out = <<>> /\ result = 1
    /\ phase = "apply" => BaseFits /\ Played
    /\ phase = "done" /\ result = 0 => Played /\ at > cnt

\* What the decoder may touch is no matter of the encoder.
LEMMA EncStays ==
    ASSUME EncInv, BDeltaTypeOK', phase \in {"encoded", "apply", "done"},
           phase' \in {"encoded", "apply", "done"},
           UNCHANGED <<old, new, table, off, pos, lit, instr, cnt, ends>>
    PROVE  EncInv'
<1>1. Pieces'
  BY PiecesStay DEF EncInv
<1>2. TableInside' /\ AtBlock' /\ AtTail' /\ Counted'
  BY DEF EncInv, TableInside, AtBlock, AtTail, Counted
<1>3. QED
  BY <1>1, <1>2 DEF EncInv

LEMMA OldBufIs ==
    ASSUME BDeltaTypeOK, BaseFits
    PROVE  OldBuf \in Seq(Byte) /\ Len(OldBuf) = Len(old)
<1>1. old \in Seq(Byte) /\ Len(old) \in Nat
  BY FilesAre
<1>2. CASE Len(old) = 0
  BY <1>2 DEF OldBuf
<1>3. CASE Len(old) > 0
  <2>1. base \in Seq(Byte) /\ Len(base) \in Nat /\ Len(old) <= Len(base)
    BY <1>3, FilesAssumption DEF BDeltaTypeOK, BaseFits
  <2>2. \A j \in 1..Len(old) : base[j] \in Byte
    BY <1>1, <2>1
  <2>3. /\ SubSeq(base, 1, Len(old)) \in Seq(Byte)
        /\ Len(SubSeq(base, 1, Len(old))) = IF 1 <= Len(old) THEN Len(old) - 1 + 1 ELSE 0
    BY <1>1, <2>2, SubSeqProperties
  <2>4. QED
    BY <1>1, <1>3, <2>3 DEF OldBuf
<1>4. QED
  BY <1>1, <1>2, <1>3

\* An instruction that is played extends the output to where its piece ends.
LEMMA PiecePlayed ==
    ASSUME EncInv, Decoding, phase = "apply", at <= cnt, NEW data \in Seq(Byte), Write(data),
           Len(data) = ends[at] - From(at),
           OldBuf = old => data = SubSeq(new, From(at) + 1, ends[at])
    PROVE  EncInv' /\ Decoding'
<1>1. /\ BDeltaTypeOK /\ at \in Nat \ {0} /\ cnt \in Nat /\ cnt = Len(instr) /\ Len(ends) = Len(instr)
      /\ ends \in Seq(Nat) /\ lit = Len(new) /\ new \in Seq(Byte) /\ Len(new) \in Nat
      /\ out \in Seq(Byte) /\ Played /\ BaseFits
  BY FilesAre DEF EncInv, BDeltaTypeOK, Counted, AtTail, Pieces, Decoding
<1>2. ends[at] \in Nat /\ From(at) \in Nat /\ From(at) < ends[at] /\ ends[at] <= Len(new)
  <2>1. GoodPiece(instr[at], From(at), ends[at]) /\ ends[at] <= lit
    BY <1>1 DEF EncInv, Pieces
  <2>2. ends[at] \in Nat /\ From(at) \in Nat
    BY <1>1 DEF From
  <2>3. QED
    BY <1>1, <2>1, <2>2 DEF GoodPiece
<1>3. UNCHANGED <<old, new, table, off, pos, lit, instr, cnt, base, ends>>
  BY DEF Write
<1>4. CASE out' = out \o data /\ at' = at + 1 /\ UNCHANGED <<phase, result>>
  <2>1. out' \in Seq(Byte) /\ Len(out') = From(at) + (ends[at] - From(at))
    <3>1. out \o data \in Seq(Byte) /\ Len(out \o data) = Len(out) + Len(data)
      BY <1>1, ConcatProperties
    <3>2. Len(out) = From(at)
      BY <1>1 DEF Played
    <3>3. QED
      BY <1>4, <3>1, <3>2
  <2>2. From(at + 1) = ends[at] /\ From(at)' = ends[at]
    BY <1>1, <1>3, <1>4 DEF From
  <2>3. BDeltaTypeOK'
    BY <1>1, <1>3, <1>4, <2>1 DEF BDeltaTypeOK
  <2>4. EncInv'
    BY <1>3, <1>4, <2>3, EncStays
  <2>5. OldBuf' = OldBuf /\ BaseFits'
    BY <1>1, <1>3 DEF OldBuf, BaseFits
  <2>6. ASSUME OldBuf = old PROVE out' = SubSeq(new, 1, ends[at])
    <3>1. out = SubSeq(new, 1, From(at)) /\ data = SubSeq(new, From(at) + 1, ends[at])
      BY <1>1, <2>6 DEF Played
    <3>2. 1 \in 1..Len(new) + 1 /\ From(at) \in 1 - 1..Len(new) /\ ends[at] \in From(at)..Len(new)
      BY <1>1, <1>2, SMTT(30)
    <3>3. SubSeq(new, 1, From(at)) \o SubSeq(new, From(at) + 1, ends[at]) = SubSeq(new, 1, ends[at])
      BY <1>1, <3>2, ConcatAdjacentSubSeq
    <3>4. QED
      BY <1>4, <3>1, <3>3
  <2>7. at' \in 1..cnt' + 1 /\ Len(out') = From(at)'
    BY <1>1, <1>2, <1>3, <1>4, <2>1, <2>2
  <2>8. Played'
    BY <1>3, <2>2, <2>5, <2>6, <2>7 DEF Played
  <2>9. Decoding'
    BY <1>4, <2>5, <2>8 DEF Decoding
  <2>10. QED
    BY <2>4, <2>9
<1>5. CASE ReturnWith(-1) /\ UNCHANGED <<out, at>>
  <2>1. BDeltaTypeOK'
    BY <1>1, <1>3, <1>5 DEF BDeltaTypeOK, ReturnWith
  <2>2. EncInv'
    BY <1>3, <1>5, <2>1, EncStays DEF ReturnWith
  <2>3. Decoding'
    BY <1>5 DEF Decoding, ReturnWith
  <2>4. QED
    BY <2>2, <2>3
<1>6. QED
  BY <1>4, <1>5 DEF Write

LEMMA DecOpen == EncInv /\ Decoding /\ OpenBase => EncInv' /\ Decoding'
<1> SUFFICES ASSUME EncInv, Decoding, OpenBase PROVE EncInv' /\ Decoding'
  OBVIOUS
<1>1. /\ BDeltaTypeOK /\ cnt \in Nat /\ cnt = Len(instr) /\ at = 1 /\ out = <<>> /\ result = 1
      /\ phase = "encoded" /\ Len(old) \in Nat
      /\ UNCHANGED <<old, new, table, off, pos, lit, instr, cnt, at, out, ends>>
  BY FilesAre DEF EncInv, BDeltaTypeOK, Counted, Decoding, OpenBase
<1>2. PICK f \in Bases :
        /\ base' = f
        /\ IF Len(old) > 0 /\ (f = NoBase \/ Len(f) < Len(old))
           THEN ReturnWith(-1) ELSE phase' = "apply" /\ UNCHANGED result
  BY DEF OpenBase
<1>3. BDeltaTypeOK'
  BY <1>1, <1>2 DEF BDeltaTypeOK, ReturnWith
<1>4. EncInv'
  BY <1>1, <1>2, <1>3, EncStays DEF ReturnWith
<1>5. Decoding'
  <2>1. CASE Len(old) > 0 /\ (f = NoBase \/ Len(f) < Len(old))
    BY <1>2, <2>1 DEF Decoding, ReturnWith
  <2>2. CASE ~(Len(old) > 0 /\ (f = NoBase \/ Len(f) < Len(old)))
    <3>1. BaseFits'
      <4>1. SUFFICES ASSUME Len(old) > 0 PROVE f # NoBase /\ Len(f) >= Len(old)
        BY <1>1, <1>2 DEF BaseFits
      <4>2. f \in Seq(Byte) /\ Len(f) \in Nat
        BY <2>2, <4>1, FilesAssumption
      <4>3. QED
        BY <1>1, <2>2, <4>1, <4>2
    <3>2. Played'
      <4>1. From(at)' = 0
        BY <1>1 DEF From
      <4>2. SubSeq(new', 1, 0) = <<>> /\ Len(out') = 0
        BY <1>1, SubSeqEmpty
      <4>3. at' \in 1..cnt' + 1
        BY <1>1
      <4>4. QED
        BY <1>1, <4>1, <4>2, <4>3 DEF Played
    <3>3. QED
      BY <1>2, <2>2, <3>1, <3>2 DEF Decoding
  <2>3. QED
    BY <2>1, <2>2
<1>6. QED
  BY <1>4, <1>5

LEMMA DecPlay == EncInv /\ Decoding /\ (ApplyCopy \/ ApplyLiteral) => EncInv' /\ Decoding'
<1> SUFFICES ASSUME EncInv, Decoding, ApplyCopy \/ ApplyLiteral PROVE EncInv' /\ Decoding'
  OBVIOUS
<1>1. /\ BDeltaTypeOK /\ phase = "apply" /\ at <= cnt /\ at \in 1..Len(instr) /\ BaseFits
      /\ instr \in Seq(Instruction) /\ Len(instr) \in Nat /\ BlockSize \in Nat \ {0}
      /\ ends \in Seq(Nat) /\ Len(ends) = Len(instr)
      /\ new \in Seq(Byte) /\ Len(new) \in Nat /\ lit = Len(new) /\ Len(old) \in Nat
  BY FilesAre, SizesAssumption
  DEF EncInv, BDeltaTypeOK, Decoding, ApplyCopy, ApplyLiteral, AtTail, Pieces
<1>2. Instr \in Instruction /\ Instr = instr[at]
  BY <1>1 DEF Instr
<1>3. /\ ends[at] \in Nat /\ From(at) \in Nat /\ ends[at] <= Len(new)
      /\ GoodPiece(Instr, From(at), ends[at])
  BY <1>1, <1>2 DEF EncInv, Pieces, From
<1>4. From(at) < ends[at]
  BY <1>3 DEF GoodPiece
<1>5. Len(SubSeq(new, From(at) + 1, ends[at])) = ends[at] - From(at)
  <2> DEFINE n == ends[at] - From(at)
  <2>1. n \in Nat /\ From(at) + n = ends[at] /\ From(at) + n <= Len(new)
    BY <1>3, <1>4
  <2> HIDE DEF n
  <2>2. Len(Part(new, From(at), n)) = n
    BY <1>1, <1>3, <2>1, PartInside
  <2>3. QED
    BY <2>1, <2>2 DEF Part, n
<1>6. CASE ApplyLiteral
  <2>1. Instr.op = "literal" /\ Write(Instr.data) /\ Instr.data \in Seq(Byte)
    BY <1>2, <1>6 DEF ApplyLiteral, Instruction
  <2>2. Instr.data = SubSeq(new, From(at) + 1, ends[at])
    BY <1>3, <2>1 DEF GoodPiece, Gives
  <2>3. QED
    BY <1>1, <1>5, <2>1, <2>2, PiecePlayed
<1>7. CASE ApplyCopy
  <2>1. /\ Instr.op = "copy" /\ Write(Part(OldBuf, Instr.off, Instr.size))
        /\ Instr.off \in Nat /\ Instr.size = BlockSize /\ Instr.off + BlockSize <= Len(old)
    BY <1>2, <1>3, <1>7 DEF ApplyCopy, Instruction, GoodPiece
  <2>2. OldBuf \in Seq(Byte) /\ Len(OldBuf) = Len(old)
    BY <1>1, OldBufIs
  <2>3. /\ Part(OldBuf, Instr.off, BlockSize) \in Seq(Byte)
        /\ Len(Part(OldBuf, Instr.off, BlockSize)) = BlockSize
    BY <1>1, <2>1, <2>2, PartInside
  <2>4. Part(old, Instr.off, BlockSize) = SubSeq(new, From(at) + 1, ends[at])
    BY <1>3, <2>1 DEF GoodPiece, Gives
  <2>5. Len(Part(old, Instr.off, BlockSize)) = BlockSize
    BY <1>1, <2>1, FilesAre, PartInside
  <2>6. QED
    BY <1>1, <1>5, <2>1, <2>3, <2>4, <2>5, PiecePlayed
<1>8. QED
  BY <1>6, <1>7

LEMMA DecEnd == EncInv /\ Decoding /\ EndApply => EncInv' /\ Decoding'
<1> SUFFICES ASSUME EncInv, Decoding, EndApply PROVE EncInv' /\ Decoding'
  OBVIOUS
<1>1. /\ BDeltaTypeOK /\ phase = "apply" /\ phase' = "done" /\ result' \in {0, -1}
      /\ result' = 0 => at > cnt
      /\ UNCHANGED <<old, new, table, off, pos, lit, instr, cnt, base, at, out, ends>>
  BY DEF EncInv, EndApply, ReturnWith
<1>2. BDeltaTypeOK'
  BY <1>1 DEF BDeltaTypeOK
<1>3. EncInv'
  BY <1>1, <1>2, EncStays
<1>4. Played'
  BY <1>1 DEF Decoding, Played, OldBuf, From
<1>5. Decoding'
  BY <1>1, <1>4 DEF Decoding
<1>6. QED
  BY <1>3, <1>5

-----------------------------------------------------------------------------
(***************************************************************************)
(* The invariant, and what follows.                                        *)
(***************************************************************************)
Inv == EncInv /\ Decoding

LEMMA InvInit == BDeltaInit => Inv
BY EncInit DEF Inv, BDeltaInit, Decoding

LEMMA InvStep == Inv /\ [BDeltaNext]_bvars => Inv'
<1> SUFFICES ASSUME EncInv, Decoding, [BDeltaNext]_bvars PROVE EncInv' /\ Decoding'
  BY DEF Inv
<1>1. CASE InsertBlock \/ EndTable \/ FindBlock \/ NextByte \/ EndScan
           \/ EmitLiteral \/ EmitCopy \/ Assemble
  <2>1. EncInv'
    BY <1>1, EncInsert, EncScan, EncLiteral, EncCopy, EncAssemble
  <2>2. /\ UNCHANGED <<at, out, result>> /\ phase \notin {"apply", "done"}
        /\ phase' \notin {"apply", "done"}
    BY <1>1 DEF InsertBlock, EndTable, FindBlock, NextByte, EndScan, EmitLiteral, EmitCopy,
                Assemble
  <2>3. Decoding'
    BY <2>2 DEF Decoding
  <2>4. QED
    BY <2>1, <2>3
<1>2. CASE OpenBase
  BY <1>2, DecOpen
<1>3. CASE ApplyCopy \/ ApplyLiteral
  BY <1>3, DecPlay
<1>4. CASE EndApply
  BY <1>4, DecEnd
<1>5. CASE UNCHANGED bvars
  <2>1. BDeltaTypeOK' /\ Pieces'
    BY <1>5, PiecesStay DEF bvars, EncInv, BDeltaTypeOK
  <2>2. TableInside' /\ AtTail' /\ Counted'
    BY <1>5 DEF bvars, EncInv, TableInside, AtTail, Counted
  <2>3. AtBlock'
    BY <1>5 DEF bvars, EncInv, AtBlock, BlockLeft, Ends, SameBlock, Reaches, StopsAt, SlotOf
  <2>4. Decoding'
    BY <1>5 DEF bvars, Decoding, BaseFits, Played, OldBuf, From
  <2>5. QED
    BY <2>1, <2>2, <2>3, <2>4 DEF EncInv
<1>6. QED
  BY <1>1, <1>2, <1>3, <1>4, <1>5 DEF BDeltaNext

LEMMA EncoderInvariance == BDeltaSpec => []Inv
<1>1. QED
  BY InvInit, InvStep, PTL DEF BDeltaSpec

\* What has been emitted cuts the new file up to lit_start into adjacent
\* pieces with the right bytes, and the header's count is the number of
\* instructions (paf_binary_delta.c:100-113, 176-226).
THEOREM Encoding == BDeltaSpec => []EncodedSoFar
<1>1. Inv => EncodedSoFar
  BY EncodedHolds DEF Inv
<1>2. QED
  BY <1>1, EncoderInvariance, PTL

\* paf_bdelta_apply that returns 0 has rebuilt the new file, if what it was
\* applied to begins with the old one, and a file of its length otherwise.
THEOREM RoundTripAlways == BDeltaSpec => []RoundTrip
<1>1. Inv => RoundTrip
  <2> SUFFICES ASSUME EncInv, Decoding, phase = "done", result = 0
               PROVE  (OldBuf = old => out = new) /\ Len(out) = Len(new)
    BY DEF Inv, RoundTrip
  <2>1. /\ cnt \in Nat /\ cnt = Len(instr) /\ Len(ends) = Len(instr) /\ lit = Len(new)
        /\ new \in Seq(Byte) /\ Played /\ at > cnt
    BY FilesAre DEF EncInv, BDeltaTypeOK, Counted, AtTail, Pieces, Decoding
  <2>2. at = Len(ends) + 1
    BY <2>1 DEF Played
  <2>3. From(at) = Len(new)
    BY <2>1, <2>2 DEF EncInv, Pieces
  <2>4. SubSeq(new, 1, Len(new)) = new
    BY <2>1, SubSeqFull
  <2>5. QED
    BY <2>1, <2>3, <2>4 DEF Played
<1>2. QED
  BY <1>1, EncoderInvariance, PTL

(***************************************************************************)
(* The decoder refuses no delta of the encoder: every copy lies inside the *)
(* old file, and no instruction is missing.  Once OpenBase has passed the  *)
(* file, only a short fwrite makes paf_bdelta_apply return an error.       *)
(***************************************************************************)
NeverRefused == phase = "apply" /\ at <= cnt => ~Refused

THEOREM NeverRefusedAlways == BDeltaSpec => []NeverRefused
<1>1. Inv => NeverRefused
  <2> SUFFICES ASSUME EncInv, Decoding, phase = "apply", at <= cnt
               PROVE  ~Refused
    BY DEF Inv, NeverRefused
  <2>1. cnt = Len(instr) /\ at \in 1..Len(instr) /\ Instr \in Instruction
    BY ElementOfSeq, LenProperties DEF EncInv, BDeltaTypeOK, Counted, Decoding, Played, Instr
  <2>2. GoodPiece(Instr, From(at), ends[at])
    BY <2>1 DEF EncInv, Pieces, Instr
  <2>3. ASSUME Instr.op = "copy" PROVE InRange
    <3>1. Instr.size = BlockSize /\ Instr.off \in Nat
      BY <2>1, <2>3 DEF Instruction
    <3>2. Instr.off + BlockSize <= Len(old) /\ Len(old) \in Nat
      BY <2>2, <2>3, FilesAre DEF GoodPiece, EncInv, BDeltaTypeOK
    <3>3. QED
      BY <3>1, <3>2, SizesAssumption DEF InRange
  <2>4. at <= Len(instr) /\ at \in Int /\ Len(instr) \in Nat
    BY <2>1, LenProperties DEF EncInv, BDeltaTypeOK
  <2>5. QED
    BY <2>3, <2>4 DEF Refused
<1>2. QED
  BY <1>1, EncoderInvariance, PTL

(***************************************************************************)
(* PatchApply plays a delta in one step and says what may come out of it;  *)
(* BinaryDelta plays it instruction by instruction.  The files of a run of *)
(* BinaryDelta are those of an entry of p over the content c where its old *)
(* file is empty if the entry's is, and is what c stands for if c is what  *)
(* the delta was made from.  The output stands for New[p] where it is the  *)
(* new file, and for torn content elsewhere.                               *)
(***************************************************************************)
Describes(p, c) == /\ p \in EmptyOld => old = <<>>
                   /\ c = Old[p] => base = old
Stands(p)       == IF out = new THEN New[p] ELSE Torn

\* WriteStage of PatchApply allows every outcome of a delta, and no other
\* where the outcome is certain.
THEOREM DeltaResultsAreRight ==
    ASSUME NEW p \in Files, NEW c
    PROVE  BDeltaSpec =>
               [](phase = "done" /\ result = 0 /\ Describes(p, c) =>
                     Stands(p) \in DeltaResults(p, c))
<1>1. ASSUME Inv, RoundTrip, phase = "done", result = 0, Describes(p, c)
      PROVE  Stands(p) \in DeltaResults(p, c)
  <2>1. CASE c = Old[p] \/ p \in EmptyOld
    <3>1. old \in Seq(Byte) /\ Len(<<>>) = 0
      BY <1>1, EmptySeq, FilesAre DEF Inv, EncInv
    <3>2. OldBuf = old
      <4>1. CASE p \in EmptyOld
        BY <1>1, <3>1, <4>1 DEF Describes, OldBuf
      <4>2. CASE c = Old[p]
        <5>1. base = old /\ SubSeq(old, 1, Len(old)) = old
          BY <1>1, <3>1, <4>2, SubSeqFull DEF Describes
        <5>2. Len(old) = 0 => old = <<>>
          BY <3>1, EmptySeq
        <5>3. QED
          BY <5>1, <5>2 DEF OldBuf
      <4>3. QED
        BY <2>1, <4>1, <4>2
    <3>3. QED
      BY <1>1, <2>1, <3>2 DEF RoundTrip, Stands, DeltaResults
  <2>2. CASE ~(c = Old[p] \/ p \in EmptyOld)
    BY <2>2 DEF Stands, DeltaResults
  <2>3. QED
    BY <2>1, <2>2
<1>2. Inv /\ RoundTrip =>
         (phase = "done" /\ result = 0 /\ Describes(p, c) => Stands(p) \in DeltaResults(p, c))
  BY <1>1
<1>3. QED
  BY <1>2, EncoderInvariance, RoundTripAlways, PTL

-----------------------------------------------------------------------------
(***************************************************************************)
(* The table.  The operators of BinaryDelta, with the table as a parameter *)
(* to speak of it before and after an insertion.                           *)
(***************************************************************************)
Entry == [hash : Nat, off : Nat]
Tables == [0..Slots - 1 -> Entry \cup {Free}]
StopsIn(t, h, d)   == t[Probe(h, d)] # Free => t[Probe(h, d)].hash = h
ReachesIn(t, h, d) == StopsIn(t, h, d) /\ \A c \in 0..d - 1 : ~StopsIn(t, h, c)
SlotIn(t, h)       == Probe(h, CHOOSE d \in 0..Slots - 1 : ReachesIn(t, h, d))
Inserted(t, h, d, e) == [t EXCEPT ![Probe(h, d)] = e]
KeepsOthers(t, u, h) ==
    \A g \in Nat \ {h}, d \in 0..Slots - 1 :
        ReachesIn(t, g, d) /\ t[Probe(g, d)] # Free =>
            ReachesIn(u, g, d) /\ u[Probe(g, d)] = t[Probe(g, d)]

\* A probe has one end.
LEMMA SlotIs ==
    ASSUME NEW t, NEW h, NEW d \in 0..Slots - 1, ReachesIn(t, h, d)
    PROVE  SlotIn(t, h) = Probe(h, d)
<1>1. ASSUME NEW c \in 0..Slots - 1, ReachesIn(t, h, c) PROVE c = d
  <2>1. c < d => ~StopsIn(t, h, c)
    BY DEF ReachesIn
  <2>2. d < c => ~StopsIn(t, h, d)
    BY <1>1 DEF ReachesIn
  <2>3. StopsIn(t, h, c) /\ StopsIn(t, h, d)
    BY <1>1 DEF ReachesIn
  <2>4. QED
    BY <2>1, <2>2, <2>3
<1>2. (CHOOSE c \in 0..Slots - 1 : ReachesIn(t, h, c)) = d
  BY <1>1
<1>3. QED
  BY <1>2 DEF SlotIn

LEMMA ProbeInside ==
    ASSUME NEW h \in Nat, NEW d \in 0..Slots - 1
    PROVE  Probe(h, d) \in 0..Slots - 1
<1>1. Slots \in Nat \ {0} /\ h + d \in Nat
  BY SizesAssumption
<1>2. QED
  BY <1>1 DEF Probe

\* An insertion takes no slot away from another hash, and no free one that
\* the way to it passes; its own hash is found where it was entered.
LEMMA InsertKeeps ==
    ASSUME NEW t \in Tables, NEW h \in Nat, NEW dh \in 0..Slots - 1, ReachesIn(t, h, dh),
           NEW e \in Entry, e.hash = h, NEW u, u = Inserted(t, h, dh, e)
    PROVE  /\ u \in Tables /\ ReachesIn(u, h, dh) /\ u[Probe(h, dh)] = e
           /\ KeepsOthers(t, u, h)
<1> DEFINE s == Probe(h, dh)
<1>1. s \in 0..Slots - 1 /\ e # Free /\ Slots \in Nat \ {0}
  BY ProbeInside, SizesAssumption, FilesAssumption DEF Entry
<1>2. t[s] # Free => t[s].hash = h
  BY DEF ReachesIn, StopsIn
<1> HIDE DEF s
<1>3. /\ u \in Tables /\ u[s] = e
      /\ \A p \in 0..Slots - 1 : p # s => u[p] = t[p]
  BY <1>1 DEF Tables, Inserted, s
<1>4. ReachesIn(u, h, dh)
  <2>1. StopsIn(u, h, dh)
    BY <1>3 DEF StopsIn, s
  <2>2. ASSUME NEW c \in 0..dh - 1 PROVE ~StopsIn(u, h, c)
    <3>1. c \in 0..Slots - 1 /\ ~StopsIn(t, h, c)
      <4>1. ~StopsIn(t, h, c)
        BY DEF ReachesIn
      <4>2. QED
        BY <1>1, <4>1
    <3>2. Probe(h, c) \in 0..Slots - 1 /\ t[Probe(h, c)] # Free /\ t[Probe(h, c)].hash # h
      BY <3>1, ProbeInside DEF StopsIn
    <3>3. Probe(h, c) # s
      BY <1>2, <3>2
    <3>4. QED
      BY <1>3, <3>2, <3>3 DEF StopsIn
  <2>3. QED
    BY <2>1, <2>2 DEF ReachesIn
<1>5. ASSUME NEW g \in Nat \ {h}, NEW d \in 0..Slots - 1,
             ReachesIn(t, g, d), t[Probe(g, d)] # Free
      PROVE  ReachesIn(u, g, d) /\ u[Probe(g, d)] = t[Probe(g, d)]
  <2>1. Probe(g, d) \in 0..Slots - 1 /\ t[Probe(g, d)].hash = g
    BY <1>5, ProbeInside DEF ReachesIn, StopsIn
  <2>2. Probe(g, d) # s
    BY <1>2, <1>5, <2>1
  <2>3. u[Probe(g, d)] = t[Probe(g, d)]
    BY <1>3, <2>1, <2>2
  <2>4. ASSUME NEW c \in 0..d - 1 PROVE ~StopsIn(u, g, c)
    <3>1. c \in 0..Slots - 1 /\ ~StopsIn(t, g, c)
      <4>1. ~StopsIn(t, g, c)
        BY <1>5 DEF ReachesIn
      <4>2. QED
        BY <1>1, <4>1
    <3>2. Probe(g, c) \in 0..Slots - 1 /\ t[Probe(g, c)] # Free /\ t[Probe(g, c)].hash # g
      BY <3>1, ProbeInside DEF StopsIn
    <3>3. u[Probe(g, c)] # Free /\ u[Probe(g, c)].hash # g
      BY <1>1, <1>3, <3>2
    <3>4. QED
      BY <3>3 DEF StopsIn
  <2>5. QED
    BY <2>1, <2>3, <2>4 DEF ReachesIn, StopsIn
<1>6. QED
  BY <1>3, <1>4, <1>5 DEF KeepsOthers, s

\* Two multiples of c that are less than c apart are one.
LEMMA Multiples ==
    ASSUME NEW c \in Nat \ {0}, NEW a \in Nat, NEW b \in Nat, a % c = 0, b % c = 0, b < a
    PROVE  b + c <= a
<1>1. PICK m \in Nat, n \in Nat : a = c * m /\ b = c * n
  <2>1. a \div c \in Nat /\ b \div c \in Nat /\ a = c * (a \div c) /\ b = c * (b \div c)
    BY SMT
  <2>2. QED
    BY <2>1
<1>2. n + 1 <= m
  <2>1. SUFFICES ASSUME m <= n PROVE FALSE
    BY <1>1
  <2>2. m * c <= n * c
    BY <2>1, ProductMono
  <2>3. m * c = c * m /\ n * c = c * n
    BY SMT
  <2>4. QED
    BY <1>1, <2>2, <2>3
<1>3. (n + 1) * c <= m * c
  BY <1>2, ProductMono
<1>4. (n + 1) * c = c * n + c /\ m * c = c * m
  BY SMT
<1>5. QED
  BY <1>1, <1>3, <1>4

LEMMA NextMultiple ==
    ASSUME NEW c \in Nat \ {0}, NEW a \in Nat, a % c = 0
    PROVE  (a + c) % c = 0
<1>1. a \div c \in Nat /\ (a + c) \div c = a \div c + 1 /\ a = c * (a \div c)
  BY SMT
<1>2. QED
  BY <1>1, SMT

\* What BlocksFound says of the block at b, and of those before o.
FoundAt(t, f, b) ==
    LET h == HashAt(f, b)
    IN  /\ \E d \in 0..Slots - 1 : ReachesIn(t, h, d)
        /\ t[SlotIn(t, h)] # Free
        /\ t[SlotIn(t, h)].off >= b
        /\ HashAt(f, t[SlotIn(t, h)].off) = h
FoundIn(t, f, o) == \A b \in {c \in 0..o - BlockSize : c % BlockSize = 0} : FoundAt(t, f, b)

TableInv == off % BlockSize = 0 /\ off <= Len(old) /\ FoundIn(table, old, off)

LEMMA BlocksAre == FoundIn(table, old, off) => BlocksFound
BY DEF BlocksFound, FoundIn, FoundAt, Ends, Reaches, ReachesIn, StopsAt, StopsIn, SlotOf, SlotIn

\* One more block.
LEMMA FoundAfter ==
    ASSUME NEW f \in Seq(Byte), NEW o \in Nat, o % BlockSize = 0, o + BlockSize <= Len(f),
           NEW t \in Tables, FoundIn(t, f, o),
           NEW h \in Nat, h = HashAt(f, o), NEW d \in 0..Slots - 1, ReachesIn(t, h, d),
           NEW e \in Entry, e.hash = h, e.off = o, NEW u, u = Inserted(t, h, d, e)
    PROVE  FoundIn(u, f, o + BlockSize)
<1>1. BlockSize \in Nat \ {0} /\ Len(f) \in Nat /\ e # Free
  BY SizesAssumption, FilesAssumption DEF Entry
<1>2. /\ u \in Tables /\ ReachesIn(u, h, d) /\ u[Probe(h, d)] = e
      /\ KeepsOthers(t, u, h)
  BY InsertKeeps
<1>3. SUFFICES ASSUME NEW b \in {c \in 0..(o + BlockSize) - BlockSize : c % BlockSize = 0}
               PROVE  FoundAt(u, f, b)
  BY Zenon DEF FoundIn
<1>4. b \in Nat /\ b <= o /\ b + BlockSize <= Len(f) /\ b % BlockSize = 0
  BY <1>1
<1>5. CASE HashAt(f, b) = h
  <2>1. SlotIn(u, h) = Probe(h, d)
    BY <1>2, SlotIs
  <2>2. QED
    BY <1>1, <1>2, <1>4, <1>5, <2>1 DEF FoundAt
<1>6. CASE HashAt(f, b) # h
  <2> DEFINE g == HashAt(f, b)
  <2>1. g \in Nat \ {h}
    BY <1>4, <1>6, BlockHashed
  <2>2. b < o
    BY <1>4, <1>6
  <2>3. b + BlockSize <= o
    BY <1>1, <1>4, <2>2, Multiples
  <2>4. b \in 0..o - BlockSize
    BY <1>1, <1>4, <2>3
  <2>5. FoundAt(t, f, b)
    BY <1>4, <2>4 DEF FoundIn
  <2>6. PICK c \in 0..Slots - 1 : ReachesIn(t, g, c)
    BY <2>5 DEF FoundAt
  <2>7. /\ SlotIn(t, g) = Probe(g, c)
        /\ t[SlotIn(t, g)] # Free /\ t[SlotIn(t, g)].off >= b /\ HashAt(f, t[SlotIn(t, g)].off) = g
    BY <2>5, <2>6, SlotIs DEF FoundAt
  <2> HIDE DEF g
  <2>8. ReachesIn(u, g, c) /\ u[Probe(g, c)] = t[Probe(g, c)]
    BY <1>2, <2>1, <2>6, <2>7 DEF KeepsOthers
  <2>9. SlotIn(u, g) = Probe(g, c)
    BY <2>8, SlotIs
  <2>10. /\ \E k \in 0..Slots - 1 : ReachesIn(u, g, k)
         /\ u[SlotIn(u, g)] # Free /\ u[SlotIn(u, g)].off >= b /\ HashAt(f, u[SlotIn(u, g)].off) = g
    BY <2>7, <2>8, <2>9
  <2>11. QED
    BY <2>10 DEF FoundAt, g
<1>7. QED
  BY <1>5, <1>6

LEMMA InsertFinds == EncInv /\ TableInv /\ InsertBlock => TableInv'
<1> SUFFICES ASSUME EncInv, TableInv, InsertBlock PROVE TableInv'
  OBVIOUS
<1> DEFINE h == HashAt(old, off)
           e == [hash |-> h, off |-> off]
<1>1. /\ BlockSize \in Nat \ {0} /\ old \in Seq(Byte) /\ Len(old) \in Nat /\ off \in Nat
      /\ table \in Tables /\ off % BlockSize = 0 /\ FoundIn(table, old, off)
  BY SizesAssumption, FilesAre DEF EncInv, BDeltaTypeOK, TableInv, Tables, Entry
<1>2. /\ off + BlockSize <= Len(old) /\ h \in Nat /\ Ends(h) /\ old' = old
      /\ table' = [table EXCEPT ![SlotOf(h)] = e] /\ off' = off + BlockSize
  BY <1>1, BlockHashed DEF InsertBlock
<1> HIDE DEF h
<1>3. PICK d \in 0..Slots - 1 : ReachesIn(table, h, d)
  BY <1>2 DEF Ends, Reaches, ReachesIn, StopsAt, StopsIn
<1>4. SlotOf(h) = Probe(h, d)
  <2>1. SlotOf(h) = SlotIn(table, h)
    BY DEF SlotOf, SlotIn, Reaches, ReachesIn, StopsAt, StopsIn
  <2>2. QED
    BY <1>3, <2>1, SlotIs
<1>5. e \in Entry /\ e.hash = h /\ e.off = off
  BY <1>1, <1>2 DEF Entry
<1> HIDE DEF e
<1>6. table' = Inserted(table, h, d, e)
  BY <1>2, <1>4 DEF Inserted
<1>7. FoundIn(table', old, off + BlockSize)
  <2>1. h = HashAt(old, off)
    BY DEF h
  <2>2. QED
    BY <1>1, <1>2, <1>3, <1>5, <1>6, <2>1, FoundAfter
<1>8. (off + BlockSize) % BlockSize = 0
  BY <1>1, NextMultiple
<1>9. QED
  BY <1>2, <1>7, <1>8 DEF TableInv

\* Every block of the old file entered so far is found under its hash, at
\* the last place of a block with that hash (paf_binary_delta.c:47-63),
\* however the hashes collide, as long as an insertion finds a slot.
THEOREM BlocksFoundAlways == BDeltaSpec => []BlocksFound
<1>1. BDeltaInit => TableInv
  <2> SUFFICES ASSUME BDeltaInit PROVE TableInv
    OBVIOUS
  <2>1. BlockSize \in Nat \ {0} /\ off = 0 /\ Len(old) \in Nat
    BY SizesAssumption, FilesAssumption DEF BDeltaInit
  <2>2. 0 % BlockSize = 0
    BY <2>1, SMT
  <2>3. 0..off - BlockSize = {}
    BY <2>1
  <2>4. QED
    BY <2>1, <2>2, <2>3 DEF TableInv, FoundIn
<1>2. Inv /\ TableInv /\ [BDeltaNext]_bvars => TableInv'
  <2> SUFFICES ASSUME Inv, TableInv, [BDeltaNext]_bvars PROVE TableInv'
    OBVIOUS
  <2>1. CASE InsertBlock
    BY <2>1, InsertFinds DEF Inv
  <2>2. CASE ~InsertBlock
    <3>1. UNCHANGED <<old, table, off>>
      BY <2>2 DEF BDeltaNext, bvars, EndTable, FindBlock, NextByte, EndScan, EmitLiteral, EmitCopy,
                  Assemble, OpenBase, ApplyCopy, ApplyLiteral, Write, EndApply
    <3>2. QED
      BY <3>1 DEF TableInv
  <2>3. QED
    BY <2>1, <2>2
<1>3. TableInv => BlocksFound
  BY BlocksAre DEF TableInv
<1>4. QED
  BY <1>1, <1>2, <1>3, EncoderInvariance, PTL DEF BDeltaSpec
=============================================================================
