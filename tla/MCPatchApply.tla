---------------------------- MODULE MCPatchApply ----------------------------
(***************************************************************************)
(* Instances of PatchApply for TLC.  "Flat": an update by delta, a         *)
(* deletion, an update of an empty file, an addition in a new directory, a *)
(* file whose path is refused and one the patch does not mention.          *)
(***************************************************************************)
EXTENDS PatchApply

FlatFiles == {"a", "b", "c", "d/e", "k", "v..2"}
FlatNames == FlatFiles \cup {"a.s", "b.s", "c.s", "d/e.s", "k.s", "v..2.s", "d"}
FlatAnc   == [n \in FlatNames |-> IF n \in {"d/e", "d/e.s"} THEN {"d"} ELSE {}]
FlatStage == [n \in FlatNames |->
                 CASE n = "a" -> "a.s" [] n = "b" -> "b.s" [] n = "c" -> "c.s"
                   [] n = "d/e" -> "d/e.s" [] n = "k" -> "k.s"
                   [] n = "v..2" -> "v..2.s" [] OTHER -> n]
FlatContent == {"old", "empty", "new"}
FlatOld == [p \in FlatFiles |->
               CASE p = "d/e" -> Absent [] p = "b" -> "empty" [] OTHER -> "old"]
FlatNew == [p \in FlatFiles |->
               CASE p = "c" -> Absent [] p = "k" -> "old" [] OTHER -> "new"]
FlatPatch == << [path |-> "a",   kind |-> "delta"],
                [path |-> "b",   kind |-> "delta"],
                [path |-> "c",   kind |-> "deleted"],
                [path |-> "v..2", kind |-> "delta"],
                [path |-> "d/e", kind |-> "full"] >>
FlatEmpty == {"b"}
FlatRefused == {"v..2"}

(***************************************************************************)
(* "Turn": between the snapshots the directory a becomes the file a, and   *)
(* the file b becomes the directory b.  The entries come in the order of   *)
(* paf_delta_calculate: the old paths, then the added ones.                *)
(***************************************************************************)
TurnFiles == {"a", "a/x", "b", "b/y"}
TurnNames == TurnFiles \cup {"a.s", "a/x.s", "b.s", "b/y.s"}
TurnAnc   == [n \in TurnNames |->
                 IF n \in {"a/x", "a/x.s"} THEN {"a"}
                 ELSE IF n \in {"b/y", "b/y.s"} THEN {"b"} ELSE {}]
TurnStage == [n \in TurnNames |->
                 CASE n = "a" -> "a.s" [] n = "a/x" -> "a/x.s"
                   [] n = "b" -> "b.s" [] n = "b/y" -> "b/y.s" [] OTHER -> n]
TurnOld == [p \in TurnFiles |-> IF p \in {"a/x", "b"} THEN "old" ELSE Absent]
TurnNew == [p \in TurnFiles |-> IF p \in {"a", "b/y"} THEN "new" ELSE Absent]
TurnPatch == << [path |-> "a/x", kind |-> "deleted"],
                [path |-> "b",   kind |-> "deleted"],
                [path |-> "a",   kind |-> "full"],
                [path |-> "b/y", kind |-> "full"] >>
NoFiles == {}

=============================================================================
