---------------------------- MODULE AtomicUpdate ----------------------------
(***************************************************************************)
(* What an atomic patch promises about a directory tree.  The tree is a    *)
(* function from file paths to contents; at any moment one path may move   *)
(* from its old content to its new content, in one step, and nothing else  *)
(* may happen to it: no third content, no way back, no second path in the  *)
(* same step.  Crashes, retries, staging files and directories are         *)
(* invisible at this level.                                                *)
(***************************************************************************)
CONSTANTS
    Files,  \* the paths of the old and of the new snapshot
    Old,    \* Old[p]: content of p in the old snapshot (possibly absent)
    New     \* New[p]: content of p in the new snapshot (possibly absent)

VARIABLE tree

Init == tree = [p \in Files |-> Old[p]]

Install(p) ==
    /\ tree[p] = Old[p]
    /\ tree' = [tree EXCEPT ![p] = New[p]]

Next == \E p \in Files : Install(p)

Spec == Init /\ [][Next]_tree

=============================================================================
