--------------------------- MODULE MCPatchCreation --------------------------
(***************************************************************************)
(* Three paths whose DJB2 values, reduced to a map of 8 or 4 slots,        *)
(* collide and run over the end of the map: one is refused by the applier  *)
(* for its two dots, and lies below another.  Contents of different        *)
(* lengths, one a prefix of another, the longest above the limit of the    *)
(* delta.                                                                  *)
(***************************************************************************)
EXTENDS PatchCreation, TLC

PathA  == <<Char("a")>>
PathD  == <<Char("d")>>
PathDB == <<Char("d"), Slash, Char("b"), Dot, Dot>>

ThreePaths == <<PathA, PathDB, PathD>>
PathSet    == {PathA, PathDB, PathD}
TwoDots    == {PathDB}
Collisions == (PathA :> 23) @@ (PathDB :> 47) @@ (PathD :> 24)

Byte(n)  == [kind |-> "byte", byte |-> n]
Short    == <<Byte(1)>>
Long     == <<Byte(1), Byte(2)>>

TwoContents == {Short, Long}
Hashes      == {<<>>, Short, Long}
OnlyLong    == {Long}

OldDLocked == {<<"old", PathD>>}
NewALocked  == {<<"new", PathA>>}
=============================================================================
