----------------------------- MODULE MCGenerator ----------------------------
(***************************************************************************)
(* Three files with paths of different lengths, a buffer of three bytes    *)
(* and two slots: batches fill by bytes and by slots, and the largest file *)
(* does not fit the buffer at all.  One path is another's without the      *)
(* slash, so that extracting their directory gives one file.               *)
(***************************************************************************)
EXTENDS Generator

OneRoot  == <<"in">>
TwoRoots == <<"in", "in2">>

PathA  == <<Char("a")>>
PathDB == <<Char("d"), Slash, Char("b")>>
PathDC == <<Char("d"), Char("b")>>

ThreePaths == <<PathA, PathDB, PathDC>>
TwoPaths   == <<PathA, PathDB>>
=============================================================================
