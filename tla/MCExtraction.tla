---------------------------- MODULE MCExtraction ----------------------------
(***************************************************************************)
(* Two archives on up to three threads, extracted one after the other into *)
(* the same directory.  One has an entry of two bytes, an empty one and    *)
(* one of one byte: with two threads the ranges hold one and two entries.  *)
(* The other has an entry whose path is refused.                           *)
(***************************************************************************)
EXTENDS Extraction

AllPaths    == {"a", "b", "c", "../d"}
UnsafePaths == {"../d"}
AllSafe   == << [path |-> "a", data |-> <<1, 2>>], [path |-> "b", data |-> <<>>],
                [path |-> "c", data |-> <<3>>] >>
OneUnsafe == << [path |-> "../d", data |-> <<4>>], [path |-> "a", data |-> <<5>>] >>
TwoArchives == {AllSafe, OneUnsafe}
=============================================================================
