------------------------------- MODULE MCMount -------------------------------
(***************************************************************************)
(* Two archives: one with directories spelled in two ways, a second file   *)
(* of one name, an empty file and a path that is refused; one in which a   *)
(* file's name is used as a directory and a directory's as a file, with a  *)
(* file that is too big and one that begins beyond the largest offset.     *)
(* Three enumerations share a pool of two places; two threads read; and    *)
(* one enumeration runs beside one read.                                   *)
(***************************************************************************)
EXTENDS Mount

CaseFold(name) == CASE name = "D" -> "d" [] name = "X" -> "x" [] OTHER -> name
Match(name, filter) == filter = "*" \/ CaseFold(name) = filter

F(path, data, at) == [path |-> path, data |-> data, refused |-> FALSE, at |-> at]
Spelled == << F(<<"d", "x">>, <<1>>, 1), F(<<"D", "y">>, <<2, 3>>, 2), F(<<"d", "X">>, <<4>>, 4),
              F(<<"e">>, <<>>, 2), [F(<<"..", "r">>, <<5>>, 0) EXCEPT !.refused = TRUE] >>
Clashing == << F(<<"e">>, <<1>>, 1), F(<<"e", "f">>, <<2>>, 2), F(<<"d", "x">>, <<3, 4, 5>>, 2),
               F(<<"d">>, <<5>>, 2), F(<<"g">>, <<6>>, 3) >>
TwoArchives == {Spelled, Clashing}

\* The first has the content of the archive's file, the second not.
CwdFiles == [p \in {<<"D", "y">>, <<"d", "x">>} |-> IF p = <<"D", "y">> THEN <<2, 3>> ELSE <<9>>]
AllFilters == {"*", "x"}
TwoSlots == {1, 2}
TwoRequests == {[from |-> 0, length |-> 1], [from |-> 1, length |-> 2]}
CONSTANTS e1, e2, e3, r1, r2
Loads == {{e1, e2, e3}, {r1, r2}, {e1, r1}}
=============================================================================
