------------------------------- MODULE MCPage -------------------------------
(***************************************************************************)
(* Archives with a header of one byte and offsets as SPEC.md has them: one *)
(* with a wrong file between right ones, an empty and a deleted one; a     *)
(* shorter one of the same name; one that cannot be parsed, in whose bytes *)
(* the wrong file would be right; one that has a directory where another   *)
(* has a file, and the name that what is packed gets; one with a refused   *)
(* path; one written by libpaf, whose offsets do not count the header.     *)
(***************************************************************************)
EXTENDS Page, SequencesExt

Bytes(s) == s
E(path, offset, size, hash) ==
    [path |-> path, refused |-> FALSE, big |-> FALSE, deleted |-> FALSE,
     offset |-> offset, size |-> size, hash |-> hash]
A(name, valid, indexOnly, bytes, entries) ==
    [name |-> name, valid |-> valid, indexOnly |-> indexOnly, bytes |-> bytes, entries |-> entries]

Mixed  == A("a", TRUE, FALSE, <<0, 1, 2, 3>>,
            << E(<<"p">>, 1, 1, <<1>>), E(<<"e">>, 1, 0, <<>>),
               [E(<<"q">>, 2, 2, <<2, 4>>) EXCEPT !.big = TRUE],
               [E(<<"d">>, 0, 1, <<>>) EXCEPT !.deleted = TRUE] >>)
Short  == A("a", TRUE, FALSE, <<0, 5>>, << E(<<"p">>, 1, 1, <<6>>) >>)
Broken == A("b", FALSE, FALSE, <<0, 1, 2, 4>>, <<>>)
Whole  == A("b", TRUE, FALSE, <<0, 1, 7>>,
            << E(<<"p">>, 1, 1, <<1>>), E(<<"q", "r">>, 2, 1, <<7>>) >>)
Index  == A("i", TRUE, TRUE, <<0>>, << E(<<"p">>, 0, 1, <<1>>),
               [E(<<"o">>, 0, 1, <<1>>) EXCEPT !.refused = TRUE] >>)
Libpaf == A("l", TRUE, FALSE, <<0, 1, 2>>,
            << E(<<"p">>, 0, 1, <<1>>), E(<<"q">>, 1, 1, <<2>>) >>)

PackedName == "b"
ArchiveOf(files) ==
    A(PackedName, TRUE, FALSE, <<>>,
      SetToSeq({E(<<name>>, 0, 1, <<files[name]>>) : name \in DOMAIN files}))

\* Every button on its own, and an extraction beside a packing.
S(l, v, x, p) == [loads |-> l, verify |-> v, extract |-> x, pack |-> p]
Visits == {S(3, 2, 0, 0), S(2, 0, 2, 0), S(3, 0, 1, 0), S(0, 0, 0, 2), S(2, 0, 1, 1)}
OneVerification == {S(1, 1, 0, 0)}

Spelled == {Mixed, Short, Broken, Whole, Index}
OnlyLibpaf == {Libpaf}

Picks == {<<[name |-> "f", data |-> 1], [name |-> "g", data |-> 2]>>,
          <<[name |-> "g", data |-> 3], [name |-> "h", data |-> 4], [name |-> "g", data |-> 5]>>}
=============================================================================
