----------------------------- MODULE MCGpuBatch -----------------------------
(***************************************************************************)
(* Archives of entries in two directories.  The first has entries of one   *)
(* and two units, one of them corrupted; the second has only empty files   *)
(* in a batch of two, a deleted entry's zero hash among them; the third    *)
(* has a refused path.  The memory sizes make batches of one, two and four *)
(* entries; the largest one is cut to 32 bits.                             *)
(***************************************************************************)
EXTENDS GpuBatch

E(skip, dir, size, data, hash) ==
    [skip |-> skip, dir |-> dir, size |-> size, data |-> data, hash |-> hash]

Mixed  == << E(FALSE, "p", 1, "a", "a"), E(FALSE, "q", 2, "b", "b"),
             E(FALSE, "q", 1, "c", "c"), E(FALSE, "p", 1, "bad", "d") >>
Hollow == << E(FALSE, "p", 0, "empty", "empty"), E(FALSE, "p", 0, "empty", "zero"),
             E(FALSE, "q", 2, "b", "b"), E(FALSE, "q", 0, "empty", "empty") >>
OneRefused == << E(TRUE, "q", 1, "c", "c"), E(FALSE, "p", 1, "a", "a") >>
ThreeArchives == {Mixed, Hollow, OneRefused}
CardSizes   == {1, 5, 9, 17}

=============================================================================
