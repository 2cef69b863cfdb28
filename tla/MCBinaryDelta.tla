---------------------------- MODULE MCBinaryDelta ---------------------------
(***************************************************************************)
(* Two byte values, blocks of two bytes and literals of up to two: a new   *)
(* file of five bytes is one literal in three chunks, or up to two copies  *)
(* with literals, in one or two chunks, around them.  Two blocks have one  *)
(* hash, and all hashes begin at the last of four slots: lookups wrap.     *)
(***************************************************************************)
EXTENDS BinaryDelta

Bits == {0, 1}
FilesUpTo(n) == UNION {[1..m -> Bits] : m \in 0..n}

UpToFour == FilesUpTo(4)
UpToFive == FilesUpTo(5)
SomeBases == FilesUpTo(4) \cup {NoBase}

Fnv == [b \in [1..2 -> Bits] |-> IF b[1] = 0 THEN 3 ELSE 7 + 4 * b[2]]
=============================================================================
