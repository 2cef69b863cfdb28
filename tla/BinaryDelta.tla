----------------------------- MODULE BinaryDelta ----------------------------
(***************************************************************************)
(* The PAFD delta of two files (libpaf/src/paf_binary_delta.c).            *)
(* paf_bdelta_create enters the aligned blocks of the old file in a hash   *)
(* table, then walks over the new file and emits COPY where a block of it  *)
(* is found and LITERAL for what lies between.  paf_bdelta_apply plays the *)
(* instructions on a file that need not be the old one any more.           *)
(*                                                                         *)
(* FNV-1a is an arbitrary function of blocks, so different blocks may have *)
(* one hash and different hashes one slot.  An instruction is a record;    *)
(* memory is enough once the encoder has started.                          *)
(***************************************************************************)
EXTENDS Integers, Sequences

CONSTANTS
    Byte,       \* bytes
    OldFiles,   \* the files the encoder may find as old,
    NewFiles,   \*   as new,
    Bases,      \*   and what the decoder may find in the place of old
    BlockSize,  \* BLOCK_SIZE
    MaxLit,     \* MAX_LIT_CHUNK
    Slots,      \* HT_CAP
    BlockHash,  \* fnv1a_64 of a block
    Free,       \* a slot that is not used
    NoBase      \* there is no file to apply the delta to

ASSUME SizesAssumption ==
    BlockSize \in Nat \ {0} /\ MaxLit \in Nat \ {0} /\ Slots \in Nat \ {0}
ASSUME FilesAssumption ==
    /\ OldFiles \subseteq Seq(Byte) /\ NewFiles \subseteq Seq(Byte)
    /\ Bases \subseteq Seq(Byte) \cup {NoBase} /\ NoBase \notin Seq(Byte)
    /\ BlockHash \in [[1..BlockSize -> Byte] -> Nat]
    /\ Free \notin [hash : Nat, off : Nat]

VARIABLES
    old, new,  \* old_buf, new_buf
    table,     \* the hash table
    off,       \* the loop variable over old
    pos, lit,  \* pos and lit_start
    instr,     \* the instructions emitted so far
    cnt,       \* their number, as the header will have it
    base,      \* the file the delta is applied to
    at,        \* the loop index of the decoder, 1-based
    out,       \* what it has written
    phase, result,
    ends       \* history: how far into new each instruction reaches

bvars == <<old, new, table, off, pos, lit, instr, cnt, base, at, out, phase, result, ends>>

Part(f, o, n) == SubSeq(f, o + 1, o + n)
BlockAt(f, o) == Part(f, o, BlockSize)
HashAt(f, o)  == BlockHash[BlockAt(f, o)]

(***************************************************************************)
(* ht_insert and ht_find stop at the same slot: the first from the hash's  *)
(* own on that is free or has this hash.  Without one they run for ever.   *)
(***************************************************************************)
ProbeStays(h, d) == h % Slots  \* mutant: idx is not moved
Probe(h, d)    == (h + d) % Slots
StopsAt(h, d)  == table[Probe(h, d)] # Free => table[Probe(h, d)].hash = h
Reaches(h, d)  == StopsAt(h, d) /\ \A c \in 0..d - 1 : ~StopsAt(h, c)
Ends(h)        == \E d \in 0..Slots - 1 : Reaches(h, d)
SlotOf(h)      == Probe(h, CHOOSE d \in 0..Slots - 1 : Reaches(h, d))

Copy(o)       == [op |-> "copy", off |-> o, size |-> BlockSize]
Literal(data) == [op |-> "literal", data |-> data]

ChunksPlusOne(n) == n \div MaxLit + 1  \* mutant: exact multiples are one off
Chunks(n) == (n + MaxLit - 1) \div MaxLit

(***************************************************************************)
(* paf_bdelta_create.                                                      *)
(***************************************************************************)
InsertBlock ==
    /\ phase = "table" /\ off + BlockSize <= Len(old)
    /\ LET h == HashAt(old, off)
       IN  Ends(h) /\ table' = [table EXCEPT ![SlotOf(h)] = [hash |-> h, off |-> off]]
    /\ off' = off + BlockSize
    /\ UNCHANGED <<old, new, pos, lit, instr, cnt, base, at, out, phase, result, ends>>

EndTable ==
    /\ phase = "table" /\ off + BlockSize > Len(old)
    /\ phase' = "scan"
    /\ UNCHANGED <<old, new, table, off, pos, lit, instr, cnt, base, at, out, result, ends>>

SameHash ==  \* mutant: memcmp is left out
    table[SlotOf(HashAt(new, pos))] # Free
SameBlock ==
    LET s == table[SlotOf(HashAt(new, pos))]
    IN  s # Free /\ BlockAt(old, s.off) = BlockAt(new, pos)

BlockLeft == Len(new) - pos >= BlockSize

\* A block is found: what lies before it is emitted first.  The code counts
\* the chunks of a literal by division, after it has emitted them.
FindBlock ==
    /\ phase = "scan" /\ pos < Len(new) /\ BlockLeft
    /\ Ends(HashAt(new, pos)) /\ SameBlock
    /\ cnt' = cnt + Chunks(pos - lit)
    /\ phase' = "copy"
    /\ UNCHANGED <<old, new, table, off, pos, lit, instr, base, at, out, result, ends>>

NextByte ==
    /\ phase = "scan" /\ pos < Len(new)
    /\ BlockLeft => Ends(HashAt(new, pos)) /\ ~SameBlock
    /\ pos' = pos + 1
    /\ UNCHANGED <<old, new, table, off, lit, instr, cnt, base, at, out, phase, result, ends>>

EndScan ==
    /\ phase = "scan" /\ pos >= Len(new)
    /\ cnt' = cnt + Chunks(pos - lit)
    /\ phase' = "tail"
    /\ UNCHANGED <<old, new, table, off, pos, lit, instr, base, at, out, result, ends>>

\* One iteration of emit_literal.
EmitLiteral ==
    /\ phase \in {"copy", "tail"} /\ lit < pos
    /\ LET n == IF pos - lit > MaxLit THEN MaxLit ELSE pos - lit
       IN  /\ instr' = Append(instr, Literal(Part(new, lit, n)))
           /\ lit' = lit + n
           /\ ends' = Append(ends, lit + n)
    /\ UNCHANGED <<old, new, table, off, pos, cnt, base, at, out, phase, result>>

EmitCopy ==
    /\ phase = "copy" /\ lit = pos
    /\ instr' = Append(instr, Copy(table[SlotOf(HashAt(new, pos))].off))
    /\ cnt' = cnt + 1
    /\ pos' = pos + BlockSize /\ lit' = pos + BlockSize
    /\ ends' = Append(ends, pos + BlockSize)
    /\ phase' = "scan"
    /\ UNCHANGED <<old, new, table, off, base, at, out, result>>

Assemble ==
    /\ phase = "tail" /\ lit = pos
    /\ phase' = "encoded"
    /\ UNCHANGED <<old, new, table, off, pos, lit, instr, cnt, base, at, out, result, ends>>

(***************************************************************************)
(* paf_bdelta_apply.  The header holds cnt and the size of the old file.   *)
(***************************************************************************)
ReturnWith(r) == phase' = "done" /\ result' = r

OpenBase ==
    /\ phase = "encoded"
    /\ \E f \in Bases :
          /\ base' = f
          /\ IF Len(old) > 0 /\ (f = NoBase \/ Len(f) < Len(old))
             THEN ReturnWith(-1) ELSE phase' = "apply" /\ UNCHANGED result
    /\ UNCHANGED <<old, new, table, off, pos, lit, instr, cnt, at, out, ends>>

\* old_buf: the first old_file_size bytes of the base.
OldBuf == IF Len(old) = 0 THEN <<>> ELSE SubSeq(base, 1, Len(old))

Instr == instr[at]

Write(data) ==
    /\ \/ out' = out \o data /\ at' = at + 1 /\ UNCHANGED <<phase, result>>
       \/ ReturnWith(-1) /\ UNCHANGED <<out, at>>  \* a short fwrite
    /\ UNCHANGED <<old, new, table, off, pos, lit, instr, cnt, base, ends>>

InRange == Len(old) > 0 /\ Instr.off + Instr.size <= Len(old)

ApplyCopy ==
    /\ phase = "apply" /\ at <= cnt /\ at <= Len(instr)
    /\ Instr.op = "copy" /\ InRange
    /\ Write(Part(OldBuf, Instr.off, Instr.size))

ApplyLiteral ==
    /\ phase = "apply" /\ at <= cnt /\ at <= Len(instr)
    /\ Instr.op = "literal"
    /\ Write(Instr.data)

\* A copy outside the old file, or fewer instructions than announced.
Refused == at > Len(instr) \/ (Instr.op = "copy" /\ ~InRange)

EndApply ==
    /\ phase = "apply"
    /\ \/ at > cnt /\ ReturnWith(0)
       \/ at <= cnt /\ Refused /\ ReturnWith(-1)
    /\ UNCHANGED <<old, new, table, off, pos, lit, instr, cnt, base, at, out, ends>>

BDeltaInit ==
    /\ old \in OldFiles /\ new \in NewFiles
    /\ table = [s \in 0..Slots - 1 |-> Free]
    /\ off = 0 /\ pos = 0 /\ lit = 0 /\ instr = <<>> /\ cnt = 0
    /\ base = NoBase /\ at = 1 /\ out = <<>> /\ phase = "table" /\ result = 1
    /\ ends = <<>>

BDeltaNext ==
    \/ InsertBlock \/ EndTable
    \/ FindBlock \/ NextByte \/ EndScan \/ EmitLiteral \/ EmitCopy \/ Assemble
    \/ OpenBase \/ ApplyCopy \/ ApplyLiteral \/ EndApply

BDeltaSpec == BDeltaInit /\ [][BDeltaNext]_bvars

\* Both functions are plain loops of one thread.
BDeltaFairSpec == BDeltaSpec /\ WF_bvars(BDeltaNext)
-----------------------------------------------------------------------------
Instruction == [op : {"copy"}, off : Nat, size : {BlockSize}]
                 \cup [op : {"literal"}, data : Seq(Byte)]

BDeltaTypeOK ==
    /\ old \in OldFiles /\ new \in NewFiles /\ base \in Bases \cup {NoBase}
    /\ table \in [0..Slots - 1 -> [hash : Nat, off : Nat] \cup {Free}]
    /\ off \in Nat /\ pos \in 0..Len(new) /\ lit \in 0..pos
    /\ instr \in Seq(Instruction) /\ cnt \in Nat
    /\ at \in Nat \ {0} /\ out \in Seq(Byte)
    /\ phase \in {"table", "scan", "copy", "tail", "encoded", "apply", "done"}
    /\ result \in {-1, 0, 1}
    /\ ends \in Seq(Nat)

From(j) == IF j = 1 THEN 0 ELSE ends[j - 1]

\* The data instruction j stands for, with the old file in its place.
Yields(j) == IF instr[j].op = "copy" THEN Part(old, instr[j].off, BlockSize)
             ELSE instr[j].data

\* The emitted instructions cut the new file up to lit_start into adjacent
\* pieces, each with the right bytes, none empty, no literal above its limit
\* and no copy outside the old file; and once a literal is counted, the
\* count of the header is the number of instructions, also where a literal
\* took several.
EncodedSoFar ==
    /\ Len(ends) = Len(instr)
    /\ From(Len(ends) + 1) = lit
    /\ \A j \in 1..Len(instr) :
          /\ From(j) < ends[j]
          /\ Yields(j) = SubSeq(new, From(j) + 1, ends[j])
          /\ instr[j].op = "literal" => Len(instr[j].data) <= MaxLit
          /\ instr[j].op = "copy" => instr[j].off + BlockSize <= Len(old)
    /\ phase \notin {"copy", "tail"} => cnt = Len(instr)
    /\ phase \in {"copy", "tail"} => cnt = Len(instr) + Chunks(pos - lit)

\* Applied to a file that begins with the old one, the delta yields the new
\* file, or an error; applied to any other file that is long enough, it
\* yields a file of the new length.
RoundTrip ==
    phase = "done" /\ result = 0 =>
        /\ OldBuf = old => out = new
        /\ Len(out) = Len(new)

\* Every block entered so far is found again under its hash, at the last
\* place of a block with that hash, although hashes share slots.
BlocksFound ==
    \A b \in {b \in 0..off - BlockSize : b % BlockSize = 0} :
        LET h == HashAt(old, b)
        IN  /\ Ends(h) /\ table[SlotOf(h)] # Free
            /\ table[SlotOf(h)].off >= b
            /\ HashAt(old, table[SlotOf(h)].off) = h

\* With more slots than blocks, no lookup runs round for ever: encoder and
\* decoder return.
Terminates == <>(phase = "done")

\* SPEC.md 7, step 1: "Verify source file size equals `old_file_size`."
SizeVerified == phase = "done" /\ result = 0 => base # NoBase /\ Len(base) = Len(old)
=============================================================================
