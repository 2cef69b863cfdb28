--------------------------- MODULE GpuBatch_proof ---------------------------
(***************************************************************************)
(* Proofs about GpuBatch, for every archive, every memory size and number  *)
(* of threads, and any number of faults.                                   *)
(***************************************************************************)
EXTENDS GpuBatch, Ranges, SequenceTheorems, FiniteSetTheorems

LEMMA SizeOfIsNat ==
    ASSUME NEW a, NEW first \in Nat \ {0}, NEW last \in Nat,
           \A k \in first .. last : a[k].size \in Nat
    PROVE  SizeOf(a, first, last) \in Nat
<1>1. SUFFICES ASSUME first <= last
               PROVE  SizeOf(a, first, last) \in Nat
  BY DEF SizeOf
<1> DEFINE sum == CHOOSE f : Sums(f, a, first, last)
<1>2. Sums(sum, a, first, last)
  <2>1. last - (first - 1) \in Nat /\ first - 1 + (last - (first - 1)) = last
    BY <1>1
  <2>2. \E f : Sums(f, a, first, first - 1 + (last - (first - 1)))
    BY <2>1, SumExists
  <2>3. \E f : Sums(f, a, first, last)
    BY <2>1, <2>2
  <2>4. QED
    BY <2>3, Zenon
<1>3. SizeOf(a, first, last) = sum[last]
  BY <1>1 DEF SizeOf, Sums
<1> HIDE DEF sum
<1>4. last \in first - 1 .. last
  BY <1>1
<1>5. QED
  BY <1>2, <1>3, <1>4, SumIsNat

WorkerLabels == {"idle", "run", "file", "ended"}
HashPcs  == {"hash_create", "hash_inline", "hash_join"}
WritePcs == {"write_create", "write_inline", "write_join"}
AnyDir == {Absent} \union {archive[k].dir : k \in 1..N}

\* The types the steps below need; a batch is part of the archive.
Types ==
    /\ archive \in Archives /\ vram \in Nat
    /\ main \in [pc : MainLabels, k : Nat]
    /\ processed \in Nat /\ n \in Nat /\ nt \in 0..MaxCpu
    /\ main.pc \notin {"probe", "batch", "returned"} =>
          processed + n <= N /\ DOMAIN hashes = 1..n
    /\ main.pc \in HashPcs \union WritePcs => (nt = 0 => n = 0)
    /\ hashOk \subseteq 1..N
    /\ DOMAIN flat = 1..N /\ DOMAIN out = 1..N
    /\ worker \in [Threads -> [pc : WorkerLabels, k : Nat, dir : AnyDir, errors : Nat]]

\* Threads are at work only in a pool, and inside their range; they write
\* only files whose hash was found right.
AtWork ==
    \A t \in Threads :
        /\ worker[t].pc \in {"run", "file"} =>
              t < nt /\ main.pc \in HashPcs \union WritePcs /\ First(t) <= worker[t].k
        /\ worker[t].pc = "file" => main.pc \in WritePcs /\ worker[t].k \in hashOk

Passed(t, k) == worker[t].pc = "ended" \/ (worker[t].pc = "run" /\ k < worker[t].k)

\* What a hashing thread has passed is hashed.
Hashed ==
    main.pc \in HashPcs =>
        \A t \in Threads, k \in Batch :
            t < nt /\ First(t) <= k /\ k <= Last(t) /\ Passed(t, k) => hashes[Place(k)] = flat[k]

\* When the hashes are compared they are those of what was read.
AllAreHashed ==
    main.pc = "verify" => \A k \in Batch : k \in blind \/ hashes[Place(k)] = flat[k]

\* What was found right is what the index records.
FoundRight ==
    /\ main.pc \in {"open", "read"} => hashOk = {}
    /\ \A k \in hashOk : k \in blind \/ flat[k] = archive[k].hash

Inv == Types /\ AtWork /\ Hashed /\ AllAreHashed /\ FoundRight /\ WrittenVerified

\* The types of the archive.
LEMMA ArchiveTypes ==
    ASSUME archive \in Archives
    PROVE  /\ N \in Nat
           /\ \A k \in 1..N : archive[k].size \in Nat
<1>1. archive \in Seq([skip : BOOLEAN, dir : {archive[k].dir : k \in 1..Len(archive)}, size : Nat,
                       data : Contents, hash : Hashes])
  BY ArchiveAssumption
<1>2. Len(archive) \in Nat
  BY <1>1, LenProperties
<1>3. \A k \in 1..Len(archive) :
          archive[k] \in [skip : BOOLEAN, dir : {archive[j].dir : j \in 1..Len(archive)}, size : Nat,
                          data : Contents, hash : Hashes]
  BY <1>1, ElementOfSeq
<1>4. QED
  BY <1>2, <1>3 DEF N

LEMMA SizesAreNat ==
    ASSUME Types, NEW first \in Nat \ {0}, NEW last \in Nat, last <= N
    PROVE  SizeOf(archive, first, last) \in Nat
<1>1. \A k \in first .. last : archive[k].size \in Nat
  BY ArchiveTypes DEF Types
<1>2. QED
  BY <1>1, SizeOfIsNat

\* However large the files and the card, a batch is a number of files.
LEMMA BatchIsNat ==
    ASSUME Types
    PROVE  FilesPerBatch(Average) \in Nat
<1>1. N \in Nat
  BY ArchiveTypes DEF Types
<1>2. Average \in Nat /\ Average >= 1
  <2>1. SizeOf(archive, 1, N) \in Nat
    BY <1>1, SizesAreNat
  <2>2. N > 0 => SizeOf(archive, 1, N) \div N \in Nat
    BY <1>1, <2>1, DivBounds
  <2>3. QED
    BY <2>2 DEF Average
<1> DEFINE safe == IF vram > Reserve THEN vram - Reserve ELSE 0
           each == PerFile + Average
<1>3. safe \in Nat /\ each \in Nat \ {0}
  BY <1>2, BoundAssumption DEF Types
<1> HIDE DEF safe, each
<1>4. safe \div each \in Nat
  BY <1>3, DivBounds
<1>5. (safe \div each) % Word32 \in Nat
  BY <1>4, BoundAssumption, SMT
<1>6. QED
  BY <1>1, <1>5 DEF FilesPerBatch, safe, each

\* The ranges of a pool are those of Ranges, from the start of the batch.
LEMMA RangeIsCut ==
    ASSUME Types, NEW t \in Nat, t < nt
    PROVE  /\ First(t) = processed + Cut(t, n, nt) + 1
           /\ Last(t) = processed + Cut(t + 1, n, nt)
           /\ Cut(t, n, nt) \in Nat /\ Cut(t + 1, n, nt) \in Nat /\ Cut(t + 1, n, nt) <= n
<1>1. nt \in Nat \ {0} /\ n \in Nat /\ t \in 0..nt - 1
  BY BoundAssumption DEF Types
<1>2. Cut(nt, n, nt) = n
  BY <1>1, CutsInOrder
<1>3. t = nt - 1 => t + 1 = nt
  BY <1>1
<1>4. Cut(t, n, nt) \in Nat /\ Cut(t + 1, n, nt) \in Nat /\ Cut(t + 1, n, nt) <= n
  BY <1>1, RangesInside
<1>5. QED
  BY <1>1, <1>2, <1>3, <1>4 DEF First, Last, Cut, Types

\* A thread that is at an entry of its range is at an entry of the batch.
LEMMA AtEntry ==
    ASSUME Types, AtWork, NEW t \in Threads, worker[t].pc \in {"run", "file"}
    PROVE  /\ t \in Nat /\ t < nt /\ worker[t].k \in Nat /\ First(t) \in Nat /\ Last(t) \in Nat
           /\ processed < First(t) /\ Last(t) <= processed + n
           /\ worker[t].k <= Last(t) => worker[t].k \in Batch /\ Place(worker[t].k) \in 1..n
           /\ processed + n <= N
           /\ DOMAIN hashes = 1..n
<1>1. t \in Nat /\ t < nt /\ worker[t].k \in Nat /\ First(t) <= worker[t].k
  BY BoundAssumption DEF Types, AtWork, Threads
<1>2. First(t) \in Nat /\ Last(t) \in Nat /\ processed < First(t) /\ Last(t) <= processed + n
  <2>1. /\ First(t) = processed + Cut(t, n, nt) + 1
        /\ Last(t) = processed + Cut(t + 1, n, nt)
        /\ Cut(t, n, nt) \in Nat /\ Cut(t + 1, n, nt) \in Nat /\ Cut(t + 1, n, nt) <= n
    BY <1>1, RangeIsCut
  <2>2. processed \in Nat /\ n \in Nat
    BY DEF Types
  <2>3. QED
    BY <2>1, <2>2
<1>3. worker[t].k <= Last(t) => worker[t].k \in Batch /\ Place(worker[t].k) \in 1..n
  BY <1>1, <1>2 DEF Batch, Place, Types
<1>4. QED
  BY <1>1, <1>2, <1>3 DEF Types, AtWork, HashPcs, WritePcs

-----------------------------------------------------------------------------

LEMMA InitInv == Init => Inv
<1>1. SUFFICES ASSUME Init PROVE Inv
  OBVIOUS
<1>2. Types
  BY <1>1, BoundAssumption DEF Init, Types, MainLabels, HashPcs, WritePcs, Idle, WorkerLabels, AnyDir
<1>3. AtWork /\ Hashed /\ AllAreHashed
  BY <1>1 DEF Init, AtWork, Hashed, AllAreHashed, Idle, HashPcs
<1>4. FoundRight /\ WrittenVerified
  BY <1>1 DEF Init, FoundRight, WrittenVerified
<1>5. QED
  BY <1>2, <1>3, <1>4 DEF Inv

\* Main steps that touch neither the threads' places nor what was found.
LEMMA QuietSteps ==
    ASSUME Inv, UNCHANGED <<archive, vram, processed, n, flat, hashOk, hashes, nt, worker, out>>,
           main' \in [pc : MainLabels, k : Nat],
           main.pc \in HashPcs <=> main'.pc \in HashPcs,
           main.pc \in WritePcs <=> main'.pc \in WritePcs,
           main'.pc \notin {"probe", "batch", "returned"} =>
                 main.pc \notin {"probe", "batch", "returned"},
           main'.pc \in {"open", "read"} => main.pc \in {"open", "read"},
           blind \subseteq blind', main'.pc # "verify"
    PROVE  Inv'
<1>1. Types'
  BY DEF Inv, Types, AnyDir, N
<1>2. AtWork'
  BY DEF Inv, Types, AtWork, First
<1>3. Hashed'
  BY DEF Inv, Types, Hashed, First, Last, Place, Batch, Passed
<1>4. AllAreHashed'
  BY DEF AllAreHashed
<1>5. FoundRight' /\ WrittenVerified'
  BY DEF Inv, FoundRight, WrittenVerified, N
<1>6. QED
  BY <1>1, <1>2, <1>3, <1>4, <1>5 DEF Inv

LEMMA QuietMain ==
    ASSUME Inv, Probe \/ OpenArchive \/ InlineEnds \/ AllCreated \/ Return
    PROVE  Inv'
<1>1. CASE Probe
  BY <1>1, QuietSteps DEF Probe, Goto, MainLabels, HashPcs, WritePcs, batch, given, pool, disk
<1>2. CASE OpenArchive
  <2>1. n + 1 \in Nat
    BY DEF Inv, Types
  <2>2. main'.pc = "read" /\ main' \in [pc : MainLabels, k : Nat]
    BY <1>2, <2>1 DEF OpenArchive, Goto, MainLabels
  <2>3. QED
    BY <1>2, <2>2, QuietSteps DEF OpenArchive, HashPcs, WritePcs, given, pool, disk
<1>3. CASE InlineEnds \/ AllCreated
  <2>1. main \in [pc : MainLabels, k : Nat]
    BY DEF Inv, Types
  <2>2. main' \in [pc : MainLabels, k : Nat]
    BY <1>3, <2>1 DEF InlineEnds, AllCreated, MainLabels, Hashing
  <2>3. /\ main.pc \in HashPcs <=> main'.pc \in HashPcs
        /\ main.pc \in WritePcs <=> main'.pc \in WritePcs
        /\ main.pc \in HashPcs \union WritePcs /\ main'.pc # "verify"
    BY <1>3, <2>1 DEF InlineEnds, AllCreated, Hashing, HashPcs, WritePcs
  <2>4. main.pc \notin {"probe", "batch", "returned"}
    BY <2>3 DEF HashPcs, WritePcs
  <2>5. QED
    BY <1>3, <2>2, <2>3, <2>4, QuietSteps DEF InlineEnds, AllCreated, batch, given, pool, disk
<1>4. CASE Return
  BY <1>4, QuietSteps DEF Return, Goto, MainLabels, HashPcs, WritePcs, batch, given, pool, disk
<1>5. QED
  BY <1>1, <1>2, <1>3, <1>4

\* A new batch: nothing of it is hashed, found right or at work.
LEMMA StartBatchInv ==
    ASSUME Inv, StartBatch
    PROVE  Inv'
<1>1. N \in Nat /\ N' = N
  BY ArchiveTypes DEF Inv, Types, StartBatch, given, N
<1>2. n' \in Nat /\ processed + n' <= N
  <2>1. FilesPerBatch(Average) \in Nat /\ processed \in Nat
    BY BatchIsNat DEF Inv, Types
  <2>2. QED
    BY <1>1, <2>1 DEF StartBatch
<1>3. DOMAIN hashes' = 1..n'
  BY DEF StartBatch
<1>4. main'.pc \in {"open", "returned"} /\ main' \in [pc : MainLabels, k : Nat]
  BY DEF StartBatch, Goto, MainLabels
<1>5. Types'
  BY <1>1, <1>2, <1>3, <1>4 DEF Inv, Types, StartBatch, given, pool, disk, AnyDir, HashPcs, WritePcs
<1>6. AtWork' /\ Hashed' /\ AllAreHashed'
  BY <1>4 DEF Inv, AtWork, Hashed, AllAreHashed, StartBatch, pool, HashPcs, WritePcs
<1>7. FoundRight' /\ WrittenVerified'
  BY <1>1 DEF Inv, FoundRight, WrittenVerified, StartBatch, given, disk
<1>8. QED
  BY <1>5, <1>6, <1>7 DEF Inv

\* Reading fills the batch while nothing is found right yet.
LEMMA ReadEntryInv ==
    ASSUME Inv, ReadEntry
    PROVE  Inv'
<1>1. main'.pc = "read" /\ main.pc = "read" /\ main' \in [pc : MainLabels, k : Nat]
  <2>1. main \in [pc : MainLabels, k : Nat]
    BY DEF Inv, Types
  <2>2. main.pc = "read" /\ main' = [main EXCEPT !.k = @ + 1]
    BY DEF ReadEntry
  <2>3. QED
    BY <2>1, <2>2
<1>2. DOMAIN flat' = 1..N
  BY DEF Inv, Types, ReadEntry
<1>3. Types'
  BY <1>1, <1>2 DEF Inv, Types, ReadEntry, given, pool, disk, AnyDir, N, HashPcs, WritePcs
<1>4. AtWork' /\ Hashed' /\ AllAreHashed'
  BY <1>1 DEF Inv, AtWork, Hashed, AllAreHashed, ReadEntry, pool, HashPcs, WritePcs
<1>5. FoundRight' /\ WrittenVerified'
  BY <1>1 DEF Inv, FoundRight, WrittenVerified, ReadEntry, given, disk, N
<1>6. QED
  BY <1>3, <1>4, <1>5 DEF Inv

\* Hashing: what a back end or a pool leaves behind for the comparison.
LEMMA EndReadInv ==
    ASSUME Inv, EndRead
    PROVE  Inv'
<1>1. main.pc = "read" /\ main'.pc \in {"cuda", "verify"} /\ main' \in [pc : MainLabels, k : Nat]
  BY DEF EndRead, Goto, MainLabels
<1>2. Types'
  BY <1>1 DEF Inv, Types, EndRead, given, batch, pool, disk, AnyDir, N, HashPcs, WritePcs
<1>3. AtWork' /\ Hashed'
  BY <1>1 DEF Inv, AtWork, Hashed, EndRead, pool, HashPcs, WritePcs
<1>4. AllAreHashed'
  BY <1>1 DEF AllAreHashed, EndRead, batch, Batch, Goto
<1>5. FoundRight' /\ WrittenVerified'
  BY <1>1 DEF Inv, FoundRight, WrittenVerified, EndRead, given, batch, disk, N
<1>6. QED
  BY <1>2, <1>3, <1>4, <1>5 DEF Inv

LEMMA HashByCudaInv ==
    ASSUME Inv, HashByCuda
    PROVE  Inv'
<1>1. /\ main.pc = "cuda" /\ main' \in [pc : MainLabels, k : Nat]
      /\ \/ main'.pc = "vulkan" /\ hashes' = hashes
         \/ main'.pc = "verify" /\ hashes' = AllHashed
  BY DEF HashByCuda, Goto, MainLabels
<1>2. UNCHANGED <<given, batch, pool, disk, blind>>
  BY DEF HashByCuda
<1>3. Types'
  <2>1. DOMAIN hashes' = 1..n
    BY <1>1 DEF Inv, Types, AllHashed
  <2>2. /\ AnyDir' = AnyDir /\ N' = N
        /\ UNCHANGED <<archive, windows, vram, processed, n, nt, hashOk, flat, out, worker>>
    BY <1>2 DEF given, batch, pool, disk, AnyDir, N
  <2>3. /\ processed + n <= N
        /\ main'.pc \notin HashPcs \union WritePcs
    BY <1>1 DEF Inv, Types, HashPcs, WritePcs
  <2>4. QED
    BY <1>1, <2>1, <2>2, <2>3 DEF Inv, Types
<1>4. AtWork' /\ Hashed'
  BY <1>1, <1>2 DEF Inv, AtWork, Hashed, pool, HashPcs, WritePcs
<1>5. AllAreHashed'
  <2>1. processed \in Nat /\ n \in Nat
    BY DEF Inv, Types
  <2>2. QED
    BY <1>1, <1>2, <2>1 DEF AllAreHashed, AllHashed, batch, Batch, Place
<1>6. FoundRight' /\ WrittenVerified'
  BY <1>1, <1>2 DEF Inv, FoundRight, WrittenVerified, given, batch, disk, N
<1>7. QED
  BY <1>3, <1>4, <1>5, <1>6 DEF Inv

LEMMA HashByVulkanInv ==
    ASSUME Inv, HashByVulkan
    PROVE  Inv'
<1>1. /\ main.pc = "vulkan" /\ main' \in [pc : MainLabels, k : Nat]
      /\ \/ main'.pc = "cpu" /\ hashes' = hashes /\ blind' = blind
         \/ main'.pc = "verify" /\ hashes' = AllHashed /\ blind' = blind
         \/ /\ main'.pc = "verify" /\ blind' = blind \union Batch
            /\ hashes' \in {hashes, [p \in 1..n |-> Junk]}
  BY DEF HashByVulkan, Goto, MainLabels
<1>2. UNCHANGED <<given, batch, pool, disk>>
  BY DEF HashByVulkan
<1>3. DOMAIN hashes' = 1..n
  BY <1>1 DEF Inv, Types, AllHashed
<1>4. Types'
  BY <1>1, <1>2, <1>3 DEF Inv, Types, given, batch, pool, disk, AnyDir, N, HashPcs, WritePcs
<1>5. AtWork' /\ Hashed'
  BY <1>1, <1>2 DEF Inv, AtWork, Hashed, pool, HashPcs, WritePcs
<1>6. AllAreHashed'
  <2>1. processed \in Nat /\ n \in Nat
    BY DEF Inv, Types
  <2>2. QED
    BY <1>1, <1>2, <2>1 DEF AllAreHashed, AllHashed, batch, Batch, Place
<1>7. FoundRight' /\ WrittenVerified'
  BY <1>1, <1>2 DEF Inv, FoundRight, WrittenVerified, given, batch, disk, N
<1>8. QED
  BY <1>4, <1>5, <1>6, <1>7 DEF Inv

\* The comparison finds right only what the index records, as far as it was
\* hashed at all.
LEMMA VerifyInv ==
    ASSUME Inv, Verify
    PROVE  Inv'
<1>1. main.pc = "verify" /\ main'.pc = "write" /\ main' \in [pc : MainLabels, k : Nat]
  BY DEF Verify, Goto, MainLabels
<1>2. UNCHANGED <<given, processed, n, flat, hashes, pool, disk, blind>> /\ hashOk' = Agrees
  BY DEF Verify
<1>3. Agrees \subseteq 1..N /\ Agrees \subseteq Batch
  <2>1. processed \in Nat /\ n \in Nat /\ processed + n <= N /\ N \in Nat
    BY <1>1, ArchiveTypes DEF Inv, Types
  <2>2. QED
    BY <2>1 DEF Agrees, Batch
<1>4. Types'
  BY <1>1, <1>2, <1>3 DEF Inv, Types, given, pool, disk, AnyDir, N, HashPcs, WritePcs
<1>5. AtWork' /\ Hashed' /\ AllAreHashed'
  BY <1>1, <1>2 DEF Inv, AtWork, Hashed, AllAreHashed, pool, HashPcs, WritePcs
<1>6. FoundRight' /\ WrittenVerified'
  <2>1. \A k \in Agrees : k \in blind \/ flat[k] = archive[k].hash
    BY <1>1, <1>3 DEF Inv, AllAreHashed, Agrees
  <2>2. QED
    BY <1>1, <1>2, <2>1 DEF Inv, FoundRight, WrittenVerified, given, disk, N
<1>7. QED
  BY <1>4, <1>5, <1>6 DEF Inv

\* A pool begins with all threads idle.
LEMMA StartPoolInv ==
    ASSUME Inv, StartPool
    PROVE  Inv'
<1>1. /\ main.pc \in {"cpu", "write"} /\ main'.pc \in HashPcs \union WritePcs
      /\ main'.pc \notin {"open", "read", "verify"} /\ main' \in [pc : MainLabels, k : Nat]
  BY DEF StartPool, ThreadsFor, PreCreated, MainLabels, HashPcs, WritePcs
<1>2. nt' \in 0..MaxCpu /\ (nt' = 0 => n = 0)
  BY BoundAssumption DEF StartPool, ThreadsFor, PreCreated, Inv, Types
<1>3. worker' = [t \in Threads |-> Idle]
  BY DEF StartPool, ThreadsFor, PreCreated
<1>4. UNCHANGED <<given, batch, hashes, out, blind>>
  BY DEF StartPool, ThreadsFor, PreCreated
<1>5. Types'
  BY <1>1, <1>2, <1>3, <1>4
  DEF Inv, Types, given, batch, AnyDir, N, Idle, WorkerLabels
<1>6. AtWork' /\ Hashed' /\ AllAreHashed'
  BY <1>1, <1>3 DEF AtWork, Hashed, AllAreHashed, Idle, Passed
<1>7. FoundRight' /\ WrittenVerified'
  BY <1>1, <1>4 DEF Inv, FoundRight, WrittenVerified, given, batch, N
<1>8. QED
  BY <1>5, <1>6, <1>7 DEF Inv

LEMMA CreateThreadInv ==
    ASSUME Inv, CreateThread
    PROVE  Inv'
<1>1. main \in [pc : MainLabels, k : Nat] /\ main.pc \in {"hash_create", "write_create"} /\ main.k < nt
  BY DEF CreateThread, Inv, Types
<1>2. /\ main' \in [pc : MainLabels, k : Nat]
      /\ main.pc \in HashPcs <=> main'.pc \in HashPcs
      /\ main.pc \in WritePcs <=> main'.pc \in WritePcs
      /\ main'.pc \notin {"probe", "batch", "returned", "open", "read", "verify"}
  BY <1>1 DEF CreateThread, MainLabels, Hashing, HashPcs, WritePcs
<1>3. UNCHANGED <<given, batch, hashes, nt, disk, blind>>
  BY DEF CreateThread
<1>4. main.k \in Threads /\ First(main.k) \in Nat
  <2>1. main.k \in Threads /\ main.k \in Nat /\ processed \in Nat
    BY <1>1, BoundAssumption DEF Inv, Types, Threads
  <2>2. QED
    BY <1>1, <2>1, RangeIsCut DEF Inv
<1> DEFINE w == [Idle EXCEPT !.pc = "run", !.k = First(main.k)]
<1>5. w \in [pc : WorkerLabels, k : Nat, dir : AnyDir, errors : Nat] /\ w.pc = "run" /\ w.k = First(main.k)
  <2>1. Idle \in [pc : WorkerLabels, k : Nat, dir : AnyDir, errors : Nat]
    BY DEF Idle, WorkerLabels, AnyDir
  <2>2. QED
    BY <1>4, <2>1 DEF WorkerLabels
<1>6. worker' = [worker EXCEPT ![main.k] = w]
  BY DEF CreateThread
<1> HIDE DEF w
<1>7. Types'
  BY <1>1, <1>2, <1>3, <1>4, <1>5, <1>6
  DEF Inv, Types, given, batch, disk, AnyDir, N, WorkerLabels, HashPcs, WritePcs
<1>8. AtWork'
  <2>1. main'.pc \in HashPcs \union WritePcs
    BY <1>1, <1>2 DEF HashPcs, WritePcs
  <2>2. \A t : First(t)' = First(t)
    BY <1>3 DEF First, batch
  <2>3. QED
    BY <1>1, <1>2, <1>3, <1>4, <1>5, <1>6, <2>1, <2>2 DEF Inv, Types, AtWork, batch
<1>9. Hashed'
  <2>1. SUFFICES ASSUME main.pc \in HashPcs, NEW t \in Threads, NEW k \in Batch,
                        t < nt, First(t) <= k, k <= Last(t), Passed(t, k)'
                 PROVE  hashes[Place(k)] = flat[k]
    BY <1>2, <1>3 DEF Hashed, batch, Batch, First, Last, Place
  <2>2. k \in Nat
    BY DEF Batch, Inv, Types
  <2>3. t # main.k
    BY <1>4, <1>5, <1>6, <2>1, <2>2 DEF Inv, Types, Passed
  <2>4. Passed(t, k)
    BY <1>6, <2>1, <2>3 DEF Inv, Types, Passed
  <2>5. QED
    BY <2>1, <2>4 DEF Inv, Hashed
<1>10. AllAreHashed' /\ FoundRight' /\ WrittenVerified'
  BY <1>2, <1>3 DEF Inv, AllAreHashed, FoundRight, WrittenVerified, given, batch, disk, N
<1>11. QED
  BY <1>7, <1>8, <1>9, <1>10 DEF Inv

\* When all threads have ended, the ranges have left out no entry.
LEMMA JoinHashingInv ==
    ASSUME Inv, JoinHashing
    PROVE  Inv'
<1>1. main.pc = "hash_join" /\ main'.pc = "verify" /\ main' \in [pc : MainLabels, k : Nat]
  BY DEF JoinHashing, Goto, MainLabels
<1>2. UNCHANGED <<given, batch, hashes, pool, disk, blind>>
  BY DEF JoinHashing
<1>3. Types'
  <2>1. main.pc \notin {"probe", "batch", "returned"} /\ main'.pc \notin HashPcs \union WritePcs
    BY <1>1 DEF HashPcs, WritePcs
  <2>2. QED
    BY <1>1, <1>2, <2>1 DEF Inv, Types, given, batch, pool, disk, AnyDir, N
<1>4. AtWork' /\ Hashed'
  <2>1. \A t \in Threads : worker[t].pc \notin {"run", "file"}
    <3>1. SUFFICES ASSUME NEW t \in Threads, worker[t].pc \in {"run", "file"} PROVE FALSE
      OBVIOUS
    <3>2. t \in 0..nt - 1
      BY <3>1, BoundAssumption DEF Inv, Types, AtWork, Threads
    <3>3. QED
      BY <3>1, <3>2 DEF JoinHashing, Joined
  <2>2. QED
    BY <1>1, <1>2, <2>1 DEF AtWork, Hashed, pool, HashPcs
<1>5. ASSUME NEW k \in Batch PROVE hashes[Place(k)] = flat[k]
  <2>1. processed \in Nat /\ n \in Nat /\ nt \in 0..MaxCpu /\ MaxCpu \in Nat /\ k \in Nat
        /\ processed < k /\ k <= processed + n
    BY BoundAssumption DEF Inv, Types, Batch
  <2>2. nt \in Nat \ {0} /\ k - processed - 1 \in 0..n - 1
    BY <1>1, <2>1 DEF Inv, Types, HashPcs
  <2>3. PICK t \in 0..nt - 1 : /\ Cut(t, n, nt) <= k - processed - 1
                               /\ k - processed - 1 < Cut(t + 1, n, nt)
    BY <2>1, <2>2, RangesCover
  <2>4. t \in Nat /\ t < nt /\ t \in Threads
    BY <2>1 DEF Threads
  <2>5. /\ First(t) = processed + Cut(t, n, nt) + 1 /\ Last(t) = processed + Cut(t + 1, n, nt)
        /\ Cut(t, n, nt) \in Nat /\ Cut(t + 1, n, nt) \in Nat
    BY <2>4, RangeIsCut DEF Inv
  <2>6. First(t) <= k /\ k <= Last(t)
    BY <2>1, <2>3, <2>5
  <2>7. Passed(t, k)
    BY DEF JoinHashing, Joined, Passed
  <2>8. QED
    BY <1>1, <2>4, <2>6, <2>7 DEF Inv, Hashed, HashPcs
<1>6. AllAreHashed'
  BY <1>2, <1>5 DEF AllAreHashed, batch, Batch, Place
<1>7. FoundRight' /\ WrittenVerified'
  BY <1>1, <1>2 DEF Inv, FoundRight, WrittenVerified, given, batch, disk, N
<1>8. QED
  BY <1>3, <1>4, <1>6, <1>7 DEF Inv

LEMMA JoinWritingInv ==
    ASSUME Inv, JoinWriting
    PROVE  Inv'
<1>1. main.pc = "write_join" /\ main'.pc = "batch" /\ main' \in [pc : MainLabels, k : Nat]
  BY DEF JoinWriting, Goto, MainLabels
<1>2. UNCHANGED <<given, n, flat, ioFailed, hashOk, hashes, pool, disk, blind>> /\ processed' \in Nat
  BY DEF JoinWriting, Inv, Types
<1>3. Types'
  BY <1>1, <1>2 DEF Inv, Types, given, pool, disk, AnyDir, N, HashPcs, WritePcs
<1>4. \A t \in Threads : worker[t].pc \notin {"run", "file"}
  <2>1. SUFFICES ASSUME NEW t \in Threads, worker[t].pc \in {"run", "file"} PROVE FALSE
    OBVIOUS
  <2>2. t \in 0..nt - 1
    BY <2>1, BoundAssumption DEF Inv, Types, AtWork, Threads
  <2>3. QED
    BY <2>1, <2>2 DEF JoinWriting, Joined
<1>5. AtWork' /\ Hashed' /\ AllAreHashed'
  BY <1>1, <1>2, <1>4 DEF AtWork, Hashed, AllAreHashed, pool, HashPcs
<1>6. FoundRight' /\ WrittenVerified'
  BY <1>1, <1>2 DEF Inv, FoundRight, WrittenVerified, given, disk, N
<1>7. QED
  BY <1>3, <1>5, <1>6 DEF Inv

\* What every step of a thread has in common: it was at work, it moves on in
\* its own place, and leaves the batch and what was found in it alone.
LEMMA ThreadMoves ==
    ASSUME Inv, NEW t \in Threads, WorkerStep(t)
    PROVE  /\ worker[t].pc \in {"run", "file"} /\ t < nt
           /\ UNCHANGED <<given, main, batch, nt, blind>>
           /\ \E w \in [pc : WorkerLabels, k : Nat, dir : AnyDir, errors : Nat] :
                 /\ worker' = [worker EXCEPT ![t] = w]
                 /\ First(t) <= w.k
                 /\ w.pc = "file" => main.pc \in WritePcs /\ w.k \in hashOk
<1> DEFINE v == worker[t]
           Moves(w) == /\ w \in [pc : WorkerLabels, k : Nat, dir : AnyDir, errors : Nat]
                       /\ worker' = [worker EXCEPT ![t] = w]
                       /\ First(t) <= w.k
                       /\ w.pc = "file" => main.pc \in WritePcs /\ w.k \in hashOk
<1>1. v \in [pc : WorkerLabels, k : Nat, dir : AnyDir, errors : Nat]
  BY DEF Inv, Types
<1>2. v.pc \in {"run", "file"}
  BY DEF WorkerStep, HashSlot, SkipEntry, OpenFile, WriteFile, EndRange, Running
<1>3. t < nt /\ First(t) <= v.k /\ First(t) \in Nat /\ main.pc \in HashPcs \union WritePcs
  BY <1>2, AtEntry DEF Inv, AtWork
<1>4. Hashing <=> main.pc \in HashPcs
  BY DEF Hashing, HashPcs
<1>5. UNCHANGED <<given, main, batch, nt, blind>>
  BY DEF WorkerStep, HashSlot, SkipEntry, OpenFile, WriteFile, EndRange
<1>6. ASSUME NEW failed \in Nat, Step(t, failed) PROVE \E w : Moves(w)
  <2> DEFINE next == v.k + 1
             sum  == v.errors + failed
             w    == [v EXCEPT !.pc = "run", !.k = next, !.errors = sum]
  <2>1. next \in Nat /\ sum \in Nat /\ First(t) <= next
    BY <1>1, <1>3
  <2>2. worker' = [worker EXCEPT ![t] = w]
    BY <1>6 DEF Step
  <2> HIDE DEF next, sum
  <2>3. w \in [pc : WorkerLabels, k : Nat, dir : AnyDir, errors : Nat] /\ w.pc = "run" /\ w.k = next
    BY <1>1, <2>1 DEF WorkerLabels
  <2> HIDE DEF w
  <2>4. Moves(w)
    BY <2>1, <2>2, <2>3
  <2>5. QED
    BY <2>4
<1>7. CASE HashSlot(t) \/ SkipEntry(t) \/ WriteFile(t)
  <2>1. \E failed \in Nat : Step(t, failed)
    BY <1>7 DEF HashSlot, SkipEntry, WriteFile, FailedCounted
  <2>2. QED
    BY <1>2, <1>3, <1>5, <1>6, <2>1
<1>8. CASE EndRange(t)
  <2> DEFINE w == [v EXCEPT !.pc = "ended"]
  <2>1. w \in [pc : WorkerLabels, k : Nat, dir : AnyDir, errors : Nat] /\ w.pc = "ended" /\ w.k = v.k
    BY <1>1 DEF WorkerLabels
  <2>2. worker' = [worker EXCEPT ![t] = w]
    BY <1>8 DEF EndRange
  <2> HIDE DEF w
  <2>3. Moves(w)
    BY <1>3, <2>1, <2>2
  <2>4. QED
    BY <1>2, <1>3, <1>5, <2>3
<1>9. CASE OpenFile(t)
  <2> DEFINE d == archive[v.k].dir
  <2>1. ~Hashing /\ v.k \in hashOk /\ main.pc \in WritePcs
    BY <1>3, <1>4, <1>9 DEF OpenFile, DirsFor, Writable
  <2>2. d \in AnyDir
    BY <2>1 DEF Inv, Types, AnyDir
  <2> DEFINE opened == [v EXCEPT !.pc = "file", !.dir = d]
             next   == v.k + 1
             sum    == v.errors + 1
             failed == [v EXCEPT !.k = next, !.dir = d, !.errors = sum]
  <2>3. opened \in [pc : WorkerLabels, k : Nat, dir : AnyDir, errors : Nat] /\ opened.k = v.k
    BY <1>1, <2>2 DEF WorkerLabels
  <2>4. v.pc = "run" /\ next \in Nat /\ sum \in Nat /\ First(t) <= next
    BY <1>1, <1>3, <1>9 DEF OpenFile, DirsFor, Running
  <2>5. worker' = [worker EXCEPT ![t] = opened] \/ worker' = [worker EXCEPT ![t] = failed]
    BY <1>9 DEF OpenFile, DirsFor
  <2> HIDE DEF next, sum
  <2>6. failed \in [pc : WorkerLabels, k : Nat, dir : AnyDir, errors : Nat]
        /\ failed.k = next /\ failed.pc = v.pc
    BY <1>1, <2>2, <2>4
  <2> HIDE DEF opened, failed
  <2>7. Moves(opened) \/ Moves(failed)
    BY <1>3, <2>1, <2>3, <2>4, <2>5, <2>6
  <2>8. QED
    BY <1>2, <1>3, <1>5, <2>7
<1>10. QED
  BY <1>7, <1>8, <1>9 DEF WorkerStep

\* The hashes and the files a thread's step touches.
LEMMA ThreadWrites ==
    ASSUME Inv, NEW t \in Threads, WorkerStep(t)
    PROVE  /\ DOMAIN hashes' = DOMAIN hashes /\ DOMAIN out' = DOMAIN out
           /\ main.pc \in HashPcs =>
                 \A k \in Batch : \/ hashes'[Place(k)] = hashes[Place(k)]
                                  \/ hashes'[Place(k)] = flat[k]
           /\ \A k \in 1..N : out'[k] = out[k] \/ out'[k] = Torn
                              \/ (k \in hashOk /\ out'[k] = flat[k])
<1>1. processed \in Nat /\ n \in Nat /\ DOMAIN out = 1..N
  BY DEF Inv, Types
<1>2. CASE HashSlot(t)
  <2>1. worker[t].pc \in {"run", "file"} /\ worker[t].k <= Last(t)
    BY <1>2 DEF HashSlot, Running
  <2>2. worker[t].k \in Batch /\ DOMAIN hashes = 1..n /\ worker[t].k \in Nat
    BY <2>1, AtEntry DEF Inv
  <2>3. hashes' = [hashes EXCEPT ![Place(worker[t].k)] = flat[worker[t].k]] /\ out' = out
    BY <1>2 DEF HashSlot, disk
  <2>4. ASSUME NEW k \in Batch
        PROVE  hashes'[Place(k)] = hashes[Place(k)] \/ hashes'[Place(k)] = flat[k]
    <3>1. Place(k) = Place(worker[t].k) => k = worker[t].k
      BY <1>1, <2>2 DEF Place, Batch
    <3>2. Place(k) \in 1..n
      BY <1>1 DEF Place, Batch
    <3>3. QED
      BY <2>2, <2>3, <3>1, <3>2
  <2>5. QED
    BY <2>3, <2>4
<1>3. CASE SkipEntry(t) \/ EndRange(t)
  BY <1>3 DEF SkipEntry, EndRange, disk
<1>4. CASE OpenFile(t)
  BY <1>1, <1>4 DEF OpenFile, DirsFor
<1>5. CASE WriteFile(t)
  <2>1. worker[t].pc = "file" /\ worker[t].k \in hashOk
    BY <1>5 DEF WriteFile, Inv, AtWork
  <2>2. out' = out \/ out' = [out EXCEPT ![worker[t].k] = flat[worker[t].k]]
    BY <1>5 DEF WriteFile
  <2>3. hashes' = hashes
    BY <1>5 DEF WriteFile
  <2>4. QED
    BY <1>1, <2>1, <2>2, <2>3
<1>6. QED
  BY <1>2, <1>3, <1>4, <1>5 DEF WorkerStep

LEMMA ThreadInv ==
    ASSUME Inv, NEW t \in Threads, WorkerStep(t)
    PROVE  Inv'
<1>1. /\ worker[t].pc \in {"run", "file"} /\ t < nt
      /\ UNCHANGED <<given, main, batch, nt, blind>>
  BY ThreadMoves
<1>2. PICK w \in [pc : WorkerLabels, k : Nat, dir : AnyDir, errors : Nat] :
          /\ worker' = [worker EXCEPT ![t] = w]
          /\ First(t) <= w.k
          /\ w.pc = "file" => main.pc \in WritePcs /\ w.k \in hashOk
  BY ThreadMoves
<1>3. main.pc \in HashPcs \union WritePcs
  BY <1>1 DEF Inv, AtWork
<1>4. /\ DOMAIN hashes' = DOMAIN hashes /\ DOMAIN out' = DOMAIN out
      /\ main.pc \in HashPcs =>
            \A k \in Batch : hashes'[Place(k)] = hashes[Place(k)] \/ hashes'[Place(k)] = flat[k]
      /\ \A k \in 1..N : out'[k] = out[k] \/ out'[k] = Torn
                         \/ (k \in hashOk /\ out'[k] = flat[k])
  BY ThreadWrites
<1>5. Types'
  BY <1>1, <1>2, <1>4 DEF Inv, Types, given, batch, AnyDir, N
<1>6. AtWork'
  <2>1. \A u : First(u)' = First(u)
    BY <1>1 DEF First, batch
  <2>2. QED
    BY <1>1, <1>2, <1>3, <2>1 DEF Inv, Types, AtWork, batch
<1>7. Hashed'
  <2>1. SUFFICES ASSUME main.pc \in HashPcs, NEW u \in Threads, NEW k \in Batch,
                        u < nt, First(u) <= k, k <= Last(u), Passed(u, k)'
                 PROVE  hashes'[Place(k)] = flat[k]
    BY <1>1 DEF Hashed, batch, Batch, First, Last, Place
  <2>2. CASE Passed(u, k)
    BY <1>4, <2>1, <2>2 DEF Inv, Hashed
  <2>3. CASE ~Passed(u, k)
    \* Only the entry the thread was at is new.
    <3>1. u = t
      BY <1>2, <2>1, <2>3 DEF Inv, Types, Passed
    <3>2. worker[t].pc = "run" /\ k \in Nat /\ worker[t].k \in Nat /\ ~(k < worker[t].k)
      <4>1. worker[t].pc # "file"
        BY <1>1, <2>1 DEF Inv, AtWork, HashPcs, WritePcs
      <4>2. QED
        BY <1>1, <2>3, <3>1, <4>1 DEF Inv, Types, Passed, Batch
    <3>3. ~EndRange(t)
      BY <2>1, <3>1, <3>2, AtEntry DEF EndRange, Inv
    <3>4. HashSlot(t)
      BY <2>1, <3>2, <3>3 DEF WorkerStep, SkipEntry, OpenFile, WriteFile, Hashing, HashPcs
    <3>5. worker'[t].pc = "run" /\ worker'[t].k = worker[t].k + 1
      BY <3>4 DEF HashSlot, Step, Inv, Types
    <3>6. k = worker[t].k
      BY <2>1, <3>1, <3>2, <3>5 DEF Passed
    <3>7. Place(k) \in DOMAIN hashes
      BY <1>1, <2>1, <3>1, <3>6, AtEntry DEF Inv
    <3>8. QED
      BY <3>4, <3>6, <3>7 DEF HashSlot
  <2>4. QED
    BY <2>2, <2>3
<1>8. AllAreHashed'
  BY <1>1, <1>3 DEF AllAreHashed, HashPcs, WritePcs
<1>9. FoundRight'
  BY <1>1 DEF Inv, FoundRight, given, batch
<1>10. WrittenVerified'
  BY <1>1, <1>4 DEF Inv, FoundRight, WrittenVerified, given, N
<1>11. QED
  BY <1>5, <1>6, <1>7, <1>8, <1>9, <1>10 DEF Inv

LEMMA StepInv == Inv /\ [Next]_vars => Inv'
<1>1. ASSUME Inv, UNCHANGED <<archive, vram, main, processed, n, flat, hashOk, hashes, nt, worker,
                              out, blind>>
      PROVE  Inv'
  BY <1>1 DEF Inv, Types, AtWork, Hashed, AllAreHashed, FoundRight, WrittenVerified, N, Batch,
     Place, First, Last, Passed, AnyDir
<1>2. ASSUME NEW d, RemoveDir(d), Inv PROVE Inv'
  BY <1>1, <1>2 DEF RemoveDir, given, batch, pool
<1>3. ASSUME UNCHANGED vars, Inv PROVE Inv'
  BY <1>1, <1>3 DEF vars
<1>4. QED
  BY <1>2, <1>3, QuietMain, StartBatchInv, ReadEntryInv, EndReadInv, HashByCudaInv, HashByVulkanInv,
     VerifyInv, StartPoolInv, CreateThreadInv, JoinHashingInv, JoinWritingInv, ThreadInv
  DEF Next, MainStep

LEMMA Invariance == Spec => []Inv
BY InitInv, StepInv, PTL DEF Spec

\* paf_extractor_gpu.c:531-545: for every archive, card and number of
\* threads, and whatever fails, a finished file has the content the index
\* records, unless nobody computed the hashes of its batch.
THEOREM WrittenVerifiedAlways == Spec => []WrittenVerified
<1>1. Inv => WrittenVerified
  BY DEF Inv
<1>2. QED
  BY <1>1, Invariance, PTL

\* paf_cuda_kernels.cu:114-143: the capacity that is compared with a batch is
\* never more than the device buffers hold, whatever allocation failed when.
THEOREM CudaFitsAlways == Spec => []CudaFits
<1> DEFINE Fits(c) == /\ DOMAIN c = {"on", "dataCap", "data", "metaCap", "meta"}
                      /\ c.dataCap \in Nat /\ c.data \in Nat /\ c.dataCap <= c.data
                      /\ c.metaCap \in Nat /\ c.meta \in Nat /\ c.metaCap <= c.meta
<1>1. Init => Fits(cuda)
  BY DEF Init
<1>2. ASSUME Inv, Fits(cuda), [Next]_vars PROVE Fits(cuda)'
  <2>1. CASE Probe
    BY <2>1 DEF Probe, ProbeCuda
  <2>2. CASE HashByCuda
    <3>1. BatchBytes \in Nat /\ n \in Nat
      <4>1. /\ processed + 1 \in Nat \ {0} /\ processed + n \in Nat /\ processed + n <= N
            /\ n \in Nat
        BY <1>2, <2>2 DEF Inv, Types, HashByCuda
      <4>2. QED
        BY <1>2, <4>1, SizesAreNat DEF Inv, BatchBytes
    <3>2. ASSUME NEW c, Fits(c)
          PROVE  /\ Fits(DropData(c)) /\ Fits(GrowData(c, BatchBytes))
                 /\ Fits(DropMeta(c)) /\ Fits(GrowMeta(c, n))
      <4>1. Larger(c.dataCap, BatchBytes) \in Nat /\ Larger(c.metaCap, n) \in Nat
        BY <3>1, <3>2 DEF Larger
      <4>2. Fits(DropData(c))
        BY <3>2 DEF DropData
      <4>3. Fits(DropMeta(c))
        BY <3>2 DEF DropMeta
      <4>4. Fits(GrowData(c, BatchBytes))
        BY <3>2, <4>1 DEF GrowData
      <4>5. Fits(GrowMeta(c, n))
        BY <3>2, <4>1 DEF GrowMeta
      <4>6. QED
        BY <4>2, <4>3, <4>4, <4>5
    <3>3. cuda' \in {cuda, DropData(cuda), GrowMeta(GrowData(cuda, BatchBytes), n),
                     DropMeta(GrowData(cuda, BatchBytes))}
      BY <2>2 DEF HashByCuda
    <3> HIDE DEF Fits
    <3>4. Fits(cuda')
      BY <1>2, <3>2, <3>3
    <3>5. QED
      BY <3>4 DEF Fits
  <2>3. CASE UNCHANGED cuda
    BY <1>2, <2>3
  <2>4. Probe \/ HashByCuda \/ UNCHANGED cuda
    BY <1>2 DEF Next, MainStep, WorkerStep, StartBatch, OpenArchive, ReadEntry, EndRead, HashByVulkan,
       Verify, StartPool, CreateThread, InlineEnds, AllCreated, JoinHashing, JoinWriting, Return,
       HashSlot, SkipEntry, OpenFile, WriteFile, EndRange, RemoveDir, engine, vars
  <2>5. QED
    BY <2>1, <2>2, <2>3, <2>4
<1>3. Fits(cuda) => CudaFits
  BY DEF CudaFits
<1>4. QED
  BY <1>1, <1>2, <1>3, Invariance, PTL DEF Spec

-----------------------------------------------------------------------------
(***************************************************************************)
(* What the error counters count.                                          *)
(***************************************************************************)
\* Nothing of the batch is counted yet, what was not read is, and what has
\* the wrong hash is, too.
Early  == {"probe", "batch", "open", "read", "returned"}
Middle == {"cuda", "vulkan", "cpu", "verify"} \union HashPcs
Late   == {"write"} \union WritePcs
Counted == IF main.pc \in Early THEN {}
           ELSE IF main.pc \in Middle THEN ioFailed ELSE Batch \ hashOk

NoBatch == main.pc \in {"probe", "batch", "returned"}
Clean   == faults = 0 /\ blind = {}

CountTypes ==
    /\ errors \in [io : Nat, hash : Nat] /\ faults \in Nat /\ processed <= N
    /\ ~NoBatch => ioFailed \subseteq Batch
    /\ main.pc \in Late => hashOk \subseteq Batch \ ioFailed

\* C are the entries of earlier batches that were counted.
Past(C) ==
    /\ C \subseteq 1..processed
    /\ \A k \in 1..processed :
          /\ k \in C => out[k] # archive[k].hash /\ k \notin lost
          /\ k \notin C => \/ archive[k].skip \/ k \in lost \union blind
                           \/ out[k] = archive[k].hash
          /\ Clean => /\ k \in C <=> archive[k].data # archive[k].hash
                      /\ out[k] = IF ~archive[k].skip /\ archive[k].data = archive[k].hash
                                  THEN archive[k].data ELSE Absent
Account == \E C \in SUBSET (1..N) :
               /\ Past(C)
               /\ errors.io + errors.hash = Cardinality(C) + Cardinality(Counted)

\* What has been read of the batch.
ReadSoFar == {k \in Batch : main.pc = "read" => k < processed + main.k \/ archive[k].size = 0}
ReadInv ==
    /\ main.pc = "open" => ioFailed = {} /\ \A k \in Batch : archive[k].size = 0 => flat[k] = Empty
    /\ main.pc = "read" => main.k >= 1 /\ \A k \in Batch : archive[k].size = 0 => flat[k] = Empty
    /\ ~NoBatch /\ main.pc # "open" =>
          \A k \in ReadSoFar : /\ k \in ioFailed \/ flat[k] \in Contents
                               /\ Clean => flat[k] = archive[k].data
    /\ ~NoBatch /\ Clean => ioFailed = {}
    /\ main.pc \in Late /\ Clean =>
          \A k \in Batch : k \in hashOk <=> archive[k].data = archive[k].hash

\* No file has been touched, and none has lost its end.
Fresh(k) == out[k] = Absent /\ k \notin lost
Untouched ==
    \A k \in 1..N : k > processed + (IF main.pc \in WritePcs THEN n ELSE 0) => Fresh(k)

\* The files thread t has failed to write.
Failed(k) == Writable(k) /\ k \notin lost /\ out[k] \in {Absent, Torn}
FailedBy(t) == {k \in First(t)..Last(t) : k < worker[t].k /\ Failed(k)}

Waiting(t) ==
    IF main.pc \in {"hash_inline", "write_inline"} THEN t > main.k ELSE t >= main.k

Thread(t) ==
    /\ worker[t].pc = "idle" => worker[t] = Idle
    /\ worker[t].pc = "ended" => worker[t].k > Last(t)
    /\ worker[t].pc = "file" => /\ worker[t].k <= Last(t) /\ Writable(worker[t].k)
                                /\ out[worker[t].k] = Torn /\ worker[t].k \notin lost
    /\ worker[t].errors = Cardinality(FailedBy(t))
    /\ \A k \in First(t)..Last(t) :
          /\ k < worker[t].k /\ ~Writable(k) => Fresh(k)
          /\ k < worker[t].k /\ Writable(k) => out[k] \in {Absent, Torn, flat[k]}
          /\ k < worker[t].k /\ Writable(k) /\ Clean => out[k] = flat[k]
          /\ k > worker[t].k \/ (k = worker[t].k /\ worker[t].pc # "file") => Fresh(k)
    /\ Clean => worker[t].dir \in dirs \union {Absent}

WriteInv ==
    /\ main.pc \in {"hash_create", "hash_inline", "write_create", "write_inline"} =>
          \A t \in Threads : Waiting(t) => worker[t] = Idle
    /\ main.pc \in WritePcs => \A t \in 0..nt - 1 : Thread(t)

CleanInv == Clean => lost = {}

Answered ==
    main.pc = "returned" =>
        /\ processed >= N => ret = -(errors.io + errors.hash)
        /\ faults = 0 => processed >= N

CountInv == CountTypes /\ Account /\ ReadInv /\ Untouched /\ WriteInv /\ CleanInv /\ Answered

LEMMA EntryTypes ==
    ASSUME archive \in Archives, NEW k \in 1..N
    PROVE  /\ archive[k].hash \in Hashes /\ archive[k].data \in Contents
           /\ archive[k].hash \notin {Absent, Torn} /\ archive[k].dir # Absent
           /\ archive[k].size = 0 => archive[k].data = Empty
<1>1. archive \in Seq([skip : BOOLEAN, dir : {archive[j].dir : j \in 1..Len(archive)}, size : Nat,
                       data : Contents, hash : Hashes])
  BY ArchiveAssumption
<1>2. archive[k] \in [skip : BOOLEAN, dir : {archive[j].dir : j \in 1..Len(archive)}, size : Nat,
                      data : Contents, hash : Hashes]
  BY <1>1, ElementOfSeq DEF N
<1>3. archive[k].hash \in Hashes /\ archive[k].data \in Contents
  BY <1>2
<1>4. archive[k].hash \notin {Absent, Torn}
  BY <1>3, ValueAssumption
<1>5. archive[k].dir # Absent /\ (archive[k].size = 0 => archive[k].data = Empty)
  BY ValueAssumption, ArchiveAssumption DEF N
<1>6. QED
  BY <1>3, <1>4, <1>5

LEMMA ContentTypes ==
    /\ Empty \in Contents /\ Foreign \in Contents
    /\ \A c \in Contents : c # Absent /\ c # Torn
BY ValueAssumption DEF Contents

\* Sets of entries of the archive can be counted.
LEMMA Countable ==
    ASSUME NEW S, NEW m \in Nat, S \subseteq 1..m
    PROVE  IsFiniteSet(S) /\ Cardinality(S) \in Nat
<1>1. IsFiniteSet(1..m)
  BY FS_Interval
<1>2. IsFiniteSet(S)
  BY <1>1, FS_Subset
<1>3. QED
  BY <1>2, FS_CardinalityType

LEMMA Disjoint ==
    ASSUME NEW S, IsFiniteSet(S), NEW T, IsFiniteSet(T), S \cap T = {}
    PROVE  /\ IsFiniteSet(S \cup T)
           /\ Cardinality(S \cup T) = Cardinality(S) + Cardinality(T)
<1>1. /\ IsFiniteSet(S \cup T)
      /\ Cardinality(S \cup T) = Cardinality(S) + Cardinality(T) - Cardinality(S \cap T)
  BY FS_Union
<1>2. Cardinality(S \cap T) = 0
  BY FS_EmptySet
<1>3. Cardinality(S) \in Nat /\ Cardinality(T) \in Nat
  BY FS_CardinalityType
<1>4. QED
  BY <1>1, <1>2, <1>3

\* What every step needs to know of the state it starts in.
LEMMA Basics ==
    ASSUME Inv, CountInv
    PROVE  /\ N \in Nat /\ processed \in 0..N /\ n \in Nat /\ faults \in Nat
           /\ errors.io \in Nat /\ errors.hash \in Nat
           /\ ~NoBatch => processed + n <= N /\ Batch \subseteq 1..N /\ ioFailed \subseteq Batch
           /\ main \in [pc : MainLabels, k : Nat]
           /\ archive \in Archives /\ hashOk \subseteq 1..N
<1>1. N \in Nat /\ archive \in Archives
  BY ArchiveTypes DEF Inv, Types
<1>2. processed \in Nat /\ n \in Nat /\ processed <= N
  BY DEF Inv, Types, CountInv, CountTypes
<1>3. ~NoBatch => processed + n <= N /\ Batch \subseteq 1..N
  BY <1>1, <1>2 DEF Inv, Types, NoBatch, Batch
<1>4. QED
  BY <1>1, <1>2, <1>3 DEF Inv, Types, CountInv, CountTypes

\* Faults and blind batches are not forgotten.
LEMMA CleanBefore ==
    ASSUME faults \in Nat, Next
    PROVE  /\ faults' \in Nat /\ faults <= faults' /\ blind \subseteq blind'
           /\ Clean' => Clean /\ faults' = faults
<1>1. faults' = faults \/ faults' = faults + 1
  BY DEF Next, MainStep, WorkerStep, Probe, ProbeVulkan, StartBatch, OpenArchive, ReadEntry,
     EndRead, HashByCuda, HashByVulkan, Verify, StartPool, CreateThread, InlineEnds, AllCreated,
     JoinHashing, JoinWriting, Return, HashSlot, SkipEntry, OpenFile, WriteFile, EndRange,
     RemoveDir, Fault, NoFault
<1>2. blind \subseteq blind'
  BY DEF Next, MainStep, WorkerStep, Probe, StartBatch, OpenArchive, ReadEntry,
     EndRead, HashByCuda, HashByVulkan, Verify, StartPool, CreateThread, InlineEnds, AllCreated,
     JoinHashing, JoinWriting, Return, HashSlot, SkipEntry, OpenFile, WriteFile, EndRange,
     RemoveDir
<1>3. QED
  BY <1>1, <1>2 DEF Clean

\* The entries of earlier batches stay as they are.
LEMMA PastStays ==
    ASSUME NEW C, Past(C), processed \in Nat, UNCHANGED <<archive, processed>>,
           \A k \in 1..processed : out'[k] = out[k] /\ (k \in lost' <=> k \in lost),
           blind \subseteq blind', Clean' => Clean
    PROVE  Past(C)'
BY DEF Past

LEMMA AccountStays ==
    ASSUME Account, processed \in Nat, UNCHANGED <<archive, processed, errors>>, Counted' = Counted,
           \A k \in 1..processed : out'[k] = out[k] /\ (k \in lost' <=> k \in lost),
           blind \subseteq blind', Clean' => Clean
    PROVE  Account'
<1>1. PICK C \in SUBSET (1..N) : /\ Past(C)
                                 /\ errors.io + errors.hash = Cardinality(C) + Cardinality(Counted)
  BY DEF Account
<1>2. Past(C)'
  BY <1>1, PastStays
<1>3. QED
  BY <1>1, <1>2 DEF Account, N

LEMMA ReadStays ==
    ASSUME ReadInv, UNCHANGED <<archive, processed, n, flat, ioFailed>>,
           main.pc \notin {"open", "read"}, main'.pc \notin {"open", "read"},
           NoBatch => NoBatch', blind \subseteq blind', Clean' => Clean,
           main'.pc \in Late => main.pc \in Late /\ hashOk' = hashOk
    PROVE  ReadInv'
BY DEF ReadInv, ReadSoFar, NoBatch, Batch

LEMMA InitCount == Init => CountInv
<1>1. SUFFICES ASSUME Init PROVE CountInv
  OBVIOUS
<1>2. /\ main = [pc |-> "probe", k |-> 1] /\ processed = 0 /\ ioFailed = {} /\ hashOk = {}
      /\ errors = [io |-> 0, hash |-> 0] /\ lost = {} /\ faults = 0
      /\ out = [k \in 1..N |-> Absent]
  BY <1>1 DEF Init
<1>3. N \in Nat
  BY <1>1, ArchiveTypes DEF Init
<1>4. CountTypes
  BY <1>2, <1>3 DEF CountTypes, NoBatch, Late, WritePcs
<1>5. Account
  <2>1. Past({})
    BY <1>2 DEF Past
  <2>2. Counted = {} /\ Cardinality({}) = 0
    BY <1>2, FS_EmptySet DEF Counted, Early
  <2>3. errors.io + errors.hash = Cardinality({}) + Cardinality(Counted)
    BY <1>2, <2>2
  <2>4. QED
    BY <2>1, <2>3 DEF Account
<1>6. ReadInv /\ WriteInv /\ CleanInv /\ Answered
  BY <1>2 DEF ReadInv, NoBatch, Late, WritePcs, WriteInv, CleanInv, Answered
<1>7. Untouched
  BY <1>2, <1>3 DEF Untouched, Fresh, WritePcs
<1>8. QED
  BY <1>4, <1>5, <1>6, <1>7 DEF CountInv

\* A step that neither counts nor reads nor writes.
LEMMA QuietCount ==
    ASSUME Inv, CountInv, Next,
           UNCHANGED <<archive, processed, n, flat, ioFailed, hashOk, errors, out, lost>>,
           \/ main' = main
           \/ main.pc \notin {"open", "read"} /\ main'.pc \notin {"open", "read"},
           main.pc \in Early <=> main'.pc \in Early,
           main.pc \in Middle <=> main'.pc \in Middle,
           main.pc \in Late <=> main'.pc \in Late,
           main.pc \in WritePcs => main'.pc \in WritePcs,
           NoBatch => NoBatch'
    PROVE  CountTypes' /\ Account' /\ ReadInv' /\ Untouched' /\ CleanInv'
<1>1. /\ N \in Nat /\ processed \in Nat /\ n \in Nat /\ faults \in Nat
  BY Basics
<1>2. faults' \in Nat /\ blind \subseteq blind' /\ (Clean' => Clean)
  BY <1>1, CleanBefore
<1>3. N' = N /\ Batch' = Batch
  BY DEF N, Batch
<1>4. CountTypes'
  BY <1>2, <1>3 DEF CountInv, CountTypes
<1>5. Counted' = Counted
  BY <1>3 DEF Counted
<1>6. Account'
  BY <1>1, <1>2, <1>5, AccountStays DEF CountInv
<1>7. ReadInv'
  <2>1. CASE main' = main
    BY <1>2, <1>3, <2>1 DEF CountInv, ReadInv, ReadSoFar, NoBatch
  <2>2. CASE main.pc \notin {"open", "read"} /\ main'.pc \notin {"open", "read"}
    BY <1>2, <2>2, ReadStays DEF CountInv
  <2>3. QED
    BY <2>1, <2>2
<1>8. Untouched'
  BY <1>1, <1>3 DEF CountInv, Untouched, Fresh
<1>9. CleanInv'
  BY <1>2 DEF CountInv, CleanInv
<1>10. QED
  BY <1>4, <1>6, <1>7, <1>8, <1>9

LEMMA ThreadStays ==
    ASSUME NEW t, Thread(t), UNCHANGED <<archive, processed, n, nt, flat, hashOk, out, lost>>,
           worker'[t] = worker[t], Clean' => Clean /\ dirs' = dirs
    PROVE  Thread(t)'
<1>1. First(t)' = First(t) /\ Last(t)' = Last(t)
  BY DEF First, Last
<1>2. \A k : (Writable(k)' <=> Writable(k)) /\ (Fresh(k)' <=> Fresh(k)) /\ (Failed(k)' <=> Failed(k))
  BY DEF Writable, Fresh, Failed
<1>3. FailedBy(t)' = FailedBy(t)
  BY <1>1, <1>2 DEF FailedBy
<1>4. Idle' = Idle
  BY DEF Idle
<1>5. QED
  BY <1>1, <1>2, <1>3, <1>4 DEF Thread

\* A step outside the pools.
LEMMA NoPool ==
    ASSUME main'.pc \notin HashPcs \union WritePcs
    PROVE  WriteInv'
BY DEF WriteInv, HashPcs, WritePcs

LEMMA QuietMainCount ==
    ASSUME Inv, CountInv, Probe \/ HashByCuda \/ HashByVulkan \/ JoinHashing \/ Return
    PROVE  CountInv'
<1>1. Next
  BY DEF Next, MainStep
<1>2. UNCHANGED <<archive, processed, n, flat, ioFailed, hashOk, errors, out, lost>>
  BY DEF Probe, HashByCuda, HashByVulkan, JoinHashing, Return, given, batch, disk, totals
<1>3. \/ Return /\ main.pc = "batch" /\ main'.pc = "returned"
      \/ Probe /\ main.pc = "probe" /\ main'.pc = "batch"
      \/ main.pc \in {"cuda", "vulkan", "hash_join"} /\ main'.pc \in {"vulkan", "cpu", "verify"}
  BY DEF Probe, HashByCuda, HashByVulkan, JoinHashing, Return, Goto
<1>4. CountTypes' /\ Account' /\ ReadInv' /\ Untouched' /\ CleanInv'
  <2>1. main.pc \notin {"open", "read"} /\ main'.pc \notin {"open", "read"}
    BY <1>3
  <2>2. /\ main.pc \in Early <=> main'.pc \in Early
        /\ main.pc \in Middle <=> main'.pc \in Middle
        /\ main.pc \in Late <=> main'.pc \in Late
    BY <1>3 DEF Early, Middle, Late, HashPcs, WritePcs
  <2>3. (main.pc \in WritePcs => main'.pc \in WritePcs) /\ (NoBatch => NoBatch')
    BY <1>3 DEF WritePcs, NoBatch
  <2>4. QED
    BY <1>1, <1>2, <2>1, <2>2, <2>3, QuietCount
<1>5. WriteInv'
  BY <1>3, NoPool DEF HashPcs, WritePcs
<1>6. Answered'
  <2>1. CASE Return
    <3>1. processed >= N /\ ret' = -(errors.io + errors.hash)
      BY <2>1 DEF Return
    <3>2. N' = N
      BY <1>2 DEF N
    <3>3. QED
      BY <1>2, <3>1, <3>2 DEF Answered
  <2>2. CASE main'.pc # "returned"
    BY <2>2 DEF Answered
  <2>3. QED
    BY <1>3, <2>1, <2>2
<1>7. QED
  BY <1>4, <1>5, <1>6 DEF CountInv

\* The range of a thread is part of the batch.
FirstOf(p, b, m, t) == p + (t * b) \div m + 1
LastOf(p, b, m, t)  == p + (IF t = m - 1 THEN b ELSE ((t + 1) * b) \div m)

LEMMA RangePlaces ==
    ASSUME NEW p \in Nat, NEW b \in Nat, NEW m \in Nat \ {0}, NEW t \in 0..m - 1
    PROVE  /\ FirstOf(p, b, m, t) \in Nat /\ LastOf(p, b, m, t) \in Nat
           /\ p < FirstOf(p, b, m, t) /\ LastOf(p, b, m, t) <= p + b
<1>1. Cut(t, b, m) \in Nat /\ Cut(t + 1, b, m) \in Nat /\ Cut(t + 1, b, m) <= b
  BY RangesInside
<1>2. QED
  BY <1>1 DEF FirstOf, LastOf, Cut

LEMMA RangeInBatch ==
    ASSUME Types, NEW t \in 0..nt - 1
    PROVE  /\ t \in Threads /\ First(t) \in Nat /\ Last(t) \in Nat /\ processed < First(t)
           /\ Last(t) <= processed + n
           /\ First(t)..Last(t) \subseteq Batch
<1>1. processed \in Nat /\ n \in Nat /\ nt \in Nat \ {0} /\ t \in Threads
  BY BoundAssumption DEF Types, Threads
<1>2. First(t) = FirstOf(processed, n, nt, t) /\ Last(t) = LastOf(processed, n, nt, t)
  BY DEF First, Last, FirstOf, LastOf
<1>3. First(t) \in Nat /\ Last(t) \in Nat /\ processed < First(t) /\ Last(t) <= processed + n
  BY <1>1, <1>2, RangePlaces
<1>4. First(t)..Last(t) \subseteq Batch
  BY <1>1, <1>3 DEF Batch
<1>5. QED
  BY <1>1, <1>3, <1>4

\* The same after a step.
LEMMA RangeInBatchNext ==
    ASSUME Types', NEW t \in 0..nt' - 1
    PROVE  /\ t \in Threads /\ First(t)' \in Nat /\ Last(t)' \in Nat /\ processed' < First(t)'
           /\ Last(t)' <= processed' + n'
           /\ worker'[t].k \in Nat
<1>1. processed' \in Nat /\ n' \in Nat
  BY DEF Types
<1>2. nt' \in 0..MaxCpu /\ MaxCpu \in Nat
  BY BoundAssumption DEF Types
<1>3. nt' \in Nat \ {0} /\ t \in 0..MaxCpu - 1 /\ t \in 0..nt' - 1
  <2> DEFINE m == nt'
  <2>1. m \in 0..MaxCpu /\ MaxCpu \in Nat /\ t \in 0..m - 1
    BY <1>2
  <2> HIDE DEF m
  <2>2. m \in Nat \ {0} /\ t \in 0..MaxCpu - 1
    BY <2>1
  <2>3. QED
    BY <2>2 DEF m
<1>4. worker'[t].k \in Nat
  BY <1>3 DEF Types, Threads
<1>5. First(t)' = FirstOf(processed', n', nt', t) /\ Last(t)' = LastOf(processed', n', nt', t)
  BY DEF First, Last, FirstOf, LastOf
<1>6. First(t)' \in Nat /\ Last(t)' \in Nat /\ processed' < First(t)' /\ Last(t)' <= processed' + n'
  <2> DEFINE p == processed'
             b == n'
             m == nt'
  <2>1. p \in Nat /\ b \in Nat /\ m \in Nat \ {0} /\ t \in 0..m - 1
    BY <1>1, <1>3
  <2> HIDE DEF p, b, m
  <2>2. /\ FirstOf(p, b, m, t) \in Nat /\ LastOf(p, b, m, t) \in Nat
        /\ p < FirstOf(p, b, m, t) /\ LastOf(p, b, m, t) <= p + b
    BY <2>1, RangePlaces
  <2>3. QED
    BY <1>5, <2>2 DEF p, b, m
<1>7. QED
  BY <1>3, <1>4, <1>6 DEF Threads

\* A thread that has not begun has failed nowhere and touched nothing.
LEMMA BeginsFresh ==
    ASSUME Types', NEW t \in 0..nt' - 1, worker'[t].pc \in {"idle", "run"},
           worker'[t].pc = "idle" => worker'[t] = Idle',
           worker'[t].k <= First(t)', worker'[t].errors = 0, worker'[t].dir = Absent,
           \A k \in First(t)'..Last(t)' : Fresh(k)'
    PROVE  Thread(t)'
<1>1. First(t)' \in Nat /\ Last(t)' \in Nat /\ worker'[t].k \in Nat
  BY RangeInBatchNext
<1>2. \A k \in First(t)'..Last(t)' : ~(k < worker'[t].k)
  BY <1>1
<1>3. FailedBy(t)' = {} /\ Cardinality({}) = 0
  BY <1>2, FS_EmptySet DEF FailedBy
<1>4. QED
  BY <1>2, <1>3 DEF Thread

LEMMA StartPoolCount ==
    ASSUME Inv, Inv', CountInv, StartPool
    PROVE  CountInv'
<1>1. Next
  BY DEF Next, MainStep
<1>2. UNCHANGED <<archive, processed, n, flat, ioFailed, hashOk, errors, out, lost>>
  BY DEF StartPool, ThreadsFor, PreCreated, given, batch, totals
<1>3. \/ main.pc = "cpu" /\ main'.pc = "hash_create"
      \/ main.pc = "write" /\ main'.pc = "write_create"
  BY DEF StartPool, ThreadsFor, PreCreated
<1>4. CountTypes' /\ Account' /\ ReadInv' /\ Untouched' /\ CleanInv'
  <2>1. main.pc \notin {"open", "read"} /\ main'.pc \notin {"open", "read"}
    BY <1>3
  <2>2. /\ main.pc \in Early <=> main'.pc \in Early
        /\ main.pc \in Middle <=> main'.pc \in Middle
        /\ main.pc \in Late <=> main'.pc \in Late
    BY <1>3 DEF Early, Middle, Late, HashPcs, WritePcs
  <2>3. (main.pc \in WritePcs => main'.pc \in WritePcs) /\ (NoBatch => NoBatch')
    BY <1>3 DEF WritePcs, NoBatch
  <2>4. QED
    BY <1>1, <1>2, <2>1, <2>2, <2>3, QuietCount
<1>5. worker' = [t \in Threads |-> Idle] /\ Idle' = Idle
  BY DEF StartPool, ThreadsFor, PreCreated, Idle
<1>6. ASSUME NEW t \in 0..nt' - 1, main.pc = "write" PROVE Thread(t)'
  <2>1. t \in Threads /\ Types'
    BY RangeInBatchNext DEF Inv
  <2>2. worker'[t] = Idle
    BY <1>5, <2>1
  <2>3. First(t)' \in Nat /\ Last(t)' \in Nat /\ processed' < First(t)' /\ Last(t)' <= processed' + n'
    BY <2>1, RangeInBatchNext
  <2>4. processed \in Nat /\ n \in Nat /\ processed + n <= N /\ N \in Nat
    BY <1>6, Basics DEF NoBatch
  <2>5. \A k \in First(t)'..Last(t)' : Fresh(k)'
    <3>1. SUFFICES ASSUME NEW k \in First(t)'..Last(t)' PROVE Fresh(k)'
      OBVIOUS
    <3>2. k \in 1..N /\ k > processed
      BY <1>2, <2>3, <2>4
    <3>3. Fresh(k)
      BY <1>6, <3>2, <2>4 DEF CountInv, Untouched, WritePcs
    <3>4. QED
      BY <1>2, <3>3 DEF Fresh
  <2>6. worker'[t].pc = "idle" /\ worker'[t] = Idle' /\ worker'[t].k <= First(t)'
        /\ worker'[t].errors = 0 /\ worker'[t].dir = Absent
    BY <1>5, <2>2, <2>3 DEF Idle
  <2>7. QED
    BY <2>1, <2>5, <2>6, BeginsFresh
<1>7. WriteInv'
  <2>1. \A t \in Threads : worker'[t] = Idle'
    BY <1>5
  <2>2. Threads' = Threads /\ main.pc \in {"cpu", "write"} /\ (main'.pc \in WritePcs => main.pc = "write")
    BY <1>3 DEF Threads, WritePcs
  <2>3. QED
    BY <1>6, <2>1, <2>2 DEF WriteInv
<1>8. Answered'
  BY <1>3 DEF Answered
<1>9. QED
  BY <1>4, <1>7, <1>8 DEF CountInv

\* Steps inside a pool keep what they do not touch.
LEMMA PoolStays ==
    ASSUME Inv, CountInv, Next,
           UNCHANGED <<archive, processed, n, flat, ioFailed, hashOk, errors, out, lost>>,
           \/ main.pc \in HashPcs /\ main'.pc \in HashPcs
           \/ main.pc \in WritePcs /\ main'.pc \in WritePcs
    PROVE  CountTypes' /\ Account' /\ ReadInv' /\ Untouched' /\ CleanInv' /\ Answered'
<1>1. main.pc \notin {"open", "read"} /\ main'.pc \notin {"open", "read", "returned"}
  BY DEF HashPcs, WritePcs
<1>2. /\ main.pc \in Early <=> main'.pc \in Early
      /\ main.pc \in Middle <=> main'.pc \in Middle
      /\ main.pc \in Late <=> main'.pc \in Late
  BY DEF Early, Middle, Late, HashPcs, WritePcs
<1>3. (main.pc \in WritePcs => main'.pc \in WritePcs) /\ (NoBatch => NoBatch')
  BY DEF HashPcs, WritePcs, NoBatch
<1>4. CountTypes' /\ Account' /\ ReadInv' /\ Untouched' /\ CleanInv'
  BY <1>1, <1>2, <1>3, QuietCount
<1>5. Answered'
  BY <1>1 DEF Answered
<1>6. QED
  BY <1>4, <1>5

LEMMA CreateThreadCount ==
    ASSUME Inv, Inv', CountInv, CreateThread
    PROVE  CountInv'
<1>1. Next
  BY DEF Next, MainStep
<1>2. UNCHANGED <<archive, processed, n, nt, flat, ioFailed, hashOk, errors, out, lost, dirs>>
  BY DEF CreateThread, given, batch, totals, disk
<1>3. main \in [pc : MainLabels, k : Nat] /\ main.k < nt /\ main.pc \in {"hash_create", "write_create"}
      /\ faults \in Nat
  BY Basics DEF CreateThread
<1>4. \/ main' = [main EXCEPT !.k = main.k + 1]
      \/ main' = [main EXCEPT !.pc = IF Hashing THEN "hash_inline" ELSE "write_inline"]
  BY DEF CreateThread
<1>5. /\ \/ main.pc \in HashPcs /\ main'.pc \in HashPcs
         \/ main.pc \in WritePcs /\ main'.pc \in WritePcs
      /\ \A t \in Threads : Waiting(t)' => Waiting(t) /\ t # main.k
  <2>1. CASE main' = [main EXCEPT !.k = main.k + 1]
    <3>1. main'.pc = main.pc /\ main'.k = main.k + 1
      BY <1>3, <2>1
    <3>2. main'.pc \notin {"hash_inline", "write_inline"} /\ main.pc \notin {"hash_inline", "write_inline"}
      BY <1>3, <3>1
    <3>3. \A t \in Threads : t \in Int
      BY DEF Threads
    <3>4. QED
      BY <1>3, <3>1, <3>2, <3>3 DEF HashPcs, WritePcs, Waiting
  <2>2. CASE main' = [main EXCEPT !.pc = IF Hashing THEN "hash_inline" ELSE "write_inline"]
    <3>1. main'.pc = (IF Hashing THEN "hash_inline" ELSE "write_inline") /\ main'.k = main.k
      BY <1>3, <2>2
    <3>2. \A t \in Threads : t \in Int
      BY DEF Threads
    <3>3. main.pc \notin {"hash_inline", "write_inline"}
      BY <1>3
    <3>4. QED
      BY <1>3, <3>1, <3>2, <3>3 DEF HashPcs, WritePcs, Hashing, Waiting
  <2>3. QED
    BY <1>4, <2>1, <2>2
<1>6. CountTypes' /\ Account' /\ ReadInv' /\ Untouched' /\ CleanInv' /\ Answered'
  BY <1>1, <1>2, <1>5, PoolStays
<1>7. /\ worker' = [worker EXCEPT ![main.k] = [Idle EXCEPT !.pc = "run", !.k = First(main.k)]]
      /\ Idle' = Idle /\ Threads' = Threads /\ DOMAIN worker = Threads
  BY DEF CreateThread, Idle, Threads, Inv, Types
<1>8. \A t \in Threads : t # main.k => worker'[t] = worker[t]
  BY <1>7
<1>9. \A t \in Threads : Waiting(t)' => worker'[t] = Idle'
  <2>1. \A t \in Threads : Waiting(t) => worker[t] = Idle
    BY <1>3 DEF CountInv, WriteInv
  <2>2. QED
    BY <1>5, <1>7, <1>8, <2>1
<1>10. ASSUME main.pc = "write_create", NEW t \in 0..nt - 1 PROVE Thread(t)'
  <2>1. t \in Threads /\ Types /\ Types'
    <3>1. Types /\ Types'
      BY DEF Inv
    <3>2. QED
      BY <3>1, RangeInBatch
  <2>2. Thread(t)
    BY <1>10 DEF CountInv, WriteInv, WritePcs
  <2>3. CASE t # main.k
    <3>1. Clean' => Clean /\ dirs' = dirs
      BY <1>1, <1>2, <1>3, CleanBefore
    <3>2. QED
      BY <1>2, <1>8, <2>1, <2>2, <2>3, <3>1, ThreadStays
  <2>4. CASE t = main.k
    <3>1. worker[t] = Idle
      BY <1>10, <2>1, <2>4, <1>3 DEF CountInv, WriteInv, Waiting, Threads
    <3>2. First(t)' = First(t) /\ Last(t)' = Last(t) /\ First(t) \in Nat /\ Last(t) \in Nat
          /\ processed < First(t)
      BY <1>2, <2>1, RangeInBatch DEF First, Last
    <3>3. worker'[t] = [Idle EXCEPT !.pc = "run", !.k = First(t)]
      BY <1>7, <2>1, <2>4
    <3>4. worker'[t].pc = "run" /\ worker'[t].k <= First(t)' /\ worker'[t].errors = 0
          /\ worker'[t].dir = Absent
      BY <3>2, <3>3 DEF Idle
    <3>5. \A k \in First(t)'..Last(t)' : Fresh(k)'
      <4>1. SUFFICES ASSUME NEW k \in First(t)..Last(t) PROVE Fresh(k)'
        BY <3>2
      <4>2. k > worker[t].k
        BY <3>1, <3>2 DEF Idle, Inv, Types
      <4>3. Fresh(k)
        BY <2>2, <4>2 DEF Thread
      <4>4. QED
        BY <1>2, <4>3 DEF Fresh
    <3>6. t \in 0..nt' - 1
      BY <1>2
    <3>7. QED
      BY <2>1, <3>4, <3>5, <3>6, BeginsFresh
  <2>5. QED
    BY <2>3, <2>4
<1>11. main'.pc \in WritePcs => main.pc = "write_create"
  BY <1>3, <1>5 DEF HashPcs, WritePcs
<1>12. WriteInv'
  BY <1>2, <1>7, <1>9, <1>10, <1>11 DEF WriteInv
<1>13. QED
  BY <1>6, <1>12 DEF CountInv

LEMMA InlineOrAll ==
    ASSUME Inv, CountInv, InlineEnds \/ AllCreated
    PROVE  CountInv'
<1>1. Next
  BY DEF Next, MainStep
<1>2. UNCHANGED <<archive, processed, n, nt, worker, flat, ioFailed, hashOk, errors, out, lost, dirs, faults>>
  BY DEF InlineEnds, AllCreated, given, batch, totals, disk, pool
<1>3. main \in [pc : MainLabels, k : Nat] /\ faults \in Nat
  BY Basics
<1>4. \/ main.pc \in HashPcs /\ main'.pc \in HashPcs
      \/ main.pc \in WritePcs /\ main'.pc \in WritePcs
  BY <1>3 DEF InlineEnds, AllCreated, Hashing, HashPcs, WritePcs
<1>5. CountTypes' /\ Account' /\ ReadInv' /\ Untouched' /\ CleanInv' /\ Answered'
  BY <1>1, <1>2, <1>4, PoolStays
<1>6. Idle' = Idle /\ Threads' = Threads /\ Clean' => Clean
  BY <1>1, <1>3, CleanBefore DEF Idle, Threads
<1>7. \A t \in 0..nt - 1 : Thread(t) => Thread(t)'
  BY <1>1, <1>2, <1>3, CleanBefore, ThreadStays
<1>8. main'.pc \in {"hash_create", "hash_inline", "write_create", "write_inline"} =>
          \A t \in Threads : Waiting(t)' => worker'[t] = Idle'
  <2>1. SUFFICES ASSUME InlineEnds, NEW t \in Threads, Waiting(t)' PROVE worker[t] = Idle
    BY <1>2, <1>3 DEF AllCreated, Hashing, Idle, Threads
  <2>2. main'.pc \notin {"hash_inline", "write_inline"} /\ main'.k = main.k + 1
        /\ main.pc \in {"hash_inline", "write_inline"}
    BY <2>1 DEF InlineEnds
  <2>3. t \in Int /\ main.k \in Int /\ t >= main.k + 1
    BY <1>3, <2>1, <2>2 DEF Waiting, Threads
  <2>4. Waiting(t)
    BY <2>2, <2>3 DEF Waiting
  <2>5. QED
    BY <2>2, <2>4 DEF CountInv, WriteInv
<1>9. WriteInv'
  <2>1. main'.pc \in WritePcs => main.pc \in WritePcs
    BY <1>4 DEF HashPcs, WritePcs
  <2>2. QED
    BY <1>2, <1>7, <1>8, <2>1 DEF WriteInv, CountInv
<1>10. QED
  BY <1>5, <1>9 DEF CountInv

LEMMA RemoveDirCount ==
    ASSUME Inv, CountInv, NEW d \in dirs, RemoveDir(d)
    PROVE  CountInv'
<1>1. Next
  BY DEF Next
<1>2. /\ UNCHANGED <<archive, processed, n, nt, main, worker, flat, ioFailed, hashOk, errors, out, lost,
                     ret>>
      /\ faults' = faults + 1
  BY DEF RemoveDir, given, batch, totals, pool, Fault
<1>3. faults \in Nat
  BY Basics
<1>4. CountTypes' /\ Account' /\ ReadInv' /\ Untouched' /\ CleanInv'
  BY <1>1, <1>2, QuietCount DEF NoBatch
<1>5. ~Clean' /\ faults' # 0
  BY <1>2, <1>3 DEF Clean
<1>6. \A t \in 0..nt - 1 : Thread(t) => Thread(t)'
  BY <1>2, <1>5, ThreadStays
<1>7. WriteInv'
  BY <1>2, <1>6 DEF CountInv, WriteInv, Waiting, Idle, Threads
<1>8. Answered'
  BY <1>2, <1>5 DEF CountInv, Answered, N
<1>9. QED
  BY <1>4, <1>7, <1>8 DEF CountInv

LEMMA StartBatchCount ==
    ASSUME Inv, Inv', CountInv, StartBatch
    PROVE  CountInv'
<1>1. Next
  BY DEF Next, MainStep
<1>2. /\ UNCHANGED <<archive, processed, errors, out, lost>>
      /\ ioFailed' = {} /\ hashOk' = {} /\ main.pc = "batch" /\ processed < N
      /\ flat' = [k \in 1..N |-> IF archive[k].size = 0 THEN Empty ELSE Junk]
      /\ \/ main'.pc = "open"
         \/ main'.pc = "returned" /\ faults' = faults + 1
  BY DEF StartBatch, given, disk, Goto, Fault
<1>3. N \in Nat /\ processed \in Nat /\ faults \in Nat /\ N' = N
  BY <1>2, Basics DEF N
<1>4. faults' \in Nat /\ blind \subseteq blind' /\ (Clean' => Clean)
  BY <1>1, <1>3, CleanBefore
<1>5. CountTypes'
  BY <1>2, <1>3, <1>4 DEF CountInv, CountTypes, Late, WritePcs
<1>6. Account'
  <2>1. Counted = {} /\ Counted' = {}
    BY <1>2 DEF Counted, Early
  <2>2. QED
    BY <1>2, <1>3, <1>4, <2>1, AccountStays DEF CountInv
<1>7. ReadInv'
  <2>1. CASE main'.pc = "open"
    <3>1. Batch' \subseteq 1..N
      <4>1. processed' + n' <= N' /\ n' \in Nat
        BY <2>1 DEF Inv, Types
      <4>2. processed' = processed /\ N' = N
        BY <1>2, <1>3
      <4> DEFINE b == n'
      <4>3. Batch' = processed + 1 .. processed + b
        BY <4>2 DEF Batch
      <4>4. processed + b <= N /\ b \in Nat
        BY <4>1, <4>2
      <4> HIDE DEF b
      <4>5. QED
        BY <1>3, <4>3, <4>4
    <3>2. QED
      BY <1>2, <2>1, <3>1 DEF ReadInv, NoBatch, Late, WritePcs
  <2>2. CASE main'.pc = "returned"
    BY <2>2 DEF ReadInv, NoBatch, Late, WritePcs
  <2>3. QED
    BY <1>2, <2>1, <2>2
<1>8. Untouched'
  <2>1. main'.pc \notin WritePcs /\ main.pc \notin WritePcs
    BY <1>2 DEF WritePcs
  <2>2. QED
    BY <1>2, <1>3, <2>1 DEF CountInv, Untouched, Fresh
<1>9. WriteInv'
  BY <1>2, NoPool DEF HashPcs, WritePcs
<1>10. CleanInv' /\ Answered'
  <2>1. faults' = faults + 1 => faults' # 0
    BY <1>3
  <2>2. processed' = processed /\ processed < N /\ lost' = lost
        /\ (main'.pc = "returned" => faults' = faults + 1)
    BY <1>2
  <2>3. ~(processed' >= N')
    BY <1>3, <2>2
  <2>4. Answered'
    BY <2>1, <2>2, <2>3 DEF Answered
  <2>5. QED
    BY <1>4, <2>2, <2>4 DEF CountInv, CleanInv
<1>11. QED
  BY <1>5, <1>6, <1>7, <1>8, <1>9, <1>10 DEF CountInv

\* What opening and reading have in common.
LEMMA ReadingCount ==
    ASSUME Inv, CountInv, Next, main.pc \in {"open", "read"}, main'.pc = "read",
           UNCHANGED <<archive, processed, n, hashOk, errors, out, lost>>,
           ioFailed' \subseteq Batch
    PROVE  CountTypes' /\ Account' /\ Untouched' /\ WriteInv' /\ CleanInv' /\ Answered'
<1>1. N \in Nat /\ processed \in Nat /\ faults \in Nat /\ N' = N /\ Batch' = Batch
  BY Basics DEF N, Batch
<1>2. faults' \in Nat /\ blind \subseteq blind' /\ (Clean' => Clean)
  BY <1>1, CleanBefore
<1>3. CountTypes'
  BY <1>1, <1>2 DEF CountInv, CountTypes, Late, WritePcs
<1>4. Account'
  <2>1. Counted = {} /\ Counted' = {}
    BY DEF Counted, Early
  <2>2. QED
    BY <1>1, <1>2, <2>1, AccountStays DEF CountInv
<1>5. main.pc \notin WritePcs /\ main'.pc \notin WritePcs \union HashPcs
  BY DEF HashPcs, WritePcs
<1>6. Untouched' /\ WriteInv'
  BY <1>1, <1>5, NoPool DEF CountInv, Untouched, Fresh
<1>7. CleanInv' /\ Answered'
  BY <1>2 DEF CountInv, CleanInv, Answered
<1>8. QED
  BY <1>3, <1>4, <1>6, <1>7

LEMMA OpenArchiveCount ==
    ASSUME Inv, CountInv, OpenArchive
    PROVE  CountInv'
<1>1. Next
  BY DEF Next, MainStep
<1>2. /\ UNCHANGED <<archive, processed, n, flat, hashOk, errors, out, lost>>
      /\ main.pc = "open" /\ main'.pc = "read"
      /\ \/ main'.k = 1 /\ ioFailed' = ioFailed
         \/ main'.k = n + 1 /\ ioFailed' = Batch /\ faults' = faults + 1
  BY DEF OpenArchive, given, disk, totals, Goto, Fault
<1>3. /\ N \in Nat /\ processed \in Nat /\ n \in Nat /\ faults \in Nat /\ archive \in Archives
      /\ Batch' = Batch /\ Batch \subseteq 1..N
  BY <1>2, Basics DEF Batch, NoBatch
<1>4. ioFailed = {} /\ \A k \in Batch : archive[k].size = 0 => flat[k] = Empty
  BY <1>2 DEF CountInv, ReadInv
<1>5. CountTypes' /\ Account' /\ Untouched' /\ WriteInv' /\ CleanInv' /\ Answered'
  <2>1. ioFailed' \subseteq Batch
    BY <1>2, <1>4
  <2>2. QED
    BY <1>1, <1>2, <2>1, ReadingCount
<1>6. ReadInv'
  <2>1. main'.k >= 1
    BY <1>2, <1>3
  <2>3. ASSUME NEW k \in ReadSoFar'
        PROVE  /\ k \in ioFailed' \/ flat[k] \in Contents
               /\ Clean' => flat[k] = archive[k].data
    <3>1. k \in Batch /\ (k < processed + main'.k \/ archive[k].size = 0)
      BY <1>2, <1>3, <2>3 DEF ReadSoFar
    <3>2. CASE main'.k = 1 /\ ioFailed' = ioFailed
      <4>1. archive[k].size = 0
        BY <1>3, <3>1, <3>2 DEF Batch
      <4>2. flat[k] = Empty /\ archive[k].data = Empty
        BY <1>3, <1>4, <3>1, <4>1, EntryTypes
      <4>3. QED
        BY <4>2, ContentTypes
    <3>3. CASE main'.k = n + 1 /\ ioFailed' = Batch /\ faults' = faults + 1
      <4>1. ~Clean'
        BY <1>3, <3>3 DEF Clean
      <4>2. QED
        BY <3>1, <3>3, <4>1
    <3>4. QED
      BY <1>2, <3>2, <3>3
  <2>4. Clean' => ioFailed' = {}
    <3>1. faults' = faults + 1 => ~Clean'
      BY <1>3 DEF Clean
    <3>2. QED
      BY <1>2, <1>4, <3>1
  <2>5. main'.pc \notin Late
    BY <1>2 DEF Late, WritePcs
  <2>6. QED
    BY <1>2, <1>3, <1>4, <2>1, <2>3, <2>4, <2>5 DEF ReadInv, NoBatch
<1>7. QED
  BY <1>5, <1>6 DEF CountInv

LEMMA ReadEntryCount ==
    ASSUME Inv, CountInv, ReadEntry
    PROVE  CountInv'
<1> DEFINE e == processed + main.k
<1>1. Next
  BY DEF Next, MainStep
<1>2. /\ UNCHANGED <<archive, processed, n, hashOk, errors, out, lost>>
      /\ main.pc = "read" /\ main.k <= n /\ main' = [main EXCEPT !.k = main.k + 1]
  BY DEF ReadEntry, given, disk, totals
<1>3. IF archive[e].size = 0 THEN flat' = flat /\ ioFailed' = ioFailed /\ faults' = faults
      ELSE \/ /\ flat' = [flat EXCEPT ![e] = archive[e].data] /\ ioFailed' = ioFailed
              /\ faults' = faults
           \/ flat' = [flat EXCEPT ![e] = Foreign] /\ ioFailed' = ioFailed /\ faults' = faults + 1
           \/ ioFailed' = ioFailed \union {e} /\ flat' = flat /\ faults' = faults + 1
  BY DEF ReadEntry, Fault, NoFault
<1>4. /\ N \in Nat /\ processed \in Nat /\ n \in Nat /\ faults \in Nat /\ archive \in Archives
      /\ main \in [pc : MainLabels, k : Nat] /\ ioFailed \subseteq Batch
      /\ Batch' = Batch /\ Batch \subseteq 1..N /\ DOMAIN flat = 1..N
  BY <1>2, Basics DEF Batch, NoBatch, Inv, Types
<1>5. main'.pc = "read" /\ main'.k = main.k + 1
  BY <1>2, <1>4
<1>6. /\ main.k >= 1 /\ \A k \in Batch : archive[k].size = 0 => flat[k] = Empty
      /\ \A k \in ReadSoFar : /\ k \in ioFailed \/ flat[k] \in Contents
                              /\ Clean => flat[k] = archive[k].data
      /\ Clean => ioFailed = {}
  BY <1>2 DEF CountInv, ReadInv, NoBatch
<1>7. e \in Batch /\ e \in 1..N
  BY <1>2, <1>4, <1>6 DEF Batch
<1>8. CountTypes' /\ Account' /\ Untouched' /\ WriteInv' /\ CleanInv' /\ Answered'
  <2>1. ioFailed' \subseteq Batch
    BY <1>3, <1>4, <1>7
  <2>2. QED
    BY <1>1, <1>2, <1>5, <2>1, ReadingCount
<1>9. (Clean' => Clean /\ faults' = faults) /\ (faults' = faults + 1 => faults' # faults)
  BY <1>1, <1>4, CleanBefore
<1> HIDE DEF e
<1>10. ASSUME NEW k \in ReadSoFar'
       PROVE  /\ k \in ioFailed' \/ flat'[k] \in Contents
              /\ Clean' => flat'[k] = archive[k].data
  <2>1. k \in Batch /\ (k < processed + (main.k + 1) \/ archive[k].size = 0)
    BY <1>2, <1>4, <1>5, <1>10 DEF ReadSoFar
  <2>2. CASE k # e
    <3>1. k \in ReadSoFar
      BY <1>2, <1>4, <2>1, <2>2 DEF ReadSoFar, Batch, e
    <3>2. flat'[k] = flat[k] /\ (k \in ioFailed => k \in ioFailed')
      BY <1>3, <1>4, <2>1, <2>2
    <3>3. QED
      BY <1>6, <1>9, <3>1, <3>2
  <2>3. CASE k = e
    <3>1. archive[e].data \in Contents /\ (archive[e].size = 0 => archive[e].data = Empty)
      BY <1>4, <1>7, EntryTypes
    <3>2. CASE archive[e].size = 0
      <4>1. flat'[k] = Empty
        BY <1>3, <1>6, <1>7, <2>3, <3>2
      <4>2. QED
        BY <2>3, <3>1, <3>2, <4>1
    <3>3. CASE archive[e].size # 0
      <4>1. \/ flat'[k] = archive[e].data
            \/ flat'[k] = Foreign /\ faults' = faults + 1
            \/ k \in ioFailed' /\ faults' = faults + 1
        BY <1>3, <1>4, <1>7, <2>3, <3>3
      <4>2. QED
        BY <1>9, <2>3, <3>1, <4>1, ContentTypes
    <3>4. QED
      BY <3>2, <3>3
  <2>4. QED
    BY <2>2, <2>3
<1>11. \A k \in Batch : archive[k].size = 0 => flat'[k] = Empty
  BY <1>3, <1>4, <1>6, <1>7
<1>12. Clean' => ioFailed' = {}
  BY <1>3, <1>6, <1>9
<1>13. ReadInv'
  <2>1. main'.k >= 1 /\ main'.pc \notin Late
    BY <1>4, <1>5 DEF Late, WritePcs
  <2>2. QED
    BY <1>2, <1>4, <1>5, <1>10, <1>11, <1>12, <2>1 DEF ReadInv
<1>14. QED
  BY <1>8, <1>13 DEF CountInv

\* More is counted: the entries of the batch that are counted after the step
\* are those before it and some others.
LEMMA AccountGrows ==
    ASSUME Account, processed \in Nat, UNCHANGED <<archive, processed, out, lost>>,
           blind \subseteq blind', Clean' => Clean, errors.io \in Nat, errors.hash \in Nat,
           NEW m \in Nat, NEW D, D \subseteq 1..m, Counted \subseteq 1..m,
           Counted \cap D = {}, Counted' = Counted \union D,
           \/ errors' = [errors EXCEPT !.io = @ + Cardinality(D)]
           \/ errors' = [errors EXCEPT !.hash = @ + Cardinality(D)],
           errors \in [io : Nat, hash : Nat]
    PROVE  Account' /\ errors' \in [io : Nat, hash : Nat]
<1>1. PICK C \in SUBSET (1..N) : /\ Past(C)
                                 /\ errors.io + errors.hash = Cardinality(C) + Cardinality(Counted)
  BY DEF Account
<1>2. Past(C)' /\ N' = N
  BY <1>1, PastStays DEF N
<1>3. IsFiniteSet(D) /\ Cardinality(D) \in Nat /\ IsFiniteSet(Counted) /\ Cardinality(Counted) \in Nat
  BY Countable
<1>4. Cardinality(Counted') = Cardinality(Counted) + Cardinality(D)
  BY <1>3, Disjoint
<1>5. Cardinality(C) \in Nat
  <2>1. C \subseteq 1..processed
    BY <1>1 DEF Past
  <2>2. QED
    BY <2>1, Countable
<1>6. /\ errors'.io + errors'.hash = errors.io + errors.hash + Cardinality(D)
      /\ errors' \in [io : Nat, hash : Nat]
  <2>1. CASE errors' = [errors EXCEPT !.io = @ + Cardinality(D)]
    BY <1>3, <2>1
  <2>2. CASE errors' = [errors EXCEPT !.hash = @ + Cardinality(D)]
    BY <1>3, <2>2
  <2>3. QED
    BY <2>1, <2>2
<1>7. errors'.io + errors'.hash = Cardinality(C) + Cardinality(Counted')
  BY <1>1, <1>3, <1>4, <1>5, <1>6
<1>8. QED
  BY <1>1, <1>2, <1>6, <1>7 DEF Account

LEMMA EndReadCount ==
    ASSUME Inv, CountInv, EndRead
    PROVE  CountInv'
<1>1. Next
  BY DEF Next, MainStep
<1>2. /\ UNCHANGED <<archive, processed, n, flat, ioFailed, hashOk, out, lost, faults>>
      /\ main.pc = "read" /\ main'.pc \in {"cuda", "verify"} /\ main.k > n
      /\ errors' = [errors EXCEPT !.io = @ + Cardinality(ioFailed)]
  BY DEF EndRead, given, disk, batch, Goto
<1>3. /\ N \in Nat /\ processed \in Nat /\ n \in Nat /\ faults \in Nat
      /\ errors.io \in Nat /\ errors.hash \in Nat /\ errors \in [io : Nat, hash : Nat]
      /\ main \in [pc : MainLabels, k : Nat] /\ ioFailed \subseteq Batch /\ N' = N
      /\ Batch' = Batch /\ Batch \subseteq 1..N
  BY <1>2, Basics DEF Batch, NoBatch, N, CountInv, CountTypes
<1>4. faults' \in Nat /\ blind \subseteq blind' /\ (Clean' => Clean)
  BY <1>1, <1>3, CleanBefore
<1>5. Counted = {} /\ Counted' = ioFailed
  BY <1>2 DEF Counted, Early, Middle
<1>6. Account' /\ errors' \in [io : Nat, hash : Nat]
  <2>1. ioFailed \subseteq 1..N
    BY <1>3
  <2>2. QED
    BY <1>2, <1>3, <1>4, <1>5, <2>1, AccountGrows DEF CountInv
<1>7. CountTypes'
  BY <1>2, <1>3, <1>4, <1>6 DEF CountInv, CountTypes, Late, WritePcs
<1>8. ReadInv'
  <2>1. Batch \subseteq ReadSoFar
    BY <1>2, <1>3 DEF ReadSoFar, Batch
  <2>2. ReadSoFar' \subseteq Batch
    BY <1>3 DEF ReadSoFar
  <2>3. /\ \A k \in ReadSoFar : /\ k \in ioFailed \/ flat[k] \in Contents
                                /\ Clean => flat[k] = archive[k].data
        /\ Clean => ioFailed = {}
    BY <1>2 DEF CountInv, ReadInv, NoBatch
  <2>4. main'.pc \notin Late /\ main'.pc \notin {"open", "read"}
    BY <1>2 DEF Late, WritePcs
  <2>5. QED
    BY <1>2, <1>4, <2>1, <2>2, <2>3, <2>4 DEF ReadInv
<1>9. main.pc \notin WritePcs /\ main'.pc \notin HashPcs \union WritePcs
  BY <1>2 DEF HashPcs, WritePcs
<1>10. Untouched' /\ WriteInv'
  BY <1>2, <1>3, <1>9, NoPool DEF CountInv, Untouched, Fresh
<1>11. CleanInv' /\ Answered'
  BY <1>2, <1>4 DEF CountInv, CleanInv, Answered
<1>12. QED
  BY <1>6, <1>7, <1>8, <1>10, <1>11 DEF CountInv

LEMMA VerifyCount ==
    ASSUME Inv, CountInv, Verify
    PROVE  CountInv'
<1> DEFINE D == (Batch \ ioFailed) \ Agrees
<1>1. Next
  BY DEF Next, MainStep
<1>2. /\ UNCHANGED <<archive, processed, n, flat, ioFailed, out, lost, blind, faults>>
      /\ main.pc = "verify" /\ main'.pc = "write" /\ hashOk' = Agrees
      /\ errors' = [errors EXCEPT !.hash = @ + Cardinality(D)]
  BY DEF Verify, given, disk, Goto
<1>3. /\ N \in Nat /\ processed \in Nat /\ n \in Nat /\ faults \in Nat
      /\ errors.io \in Nat /\ errors.hash \in Nat /\ errors \in [io : Nat, hash : Nat]
      /\ ioFailed \subseteq Batch /\ N' = N /\ Batch' = Batch /\ Batch \subseteq 1..N
  BY <1>2, Basics DEF Batch, NoBatch, N, CountInv, CountTypes
<1>4. faults' \in Nat /\ blind \subseteq blind' /\ (Clean' => Clean)
  BY <1>1, <1>3, CleanBefore
<1>5. Agrees \subseteq Batch \ ioFailed
  BY DEF Agrees
<1>6. Counted = ioFailed /\ Counted' = Batch \ Agrees
  BY <1>2, <1>3 DEF Counted, Early, Middle, HashPcs
<1>7. Account' /\ errors' \in [io : Nat, hash : Nat]
  <2>1. D \subseteq 1..N /\ Counted \subseteq 1..N /\ Counted \cap D = {} /\ Counted' = Counted \union D
    BY <1>3, <1>5, <1>6
  <2> HIDE DEF D
  <2>2. QED
    BY <1>2, <1>3, <1>4, <2>1, AccountGrows DEF CountInv
<1>8. CountTypes'
  BY <1>2, <1>3, <1>4, <1>5, <1>7 DEF CountInv, CountTypes
<1>9. ReadInv'
  <2>1. /\ \A k \in Batch : /\ k \in ioFailed \/ flat[k] \in Contents
                            /\ Clean => flat[k] = archive[k].data
        /\ Clean => ioFailed = {}
    BY <1>2 DEF CountInv, ReadInv, ReadSoFar, NoBatch
  <2>2. ASSUME Clean, NEW k \in Batch PROVE k \in Agrees <=> archive[k].data = archive[k].hash
    <3>1. hashes[Place(k)] = flat[k]
      BY <1>2, <2>2 DEF Inv, AllAreHashed, Clean
    <3>2. k \in Batch \ ioFailed /\ flat[k] = archive[k].data
      BY <2>1, <2>2
    <3>3. QED
      BY <3>1, <3>2 DEF Agrees
  <2>3. ReadSoFar' \subseteq Batch
    BY <1>3 DEF ReadSoFar
  <2>4. QED
    BY <1>2, <1>3, <1>4, <2>1, <2>2, <2>3 DEF ReadInv
<1>10. main.pc \notin WritePcs /\ main'.pc \notin HashPcs \union WritePcs
  BY <1>2 DEF HashPcs, WritePcs
<1>11. Untouched' /\ WriteInv'
  BY <1>2, <1>3, <1>10, NoPool DEF CountInv, Untouched, Fresh
<1>12. CleanInv' /\ Answered'
  BY <1>2, <1>4 DEF CountInv, CleanInv, Answered
<1>13. QED
  BY <1>7, <1>8, <1>9, <1>11, <1>12 DEF CountInv

\* What a thread changes outside its own record: its own entry, in the pool
\* that writes.
LEMMA WritesOwn ==
    ASSUME Inv, NEW t \in Threads, WorkerStep(t)
    PROVE  /\ UNCHANGED <<errors, ret>> /\ dirs \subseteq dirs'
           /\ \A k \in 1..N : k # worker[t].k => out'[k] = out[k] /\ (k \in lost' <=> k \in lost)
           /\ main.pc \notin WritePcs => out' = out /\ lost' = lost
           /\ lost' # lost => faults' = faults + 1
<1>1. CASE HashSlot(t) \/ SkipEntry(t) \/ EndRange(t)
  BY <1>1 DEF HashSlot, SkipEntry, EndRange, totals, disk
<1>2. CASE OpenFile(t)
  <2>1. main.pc \in WritePcs
    <3>1. worker[t].pc = "run" /\ ~Hashing
      BY <1>2 DEF OpenFile, DirsFor, Running
    <3>2. main.pc \in HashPcs \union WritePcs
      BY <3>1 DEF Inv, AtWork
    <3>3. QED
      BY <3>1, <3>2 DEF Hashing, HashPcs
  <2>3. lost' = lost /\ UNCHANGED <<errors, ret>>
        /\ (out' = out \/ out' = [out EXCEPT ![worker[t].k] = Torn])
    BY <1>2 DEF OpenFile, DirsFor, totals
  <2>4. dirs \subseteq dirs'
    BY <1>2 DEF OpenFile, DirsFor
  <2>5. \A k \in 1..N : k # worker[t].k => out'[k] = out[k]
    <3>1. DOMAIN out = 1..N
      BY DEF Inv, Types
    <3>2. QED
      BY <2>3, <3>1
  <2>6. QED
    BY <2>1, <2>3, <2>4, <2>5
<1>3. CASE WriteFile(t)
  <2>1. worker[t].pc = "file"
    BY <1>3 DEF WriteFile
  <2>2. main.pc \in WritePcs
    BY <2>1 DEF Inv, AtWork
  <2>3. UNCHANGED <<errors, ret, dirs>>
        /\ (out' = out \/ out' = [out EXCEPT ![worker[t].k] = flat[worker[t].k]])
        /\ (lost' = lost \/ (lost' = lost \union {worker[t].k} /\ faults' = faults + 1))
    BY <1>3 DEF WriteFile, totals, Fault
  <2>4. DOMAIN out = 1..N
    BY DEF Inv, Types
  <2>5. QED
    BY <2>2, <2>3, <2>4
<1>4. QED
  BY <1>1, <1>2, <1>3 DEF WorkerStep

\* A thread keeps its account while others write elsewhere.
LEMMA OthersStay ==
    ASSUME NEW t, Thread(t), UNCHANGED <<archive, processed, n, nt, flat, hashOk>>,
           worker'[t] = worker[t],
           worker[t].pc = "file" => worker[t].k \in First(t)..Last(t),
           \A k \in First(t)..Last(t) : out'[k] = out[k] /\ (k \in lost' <=> k \in lost),
           Clean' => Clean /\ dirs \subseteq dirs'
    PROVE  Thread(t)'
<1>1. First(t)' = First(t) /\ Last(t)' = Last(t) /\ Idle' = Idle
  BY DEF First, Last, Idle
<1>2. \A k : Writable(k)' <=> Writable(k)
  BY DEF Writable
<1>3. \A k \in First(t)..Last(t) : (Fresh(k)' <=> Fresh(k)) /\ (Failed(k)' <=> Failed(k))
  BY <1>2 DEF Fresh, Failed
<1>4. FailedBy(t)' = FailedBy(t)
  BY <1>1, <1>3 DEF FailedBy
<1>5. QED
  BY <1>1, <1>2, <1>3, <1>4 DEF Thread

\* A thread passes the entry it is at, counting it if it failed.
LEMMA EntryPassed ==
    ASSUME Types, NEW t \in 0..nt - 1, Thread(t),
           NEW e, e = worker[t].k, worker[t].pc \in {"run", "file"}, First(t) <= e, e <= Last(t),
           UNCHANGED <<archive, processed, n, nt, flat, hashOk>>,
           worker'[t].pc = "run", worker'[t].k = e + 1,
           NEW x \in {0, 1}, worker'[t].errors = worker[t].errors + x, x = 1 <=> Failed(e)',
           \A k \in 1..N : k # e => out'[k] = out[k] /\ (k \in lost' <=> k \in lost),
           IF Writable(e) THEN /\ out'[e] \in {Absent, Torn, flat[e]}
                               /\ Clean' => out'[e] = flat[e]
                          ELSE Fresh(e)',
           Clean' => Clean /\ worker'[t].dir \in dirs' \union {Absent},
           processed + n <= N, N \in Nat
    PROVE  Thread(t)'
<1>1. First(t)' = First(t) /\ Last(t)' = Last(t)
  BY DEF First, Last
<1>2. \A k : Writable(k)' <=> Writable(k)
  BY DEF Writable
<1>3. /\ First(t) \in Nat /\ Last(t) \in Nat /\ processed < First(t) /\ Last(t) <= processed + n
      /\ t \in Threads
  BY RangeInBatch
<1>4. e \in Nat /\ processed \in Nat /\ n \in Nat
  BY <1>3 DEF Types
<1>5. First(t)..Last(t) \subseteq 1..N /\ e \in First(t)..Last(t)
  BY <1>3, <1>4
<1>6. \A k \in First(t)..Last(t) : k # e =>
          (Fresh(k)' <=> Fresh(k)) /\ (Failed(k)' <=> Failed(k)) /\ out'[k] = out[k]
  BY <1>2, <1>5 DEF Fresh, Failed
<1>7. \A k \in First(t)..Last(t) : /\ k < e + 1 => k < e \/ k = e
                                   /\ k > e + 1 \/ k = e + 1 => k > e
                                   /\ k < e \/ k > e => k # e
  BY <1>3, <1>4
<1>8. worker'[t].errors = Cardinality(FailedBy(t)')
  <2>1. FailedBy(t)' = FailedBy(t) \union (IF x = 1 THEN {e} ELSE {})
    <3>1. ASSUME NEW k PROVE k \in FailedBy(t)' <=> k \in FailedBy(t) \/ (x = 1 /\ k = e)
      <4>1. k \in FailedBy(t)' <=> k \in First(t)..Last(t) /\ k < e + 1 /\ Failed(k)'
        BY <1>1 DEF FailedBy
      <4>2. k \in FailedBy(t) <=> k \in First(t)..Last(t) /\ k < e /\ Failed(k)
        BY DEF FailedBy
      <4>3. CASE k = e
        BY <1>4, <1>5, <4>1, <4>2, <4>3
      <4>4. CASE k # e
        <5>1. k \in First(t)..Last(t) => (k < e + 1 <=> k < e) /\ (Failed(k)' <=> Failed(k))
          BY <1>3, <1>4, <1>6, <4>4
        <5>2. QED
          BY <4>1, <4>2, <4>4, <5>1
      <4>5. QED
        BY <4>3, <4>4
    <3>2. QED
      BY <3>1
  <2>2. e \notin FailedBy(t)
    BY <1>4 DEF FailedBy
  <2>3. FailedBy(t) \subseteq 1..N
    BY <1>5 DEF FailedBy
  <2>4. IsFiniteSet(FailedBy(t)) /\ Cardinality(FailedBy(t)) \in Nat
    BY <2>3, Countable
  <2>5. worker[t].errors = Cardinality(FailedBy(t))
    BY DEF Thread
  <2>6. CASE x = 1
    <3>1. FailedBy(t)' = FailedBy(t) \union {e}
      BY <2>1, <2>6
    <3>2. Cardinality(FailedBy(t) \union {e}) = Cardinality(FailedBy(t)) + 1
      BY <2>2, <2>4, FS_AddElement
    <3>3. worker'[t].errors = worker[t].errors + 1
      BY <2>6
    <3>4. QED
      BY <2>5, <3>1, <3>2, <3>3
  <2>7. CASE x = 0
    BY <2>1, <2>4, <2>5, <2>7
  <2>8. QED
    BY <2>6, <2>7
<1>9. \A k \in First(t)'..Last(t)' :
          /\ k < worker'[t].k /\ ~Writable(k)' => Fresh(k)'
          /\ k < worker'[t].k /\ Writable(k)' => out'[k] \in {Absent, Torn, flat'[k]}
          /\ k < worker'[t].k /\ Writable(k)' /\ Clean' => out'[k] = flat'[k]
          /\ k > worker'[t].k \/ (k = worker'[t].k /\ worker'[t].pc # "file") => Fresh(k)'
  <2>1. SUFFICES ASSUME NEW k \in First(t)..Last(t)
                 PROVE  /\ k < e + 1 /\ ~Writable(k) => Fresh(k)'
                        /\ k < e + 1 /\ Writable(k) => out'[k] \in {Absent, Torn, flat[k]}
                        /\ k < e + 1 /\ Writable(k) /\ Clean' => out'[k] = flat[k]
                        /\ k > e + 1 \/ k = e + 1 => Fresh(k)'
    BY <1>1, <1>2
  <2>2. /\ k < e /\ ~Writable(k) => Fresh(k)
        /\ k < e /\ Writable(k) => out[k] \in {Absent, Torn, flat[k]}
        /\ k < e /\ Writable(k) /\ Clean => out[k] = flat[k]
        /\ k > e => Fresh(k)
    BY DEF Thread
  <2>3. CASE k = e
    <3>1. ~(k > e + 1 \/ k = e + 1)
      BY <1>4, <2>3
    <3>2. QED
      BY <2>3, <3>1
  <2>4. CASE k # e
    BY <1>6, <1>7, <2>1, <2>2, <2>4
  <2>5. QED
    BY <2>3, <2>4
<1>10. QED
  BY <1>8, <1>9 DEF Thread

\* In the pool that writes, the record of an entry says what was read of it.
LEMMA RightIsContent ==
    ASSUME Inv, CountInv, main.pc \in WritePcs, NEW k \in Batch, k \in hashOk
    PROVE  flat[k] \notin {Absent, Torn}
<1>1. main.pc \in Late /\ ~NoBatch /\ main.pc \notin {"open", "read"}
  BY DEF Late, NoBatch, WritePcs
<1>2. k \notin ioFailed
  BY <1>1 DEF CountInv, CountTypes
<1>3. k \in ReadSoFar
  BY <1>1 DEF ReadSoFar
<1>4. flat[k] \in Contents
  BY <1>1, <1>2, <1>3 DEF CountInv, ReadInv
<1>5. QED
  BY <1>4, ContentTypes

\* The directory of a file exists when its thread comes to open it, unless
\* something has failed.
LEMMA DirectoryMade ==
    ASSUME Inv, NEW t \in Threads, OpenFile(t), worker[t].k \in 1..N,
           worker[t].dir \in dirs \union {Absent}
    PROVE  archive[worker[t].k].dir \in dirs'
<1> DEFINE d == archive[worker[t].k].dir
<1>1. archive \in Archives
  BY DEF Inv, Types
<1>2. d # Absent
  BY <1>1, EntryTypes
<1>3. dirs' = IF (IF windows THEN d \in dirs ELSE d = worker[t].dir) THEN dirs ELSE dirs \union {d}
  BY DEF OpenFile, DirsFor
<1> HIDE DEF d
<1>4. d \in dirs'
  BY <1>2, <1>3
<1>5. QED
  BY <1>4 DEF d

LEMMA ThreadOwn ==
    ASSUME Inv, CountInv, NEW t \in Threads, WorkerStep(t), main.pc \in WritePcs,
           t < nt, Thread(t), faults \in Nat, Clean' => Clean /\ faults' = faults,
           NEW e, e = worker[t].k
    PROVE  Thread(t)'
<1> DEFINE v == worker[t]
<1>1. /\ t \in 0..nt - 1 /\ Types /\ v \in [pc : WorkerLabels, k : Nat, dir : AnyDir, errors : Nat]
      /\ v.pc \in {"run", "file"} /\ First(t) <= e /\ N \in Nat
      /\ UNCHANGED <<archive, processed, n, nt, flat, hashOk>>
  <2>1. v.pc \in {"run", "file"} /\ UNCHANGED <<archive, processed, n, nt, flat, hashOk>>
    BY ThreadMoves DEF given, batch
  <2>2. t \in 0..nt - 1
    BY BoundAssumption DEF Inv, Types, Threads
  <2>3. First(t) <= e
    BY <2>1 DEF Inv, AtWork
  <2>4. N \in Nat
    BY Basics
  <2>5. QED
    BY <2>1, <2>2, <2>3, <2>4 DEF Inv, Types
<1>2. /\ ~Hashing /\ processed + n <= N /\ Batch \subseteq 1..N
      /\ First(t)..Last(t) \subseteq Batch /\ First(t) \in Nat /\ Last(t) \in Nat
  <2>1. ~Hashing /\ ~NoBatch
    BY DEF Hashing, NoBatch, WritePcs
  <2>2. QED
    BY <1>1, <2>1, Basics, RangeInBatch
<1>3. \A k \in 1..N : k # e => out'[k] = out[k] /\ (k \in lost' <=> k \in lost)
  BY WritesOwn
<1>4. DOMAIN out = 1..N
  BY DEF Inv, Types
<1>5. faults' = faults + 1 => ~Clean'
  OBVIOUS
<1>6. Clean' => Clean /\ v.dir \in dirs' \union {Absent}
  <2>1. dirs \subseteq dirs'
    BY WritesOwn
  <2>2. QED
    BY <2>1 DEF Thread
<1>7. ASSUME e <= Last(t)
      PROVE  /\ e \in First(t)..Last(t) /\ e \in Batch /\ e \in 1..N
             /\ Writable(e)' <=> Writable(e)
  BY <1>1, <1>2, <1>7 DEF Writable
<1>8. CASE EndRange(t)
  <2>1. worker' = [worker EXCEPT ![t].pc = "ended"] /\ e > Last(t) /\ out' = out /\ lost' = lost
        /\ v.pc = "run"
    BY <1>8 DEF EndRange, disk
  <2>2. worker'[t] = [v EXCEPT !.pc = "ended"]
    BY <2>1 DEF Inv, Types
  <2>3. worker'[t].pc = "ended" /\ worker'[t].k = e /\ worker'[t].dir = v.dir
        /\ worker'[t].errors = v.errors
    BY <1>1, <2>2
  <2>4. First(t)' = First(t) /\ Last(t)' = Last(t)
    BY <1>1 DEF First, Last
  <2>5. \A k : (Writable(k)' <=> Writable(k)) /\ (Fresh(k)' <=> Fresh(k)) /\ (Failed(k)' <=> Failed(k))
    BY <1>1, <2>1 DEF Writable, Fresh, Failed
  <2>6. FailedBy(t)' = FailedBy(t)
    BY <2>3, <2>4, <2>5 DEF FailedBy
  <2>7. \A k \in First(t)..Last(t) : ~(k > e \/ k = e)
    BY <1>1, <1>2, <2>1
  <2>8. QED
    BY <1>1, <1>6, <2>1, <2>3, <2>4, <2>5, <2>6, <2>7 DEF Thread
<1>9. CASE SkipEntry(t)
  <2>1. /\ v.pc = "run" /\ e <= Last(t) /\ ~Writable(e) /\ out' = out /\ lost' = lost
        /\ worker' = [worker EXCEPT ![t].pc = "run", ![t].k = e + 1, ![t].errors = v.errors + 0]
    BY <1>9 DEF SkipEntry, Running, disk, Step
  <2>2. worker'[t].pc = "run" /\ worker'[t].k = e + 1 /\ worker'[t].errors = v.errors + 0
        /\ worker'[t].dir = v.dir
    BY <1>1, <2>1 DEF Inv, Types
  <2>3. Fresh(e) /\ ~Failed(e)'
    BY <1>7, <2>1 DEF Thread, Failed
  <2>4. Fresh(e)'
    BY <2>1, <2>3 DEF Fresh
  <2> DEFINE x == 0
  <2>5. x \in {0, 1} /\ worker'[t].errors = v.errors + x /\ (x = 1 <=> Failed(e)')
    BY <2>2, <2>3
  <2>6. IF Writable(e) THEN out'[e] \in {Absent, Torn, flat[e]} /\ (Clean' => out'[e] = flat[e])
                       ELSE Fresh(e)'
    BY <2>1, <2>4
  <2> HIDE DEF x
  <2>7. QED
    BY <1>1, <1>2, <1>3, <1>6, <2>1, <2>2, <2>5, <2>6, EntryPassed
<1>10. CASE OpenFile(t)
  <2> DEFINE d == archive[e].dir
  <2>1. v.pc = "run" /\ e <= Last(t) /\ Writable(e) /\ lost' = lost
    BY <1>10 DEF OpenFile, DirsFor, Running
  <2>2. e \in 1..N /\ Fresh(e)
    BY <1>7, <2>1 DEF Thread
  <2>3. CASE /\ d \in dirs' /\ out' = [out EXCEPT ![e] = Torn]
             /\ worker' = [worker EXCEPT ![t].pc = "file", ![t].dir = d]
    <3>1. worker'[t] = [v EXCEPT !.pc = "file", !.dir = d]
      BY <2>3 DEF Inv, Types
    <3>2. worker'[t].pc = "file" /\ worker'[t].k = e /\ worker'[t].dir = d
          /\ worker'[t].errors = v.errors
      BY <1>1, <3>1
    <3>3. First(t)' = First(t) /\ Last(t)' = Last(t)
      BY <1>1 DEF First, Last
    <3>4. \A k : Writable(k)' <=> Writable(k)
      BY <1>1 DEF Writable
    <3>5. \A k \in First(t)..Last(t) : k # e =>
              (Fresh(k)' <=> Fresh(k)) /\ (Failed(k)' <=> Failed(k)) /\ out'[k] = out[k]
      BY <1>2, <1>3, <3>4 DEF Fresh, Failed
    <3>6. \A k \in First(t)..Last(t) : k < e \/ k > e => k # e
      BY <1>1, <1>2
    <3>7. FailedBy(t)' = FailedBy(t)
      BY <3>2, <3>3, <3>5, <3>6 DEF FailedBy
    <3>8. out'[e] = Torn /\ e \notin lost'
      BY <1>4, <2>1, <2>2, <2>3 DEF Fresh
    <3>9. worker'[t].errors = Cardinality(FailedBy(t)')
      BY <3>2, <3>7 DEF Thread
    <3>10. \A k \in First(t)'..Last(t)' :
              /\ k < worker'[t].k /\ ~Writable(k)' => Fresh(k)'
              /\ k < worker'[t].k /\ Writable(k)' => out'[k] \in {Absent, Torn, flat'[k]}
              /\ k < worker'[t].k /\ Writable(k)' /\ Clean' => out'[k] = flat'[k]
              /\ k > worker'[t].k \/ (k = worker'[t].k /\ worker'[t].pc # "file") => Fresh(k)'
      <4>1. SUFFICES ASSUME NEW k \in First(t)..Last(t)
                     PROVE  /\ k < e /\ ~Writable(k) => Fresh(k)'
                            /\ k < e /\ Writable(k) => out'[k] \in {Absent, Torn, flat[k]}
                            /\ k < e /\ Writable(k) /\ Clean' => out'[k] = flat[k]
                            /\ k > e => Fresh(k)'
        BY <1>1, <3>2, <3>3, <3>4
      <4>2. /\ k < e /\ ~Writable(k) => Fresh(k)
            /\ k < e /\ Writable(k) => out[k] \in {Absent, Torn, flat[k]}
            /\ k < e /\ Writable(k) /\ Clean => out[k] = flat[k]
            /\ k > e => Fresh(k)
        BY DEF Thread
      <4>3. QED
        BY <3>5, <3>6, <4>1, <4>2
    <3>11. QED
      BY <2>1, <2>3, <3>2, <3>3, <3>4, <3>8, <3>9, <3>10 DEF Thread
  <2>4. CASE /\ worker' = [worker EXCEPT ![t].k = e + 1, ![t].dir = d, ![t].errors = v.errors + 1]
             /\ out' = out /\ (d \notin dirs' \/ faults' = faults + 1)
    <3>1. worker'[t].pc = "run" /\ worker'[t].k = e + 1 /\ worker'[t].errors = v.errors + 1
      BY <1>1, <2>1, <2>4 DEF Inv, Types
    <3>2. ~Clean'
      <4>1. Clean => v.dir \in dirs \union {Absent}
        BY DEF Thread
      <4>2. Clean => d \in dirs'
        BY <1>10, <2>2, <4>1, DirectoryMade
      <4>3. QED
        BY <1>5, <1>6, <2>4, <4>2
    <3>3. out'[e] = Absent /\ e \notin lost'
      BY <2>1, <2>2, <2>4 DEF Fresh
    <3>4. Failed(e)'
      BY <1>7, <2>1, <3>3 DEF Failed
    <3>5. QED
      BY <1>1, <1>2, <1>3, <1>7, <2>1, <3>1, <3>2, <3>3, <3>4, EntryPassed
  <2>5. QED
    BY <1>10, <2>3, <2>4 DEF OpenFile, DirsFor, Fault
<1>11. CASE WriteFile(t)
  <2>1. v.pc = "file"
    BY <1>11 DEF WriteFile
  <2>2. e <= Last(t) /\ Writable(e) /\ out[e] = Torn /\ e \notin lost
    BY <2>1 DEF Thread
  <2>3. e \in Batch /\ flat[e] \notin {Absent, Torn}
    BY <1>7, <2>2, RightIsContent DEF Writable
  <2>4. \/ Step(t, 0) /\ out' = [out EXCEPT ![e] = flat[e]] /\ lost' = lost
        \/ Step(t, 1) /\ out' = out /\ lost' = lost /\ faults' = faults + 1
        \/ Step(t, 0) /\ lost' = lost \union {e} /\ out' = out /\ faults' = faults + 1
    BY <1>11 DEF WriteFile, FailedCounted, Fault
  <2>5. ASSUME NEW x \in {0, 1}, Step(t, x)
        PROVE  worker'[t].pc = "run" /\ worker'[t].k = e + 1 /\ worker'[t].errors = v.errors + x
               /\ worker'[t].dir = v.dir
    BY <1>1, <2>5 DEF Step, Inv, Types
  <2>6. \E x \in {0, 1} :
           /\ Step(t, x) /\ (x = 1 <=> Failed(e)')
           /\ out'[e] \in {Absent, Torn, flat[e]}
           /\ Clean' => out'[e] = flat[e]
    <3>1. Writable(e)' /\ e \in 1..N
      BY <1>7, <2>2
    <3>2. CASE Step(t, 0) /\ out' = [out EXCEPT ![e] = flat[e]] /\ lost' = lost
      BY <1>4, <2>3, <3>1, <3>2 DEF Failed
    <3>3. CASE Step(t, 1) /\ out' = out /\ lost' = lost /\ faults' = faults + 1
      BY <1>5, <2>2, <3>1, <3>3 DEF Failed
    <3>4. CASE Step(t, 0) /\ lost' = lost \union {e} /\ out' = out /\ faults' = faults + 1
      BY <1>5, <2>2, <3>1, <3>4 DEF Failed
    <3>5. QED
      BY <2>4, <3>2, <3>3, <3>4
  <2>7. PICK x \in {0, 1} :
           /\ Step(t, x) /\ (x = 1 <=> Failed(e)')
           /\ out'[e] \in {Absent, Torn, flat[e]}
           /\ Clean' => out'[e] = flat[e]
    BY <2>6
  <2>8. worker'[t].pc = "run" /\ worker'[t].k = e + 1 /\ worker'[t].errors = v.errors + x
        /\ worker'[t].dir = v.dir
    BY <2>5, <2>7
  <2>9. QED
    BY <1>1, <1>2, <1>3, <1>6, <2>2, <2>7, <2>8, EntryPassed
<1>12. CASE HashSlot(t)
  BY <1>2, <1>12 DEF HashSlot
<1>13. QED
  BY <1>8, <1>9, <1>10, <1>11, <1>12 DEF WorkerStep

\* The ranges of two threads have no entry in common.
LEMMA RangesApart ==
    ASSUME Types, NEW t \in 0..nt - 1, NEW u \in 0..nt - 1, t # u,
           NEW k, k \in First(t)..Last(t)
    PROVE  k \notin First(u)..Last(u)
<1>1. /\ n \in Nat /\ nt \in Nat \ {0} /\ t \in Nat /\ u \in Nat /\ processed \in Nat
      /\ t < nt /\ u < nt
  BY BoundAssumption DEF Types
<1>2. /\ First(t) = processed + Cut(t, n, nt) + 1 /\ Last(t) = processed + Cut(t + 1, n, nt)
      /\ First(u) = processed + Cut(u, n, nt) + 1 /\ Last(u) = processed + Cut(u + 1, n, nt)
      /\ Cut(t, n, nt) \in Nat /\ Cut(t + 1, n, nt) \in Nat
      /\ Cut(u, n, nt) \in Nat /\ Cut(u + 1, n, nt) \in Nat
  BY <1>1, RangeIsCut
<1>3. CASE t < u
  <2>1. Cut(t + 1, n, nt) <= Cut(u, n, nt)
    BY <1>1, <1>3, RangesDisjoint
  <2>2. QED
    BY <1>1, <1>2, <2>1
<1>4. CASE u < t
  <2>1. Cut(u + 1, n, nt) <= Cut(t, n, nt)
    BY <1>1, <1>4, RangesDisjoint
  <2>2. QED
    BY <1>1, <1>2, <2>1
<1>5. QED
  BY <1>1, <1>3, <1>4

LEMMA WorkerCount ==
    ASSUME Inv, CountInv, NEW t \in Threads, WorkerStep(t)
    PROVE  CountInv'
<1> DEFINE e == worker[t].k
<1>1. Next
  BY DEF Next
<1>2. /\ UNCHANGED <<archive, processed, n, nt, flat, ioFailed, hashOk, main, blind, errors, ret>>
      /\ worker[t].pc \in {"run", "file"} /\ t < nt
      /\ main.pc \in HashPcs \union WritePcs /\ First(t) <= e
  BY ThreadMoves, WritesOwn DEF given, batch, Inv, AtWork
<1>3. /\ N \in Nat /\ processed \in Nat /\ n \in Nat /\ faults \in Nat /\ N' = N /\ Batch' = Batch
      /\ ~NoBatch /\ Batch \subseteq 1..N /\ processed + n <= N /\ t \in 0..nt - 1 /\ Types
  <2>1. ~NoBatch
    BY <1>2 DEF NoBatch, HashPcs, WritePcs
  <2>2. t \in 0..nt - 1 /\ Types
    BY <1>2, BoundAssumption DEF Inv, Types, Threads
  <2>3. QED
    BY <1>2, <2>1, <2>2, Basics DEF N, Batch
<1>4. faults' \in Nat /\ (Clean' => Clean /\ faults' = faults)
  BY <1>1, <1>3, CleanBefore
<1>5. First(t) \in Nat /\ Last(t) \in Nat /\ processed < First(t) /\ e \in Nat
  <2>1. First(t) \in Nat /\ Last(t) \in Nat /\ processed < First(t)
    BY <1>3, RangeInBatch
  <2>2. QED
    BY <2>1 DEF Inv, Types
<1>6. /\ \A k \in 1..N : k # e => out'[k] = out[k] /\ (k \in lost' <=> k \in lost)
      /\ main.pc \notin WritePcs => out' = out /\ lost' = lost
      /\ lost' # lost => faults' = faults + 1
      /\ dirs \subseteq dirs'
  BY WritesOwn
<1>7. main.pc \in WritePcs => Thread(t) /\ \A u \in 0..nt - 1 : Thread(u)
  BY <1>3 DEF CountInv, WriteInv
\* Only entries of the batch change.
<1>8. \A k \in 1..N : k <= processed \/ (main.pc \in WritePcs /\ k > processed + n)
                      \/ main.pc \notin WritePcs
          => out'[k] = out[k] /\ (k \in lost' <=> k \in lost)
  <2>1. SUFFICES ASSUME NEW k \in 1..N, main.pc \in WritePcs, k <= processed \/ k > processed + n
                 PROVE  out'[k] = out[k] /\ (k \in lost' <=> k \in lost)
    BY <1>6
  <2>2. CASE k # e
    BY <1>6, <2>1, <2>2
  <2>3. CASE k = e
    <3>1. e > processed
      BY <1>2, <1>3, <1>5
    <3>2. e > Last(t)
      <4>1. Last(t) <= processed + n
        BY <1>3, RangeInBatch
      <4>2. QED
        BY <1>3, <1>5, <2>1, <2>3, <3>1, <4>1
    <3>3. out' = out /\ lost' = lost
      <4>1. worker[t].pc = "run"
        BY <1>2, <1>5, <1>7, <2>1, <3>2 DEF Thread
      <4>2. EndRange(t)
        BY <1>5, <3>2, <4>1 DEF WorkerStep, HashSlot, SkipEntry, OpenFile, WriteFile, Running
      <4>3. QED
        BY <4>2 DEF EndRange, disk
    <3>4. QED
      BY <3>3
  <2>4. QED
    BY <2>2, <2>3
<1> HIDE DEF e
<1>9. CountTypes'
  BY <1>2, <1>3, <1>4 DEF CountInv, CountTypes, NoBatch
<1>10. Account'
  <2>1. Counted' = Counted
    BY <1>2, <1>3 DEF Counted
  <2>2. \A k \in 1..processed : out'[k] = out[k] /\ (k \in lost' <=> k \in lost)
    BY <1>3, <1>8
  <2>3. QED
    BY <1>2, <1>3, <1>4, <2>1, <2>2, AccountStays DEF CountInv
<1>11. ReadInv'
  <2>1. main.pc \notin {"open", "read"}
    BY <1>2 DEF HashPcs, WritePcs
  <2>2. QED
    BY <1>2, <1>3, <1>4, <2>1, ReadStays DEF CountInv, NoBatch
<1>12. Untouched'
  <2>1. SUFFICES ASSUME NEW k \in 1..N, k > processed + (IF main.pc \in WritePcs THEN n ELSE 0)
                 PROVE  Fresh(k)'
    BY <1>2, <1>3 DEF Untouched
  <2>2. Fresh(k)
    BY <2>1 DEF CountInv, Untouched
  <2>3. out'[k] = out[k] /\ (k \in lost' <=> k \in lost)
    BY <1>8, <2>1
  <2>4. QED
    BY <2>2, <2>3 DEF Fresh
<1>13. CleanInv' /\ Answered'
  <2>1. Clean' => lost' = lost
    BY <1>3, <1>4, <1>6
  <2>2. main'.pc # "returned"
    BY <1>2 DEF HashPcs, WritePcs
  <2>3. QED
    BY <1>4, <2>1, <2>2 DEF CountInv, CleanInv, Answered
<1>14. WriteInv'
  <2>1. /\ \A u \in Threads : u # t => worker'[u] = worker[u]
        /\ Threads' = Threads /\ Idle' = Idle
    <3>1. \E w : worker' = [worker EXCEPT ![t] = w]
      BY ThreadMoves
    <3>2. QED
      BY <3>1 DEF Inv, Types, Threads, Idle
  <2>2. worker[t] # Idle
    BY <1>2 DEF Idle
  <2>3. main'.pc \in {"hash_create", "hash_inline", "write_create", "write_inline"} =>
            \A u \in Threads : Waiting(u)' => worker'[u] = Idle'
    <3>1. SUFFICES ASSUME main.pc \in {"hash_create", "hash_inline", "write_create", "write_inline"},
                          NEW u \in Threads, Waiting(u)
                   PROVE  worker'[u] = Idle
      BY <1>2, <2>1 DEF Waiting
    <3>2. worker[u] = Idle
      BY <3>1 DEF CountInv, WriteInv
    <3>3. QED
      BY <2>1, <2>2, <3>2
  <2>4. ASSUME main.pc \in WritePcs, NEW u \in 0..nt - 1 PROVE Thread(u)'
    <3>1. CASE u = t
      BY <1>2, <1>3, <1>4, <1>7, <2>4, <3>1, ThreadOwn
    <3>2. CASE u # t
      <4>1. First(u)..Last(u) \subseteq Batch /\ u \in Threads /\ Last(u) \in Nat
        BY <1>3, RangeInBatch
      <4>2. worker'[u] = worker[u]
        BY <2>1, <3>2, <4>1
      <4>3. worker[u].pc = "file" => worker[u].k \in First(u)..Last(u)
        <5>1. worker[u].pc = "file" => worker[u].k <= Last(u) /\ First(u) <= worker[u].k
          BY <1>7, <2>4, <4>1 DEF Thread, Inv, AtWork
        <5>2. worker[u].k \in Nat /\ First(u) \in Nat
          BY <1>3, <4>1, RangeInBatch DEF Types
        <5>3. QED
          BY <4>1, <5>1, <5>2
      <4>4. \A k \in First(u)..Last(u) : out'[k] = out[k] /\ (k \in lost' <=> k \in lost)
        <5>1. CASE e <= Last(t)
          <6>1. e \in First(t)..Last(t)
            BY <1>2, <1>5, <5>1 DEF e
          <6>2. e \notin First(u)..Last(u)
            BY <1>3, <3>2, <6>1, RangesApart
          <6>3. QED
            BY <1>3, <1>6, <4>1, <6>2
        <5>2. CASE ~(e <= Last(t))
          <6>1. worker[t].pc = "run"
            BY <1>2, <1>7, <2>4, <5>2 DEF Thread, e
          <6>2. EndRange(t)
            BY <5>2, <6>1 DEF WorkerStep, HashSlot, SkipEntry, OpenFile, WriteFile, Running, e
          <6>3. QED
            BY <6>2 DEF EndRange, disk
        <5>3. QED
          BY <5>1, <5>2
      <4>5. QED
        BY <1>2, <1>4, <1>6, <1>7, <2>4, <4>2, <4>3, <4>4, OthersStay
    <3>3. QED
      BY <3>1, <3>2
  <2>5. QED
    BY <1>2, <2>3, <2>4 DEF WriteInv
<1>15. QED
  BY <1>9, <1>10, <1>11, <1>12, <1>13, <1>14 DEF CountInv

\* The sum over the threads of a pool is the function its equation describes.
Adds(f, w, m) ==
    f = [t \in -1..m - 1 |-> IF t < 0 THEN 0 ELSE f[t - 1] + w[t].errors]

LEMMA AddExists ==
    ASSUME NEW w
    PROVE  \A m \in Nat : \E f : Adds(f, w, m)
<1> DEFINE S == {m \in Nat : \E f : Adds(f, w, m)}
<1>1. 0 \in S
  <2> DEFINE g == [t \in -1..0 - 1 |-> 0]
  <2>1. Adds(g, w, 0)
    BY DEF Adds
  <2>2. QED
    BY <2>1
<1>2. ASSUME NEW m \in Nat, m \in S PROVE m + 1 \in S
  <2>1. PICK f : Adds(f, w, m)
    BY <1>2
  <2> DEFINE g == [t \in -1..m |-> IF t = m THEN f[m - 1] + w[t].errors ELSE f[t]]
  <2>2. ASSUME NEW t \in -1..m
        PROVE  g[t] = IF t < 0 THEN 0 ELSE g[t - 1] + w[t].errors
    <3>1. CASE t = m
      BY <3>1
    <3>2. CASE t # m
      BY <2>1, <3>2 DEF Adds
    <3>3. QED
      BY <3>1, <3>2
  <2>3. m + 1 - 1 = m
    OBVIOUS
  <2>4. Adds(g, w, m + 1)
    BY <2>2, <2>3 DEF Adds
  <2> HIDE DEF g
  <2>5. QED
    BY <2>4
<1> HIDE DEF S
<1>3. \A m \in Nat : m \in S
  BY <1>1, <1>2, NatInductionOn
<1>4. QED
  BY <1>3 DEF S

AllFailed == {k \in Batch : Failed(k)}
FailedTo(i) == {k \in AllFailed : k <= processed + Cut(i, n, nt)}

\* When all threads have ended, their counts add up to the files that failed.
LEMMA ThreadsCount ==
    ASSUME Inv, CountInv, JoinWriting
    PROVE  WorkerErrors = Cardinality(AllFailed)
<1> DEFINE f == CHOOSE g : Adds(g, worker, nt)
<1>1. /\ nt \in Nat /\ n \in Nat /\ processed \in Nat /\ N \in Nat /\ Types
      /\ Batch \subseteq 1..N /\ main.pc \in WritePcs
  <2>1. main.pc \in WritePcs /\ ~NoBatch
    BY DEF JoinWriting, NoBatch, WritePcs
  <2>2. Types
    BY DEF Inv
  <2>3. nt \in Nat
    BY <2>2, BoundAssumption DEF Types
  <2>4. QED
    BY <2>1, <2>2, <2>3, Basics
<1>2. Adds(f, worker, nt)
  <2>1. \E g : Adds(g, worker, nt)
    BY <1>1, AddExists
  <2>2. QED
    BY <2>1, Zenon
<1>3. WorkerErrors = f[nt - 1]
  BY DEF WorkerErrors, Adds
<1> HIDE DEF f
<1>4. f[-1] = 0 /\ \A t \in 0..nt - 1 : f[t] = f[t - 1] + worker[t].errors
  BY <1>1, <1>2 DEF Adds
<1>5. AllFailed \subseteq 1..N /\ \A k \in AllFailed : k \in Int /\ processed < k /\ k <= processed + n
  BY <1>1 DEF AllFailed, Batch
<1>6. CASE nt = 0
  <2>1. n = 0
    BY <1>1, <1>6 DEF Types
  <2>2. AllFailed = {} /\ Cardinality({}) = 0
    BY <1>1, <1>5, <2>1, FS_EmptySet
  <2>3. QED
    BY <1>3, <1>4, <1>6, <2>2
<1>7. CASE nt # 0
  <2> DEFINE S == {i \in Nat : i <= nt => f[i - 1] = Cardinality(FailedTo(i))}
  <2>1. nt \in Nat \ {0}
    BY <1>1, <1>7
  <2>2. 0 \in S
    <3>1. 0 * n = 0
      BY <1>1, SMT
    <3>2. Cut(0, n, nt) = 0
      <4>1. 0 \div nt = 0
        BY <2>1, SMT
      <4>2. QED
        BY <3>1, <4>1 DEF Cut
    <3>3. FailedTo(0) = {}
      <4>1. \A k \in AllFailed : ~(k <= processed + 0)
        BY <1>1, <1>5
      <4>2. QED
        BY <3>2, <4>1 DEF FailedTo
    <3>4. QED
      BY <1>4, <3>3, FS_EmptySet
  <2>3. ASSUME NEW i \in Nat, i \in S PROVE i + 1 \in S
    <3>1. SUFFICES ASSUME i + 1 <= nt PROVE f[i] = Cardinality(FailedTo(i + 1))
      OBVIOUS
    <3>2. i \in 0..nt - 1 /\ i < nt
      BY <1>1, <3>1
    <3>3. /\ First(i) = processed + Cut(i, n, nt) + 1 /\ Last(i) = processed + Cut(i + 1, n, nt)
          /\ Cut(i, n, nt) \in Nat /\ Cut(i + 1, n, nt) \in Nat
      BY <1>1, <3>2, RangeIsCut
    <3>4. Cut(i, n, nt) <= Cut(i + 1, n, nt)
      BY <1>1, <2>1, CutsInOrder
    <3>5. i \in Threads /\ First(i)..Last(i) \subseteq Batch
      BY <1>1, <3>2, RangeInBatch
    <3>6. Thread(i) /\ worker[i].pc = "ended" /\ worker[i].k \in Nat
      BY <1>1, <3>2, <3>5 DEF CountInv, WriteInv, JoinWriting, Joined, Types
    <3>7. worker[i].errors = Cardinality(FailedBy(i)) /\ worker[i].k > Last(i)
      BY <3>6 DEF Thread
    <3>8. FailedBy(i) = {k \in First(i)..Last(i) : Failed(k)}
      BY <1>1, <3>3, <3>6, <3>7 DEF FailedBy
    <3> DEFINE c == Cut(i, n, nt)
               d == Cut(i + 1, n, nt)
    <3>9. FailedTo(i + 1) = FailedTo(i) \union FailedBy(i) /\ FailedTo(i) \cap FailedBy(i) = {}
      <4>1. c \in Nat /\ d \in Nat /\ c <= d /\ First(i) = processed + c + 1 /\ Last(i) = processed + d
        BY <3>3, <3>4
      <4>2. FailedTo(i) = {k \in AllFailed : k <= processed + c}
            /\ FailedTo(i + 1) = {k \in AllFailed : k <= processed + d}
        BY DEF FailedTo
      <4> HIDE DEF c, d
      <4>3. \A k : k \in FailedBy(i) <=> k \in AllFailed /\ First(i) <= k /\ k <= Last(i)
        <5>1. \A k : k \in FailedBy(i) => k \in AllFailed /\ First(i) <= k /\ k <= Last(i)
          BY <3>5, <3>8, <4>1, <1>1 DEF AllFailed
        <5>2. \A k \in AllFailed : First(i) <= k /\ k <= Last(i) => k \in FailedBy(i)
          BY <1>5, <3>8, <4>1, <1>1 DEF AllFailed
        <5>3. QED
          BY <5>1, <5>2
      <4>4. \A k \in AllFailed : /\ (k <= processed + d <=>
                                        k <= processed + c \/ (First(i) <= k /\ k <= Last(i)))
                                 /\ ~(k <= processed + c /\ First(i) <= k)
        BY <1>1, <1>5, <4>1
      <4>5. QED
        BY <4>2, <4>3, <4>4
    <3>10. IsFiniteSet(FailedTo(i)) /\ IsFiniteSet(FailedBy(i))
      <4>1. FailedTo(i) \subseteq 1..N /\ FailedBy(i) \subseteq 1..N
        BY <1>1, <1>5, <3>5 DEF FailedTo, FailedBy
      <4>2. QED
        BY <1>1, <4>1, Countable
    <3>11. Cardinality(FailedTo(i + 1)) = Cardinality(FailedTo(i)) + Cardinality(FailedBy(i))
      BY <3>9, <3>10, Disjoint
    <3>12. f[i - 1] = Cardinality(FailedTo(i))
      BY <1>1, <2>3, <3>1
    <3>13. QED
      BY <1>4, <3>2, <3>7, <3>11, <3>12
  <2> HIDE DEF S
  <2>4. \A i \in Nat : i \in S
    BY <2>2, <2>3, NatInductionOn
  <2>5. f[nt - 1] = Cardinality(FailedTo(nt))
    BY <1>1, <2>4 DEF S
  <2>6. FailedTo(nt) = AllFailed
    <3>1. Cut(nt, n, nt) = n
      BY <1>1, <2>1, CutsInOrder
    <3>2. QED
      BY <1>5, <3>1 DEF FailedTo
  <2>7. QED
    BY <1>3, <2>5, <2>6
<1>8. QED
  BY <1>6, <1>7

\* What is true of an entry once the threads that write have ended.
LEMMA EntryEnded ==
    ASSUME Inv, CountInv, JoinWriting, NEW k \in Batch
    PROVE  /\ k \notin hashOk => out[k] = Absent /\ k \notin lost
           /\ Failed(k) => k \in hashOk /\ out[k] \in {Absent, Torn} /\ k \notin lost
           /\ k \in hashOk /\ ~Failed(k) =>
                 archive[k].skip \/ k \in lost \union blind \/ out[k] = archive[k].hash
           /\ Clean => /\ ~Failed(k)
                       /\ k \in hashOk <=> archive[k].data = archive[k].hash
                       /\ out[k] = IF ~archive[k].skip /\ archive[k].data = archive[k].hash
                                   THEN archive[k].data ELSE Absent
<1>1. /\ nt \in 0..MaxCpu /\ MaxCpu \in Nat /\ n \in Nat /\ processed \in Nat /\ Types
      /\ main.pc \in WritePcs /\ main.pc \in Late /\ ~NoBatch /\ main.pc \notin {"open", "read"}
      /\ k \in Nat /\ processed < k /\ k <= processed + n
  BY BoundAssumption DEF Inv, Types, JoinWriting, NoBatch, WritePcs, Late, Batch
<1>2. PICK t \in 0..nt - 1 : k \in First(t)..Last(t)
  <2>1. nt \in Nat \ {0} /\ k - processed - 1 \in 0..n - 1
    BY <1>1 DEF Types
  <2>2. PICK t \in 0..nt - 1 : /\ Cut(t, n, nt) <= k - processed - 1
                               /\ k - processed - 1 < Cut(t + 1, n, nt)
    BY <1>1, <2>1, RangesCover
  <2>3. t \in Nat /\ t < nt
    BY <1>1
  <2>4. /\ First(t) = processed + Cut(t, n, nt) + 1 /\ Last(t) = processed + Cut(t + 1, n, nt)
        /\ Cut(t, n, nt) \in Nat /\ Cut(t + 1, n, nt) \in Nat
    BY <1>1, <2>3, RangeIsCut
  <2>5. k \in First(t)..Last(t)
    BY <1>1, <2>2, <2>4
  <2>6. QED
    BY <2>5
<1>3. Thread(t) /\ worker[t].pc = "ended"
  BY <1>1 DEF CountInv, WriteInv, JoinWriting, Joined
<1>4. k < worker[t].k
  <2>1. worker[t].k > Last(t) /\ t \in Threads
    BY <1>1, <1>3, RangeInBatch DEF Thread
  <2>2. worker[t].k \in Nat /\ Last(t) \in Nat
    BY <1>1, <2>1, RangeInBatch DEF Types
  <2>3. QED
    BY <1>1, <1>2, <2>1, <2>2
<1>5. /\ ~Writable(k) => Fresh(k)
      /\ Writable(k) => out[k] \in {Absent, Torn, flat[k]}
      /\ Writable(k) /\ Clean => out[k] = flat[k]
  BY <1>2, <1>3, <1>4 DEF Thread
<1>6. /\ k \in hashOk => flat[k] \notin {Absent, Torn} /\ (k \in blind \/ flat[k] = archive[k].hash)
  BY <1>1, RightIsContent DEF Inv, FoundRight
<1>7. Clean => /\ flat[k] = archive[k].data
               /\ k \in hashOk <=> archive[k].data = archive[k].hash
  BY <1>1 DEF CountInv, ReadInv, ReadSoFar
<1>8. k \notin hashOk => out[k] = Absent /\ k \notin lost
  BY <1>5 DEF Writable, Fresh
<1>9. Failed(k) => k \in hashOk /\ out[k] \in {Absent, Torn} /\ k \notin lost
  BY DEF Failed, Writable
<1>10. k \in hashOk /\ ~Failed(k) =>
          archive[k].skip \/ k \in lost \union blind \/ out[k] = archive[k].hash
  BY <1>5, <1>6 DEF Failed, Writable
<1>11. Clean => ~Failed(k)
  BY <1>5, <1>6 DEF Failed, Writable
<1>12. Clean => out[k] = IF ~archive[k].skip /\ archive[k].data = archive[k].hash
                         THEN archive[k].data ELSE Absent
  BY <1>5, <1>7 DEF Writable, Fresh
<1>13. QED
  BY <1>7, <1>8, <1>9, <1>10, <1>11, <1>12

LEMMA JoinWritingCount ==
    ASSUME Inv, CountInv, JoinWriting
    PROVE  CountInv'
<1> DEFINE W == Batch \ hashOk
           F == AllFailed
<1>1. Next
  BY DEF Next, MainStep
<1>2. /\ UNCHANGED <<archive, n, flat, ioFailed, hashOk, out, lost, blind, faults>>
      /\ main.pc = "write_join" /\ main'.pc = "batch" /\ processed' = processed + n
      /\ errors' = [errors EXCEPT !.io = @ + Cardinality(F)]
  BY ThreadsCount DEF JoinWriting, given, disk, Goto
<1>3. /\ N \in Nat /\ processed \in Nat /\ n \in Nat /\ faults \in Nat /\ archive \in Archives
      /\ errors.io \in Nat /\ errors.hash \in Nat /\ errors \in [io : Nat, hash : Nat]
      /\ Batch \subseteq 1..N /\ processed + n <= N /\ N' = N
  BY <1>2, Basics DEF NoBatch, CountInv, CountTypes, N
<1>4. Clean' <=> Clean
  BY <1>2 DEF Clean
<1>5. F \subseteq hashOk /\ F \subseteq Batch
  BY EntryEnded DEF AllFailed
<1>6. PICK C \in SUBSET (1..N) : /\ Past(C)
                                 /\ errors.io + errors.hash = Cardinality(C) + Cardinality(Counted)
  BY DEF CountInv, Account
<1>7. Counted = W /\ Counted' = {}
  BY <1>2 DEF Counted, Early, Middle, HashPcs
<1>8. C \subseteq 1..processed
  BY <1>6 DEF Past
<1>d. PICK D : D = C \union (W \union F)
  OBVIOUS
<1>9. /\ IsFiniteSet(C) /\ IsFiniteSet(W) /\ IsFiniteSet(F)
      /\ Cardinality(C) \in Nat /\ Cardinality(W) \in Nat /\ Cardinality(F) \in Nat
  <2>1. W \subseteq 1..N /\ F \subseteq 1..N
    BY <1>3, <1>5
  <2> HIDE DEF W, F
  <2>2. QED
    BY <1>3, <2>1, Countable
<1>10. Cardinality(D) = Cardinality(C) + Cardinality(W) + Cardinality(F)
  <2>1. W \cap F = {}
    BY <1>5
  <2>2. C \cap (W \union F) = {}
    BY <1>3, <1>5, <1>8 DEF Batch
  <2> HIDE DEF W, F
  <2>3. IsFiniteSet(W \union F) /\ Cardinality(W \union F) = Cardinality(W) + Cardinality(F)
    BY <1>9, <2>1, Disjoint
  <2>4. Cardinality(D) = Cardinality(C) + Cardinality(W \union F)
    BY <1>9, <1>d, <2>2, <2>3, Disjoint
  <2>5. QED
    BY <1>9, <2>3, <2>4
<1>11. Past(D)'
  <2>1. D \subseteq 1..processed + n
    BY <1>3, <1>5, <1>8, <1>d DEF Batch
  <2>2. ASSUME NEW k \in 1..processed + n
        PROVE  /\ k \in D => out[k] # archive[k].hash /\ k \notin lost
               /\ k \notin D => \/ archive[k].skip \/ k \in lost \union blind
                                \/ out[k] = archive[k].hash
               /\ Clean => /\ k \in D <=> archive[k].data # archive[k].hash
                           /\ out[k] = IF ~archive[k].skip /\ archive[k].data = archive[k].hash
                                       THEN archive[k].data ELSE Absent
    <3>1. CASE k <= processed
      <4>1. k \in 1..processed /\ k \notin Batch
        BY <1>3, <3>1 DEF Batch
      <4>2. k \in D <=> k \in C
        BY <1>5, <1>d, <4>1
      <4>3. QED
        BY <1>6, <4>1, <4>2 DEF Past
    <3>2. CASE k > processed
      <4>1. k \in Batch /\ k \in 1..N /\ k \notin C
        BY <1>3, <1>8, <3>2 DEF Batch
      <4>2. k \in D <=> k \notin hashOk \/ Failed(k)
        BY <1>d, <4>1 DEF AllFailed
      <4>3. archive[k].hash \notin {Absent, Torn}
        BY <1>3, <4>1, EntryTypes
      <4>4. /\ k \notin hashOk => out[k] = Absent /\ k \notin lost
            /\ Failed(k) => k \in hashOk /\ out[k] \in {Absent, Torn} /\ k \notin lost
            /\ k \in hashOk /\ ~Failed(k) =>
                  archive[k].skip \/ k \in lost \union blind \/ out[k] = archive[k].hash
            /\ Clean => /\ ~Failed(k)
                        /\ k \in hashOk <=> archive[k].data = archive[k].hash
                        /\ out[k] = IF ~archive[k].skip /\ archive[k].data = archive[k].hash
                                    THEN archive[k].data ELSE Absent
        BY <4>1, EntryEnded
      <4>5. QED
        BY <4>2, <4>3, <4>4
    <3>3. QED
      BY <1>3, <3>1, <3>2
  <2>3. QED
    BY <1>2, <1>4, <2>1, <2>2 DEF Past
<1>12. Account'
  <2>1. errors'.io + errors'.hash = errors.io + errors.hash + Cardinality(F)
    BY <1>2, <1>3, <1>9
  <2>2. Cardinality({}) = 0
    BY FS_EmptySet
  <2>3. D \in SUBSET (1..N)
    BY <1>3, <1>5, <1>d
  <2> HIDE DEF W, F
  <2>4. errors'.io + errors'.hash = Cardinality(D) + Cardinality(Counted')
    BY <1>3, <1>6, <1>7, <1>9, <1>10, <2>1, <2>2
  <2>5. QED
    BY <1>3, <1>11, <2>3, <2>4 DEF Account
<1>13. CountTypes'
  <2>1. errors' \in [io : Nat, hash : Nat]
    BY <1>2, <1>3, <1>9
  <2>2. QED
    BY <1>2, <1>3, <2>1 DEF CountTypes, NoBatch, Late, WritePcs
<1>14. ReadInv' /\ WriteInv'
  <2>1. NoBatch' /\ main'.pc \notin {"open", "read"} /\ main'.pc \notin Late
        /\ main'.pc \notin HashPcs \union WritePcs
    BY <1>2 DEF NoBatch, Late, HashPcs, WritePcs
  <2>2. QED
    BY <2>1, NoPool DEF ReadInv
<1>15. Untouched'
  <2>1. \A k \in 1..N : k > processed + n => Fresh(k)
    BY <1>2 DEF CountInv, Untouched, WritePcs
  <2>2. main'.pc \notin WritePcs
    BY <1>2 DEF WritePcs
  <2>3. \A k \in 1..N : k > processed + n + 0 => k > processed + n
    BY <1>3
  <2>4. QED
    BY <1>2, <1>3, <2>1, <2>2, <2>3 DEF Untouched, Fresh
<1>16. CleanInv' /\ Answered'
  BY <1>2, <1>4 DEF CountInv, CleanInv, Answered
<1>17. QED
  BY <1>12, <1>13, <1>14, <1>15, <1>16 DEF CountInv

LEMMA StepCount == Inv /\ Inv' /\ CountInv /\ [Next]_vars => CountInv'
<1>1. ASSUME UNCHANGED vars, Inv, CountInv PROVE CountInv'
  <2>1. UNCHANGED <<archive, windows, main, processed, n, flat, ioFailed, hashOk, hashes, nt, worker,
                    dirs, out, errors, ret, blind, lost, faults>>
    BY <1>1 DEF vars
  <2>2. /\ N' = N /\ Batch' = Batch /\ Idle' = Idle /\ Threads' = Threads
        /\ (NoBatch' <=> NoBatch) /\ (Clean' <=> Clean) /\ Counted' = Counted
    BY <2>1 DEF N, Batch, Idle, Threads, NoBatch, Clean, Counted
  <2>3. CountTypes'
    BY <1>1, <2>1, <2>2 DEF CountInv, CountTypes
  <2>4. Account'
    <3>1. processed \in Nat
      BY <1>1, Basics
    <3>2. QED
      BY <1>1, <2>1, <2>2, <3>1, AccountStays DEF CountInv
  <2>5. ReadInv'
    BY <1>1, <2>1, <2>2 DEF CountInv, ReadInv, ReadSoFar
  <2>6. Untouched' /\ CleanInv' /\ Answered'
    BY <1>1, <2>1, <2>2 DEF CountInv, Untouched, Fresh, CleanInv, Answered
  <2>7. \A t \in 0..nt - 1 : Thread(t) => Thread(t)'
    BY <2>1, <2>2, ThreadStays
  <2>8. WriteInv'
    BY <1>1, <2>1, <2>2, <2>7 DEF CountInv, WriteInv, Waiting
  <2>9. QED
    BY <2>3, <2>4, <2>5, <2>6, <2>8 DEF CountInv
<1>2. QED
  BY <1>1, QuietMainCount, StartBatchCount, OpenArchiveCount, ReadEntryCount, EndReadCount, VerifyCount,
     StartPoolCount, CreateThreadCount, InlineOrAll, JoinWritingCount, WorkerCount, RemoveDirCount
  DEF Next, MainStep

LEMMA CountInvariance == Spec => []CountInv
BY InitCount, StepCount, Invariance, PTL DEF Spec

\* paf_extractor_gpu.c:559-563: for every archive, card and number of
\* threads, and whatever fails, the number returned after the last batch
\* counts every file that is not there once - those with a refused path,
\* with bytes lost at fclose and those of batches nobody hashed aside.
THEOREM MissingAreCountedAlways == Spec => []MissingAreCounted
<1>1. ASSUME Inv, CountInv PROVE MissingAreCounted
  <2>1. SUFFICES ASSUME main.pc = "returned", processed >= N
                 PROVE  /\ Cardinality(Missing \ (Skipped \union lost \union blind)) <= -ret
                        /\ -ret <= Cardinality(Missing \ lost)
    BY DEF MissingAreCounted
  <2>2. N \in Nat /\ processed = N /\ errors.io \in Nat /\ errors.hash \in Nat
    <3>1. N \in Nat /\ processed \in 0..N /\ errors.io \in Nat /\ errors.hash \in Nat
      BY <1>1, Basics
    <3>2. QED
      BY <2>1, <3>1
  <2>3. PICK C \in SUBSET (1..N) : /\ Past(C)
                                   /\ errors.io + errors.hash = Cardinality(C) + Cardinality(Counted)
    BY <1>1 DEF CountInv, Account
  <2>4. IsFiniteSet(C) /\ Cardinality(C) \in Nat
    BY <2>2, Countable
  <2>5. Cardinality(Counted) = 0
    BY <2>1, FS_EmptySet DEF Counted, Early
  <2>6. -ret = Cardinality(C)
    <3>1. ret = -(errors.io + errors.hash)
      BY <1>1, <2>1 DEF CountInv, Answered
    <3>2. QED
      BY <2>2, <2>3, <2>4, <2>5, <3>1
  <2>7. /\ Missing \ (Skipped \union lost \union blind) \subseteq C
        /\ C \subseteq Missing \ lost
    BY <2>2, <2>3 DEF Past, Missing, Skipped
  <2>8. IsFiniteSet(Missing \ lost)
    <3>1. Missing \ lost \subseteq 1..N
      BY DEF Missing
    <3>2. QED
      BY <2>2, <3>1, Countable
  <2>9. Cardinality(Missing \ (Skipped \union lost \union blind)) <= Cardinality(C)
    BY <2>4, <2>7, FS_Subset
  <2>10. Cardinality(C) <= Cardinality(Missing \ lost)
    BY <2>7, <2>8, FS_Subset
  <2>11. QED
    BY <2>6, <2>9, <2>10
<1>2. QED
  BY <1>1, Invariance, CountInvariance, PTL

\* paf_extractor_gpu.c:479-545: for every archive, card and number of
\* threads, a run without a fault writes no refused entry and, of an archive
\* without one, delivers exactly the uncorrupted entries and reports exactly
\* the corrupted ones.
THEOREM CleanRunDeliversAlways == Spec => []CleanRunDelivers
<1>1. ASSUME Inv, CountInv PROVE CleanRunDelivers
  <2>1. SUFFICES ASSUME main.pc = "returned", faults = 0, blind = {}
                 PROVE  /\ \A k \in 1..N :
                              out[k] = IF ~archive[k].skip /\ archive[k].data = archive[k].hash
                                       THEN archive[k].data ELSE Absent
                        /\ -ret = Cardinality({k \in 1..N : archive[k].data # archive[k].hash})
    BY DEF CleanRunDelivers, Skipped
  <2>2. N \in Nat /\ processed = N /\ errors.io \in Nat /\ errors.hash \in Nat
    <3>1. N \in Nat /\ processed \in 0..N /\ errors.io \in Nat /\ errors.hash \in Nat
      BY <1>1, Basics
    <3>2. processed >= N
      BY <1>1, <2>1 DEF CountInv, Answered
    <3>3. QED
      BY <3>1, <3>2
  <2>3. PICK C \in SUBSET (1..N) : /\ Past(C)
                                   /\ errors.io + errors.hash = Cardinality(C) + Cardinality(Counted)
    BY <1>1 DEF CountInv, Account
  <2>4. Cardinality(C) \in Nat
    BY <2>2, Countable
  <2>5. Cardinality(Counted) = 0
    BY <2>1, FS_EmptySet DEF Counted, Early
  <2>6. -ret = Cardinality(C)
    <3>1. ret = -(errors.io + errors.hash)
      BY <1>1, <2>1, <2>2 DEF CountInv, Answered
    <3>2. QED
      BY <2>2, <2>3, <2>4, <2>5, <3>1
  <2>7. /\ C = {k \in 1..N : archive[k].data # archive[k].hash}
        /\ \A k \in 1..N : out[k] = IF ~archive[k].skip /\ archive[k].data = archive[k].hash
                                    THEN archive[k].data ELSE Absent
    BY <2>1, <2>2, <2>3 DEF Past, Clean
  <2>8. QED
    BY <2>6, <2>7
<1>2. QED
  BY <1>1, Invariance, CountInvariance, PTL
=============================================================================
