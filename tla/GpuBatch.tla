------------------------------ MODULE GpuBatch ------------------------------
(***************************************************************************)
(* paf_extractor_gpu_run (libpaf/src/paf_extractor_gpu.c): the entries are *)
(* taken in batches that fit the video memory; a batch is read into one    *)
(* buffer, hashed by the first back end that works (CUDA, Vulkan, threads  *)
(* of the CPU), compared with the index, and what agrees is written by     *)
(* threads.  The back ends keep state from one batch to the next           *)
(* (paf_gpu_loader.c, paf_vulkan.c, win/paf_cuda_kernels.cu).              *)
(*                                                                         *)
(* The content of a file and the hash of that content are one value.  An   *)
(* entry with skip has a path that is unsafe, unreadable or too long.      *)
(***************************************************************************)
EXTENDS Integers, Sequences, FiniteSets

CONSTANTS
    Archives,   \* the archives: sequences of [skip, dir, size, data, hash]
    Absent,     \* no file
    Torn,       \* a file opened and not, or not wholly, written
    Foreign,    \* a content no entry has
    Junk,       \* what fresh memory holds, no hash
    Empty,      \* the content of an empty file
    Vrams,      \* video memory sizes
    Reserve,    \* the 256 MiB kept free
    PerFile,    \* the 64 bytes counted per file
    Word32,     \* 2^32 in the units of this instance
    MaxCpu,     \* bound: threads of a pool
    MaxFaults   \* bound: calls that fail

Contents == {Empty, Foreign} \union
            UNION {{a[k].data : k \in 1..Len(a)} : a \in Archives}
Hashes == {Empty} \union UNION {{a[k].hash : k \in 1..Len(a)} : a \in Archives}

ASSUME ArchiveAssumption ==
    \A a \in Archives :
        /\ a \in Seq([skip : BOOLEAN, dir : {a[k].dir : k \in 1..Len(a)}, size : Nat,
                      data : Contents, hash : Hashes])
        /\ \A k \in 1..Len(a) : a[k].size = 0 => a[k].data = Empty
ASSUME ValueAssumption ==
    /\ {Absent, Torn, Junk} \cap (Contents \union Hashes) = {}
    /\ Foreign \notin Hashes
    /\ \A a \in Archives : \A k \in 1..Len(a) : a[k].dir # Absent
ASSUME BoundAssumption ==
    /\ Vrams \subseteq Nat /\ Reserve \in Nat /\ PerFile \in Nat \ {0}
    /\ Word32 \in Nat \ {0} /\ MaxCpu \in Nat \ {0} /\ MaxFaults \in Nat

VARIABLES
    archive,    \* the archive being extracted
    windows,    \* the build: TRUE on Windows
    vram,       \* what paf_gpu_get_info reports
    cuda,       \* the CUDA back end and its device buffers
    vulkan,     \* the Vulkan back end: available, descriptor sets left
    main,       \* the calling thread: [pc, k]
    processed,  \* entries done
    n,          \* size of the batch
    flat,       \* flat[k]: what was read of entry k
    ioFailed,   \* io_failed, as a set of entries
    hashOk,     \* hash_ok, as a set of entries
    hashes,     \* the array of hashes, by place in the batch
    nt,         \* the number of ranges of the running pool
    worker,     \* worker[t]: the thread of range t
    dirs,       \* the directories that exist
    out,        \* out[k]: the file of entry k
    errors,     \* [io, hash]: the two error counters
    ret,        \* what the call returned
    blind,      \* history: entries of batches whose hashes nobody computed
    lost,       \* history: entries cut by an unnoticed failing fclose
    faults      \* history: faults so far

vars == <<archive, windows, vram, cuda, vulkan, main, processed, n, flat, ioFailed,
          hashOk, hashes, nt, worker, dirs, out, errors, ret, blind, lost, faults>>
given  == <<archive, windows, vram>>
engine == <<cuda, vulkan>>
batch  == <<processed, n, flat, ioFailed, hashOk>>
pool   == <<nt, worker>>
disk   == <<dirs, out>>
totals == <<errors, ret>>

N == Len(archive)
Threads == 0..MaxCpu - 1
Batch == processed + 1 .. processed + n
Place(k) == k - processed
Goto(label) == main' = [pc |-> label, k |-> 1]

Fault == faults < MaxFaults /\ faults' = faults + 1
NoFault == UNCHANGED faults

SizeOf(a, first, last) ==
    LET sum[k \in first - 1 .. last] == IF k < first THEN 0 ELSE sum[k - 1] + a[k].size
    IN  IF last < first THEN 0 ELSE sum[last]
BatchBytes == SizeOf(archive, processed + 1, processed + n)

(***************************************************************************)
(* The size of a batch.                                                    *)
(***************************************************************************)
Average == LET avg == IF N > 0 THEN SizeOf(archive, 1, N) \div N ELSE 1
           IN  IF avg < 1 THEN 1 ELSE avg
FitsUnbounded(avg) == ((IF vram > Reserve THEN vram - Reserve ELSE 0)  \* mutant: may be no file
                       \div (PerFile + avg)) % Word32
FilesPerBatch(avg) ==
    LET safe  == IF vram > Reserve THEN vram - Reserve ELSE 0
        files == (safe \div (PerFile + avg)) % Word32
    IN  IF files > N THEN N ELSE IF files = 0 THEN 1 ELSE files

(***************************************************************************)
(* The back ends.                                                          *)
(***************************************************************************)
\* The lazy probes.  CUDA is for Windows alone.
ProbeCuda ==
    \E c \in BOOLEAN :
        cuda' = [on |-> c /\ windows, dataCap |-> 0, data |-> 0, metaCap |-> 0, meta |-> 0]

\* paf_vulkan_init gives up at the first call that fails, but does not look
\* at the result of the one that makes the pool of one descriptor set.
ProbeVulkan ==
    \/ vulkan' \in {[on |-> FALSE, sets |-> 0], [on |-> TRUE, sets |-> 1]} /\ NoFault
    \/ vulkan' = [on |-> TRUE, sets |-> 0] /\ Fault

Probe ==
    /\ main.pc = "probe"
    /\ ProbeCuda /\ ProbeVulkan
    /\ Goto("batch")
    /\ UNCHANGED <<given, batch, hashes, pool, disk, totals, blind, lost>>

\* ensure_device_buffers: the capacities it believes in and what the device
\* really holds; a failing cudaMalloc leaves neither.
Larger(cap, need) == IF cap * 2 > need THEN cap * 2 ELSE need
DropDataKeepingCap(c) == [c EXCEPT !.data = 0]  \* mutant: the capacity stays
DropData(c) == [c EXCEPT !.data = 0, !.dataCap = 0]
DropMeta(c) == [c EXCEPT !.meta = 0, !.metaCap = 0]
GrowData(c, bytes) ==
    IF bytes > c.dataCap
    THEN [c EXCEPT !.data = Larger(c.dataCap, bytes), !.dataCap = Larger(c.dataCap, bytes)]
    ELSE c
GrowMeta(c, files) ==
    IF files > c.metaCap
    THEN [c EXCEPT !.meta = Larger(c.metaCap, files), !.metaCap = Larger(c.metaCap, files)]
    ELSE c

\* Every hash of the batch, in its place; the places after them do not exist.
AllHashed == [p \in 1..n |-> flat[processed + p]]

HashByCuda ==
    /\ main.pc = "cuda"
    /\ \/ /\ cuda.on
          /\ cuda' = GrowMeta(GrowData(cuda, BatchBytes), n)
          /\ \/ hashes' = AllHashed /\ Goto("verify") /\ NoFault
             \/ UNCHANGED hashes /\ Goto("vulkan") /\ Fault  \* a copy or the kernel fails
       \/ /\ cuda.on /\ Fault
          /\ \/ BatchBytes > cuda.dataCap /\ cuda' = DropData(cuda)
             \/ n > cuda.metaCap /\ cuda' = DropMeta(GrowData(cuda, BatchBytes))
          /\ UNCHANGED hashes /\ Goto("vulkan")
       \/ ~cuda.on /\ UNCHANGED <<cuda, hashes>> /\ Goto("vulkan") /\ NoFault
    /\ UNCHANGED <<given, vulkan, batch, pool, disk, totals, blind, lost>>

\* The first call takes the only descriptor set and never gives it back.
\* Later ones bind none: the result is whatever the driver makes of it.
\* When there is no memory for a buffer nothing is hashed, and the call
\* reports success all the same.
HashByVulkan ==
    /\ main.pc = "vulkan"
    /\ \/ /\ ~vulkan.on /\ Goto("cpu")
          /\ UNCHANGED <<vulkan, hashes, blind>> /\ NoFault
       \/ /\ vulkan.on /\ Goto("verify")
          /\ vulkan' = [vulkan EXCEPT !.sets = 0]
          /\ hashes' = AllHashed
          /\ UNCHANGED blind /\ NoFault
       \/ /\ vulkan.on /\ Goto("verify")
          /\ blind' = blind \union Batch
          /\ \/ vulkan.sets = 0 /\ hashes' \in {hashes, [p \in 1..n |-> Junk]} /\ NoFault
             \/ UNCHANGED hashes /\ Fault
          /\ UNCHANGED vulkan
    /\ UNCHANGED <<given, cuda, batch, pool, disk, totals, lost>>

(***************************************************************************)
(* A batch, step by step.                                                  *)
(***************************************************************************)
\* The array of hashes is not cleared: it may be the one the last batch
\* freed.  If memory runs out the call returns -1 at once.
StartBatch ==
    /\ main.pc = "batch" /\ processed < N
    /\ LET left == N - processed
           fpb  == FilesPerBatch(Average)
       IN  n' = IF left > fpb THEN fpb ELSE left
    /\ flat' = [k \in 1..N |-> IF archive[k].size = 0 THEN Empty ELSE Junk]
    /\ ioFailed' = {} /\ hashOk' = {}
    /\ \E old \in BOOLEAN :
           hashes' = [p \in 1..n' |-> IF old /\ p \in DOMAIN hashes THEN hashes[p] ELSE Junk]
    /\ \/ Goto("open") /\ UNCHANGED ret /\ NoFault
       \/ Goto("returned") /\ ret' = -1 /\ Fault
    /\ UNCHANGED <<given, engine, processed, pool, disk, errors, blind, lost>>

OpenArchive ==
    /\ main.pc = "open"
    /\ \/ Goto("read") /\ UNCHANGED ioFailed /\ NoFault
       \/ main' = [pc |-> "read", k |-> n + 1] /\ ioFailed' = Batch /\ Fault
    /\ UNCHANGED <<given, engine, processed, n, flat, hashOk, hashes, pool, disk, totals, blind, lost>>

\* fseek and fread; the archive may have been replaced since its index was
\* read, and then the bytes are foreign.
ReadEntry ==
    LET e == processed + main.k
    IN  /\ main.pc = "read" /\ main.k <= n
        /\ main' = [main EXCEPT !.k = @ + 1]
        /\ IF archive[e].size = 0 THEN UNCHANGED <<flat, ioFailed>> /\ NoFault
           ELSE \/ flat' = [flat EXCEPT ![e] = archive[e].data] /\ UNCHANGED ioFailed /\ NoFault
                \/ flat' = [flat EXCEPT ![e] = Foreign] /\ UNCHANGED ioFailed /\ Fault
                \/ ioFailed' = ioFailed \union {e} /\ UNCHANGED flat /\ Fault
        /\ UNCHANGED <<given, engine, processed, n, hashOk, hashes, pool, disk, totals, blind, lost>>

\* With nothing to hash no back end is called, not even for empty files.
EndRead ==
    /\ main.pc = "read" /\ main.k > n
    /\ errors' = [errors EXCEPT !.io = @ + Cardinality(ioFailed)]
    /\ IF BatchBytes > 0 THEN Goto("cuda") /\ UNCHANGED blind
       ELSE Goto("verify") /\ blind' = blind \union Batch
    /\ UNCHANGED <<given, engine, batch, hashes, pool, disk, ret, lost, faults>>

AgreesUnchecked == Batch \ ioFailed  \* mutant: hashes are not compared
Agrees == {k \in Batch \ ioFailed : hashes[Place(k)] = archive[k].hash}

Verify ==
    /\ main.pc = "verify"
    /\ hashOk' = Agrees
    /\ errors' = [errors EXCEPT !.hash = @ + Cardinality((Batch \ ioFailed) \ Agrees)]
    /\ Goto("write")
    /\ UNCHANGED <<given, engine, processed, n, flat, ioFailed, hashes, pool, disk, ret, blind, lost, faults>>

Writable(k) == k \in hashOk /\ ~archive[k].skip

(***************************************************************************)
(* The two pools: parallel_sha256_cpu and phase3_write_parallel.           *)
(***************************************************************************)
First(t) == processed + (t * n) \div nt + 1
Last(t)  == processed + (IF t = nt - 1 THEN n ELSE ((t + 1) * n) \div nt)

\* A thread: its next entry, last_dir, and the errors it has counted.
Idle == [pc |-> "idle", k |-> 0, dir |-> Absent, errors |-> 0]
Hashing == main.pc \in {"hash_create", "hash_inline", "hash_join"}

\* As many threads as the processors call for, at most one per file, and one,
\* the caller, if there is no memory for the contexts.
ThreadsFor(cpu) == IF cpu > n THEN n ELSE cpu

\* On Windows the directories are made before the files.
PreCreated == dirs \union {archive[k].dir : k \in {j \in Batch : Writable(j)}}

StartPool ==
    /\ main.pc \in {"cpu", "write"}
    /\ \E cpu \in 1..MaxCpu : nt' = ThreadsFor(cpu)
    /\ worker' = [t \in Threads |-> Idle]
    /\ dirs' = IF main.pc = "write" /\ windows THEN PreCreated ELSE dirs
    /\ main' = [pc |-> IF main.pc = "cpu" THEN "hash_create" ELSE "write_create", k |-> 0]
    /\ UNCHANGED <<given, engine, batch, hashes, out, totals, blind, lost, faults>>

\* A range whose thread cannot be created is run by the caller.
CreateThread ==
    /\ main.pc \in {"hash_create", "write_create"} /\ main.k < nt
    /\ worker' = [worker EXCEPT ![main.k] = [Idle EXCEPT !.pc = "run", !.k = First(main.k)]]
    /\ \/ main' = [main EXCEPT !.k = @ + 1] /\ NoFault
       \/ main' = [main EXCEPT !.pc = IF Hashing THEN "hash_inline" ELSE "write_inline"] /\ Fault
    /\ UNCHANGED <<given, engine, batch, hashes, nt, disk, totals, blind, lost>>

InlineEnds ==
    /\ main.pc \in {"hash_inline", "write_inline"} /\ worker[main.k].pc = "ended"
    /\ main' = [pc |-> IF Hashing THEN "hash_create" ELSE "write_create", k |-> main.k + 1]
    /\ UNCHANGED <<given, engine, batch, hashes, pool, disk, totals, blind, lost, faults>>

AllCreated ==
    /\ main.pc \in {"hash_create", "write_create"} /\ main.k = nt
    /\ main' = [main EXCEPT !.pc = IF Hashing THEN "hash_join" ELSE "write_join"]
    /\ UNCHANGED <<given, engine, batch, hashes, pool, disk, totals, blind, lost, faults>>

JoinedByOne == \E t \in 0..nt - 1 : worker[t].pc = "ended"  \* mutant: one thread is awaited
Joined == \A t \in 0..nt - 1 : worker[t].pc = "ended"
WorkerErrors ==
    LET sum[t \in -1..nt - 1] == IF t < 0 THEN 0 ELSE sum[t - 1] + worker[t].errors
    IN  sum[nt - 1]

JoinHashing ==
    /\ main.pc = "hash_join" /\ Joined
    /\ Goto("verify")
    /\ UNCHANGED <<given, engine, batch, hashes, pool, disk, totals, blind, lost, faults>>

JoinWriting ==
    /\ main.pc = "write_join" /\ Joined
    /\ errors' = [errors EXCEPT !.io = @ + WorkerErrors]
    /\ processed' = processed + n
    /\ Goto("batch")
    /\ UNCHANGED <<given, engine, n, flat, ioFailed, hashOk, hashes, pool, disk, ret, blind, lost, faults>>

Return ==
    /\ main.pc = "batch" /\ processed >= N
    /\ Goto("returned") /\ ret' = -(errors.io + errors.hash)
    /\ UNCHANGED <<given, engine, batch, hashes, pool, disk, errors, blind, lost, faults>>

(***************************************************************************)
(* A thread of either pool.                                                *)
(***************************************************************************)
Running(t) == t < nt /\ worker[t].pc = "run" /\ worker[t].k <= Last(t)
Step(t, failed) == worker' = [worker EXCEPT ![t].pc = "run", ![t].k = @ + 1,
                                            ![t].errors = @ + failed]

HashSlot(t) ==
    /\ Hashing /\ Running(t)
    /\ hashes' = [hashes EXCEPT ![Place(worker[t].k)] = flat[worker[t].k]]
    /\ Step(t, 0)
    /\ UNCHANGED <<given, engine, main, batch, nt, disk, totals, blind, lost, faults>>

SkipEntry(t) ==
    /\ ~Hashing /\ Running(t) /\ ~Writable(worker[t].k)
    /\ Step(t, 0)
    /\ UNCHANGED <<given, engine, main, batch, hashes, nt, disk, totals, blind, lost, faults>>

\* ensure_dir unless the last file of this thread was in the same directory
\* (POSIX), or only after a first attempt has failed (Windows); then fopen.
DirsFor(w, d) == IF (IF windows THEN d \in dirs ELSE d = w.dir) THEN dirs ELSE dirs \union {d}
OpenFile(t) ==
    LET w == worker[t]
        d == archive[w.k].dir
        made == DirsFor(w, d)
    IN  /\ ~Hashing /\ Running(t) /\ Writable(w.k)
        /\ dirs' = made
        /\ \/ /\ d \in made /\ out' = [out EXCEPT ![w.k] = Torn]
              /\ worker' = [worker EXCEPT ![t].pc = "file", ![t].dir = d]
              /\ NoFault
           \/ /\ d \notin made /\ UNCHANGED out
              /\ worker' = [worker EXCEPT ![t].k = @ + 1, ![t].dir = d, ![t].errors = @ + 1]
              /\ NoFault
           \/ /\ worker' = [worker EXCEPT ![t].k = @ + 1, ![t].dir = d, ![t].errors = @ + 1]
              /\ UNCHANGED out /\ Fault
        /\ UNCHANGED <<given, engine, main, batch, hashes, nt, totals, blind, lost>>

\* A failing fwrite is counted, a failing fclose is not looked at.
FailedUncounted == 0  \* mutant: the failed write is forgotten
FailedCounted == 1
WriteFile(t) ==
    LET k == worker[t].k
    IN  /\ ~Hashing /\ t < nt /\ worker[t].pc = "file"
        /\ \/ Step(t, 0) /\ out' = [out EXCEPT ![k] = flat[k]] /\ UNCHANGED lost /\ NoFault
           \/ archive[k].size > 0 /\ Step(t, FailedCounted) /\ UNCHANGED <<out, lost>> /\ Fault
           \/ archive[k].size > 0 /\ Step(t, 0) /\ lost' = lost \union {k} /\ UNCHANGED out /\ Fault
        /\ UNCHANGED <<given, engine, main, batch, hashes, nt, dirs, totals, blind>>

EndRange(t) ==
    /\ t < nt /\ worker[t].pc = "run" /\ worker[t].k > Last(t)
    /\ worker' = [worker EXCEPT ![t].pc = "ended"]
    /\ UNCHANGED <<given, engine, main, batch, hashes, nt, disk, totals, blind, lost, faults>>

\* Another program removes a directory nobody has put a file in.
RemoveDir(d) ==
    /\ d \in dirs /\ \A k \in 1..N : archive[k].dir = d => out[k] = Absent
    /\ dirs' = dirs \ {d} /\ Fault
    /\ UNCHANGED <<given, engine, main, batch, hashes, pool, out, totals, blind, lost>>

Init ==
    /\ archive \in Archives /\ windows \in BOOLEAN /\ vram \in Vrams
    /\ cuda = [on |-> FALSE, dataCap |-> 0, data |-> 0, metaCap |-> 0, meta |-> 0]
    /\ vulkan = [on |-> FALSE, sets |-> 0]
    /\ main = [pc |-> "probe", k |-> 1]
    /\ processed = 0 /\ n = 0 /\ flat = [k \in 1..N |-> Junk]
    /\ ioFailed = {} /\ hashOk = {} /\ hashes = <<>>
    /\ nt = 0 /\ worker = [t \in Threads |-> Idle]
    /\ dirs = {} /\ out = [k \in 1..N |-> Absent]
    /\ errors = [io |-> 0, hash |-> 0] /\ ret = 0
    /\ blind = {} /\ lost = {} /\ faults = 0

MainStep ==
    \/ Probe \/ StartBatch \/ OpenArchive \/ ReadEntry \/ EndRead \/ HashByCuda
    \/ HashByVulkan \/ Verify \/ StartPool \/ CreateThread \/ InlineEnds \/ AllCreated
    \/ JoinHashing \/ JoinWriting \/ Return
WorkerStep(t) ==
    HashSlot(t) \/ SkipEntry(t) \/ OpenFile(t) \/ WriteFile(t) \/ EndRange(t)

Next ==
    \/ MainStep
    \/ \E t \in Threads : WorkerStep(t)
    \/ \E d \in dirs : RemoveDir(d)

Spec == Init /\ [][Next]_vars

\* The call runs until it waits, and the system runs every thread.
FairSpec == Spec /\ WF_vars(MainStep) /\ \A t \in Threads : WF_vars(WorkerStep(t))
-----------------------------------------------------------------------------
(***************************************************************************)
(* Properties                                                              *)
(***************************************************************************)
MainLabels == {"probe", "batch", "open", "read", "cuda", "vulkan", "cpu", "verify", "write",
               "hash_create", "hash_inline", "hash_join",
               "write_create", "write_inline", "write_join", "returned"}

\* The variables have their types, and a batch stays inside the archive.
TypeOK ==
    /\ archive \in Archives /\ main.pc \in MainLabels
    /\ processed \in Nat /\ n \in Nat /\ processed + n <= N + n
    /\ ioFailed \subseteq 1..N /\ hashOk \subseteq 1..N
    /\ DOMAIN out = 1..N /\ DOMAIN flat = 1..N

\* paf_extractor_gpu.c:531-545: whatever was read, whichever back end hashed
\* it and whichever thread wrote it, a finished file has the content the
\* index records - unless nobody computed the hashes of its batch, which the
\* code does not notice.
WrittenVerified ==
    \A k \in 1..N : out[k] \notin {Absent, Torn} =>
        k \in blind \/ out[k] = archive[k].hash

Missing == {k \in 1..N : out[k] # archive[k].hash}
Skipped == {k \in 1..N : archive[k].skip}

\* paf_extractor_gpu.c:559-563: when all batches were done, the number
\* returned counts every file that is not there once, across batches,
\* phases and threads; only entries with a refused path may go unmentioned,
\* bytes lost at fclose and entries that were never hashed.
MissingAreCounted ==
    main.pc = "returned" /\ processed >= N =>
        /\ Cardinality(Missing \ (Skipped \union lost \union blind)) <= -ret
        /\ -ret <= Cardinality(Missing \ lost)

\* paf_extractor_gpu.c:479-545: without a fault every entry with uncorrupted
\* data arrives, no other does, and exactly the corrupted ones are reported,
\* however the entries fall into batches.  An archive with a refused path "must
\* be rejected" by SPEC.md:142,206; the code (:500-502) leaves such an entry out
\* without counting it and delivers the others, and does the same for a path
\* of 1024 bytes or more.  Of such an archive only that no refused entry is
\* written is claimed.
CleanRunDelivers ==
    main.pc = "returned" /\ faults = 0 /\ blind = {} =>
        /\ \A k \in Skipped : out[k] = Absent
        /\ Skipped = {} =>
               /\ \A k \in 1..N : out[k] = IF archive[k].data = archive[k].hash
                                          THEN archive[k].data ELSE Absent
               /\ -ret = Cardinality({k \in 1..N : archive[k].data # archive[k].hash})

\* paf_cuda_kernels.cu:114-143: the capacity that decides whether a batch
\* fits the device buffers is never larger than what the device holds, also
\* after allocations that failed half-way.
CudaFits == cuda.dataCap <= cuda.data /\ cuda.metaCap <= cuda.meta

\* paf_extractor_gpu.c:479-557: the loop over the batches ends, whatever the
\* memory of the card, and so do the pools.
Returns == <>(main.pc = "returned")
=============================================================================
