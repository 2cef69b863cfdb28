# A verification project for PAF

PAF is an uncompressed archive format with an index of SHA-256 hashes, a C library
(`libpaf`) that creates, reads, compares and patches such archives, and programs around
it: command line tools, a ProjFS mount, a browser application, a shell extension,
language bindings.  This directory holds TLA+ models of the library, of the mount and of
the browser application, the TLC configurations that check them on small instances, and
theorems proved with TLAPS for every instance.

Run TLC with `tlc -config X.cfg M.tla` and the proofs with `tlapm M.tla`, where `M` is
`PatchApply_proof`, `PatchCreation_proof`, `Generator_proof`, `Ranges`, `Extraction_proof`,
`GpuBatch_proof`, `Mount_proof` or `StorageQueue_proof`.  `PROJECT.json` maps every
definition to the lines it models.

## The system

| Component | Source | State | Operations | Status |
|---|---|---|---|---|
| Atomic patch application | `libpaf_patch.c` | the destination directory, loop index, error count | `paf_patch_apply_atomic`; also `paf_patch_apply`, `paf_patch_apply_from_dir` | first one modelled and proved |
| Generator | `paf_generator.c` | three temporary files, offsets, batch of small files | `init`, `add_file`, `add_file_stream`, `flush_batch`, `finalize` | modelled and proved, with memory that runs out and temporary files that never fail |
| Creation | `libpaf_core.c:106-261` | collected entries | `paf_create_binary`, `paf_create_index_only` | modelled and proved, without ignore rules |
| Archive format and readers | `paf.h`, `libpaf_list.c`, `libpaf_exists.c`, `libpaf_extract.c` | none | list, export index, exists, extract file or folder | modelled as functions |
| Parallel extraction | `libpaf_core.c:263-444` | output directory shared by threads | `paf_extract_binary` | modelled and proved |
| Binary delta | `paf_binary_delta.c` | block table, instructions under construction | create, apply | modelled and proved, memory enough |
| Delta calculation | `paf_delta.c` | hash map over paths, result list | `paf_delta_calculate` | modelled and proved |
| Patch creation | `libpaf_core.c:446-612` | three temporary files, error count | `paf_create_patch` | modelled and proved |
| Extractor | `paf_extractor.c` | open file, index | `open`, `get_file`, `close` | `get_file` as the mount calls it, with its faults |
| GPU batch extraction | `paf_extractor_gpu.c` | flags of a batch, buffer, output directory | `paf_extractor_gpu_run` in three phases | modelled and proved, without the description of the hardware |
| Thread pools for SHA-256 | `paf_parallel.h`, `paf_extractor_gpu.c` | threads and their ranges | `parallel_sha256_cpu` | modelled |
| Loader, CUDA and Vulkan back ends | `paf_gpu_loader.c`, `paf_cuda_kernels.cu`, `paf_vulkan.c` | device buffers, descriptor pool | probes, batch hash | buffers, pools and failures modelled |
| DirectStorage engines | `win/*.cpp` | queue, event, open file | batch load, delta load, load into a resource | modelled and proved, on a queue that does what `dstorage.h` says |
| ProjFS mount | `projfs/paf_mount.c` | tree, session pool, extractor | enumeration and data callbacks | modelled and proved |
| Browser application | `wasm/app.js`, `paf_wasm.c` | page state, emulated file system | open, verify, extract, create | modelled and proved |
| Tools, shell extension, viewer, bindings, hash code, build files | | | | not modelled |

How they interact: creation drives the generator, whose file the readers decode;
`paf_create_patch` makes two index-only archives, compares them, and writes a third whose
entries are markers, whole files or binary deltas; `paf_patch_apply_atomic` decodes
that file, calls the delta decoder, and changes the destination.  The extractor is the
reader used by the mount, the verifiers and the GPU path.  Nothing in the core is shared
between threads except the output directory of an extraction and, on the GPU path, the
flat buffer; between processes, the input directories and the destination of a patch.

What is hard in it:

- a patch can be stopped between any two calls, and is retried on what it left;
- deltas are applied to whatever the target holds by then;
- input files change between being listed, hashed and read;
- counters of offsets are kept apart from the bytes that were written;
- results of `fwrite` and `fclose` are often dropped;
- extraction threads share a directory, and existence is tested before creation;
- the mount's callbacks come from many threads and share sessions, a lock and a file position;
- device buffers and descriptor pools outlive the batch that left them in their state;
- an event or a status tells that reads are over, not which read it belongs to;
- between two awaits of the page any button may be pressed and any file chosen.

`PROJECT.json` lists each at its line under `hazards`, with the properties that watch it
or the reason why none does.

What makes each component correct: a patch leaves every file old or new and a clean run
installs everything whose path it accepts; a generator neither loses, repeats nor reorders files, and its
readers find what was read; an extraction does what one thread would do; a delta applied
to its old file gives the new one and a patch made from two directories turns one into the
other; no batch writes a file whose hash was not checked; an enumeration of the mount
lists each child once and a read gives the bytes asked for; the page shows, verifies and
extracts one and the same archive.

## The modules

### Patch application

`AtomicUpdate` is the promise: a tree of files, in which at any moment one file may move
from its old to its new content, in one step.

`PatchApply` is the code.  `fs` is the destination directory, including the staging
files and the directories on the way; `pc`, `i`, `errors` are the position in the loop and
its counter, `ret` the returned value; `runs`, `faults`, `faulted` are history.  There is
one action per call after which the process can be stopped:

| Action | Code (`libpaf_patch.c`) |
|---|---|
| `Open` | 136-158 |
| `ReadPath` | 160-172, the entry's path and the safety test |
| `DeleteFile` | 174-182 |
| `OpenStage` | 184-208, parent directories, reading the old file of a delta, truncating the stage |
| `WriteStage` | 198-221, `paf_bdelta_apply` or the copy loop |
| `VerifyStage` | 223-229 |
| `RenameStage` | 231-238 |
| `Return`, `Crash` | 240-242; the process is killed and only `fs` survives |

The paths of `RefusedPaths` are those the application refuses on every run, because they
contain two dots in a row anywhere (`v1..2.txt`), begin like an absolute path or are too
long (163-171), although collection and `paf_create_patch` accept them: `ReadPath` counts
an error and goes on, and no run ever installs them.

Content is a value; `Torn` stands for every content that belongs to neither snapshot, and
a hash is the content it was computed from.  A fault is a failing call, or a write lost
at `fclose`, whose result the code ignores.  Whatever the delta decoder can produce from
an unexpected old file is `DeltaResults`: the new content (by chance) or `Torn`.  One
program applies patches; the code takes no lock, and two at once are a listed hazard.

### Patch creation

`Delta` is `paf_delta_calculate`, one action per iteration of its loops: `Insert` and
`InsertProbe` fill the hash map with the paths of the new index, `Found`, `NotFound` and
`CompareProbe` look the old entries up in it, `Sweep` collects what nobody met.  A slot
holds an index into the new list or 0.  DJB2 is an arbitrary function `PathHash`; it is
reduced to the size of the map as in the code, so collisions and lookups that run over
the end of the map are those of the instance.

`PatchCreation` is `paf_create_patch`: for each directory `Collect` and `ReadFile` (the
loop of `paf_create_index_only`), then the actions of `Delta`, then `DeletedEntry`,
`FullEntry`, `DeltaEntry` or `FailedEntry` for each difference, and `Publish`.  The patch
under construction is the record `patch` with the three temporary files and the two
offsets.  `AddEntry` is the three `fwrite`s of an entry, none of which is checked: each may
lose its last bytes while the offsets count all of them (`lost`), after which the entries
that follow are found at other places, possibly under another file's path.  `Publish` may
lose any number of bytes at the end of the archive (`cut`).  `GiveUp` stands for every
early return, `Change` is another program.  The archive that is
written is read back with the operators of `ArchiveFile`, and `Applied` is what a run
of `PatchApply` without faults does with it: this joins the two ends of a patch.  Entries
with a path in `Refused` are skipped there as in the code, and a path of which one
directory has a file where the other has a directory (not `Free`) may stay as it was.  A
delta is one cell that names its base and its target.

`BinaryDelta` opens that cell: `InsertBlock` fills the block table, `NextByte`,
`FindBlock`, `EmitLiteral` and `EmitCopy` walk over the new file, `ApplyCopy` and
`ApplyLiteral` play the instructions on whatever base is found.  FNV-1a is an arbitrary
function, so one hash may belong to two blocks and one slot to two hashes.  `ends` is
history: how far into the new file each instruction reaches.

### Archives

`ArchiveFile` is the layout (header, data, index, paths) as a sequence of cells and the
readers as functions that see only offsets and lengths.  A header, an index entry and a
byte are one cell each: the arithmetic of the code stays visible, its constants 32 and
128 do not.  A path is a sequence of characters: `ExtractFolder` writes to what comes behind
the name of the folder, with or without a separator (`Target`), so that of `d/b` and `db`
the later wins, makes directories on the way and cannot open a file where a directory is
or below a file (`Extracted`); paths with two dots in a row, a leading slash or backslash
are left out (`Safe`).  `data_offset` counts from the end of the header, as in `paf_extractor.c:134`
(`SPEC.md` calls it absolute).

`ArchiveLog` is the promise of a writer: a log that grows at its end and is published
once.  `Generator` is `paf_create_binary` and `paf_create_index_only` around the
generator: `Collect`, then for each entry `SkipFile`, `ReadWhole` (then `AddFile`) or
`ReadStream` (then `StreamFile`), with `FlushSlot` and `FlushEnd` in between when the
batch is full or a file is streamed, and `Finish` or `FinishFails`.  What the code drops
without a word is modelled as such and remembered in `dropped`: a file whose `fopen` fails
for whatever reason (`SkipFile`), one for which the hashes of a batch find no memory
(`FlushFails`) and one whose path cannot be copied (`AddFails`); the last two return an
error that the loop of `paf_create_binary` does not look at.  `Change` is another
program creating, growing, removing or, if `MayShrink`, shrinking a file.  The two create
functions differ in `index_only` only, which `Init` chooses.  Every byte is a token
that names its file and position, so a byte in the wrong place is always noticed.

### Extraction

`Extraction` is `paf_extract_binary`.  `main` is the calling thread (`CreateThread`, `InlineEnds`
when a thread could not be created and the caller ran its range, `Join`, `Return`), `worker[t]` the
thread of range `t`: `Check` tests the path and, without overwrite, the existence of the file,
`LookInVain` is the `fopen` of this test failing for a file that exists, which the code takes for
its absence, `OpenFile` empties the file, `Write` puts one byte at the thread's own position,
`CloseFile` goes on.  `fs` is shared.  `Crash` kills all threads; `Call` may come again with another
value of `overwrite` and another archive.  Directories on the way to a file can always be made in
this model.

### The extraction on the GPU

`GpuBatch` is `paf_extractor_gpu_run` with the back ends it drives.  `main` is the calling
thread, `worker[t]` the thread of range `t` of the pool that is running; a batch is the
entries behind `processed`, `flat` the buffer they are read into, `ioFailed`, `hashOk` and
`hashes` the arrays of the batch.  `cuda` and `vulkan` keep what outlives a batch: the
capacities the CUDA code believes in beside what the device holds, the one descriptor set
of Vulkan.

| Action | Code |
|---|---|
| `Probe` | `paf_gpu_loader.c`, `paf_vulkan_init` |
| `StartBatch` | the size of a batch, the allocations (`paf_extractor_gpu.c:479-500`) |
| `OpenArchive`, `ReadEntry`, `EndRead` | phase 1 |
| `HashByCuda`, `HashByVulkan` | a hash call of either device, with the growth of its buffers |
| `StartPool`, `CreateThread`, `InlineEnds`, `AllCreated`, `JoinHashing`, `JoinWriting` | both pools, of POSIX and of Windows |
| `HashSlot` | a thread of `parallel_sha256_cpu` |
| `Verify` | the comparison with the index |
| `SkipEntry`, `OpenFile`, `WriteFile`, `EndRange` | a thread of phase 3 |
| `Return` | the two error counters become one number |
| `RemoveDir` | another program removes an empty directory |

The history `blind` marks entries of batches for which no hash was computed and the code
did not notice: a batch of empty files is not hashed at all and is compared with what the
array held; a second Vulkan call has no descriptor set left; a Vulkan buffer that could
not be made ends the call with success; the pool may not exist.  `lost` marks files cut
short by an `fclose` nobody looks at.  Refused and overlong paths are left out without being
counted, and -1 after a failed allocation looks like one error: `MissingAreCounted` names
these exceptions.  Of an archive with such a path `CleanRunDelivers` says only that the
entry is not written.

### DirectStorage

`StorageQueue` is the loader, the patch engine and the load into a D3D12 resource; `Init`
chooses one (`client`).  The queue is external and does what the comments of `dstorage.h`
say: a ring with one entry always free, submission by itself when half full, reads that end
in any order (`Read`), entries that leave at the head (`Retire`), an event that is
set and a status that is told when what was enqueued before is through.  A call is
`Start` or `CannotInitialize`, then `Skip` and `EnqueueRequest` for its items, `Reset` and
`Submit` when the batch is full or complete, `WaitEvent`, `StatusComplete`, `WaitTimeout`
or `CannotWait`, and `ReadByHand` when `paf_gpu_direct_load` falls back on `fread`.
Entries of an earlier call stay in the queue with `live` false: they write elsewhere but
still set the event.  `Offset` is the place a request names: the loader is given a place in
the file, the engine the place in the data block that the index records, cut to 32 bits on
its way through `paf_delta_t` and used as one in the file.  `PatchDelivered` therefore
speaks of the bytes that were requested, which for an archive of libpaf are not those of the
file.

What the code makes of this, and the properties state as exceptions: with an event, a
read that failed is not noticed, though the comment at `paf_io_directstorage.cpp:110`
says `io_failed`; after a timeout an old event can end the next wait; the D3D12 load takes
its timeout for success; a queue that could not be made leaves the factory behind, and
the next call uses a null queue (`pc = "dead"`); the engine leaves its total at 0 when
its last wait was for a full queue.  An `EnsureFile` that fails leaves no file under the
old path; the next call for that path then reads from none, and the reads fail.

### The mount

`Listing` is the promise of an enumeration: from its start, and from each restart, its
caller is given the entries of one directory that match, each once, in order, whatever
the others do, and is told that this was all (`Finish`) only when none is left.

`Mount` is the provider.  `BuildTree` inserts one entry into the tree (`Insert`: names without case,
the first of two equal files wins, a directory wins over a later file). `StartDirectoryEnumeration`,
`GetDirectoryEnumeration` and `EndDirectoryEnumeration` take, restart and free a place of the pool
`sessions`; between them a callback walks with `SkipChild`, `FillChild`, `BufferFull` and `EndScan`,
one child at a time, without the lock; a callback that ends with the last child passed tells ProjFS
that the enumeration is complete.  `GetFileData` finds the entry, `EnterExtractor` and
`LeaveExtractor` are the critical section `cs_ext`, and `ReadPath`, `Compare`, `SeekData`,
`ReadData` are `paf_extractor_get_file`, which moves the position `filePos` of the one open archive;
`WriteFileData` answers.  The buffer, the data and every read may fail (`Failed`), and the call then
answers with an error.  The provider is built for Windows, where `fseek` takes a 32-bit offset: data
that begins at `LongMax` or later is read astray (`SeekData`), an exception that `DataServed`
makes.  `GetPlaceholderInfo` is what a lookup in the finished tree says of a path: not found, a
directory, or a file and its size.  Of ProjFS is assumed what Windows documents: the ids of open
enumerations differ, and an enumeration or the provider is ended only when no callback for it is
running.  A file of the same path and content in the current directory makes the extractor return no
data, and the mount then serves zeros; `DataServed` names this case. The order of a listing is the
order of the tree, not the order in which ProjFS sorts.

### The page

`Page` is `app.js` with `paf_wasm.c`.  A handler runs to its next `await` as one action:
`handleExtractFile` starts a FileReader and `onload` ends it; `VerifyClick` starts a
verification, `Digested` takes one digest and `DigestFailed` is the `catch` around it (a
rejected digest, or no `crypto.subtle`), which marks the row `err` and counts it;
`ExtractClick`, `Picked` or `PickedInVain`, `Copy`
and `Aborted` are an extraction into a picked directory; `handleCompressFiles`, `PackClick`,
`ReadFile` and `ReadFailed` make an archive; `onRuntimeInitialized` is the start of the
module, to which a write may have been deferred.  `view` holds the variables of the page
and `fs` the module's files.  FileReaders may end in any order, so the name of one archive
can stand beside the bytes of another; `overlapped` remembers that.

`Unpacked` is the single worker of `paf_extract_binary` in the module: entry by entry it
makes the directories and opens the file (`UnpackedEntry`), deleted entries included.  A
refused path, a file that cannot be opened and an entry too big for the memory are passed
over with result 0.  `/out` and `/paf_input` are never emptied, so files of earlier runs
come along, and a file left there can stand where the next archive needs a directory, or
the reverse (`InTheWay`).  Packing writes `/created.paf`, and so does loading an archive of
that name (`Repacked`).  A session of the visitor presses one button twice, or extracts
beside a packing, for only these two touch common state.  A file that cannot be parsed
still becomes the current buffer; if it comes in behind the archive on display, the rows
are checked against its bytes, an exception that `VerifiedMeansIntact` makes.

## The runs

| Run | Shows | Bounds |
|---|---|---|
| `patch_apply` | type correctness, `OldOrNew`, `CleanRunInstalls`, `CleanRunSweeps`, `MissingAreCounted`, termination, refinement of `AtomicUpdate` | six files with one of each kind of entry, one of a refused path and one the patch does not name, 3 runs, 3 faults or kills |
| `generator` | `LogKept`, `ArchiveFaithful`, `ReadersAgree`, `AllArchived`, refinement of `ArchiveLog` | three files of 0 to 4 bytes or missing, two of them one file when their folder is extracted, buffer of 3 bytes, 2 slots, one change, any number of failed `fopen`s and allocations |
| `create_two_inputs` | violation: `AllArchived` with two input directories | two files in each, no change |
| `extraction` | `OneWriter`, `ExtractedWhole`, `ExistingKept`, `NoneRunsOn`, every call returns | two archives, of three entries and of two with a refused path, 1 to 3 threads, two calls, one fault or kill |
| `patch_creation` | `DeltaExact`, `PatchFaithful`, `ApplySafe`, `PatchTransforms`, termination | three paths, contents of one and two bytes, one of the paths refused by the applier and below another, one change by another program, lost ends of any write |
| `patch_unreadable_file` | violation: `DeletedIsGone`, a file that cannot be opened for a moment becomes a deletion | one unreadable file, no change |
| `binary_delta` | `EncodedSoFar`, `RoundTrip`, termination | old files of up to 4, new of up to 5, bases of up to 4 bytes; blocks of 2, literals of up to 2 |
| `gpu_batch` | `WrittenVerified`, `MissingAreCounted`, `CleanRunDelivers`, `CudaFits`, termination | three archives of up to four entries, one with a refused path, batches of 1, 2 and 4, one or two threads, two faults |
| `mount` | `TreeFaithful`, `DataServed`, refinement of `Listing`, callbacks return | two archives, with refused, too big and too distant entries; three enumerations on a pool of two, two readers, one of each; two filters, two ranges; any read or allocation may fail |
| `storage_queue` | `LoadedOrFlagged`, `PatchDelivered`, calls return | a ring of 4, three calls, two faults, one timeout, an offset above the modulus |
| `page` | `VerifiedMeansIntact`, `ExtractsShown`, `PacksSelected` | five archives, three loads, two presses of one button, or an extraction beside a packing; any digest, read and picker may fail |
| `page_libpaf_archive` | violation: `IntactVerifies`, an archive written by libpaf does not verify in the page | one archive |

Why the bounds suffice.  Patch: entries are independent of each other except through directories, so
one entry of each kind covers the loop; a third run distinguishes what a second left from what the
first did, and three faults allow one in each.  Generator: two slots and three bytes make the batch
full by either measure before the three files are through, a four-byte file exceeds the whole
buffer, and a streamed file can come before, between and after batched ones.  Extraction: with two
threads the ranges are unequal, with three each has one entry; the two-byte file lets a kill or
another thread come between its bytes.  The sizes stay below the modulus `Word32`, beyond which the
code truncates sizes silently.  Patch creation: all pairs of directories over three paths, so every
mixture of kinds of entry; the hashes of the paths collide in maps of 4, 8 and 12 slots and run over
their ends; one content is a prefix of the other, so a file can change in between without its read
failing, and the longer is above the limit for deltas. Binary delta: a new file of five bytes is one
literal in three instructions, or two copies with a literal before, between or behind; two of the
four blocks share a hash and all hashes start at the last of four slots.  GPU: there are batches
after the first, so that buffers and descriptor pools meet a second and larger one; the memory sizes
make the quotient zero and run over the modulus, one batch has only empty files, and the third
archive begins with a refused path. Mount: three enumerations meet two places, so one is refused and
places are reused; the archives have names in two spellings, equal files, and both orders of a file
and a directory of one name; one file begins at the largest offset and another behind it.
DirectStorage: a ring of four makes the loader wait after two items and the engine after three, so
calls end before, at and after a full ring; a second and third call meet what a timeout or a failed
open has left.  Page: the third load can overlap with two others, the second press with the first;
one name belongs to two archives, one archive has a directory where another has a file, one bears
the name that is packed to, and a path is refused.

A run states the properties that say something about the code; each module's `TypeOK`
may be added to its configuration.

The three violations are findings about the code, each with the sentence it contradicts
in `PROJECT.json`: in the way input directories are combined, in what a momentary failure
to read becomes, and in the two meanings of `data_offset`, which `SPEC.md` counts from the start
of the file and libpaf from the end of the header.

Five more configurations are not runs of the project but are kept to be run by hand; TLC finds the
statement in each of them violated:

| Configuration | Statement violated | What it shows |
|---|---|---|
| `MCPatchApplyRetry.cfg` | `FailureMeansMissing` | applying an installed patch again returns an error |
| `MCPatchApplyCrt.cfg` | `CleanRunInstalls` | with a rename that refuses an existing target no update is installed |
| `MCPatchApplyTurnDir.cfg` | `CleanRunInstalls` | a directory that becomes a file is never installed |
| `MCGeneratorShrink.cfg` | `IndexFound` | an input that shrinks leaves an archive nobody can read |
| `MCBinaryDeltaSize.cfg` | `SizeVerified` | a base longer than the old file is accepted against `SPEC.md` §7; the result is hashed, so `OldOrNew` stands |

`IndexFound` is checked only where files may shrink.  Elsewhere it is part of
`ArchiveFaithful`, whose condition `~spoiled` excludes exactly the streams that ended
early and a failed last write.

Fairness.  `PatchApply!FairSpec` assumes that the running program takes its next step
(weak fairness of the loop); starting a run, faults and kills are never forced.
`Extraction!FairSpec` assumes the same of each thread separately, which is what the
operating system's scheduler gives to runnable threads; waiting in `Join` is a guard, so
the caller is not assumed to get past a thread that never ends.  `GpuBatch!FairSpec` is alike, for
the caller and each thread of a pool.  `PatchCreation!FairSpec` and
`BinaryDelta!FairSpec` assume that the one thread of the call is scheduled; other programs
are not obliged to do anything.  `Mount!FairSpec` assumes that a callback that runs goes on, each
by itself; a reader waiting for the critical section is not promised to get it, only that
whoever has it leaves.  `StorageQueue!Spec` assumes that the call goes on and that
the device works on what is submitted; a timeout need not happen.  `Page` and `Generator` have no
liveness property and assume no fairness.  No safety property depends on fairness.  Runs have
`CHECK_DEADLOCK FALSE` because a program that has returned has nothing left to do.

## Where the code departs from its documents

Some properties hold only because they leave out what the code does otherwise than the
documents say, or does silently.  Each says so in its comment; together these are:

| Code | What it does | Left out by |
|---|---|---|
| `libpaf_core.c:291`, `paf_extractor_gpu.c:500-502` | an archive with an unsafe path "must be rejected" (`SPEC.md:142`, `:206`); the entry is skipped, the others are extracted and 0 is returned | `ExtractedWhole`, `CleanRunDelivers` promise full delivery only of archives without such a path, and that the entry is not written |
| `paf_generator.c:84,122,188` | `SPEC.md:192` has `data_size` and `data_offset` 0 in an index-only archive; the code records the sizes | `ArchiveFaithful` |
| `libpaf_list.c:48-104` | `SPEC.md:186` says an index-only archive has no file data; the exported index keeps the data block in front of its index | `ReadersAgree` compares the lists only |
| `libpaf_core.c:195,244`, `paf_generator.c:65,153` | a file that cannot be opened, or for which an allocation fails, is missing in an archive reported as written | `AllArchived` (`dropped`); for patches it is the finding of `patch_unreadable_file` |
| `libpaf_core.c:301-304,319` | any failure of the `fopen` that looks for a file is taken for its absence, and the file is emptied although `overwrite` is 0 | `ExistingKept` (`missed`) |
| `libpaf_core.c:501,518,544,558,572` | writes to the temporary files of a patch are not checked; the offsets of later entries are then wrong and 0 is returned | `PatchFaithful`, `ApplySafe`, `PatchTransforms` (`lost`) |
| `libpaf_patch.c:163-171` | paths with two dots in a row anywhere, or too long, are refused, though patches with them are made (`SPEC.md:142` forbids `..` components only, `:143` allows 4095 bytes) | `CleanRunInstalls`, `PatchTransforms` |
| `libpaf_extract.c:106` | the path behind the name of a folder is taken without its separator, so `d/b` and `db` become one file | `ReadersAgree` (the later one stands) |
| `paf_extractor.c:134` | a 64-bit offset goes through a `long`, 32 bits wide on Windows | `DataServed` |
| `paf_extractor.c:102-118` | a file of the same path and content in the current directory makes the extractor succeed without data | `DataServed` |
| `paf_patch_dstorage.cpp:112` | the place in the data block, cut to 32 bits (`paf_delta.c:75,101`), is used as one in the file, 32 bytes early | `PatchDelivered` speaks of the bytes requested |
| `app.js:191-194` | an intact entry counts as an error when its digest cannot be computed, as on a page without a secure context | `VerifiedMeansIntact` (`errs`) |
| `app.js:218-242`, `libpaf_core.c:291-320` | entries that are refused, do not find memory or meet a leftover of an earlier extraction are missing in the picked directory with a message of success; packing replaces an archive named `created.paf` in the module | `ExtractsShown` |

## The proofs

`PatchApply_proof` proves, from the named assumptions of `PatchApply` only (contents are
distinct from `Absent`, `Dir`, `Torn`; the patch names files of the snapshots and marks as
deleted exactly those the new one lacks; no file has the name of a stage):

- `TypeCorrect`, `Atomicity` (`[]OldOrNew`) and `Invariance` (`[]IInv`);
- `Refinement`: `Spec => ImplementsAtomicUpdate`;
- `Convergence` and `Sweeping`: under `Flat`, `[]CleanRunInstalls` and `[]CleanRunSweeps`;
- `Counting`: if the patch names every differing file, `[]MissingAreCounted`.

`OldOrNew` is not inductive: a rename could install a stage about which nothing is known.
`IInv` adds what the code establishes on the way: in the body the index is in range and
the entry of the right kind (`InBody`), and at the rename the stage holds the new content
(`RenameIsVerified`).  The lemma `Effect` says that a step either changes no file of the
snapshots, or installs the current one; `IInv` and the refinement both follow from it.

`CInv` adds what a clean run needs: directories and files do not get in each other's way
(`DirsClear`), the entries before `i` are done (`PrefixDone`), and a stage that will fail the
comparison belongs to a file that an earlier run had already installed (`StageExplained`) - the
reason why retrying a delta is harmless although it produces garbage, and that no refused file has a
stage (`RefusedUnstaged`).  `Frame` bounds what a step touches, `DoneStays` and `DoneByStep` carry
`PrefixDone` through a step.  `Flat` collects the conditions under which a clean run is promised to
succeed at all; each of its first two kinds of exception is a configuration above.

`Counting` needs none of them.  `CountInv` says during a run that the error count is no
smaller than the number of files that are `Missed`, named by an entry the loop has passed
and still without their new content.  An entry adds at most its own file
(`OneMoreNamed`), an installation is never undone (`NoneMoreMissed`), and an entry is left
undone only where the code counts it (`StepCountInv`).

It also proves about `BinaryDelta`: `EncodedSoFar`, `RoundTrip`, `NeverRefused` and
`BlocksFound` for every pair of
files, every base, block size, limit of literals, table and hash function.  The invariant
of the encoder adds to `EncodedSoFar` that a block found in the table lies inside the old
file and is still the one that will be copied when the literal before it has been emitted
(`TableInside`, `AtBlock`).  `PieceAdded` extends the pieces by one; `ChunkStep` is why
counting by division agrees with the loop that emits.  The decoder's `Played` says that
the output reaches to where the piece before `at` ends; `PiecePlayed` carries it on by
joining adjacent parts of the new file.  For the table, `InsertKeeps` says that an
insertion neither takes a slot from another hash nor a free one that the way to it passes.
`NeverRefused` says that the decoder's own tests never fail on the encoder's instructions.
`BlocksFound` concerns the size of deltas, not what they say; neither has a run of its own.

`DeltaResultsAreRight` joins the two: `PatchApply` plays a delta in one step and takes
from `DeltaResults` what may come out, and every outcome of `BinaryDelta` is among them.
`Describes` says which runs of `BinaryDelta` are those of one entry over one content,
`Stands` what its output is called in `PatchApply`.

`PatchCreation_proof` first proves `Exactness`: for indices of any length and any hash
function, `[]DeltaExact`, also when the function is called again and again.  It assumes
that the hash of a path is a natural number (`PathHashAssumption`) and that an index names
no path twice (`IsList`), which holds for the indices of one directory.  `DeltaExact`
speaks of the last state of a call; the inductive `DeltaInv` has one part per loop.
`MapHolds`: the
map holds the entries inserted so far, each once, and the way from the first slot of a
path to its entry has no free slot (`InMap`); a lookup that reaches a free slot has
therefore missed nothing.  In the second loop the used slots are exactly those that the
old entries so far meet (`MetBy`) and the results are exactly their contributions, in the
third those of the slots so far (`FromOld`, `FromMap`).  `InsertStep`, `LookupStep` and
`SweepStep` are the three loops, `Complete` says that the contributions add up to the
difference.  That the loops end is checked (`Returns`), not proved.

On it rest `PatchFaithful`, `ApplySafe` and `PatchTransforms`, for any two directories, any limit
above which files are stored whole, and any changes and unreadable files.  They assume that a
directory lists every path once and that every part of a content has a hash (`PathAssumption`: a
file may be cut where it was measured).  Each speaks of the file `out`, the last thing that is
written; `Inv` follows what becomes of a directory until then.  `ReadInv`: the entries of a snapshot
so far are those of the files passed so far (`Passed`), and record a content the file has, or had
before it was `changed` (`Records`). `SnapInv`: the two lists compared are the two snapshots.
`PatchInv`: the first entries of the patch tell of the first results, and their offsets lead into
what was written for them (`Filled`, `Tells`), unless an error was counted or bytes for a temporary
file were lost. `OutInv`: what is in `out` is then a beginning of the finished file.  `Layout` (in
`Ranges`) then reads header, data, index and paths off it, as a reader does.

`Generator_proof` proves `LogKept`, `GeneratorImplementsLog` (`ImplementsArchiveLog`) and
`ArchiveFaithful` for every size of the buffer and of the slots, any files and any changes of them.
It assumes what `Generator` names of its constants (at least one root, a positive buffer, number of
slots and modulus).  None of the three is inductive, for they speak of the files, and the code only
knows offsets.  `Inv` says what the offsets mean: `GenOK`, the counters are the lengths of the
temporary files; `Kept`, the entries written so far lead to, and the slots of the batch hold,
exactly the files handed over (`Handed`), in order, from the slot that is flushed next.  The lemma
`EmitWrites` says that writing a file adds an entry leading to it and leaves the earlier ones
leading where they did (`AtStays`: what is appended behind a string does not move it); `FlushKeeps`,
`EmitKeeps` and `BatchKeeps` carry `Kept` through the operations of the generator, `LogIs` reads the
promise's log off it.  `Layout` follows the header of a closed archive to its parts, and
`ReadersFind` concludes that a reader that goes through header, entry and offsets arrives at the
file.  `AllArchivedAlways` adds, for one root and inputs that do not change, that what was collected
stands (`EntriesStand`) and that, as long as nothing was dropped, the first `Taken` of it are what
was handed over (`TakenInv`).  `ReadersAgreeAlways` is for one root as well: two input directories
may hold files of one path, and then asking for a path and extracting a folder need not give the
same.  `NamesInv` says that no path is collected or handed over twice; it rests on what
`RootAssumption` says of directories (a name occurs once, a relative path begins with a name).  For
the folder, `GrownUpTo` follows the tree that `ExtractFolder` builds entry by entry: as long as no
file of it takes the place of a directory (`Fitting`), it holds after `m` entries the last of each
target (`LastUpTo`) and the directories above them (`DirsUpTo`).

`Extraction_proof` proves `OneWriter`, `ExistingKept`, `NoneRunsOn` and `ExtractedWhole` for every
archive and number of threads, the first and the last for archives of different paths.  A thread
opens a file that was there before only with `overwrite` or after it has looked for it in vain
(`Allowed`).  Its arithmetic is in `Ranges`: the cuts `t * n \div m` are ordered, so the ranges of
two threads are disjoint, inside the archive and together all of it. `ExtractedWhole` needs to know,
in the middle of a call, which entries are `Done`, which one each thread is `At`, and that
everything else is still what it was when the call began (`WholeInv`); that two threads are never at
the same path comes from the disjoint ranges and the distinct paths.

`GpuBatch_proof` proves `WrittenVerified` and `CudaFits`.  Their invariant relates the four arrays of
a batch: a hash in its place is that of what was read (`Hashed`, `AllAreHashed`), an
entry in `hashOk` has the content of the index unless it is `blind` (`FoundRight`),
and a thread works inside the batch (`AtWork`).

`MissingAreCounted` and `CleanRunDelivers` compare a number with a set of files, so
`CountInv` keeps the set: the two counters together are the number of the entries of
earlier batches that were counted (`Past`) and of those of the running batch that are
counted by now (`Counted`: the ones not read, once phase 1 is over; the ones without a
right hash, once they were compared).  `Thread` says the same of a thread of phase 3: its
own counter is the number of the files it failed to write, and the files behind it are
untouched.  When the thread or the batch ends, the two sets are disjoint and the numbers
add up.  For a clean run each part says in addition that the thing was done right.
The directory to which a file belongs is never `Absent` (`ValueAssumption`).

`Mount_proof` proves `DataServed`, `ImplementsListing` and `TreeFaithful` for every archive, pool
and number of callbacks; `Listing` has the end of an enumeration, so the second includes that nobody
is told too early that all was shown.  The first two rest on `Mounting`, which holds `GoodTree`:
every name in a directory's list is a node, every node's index is an entry.  `Insert` is a recursive
function over the components of a path, and `InsertGood` carries `GoodTree` through it. For reads,
`AtReader` says what the one that is inside the critical section has found so far, among others that
the file position is the one it sought; for walks, `Ids`, `AtSession` and `AtScan` say that a place
belongs to one enumeration and that what was shown is what lies before the cursor and matches,
`Unheld` that an ended walk has shown nothing.  For `TreeFaithful`, `TreeAt` says of the tree of the
first entries that every node was made by the first of them that passes through it (`MadeBy`), a
directory's if that entry lies below it, that the prefixes of what was inserted are there, and that
a node is listed once by its parent; `Grown` carries this through one `Insert`, component by
component.

The same module proves about `Page`, from `FileAssumption` (the entries of an archive and the files
selected are lists, a file has a name), `VerifiedMeansIntact`, `ExtractsShown` and `PacksSelected`
for any archives, loads and presses.  `Counting` says of a verification that nothing disturbed that
its number of errors is that of the entries it is past which are bad or whose digest failed
(`Failing`), and that the digest it awaits is right or wrong as the entry is; a table has a number
of its own, so a handler that outlives its table marks nothing (`Displayed`, `MarkInv`).  `GoOnIs`
says where a handler comes to next, `GoOnVerify` carries the invariant through it.  For
`ExtractsShown`, `LoadInv` says that without overlap the name, the buffer and the file in the module
belong to one archive unless it was packed over, `UnpackingStep` that one entry written to `/out`
neither replaces nor blocks a path that was not in the way, and `CopyOf` that each such file is
copied or still lies in `/out`.  `Read` says the same of the files that a packing run has read so
far.

`StorageQueue_proof` proves `LoadedOrFlagged` and `PatchDelivered` for every size of the
queue, any calls and any failures.  It assumes that the regions of one call do not overlap
in the destination (`CallsAssumption`; `paf_extractor_gpu.c:503` lays them out so); of a
delta it need not, for the engine packs them itself (`PackedUp`, `PlacesApart`).  `ItemsInv`
is the heart of `IInv`: every item that was looked at is `Through` (skipped, flagged, in
its place, or lost before an event) or `Underway` in the batch that is not yet waited for.
It is carried over the end of a wait by `WaitInv`, the answer to a wait means that the
queue is empty, which needs that the event belongs to this wait: `MarksInv`, there is one
mark at most, at the end of the queue, while it is waited for.  That holds only if no wait
for an event was given up before (`Sound`), the exception that the property makes too.
`ReadsInv` keeps what earlier calls have left in front of what this call has enqueued.

Induction.  Theorems that take an operator as a parameter cannot be used with these
provers.  Where a number has to be climbed (sums, cuts, the components of a path, the
entries collected, the places of packed items) the proofs use a set of numbers and its
least element (`NatInductionOn` in `Ranges`), which needs no such parameter.

Only model-checked: `RunEnds`, the two `Returns`, the two `CallsReturn`,
`CallbacksReturn` and `Terminates`, for liveness is beyond the prover.

## Not modelled

- `paf_patch_apply` and `paf_patch_apply_from_dir`, which overwrite in place: they promise
  nothing about a failure, and without one they do what the atomic application does.
- Failing writes to the generator's temporary files: `flush_batch` then returns with the
  batch half released, and what follows is undefined behaviour of memory, listed as a
  hazard.
- Memory that runs out inside the delta encoder or while the mount builds its tree.
- Path strings beyond what the properties tell apart and ignore rules; a path that is too
  long is one that is refused.
- Archives whose index or paths begin 2 GiB or more into the file, in the mount.
- Changes of a file between the reads of its base and its target for one delta; power
  failures, as opposed to killed processes; concurrent appliers of one patch; two archive
  entries with one path.
- The detection of NVMe drives and ReFS volumes, the access rights of new files, the
  description of the graphics card, shaders and kernels, drivers; sizes of 4 GiB and more
  in DirectStorage requests.
- Times and attributes of placeholders and the command line of the mount; drag and drop, tabs and
  translations of the page.
- The command line tools, the shell extension and the viewer, and the language bindings:
  one library call per run or per message, with marshalling around it.  The viewer's stale
  list is listed as a hazard.
- SHA-256 itself, which is an injective function here; scripts; vendored headers and
  binaries.

## Plan

What is left, in order of importance:

1. The join of `BinaryDelta` with the one-cell delta of `PatchCreation`, in the way of
   `DeltaResultsAreRight`.
2. In-place application of a patch against `AtomicUpdate` up to kills; two entries of one
   path in `Extraction`; failing memory in `BinaryDelta!EmitLiteral`.
