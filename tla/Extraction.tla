----------------------------- MODULE Extraction -----------------------------
(***************************************************************************)
(* paf_extract_binary (libpaf/src/libpaf_core.c): the entries of an        *)
(* archive are cut into one range per thread and every thread writes the   *)
(* files of its range below the output directory, which all threads share. *)
(* The process may be killed and the extraction called again.              *)
(*                                                                         *)
(* Directories on the way to a file always can be made; a file that cannot *)
(* be opened, read, buffered or written is a fault.                        *)
(***************************************************************************)
EXTENDS Integers, Sequences, FiniteSets

CONSTANTS
    Paths,      \* the paths an entry may have
    Unsafe,     \* those paf_is_path_safe refuses
    Archives,   \* archives, each a sequence of entries [path, data]
    Absent,     \* no file at a path
    MaxCpu,     \* bound: the processors, at most EXTRACT_THREADS_MAX
    MaxCalls,   \* bound: calls of paf_extract_binary
    MaxFaults   \* bound: faults

ASSUME EntryAssumption ==
    /\ Unsafe \subseteq Paths
    /\ Archives \subseteq Seq([path : Paths, data : Seq(Nat)])
ASSUME BoundAssumption ==
    MaxCpu \in Nat \ {0} /\ MaxCalls \in Nat /\ MaxFaults \in Nat

Threads == 0..MaxCpu - 1

VARIABLES
    archive,    \* the index of the archive that is extracted
    fs,         \* fs[p]: the bytes of the file at p, or Absent
    nt,         \* the number of ranges
    worker,     \* worker[t]: the thread of range t
    main,       \* the calling thread
    overwrite,  \* the argument of the call
    calls,      \* the calls made
    before,     \* history: fs at the start of the call
    faults,     \* history: faults so far
    clean,      \* history: no fault since the start of the call
    missed      \* history: the paths a file was looked for at in vain

vars == <<archive, fs, nt, worker, main, overwrite, calls, before, faults, clean, missed>>

N == Len(archive)

\* The range of thread t: entries First(t) .. Last(t) (counted from 1).
First(t) == (t * N) \div nt + 1
LastShared(t) == IF t = nt - 1 THEN N ELSE ((t + 1) * N) \div nt + 1  \* mutant: ranges overlap
Last(t)  == IF t = nt - 1 THEN N ELSE ((t + 1) * N) \div nt

\* A thread and where it is: its next entry and its position in the file.
Idle == [pc |-> "idle", i |-> 0, pos |-> 0]
Running(t) == worker[t].pc \notin {"idle", "ended"}
Entry(t) == archive[worker[t].i]

Fault == faults < MaxFaults /\ faults' = faults + 1 /\ clean' = FALSE
NoFault == UNCHANGED <<faults, clean>>

Goto(t, pc) == worker' = [worker EXCEPT ![t].pc = pc]
NextEntryAgain(t) == Goto(t, "entry")  \* mutant: the index stays
NextEntry(t) == worker' = [worker EXCEPT ![t] = [pc |-> "entry", i |-> @.i + 1, pos |-> 0]]

(***************************************************************************)
(* The calling thread.                                                     *)
(***************************************************************************)
\* One thread per processor, at most one per entry; one, the caller, if
\* there is no memory for the contexts.
ThreadsFor(cpu, n) == IF cpu > n THEN n ELSE cpu

\* The index is read.
Call ==
    /\ main.pc = "none" /\ calls < MaxCalls
    /\ archive' \in Archives
    /\ \E cpu \in 1..MaxCpu : nt' = ThreadsFor(cpu, Len(archive'))
    /\ overwrite' \in BOOLEAN
    /\ calls' = calls + 1
    /\ before' = fs /\ clean' = TRUE /\ missed' = {}
    /\ main' = [pc |-> "create", t |-> 0]
    /\ UNCHANGED <<fs, worker, faults>>

\* pthread_create, or, if it fails, the range is run by the caller, which
\* creates the next thread only when it is through.
CreateThread ==
    /\ main.pc = "create" /\ main.t < nt
    /\ worker' = [worker EXCEPT ![main.t] = [pc |-> "open", i |-> First(main.t), pos |-> 0]]
    /\ \/ main' = [main EXCEPT !.t = @ + 1]
       \/ main' = [main EXCEPT !.pc = "inline"]
    /\ UNCHANGED <<archive, fs, nt, overwrite, calls, before, faults, clean, missed>>

InlineEnds ==
    /\ main.pc = "inline" /\ worker[main.t].pc = "ended"
    /\ main' = [pc |-> "create", t |-> main.t + 1]
    /\ UNCHANGED <<archive, fs, nt, worker, overwrite, calls, before, faults, clean, missed>>

AllCreated ==
    /\ main.pc = "create" /\ main.t = nt
    /\ main' = [pc |-> "join", t |-> 0]
    /\ UNCHANGED <<archive, fs, nt, worker, overwrite, calls, before, faults, clean, missed>>

JoinableAtOnce(t) == worker[t].pc # "idle"  \* mutant: nobody waits
Joinable(t) == worker[t].pc = "ended"

Join ==
    /\ main.pc = "join" /\ main.t < nt /\ Joinable(main.t)
    /\ main' = [main EXCEPT !.t = @ + 1]
    /\ UNCHANGED <<archive, fs, nt, worker, overwrite, calls, before, faults, clean, missed>>

\* paf_extract_binary returns 0, whatever the threads met.
Return ==
    /\ main.pc = "join" /\ main.t = nt
    /\ main' = [pc |-> "returned", t |-> 0]
    /\ UNCHANGED <<archive, fs, nt, worker, overwrite, calls, before, faults, clean, missed>>

\* The program goes on to another call.
Again ==
    /\ main.pc = "returned"
    /\ main' = [pc |-> "none", t |-> 0]
    /\ worker' = [t \in Threads |-> Idle]
    /\ UNCHANGED <<archive, fs, nt, overwrite, calls, before, faults, clean, missed>>

(***************************************************************************)
(* A worker.                                                               *)
(***************************************************************************)
OpenArchive(t) ==
    /\ worker[t].pc = "open"
    /\ \/ Goto(t, "entry") /\ NoFault
       \/ Goto(t, "ended") /\ Fault
    /\ UNCHANGED <<archive, fs, nt, main, overwrite, calls, before, missed>>

Ended(t) ==
    /\ worker[t].pc = "entry" /\ worker[t].i > Last(t)
    /\ Goto(t, "ended")
    /\ UNCHANGED <<archive, fs, nt, main, overwrite, calls, before, faults, clean, missed>>

KeptAlways(p) == fs[p] # Absent  \* mutant: overwrite is ignored
KeptNever(p) == FALSE            \* mutant: existing files are not looked for
Kept(p) == ~overwrite /\ fs[p] # Absent

\* The path is read and checked and, unless overwrite, an existing file is
\* left alone; a fault is a failed read.
Check(t) ==
    /\ worker[t].pc = "entry" /\ worker[t].i <= Last(t)
    /\ \/ /\ IF Entry(t).path \in Unsafe \/ Kept(Entry(t).path)
             THEN NextEntry(t) ELSE Goto(t, "create")
          /\ NoFault
       \/ NextEntry(t) /\ Fault
    /\ UNCHANGED <<archive, fs, nt, main, overwrite, calls, before, missed>>

\* The fopen that looks for a file fails although there is one: no descriptor
\* is free, or the file may not be read.  It is taken for absent.
LookInVain(t) ==
    /\ worker[t].pc = "entry" /\ worker[t].i <= Last(t)
    /\ Entry(t).path \notin Unsafe /\ Kept(Entry(t).path)
    /\ missed' = missed \union {Entry(t).path}
    /\ Goto(t, "create") /\ Fault
    /\ UNCHANGED <<archive, fs, nt, main, overwrite, calls, before>>

\* fopen(fullpath, "wb") creates or empties the file; a fault is a failed
\* allocation or seek before it, or its own.
OpenFile(t) ==
    /\ worker[t].pc = "create"
    /\ \/ /\ fs' = [fs EXCEPT ![Entry(t).path] = <<>>]
          /\ Goto(t, "write") /\ NoFault
       \/ NextEntry(t) /\ Fault /\ UNCHANGED fs
    /\ UNCHANGED <<archive, nt, main, overwrite, calls, before, missed>>

\* The next byte goes to the thread's own position in the file, which other
\* threads may have emptied or extended; a gap reads as zeros.
Put(bytes, pos, b) ==
    [j \in 1..(IF Len(bytes) > pos THEN Len(bytes) ELSE pos + 1) |->
        IF j = pos + 1 THEN b ELSE IF j <= Len(bytes) THEN bytes[j] ELSE 0]
Write(t) ==
    LET w == worker[t]
        p == Entry(t).path
    IN  /\ w.pc = "write" /\ w.pos < Len(Entry(t).data)
        /\ \/ /\ fs' = [fs EXCEPT ![p] = Put(@, w.pos, Entry(t).data[w.pos + 1])]
              /\ worker' = [worker EXCEPT ![t].pos = @ + 1]
              /\ NoFault
           \/ NextEntry(t) /\ Fault /\ UNCHANGED fs
        /\ UNCHANGED <<archive, nt, main, overwrite, calls, before, missed>>

CloseFile(t) ==
    /\ worker[t].pc = "write" /\ worker[t].pos = Len(Entry(t).data)
    /\ NextEntry(t)
    /\ UNCHANGED <<archive, fs, nt, main, overwrite, calls, before, faults, clean, missed>>

\* The process is killed: what reached the files stays.
Crash ==
    /\ main.pc \in {"create", "inline", "join"} /\ Fault
    /\ main' = [pc |-> "none", t |-> 0]
    /\ worker' = [t \in Threads |-> Idle]
    /\ UNCHANGED <<archive, fs, nt, overwrite, calls, before, missed>>

Init ==
    /\ archive \in Archives
    /\ fs \in [Paths -> {Absent, <<0>>}]
    /\ nt = 1 /\ worker = [t \in Threads |-> Idle]
    /\ main = [pc |-> "none", t |-> 0]
    /\ overwrite = FALSE /\ calls = 0
    /\ before = fs /\ faults = 0 /\ clean = TRUE /\ missed = {}

WorkerStep(t) ==
    \/ OpenArchive(t) \/ Ended(t) \/ Check(t) \/ LookInVain(t)
    \/ OpenFile(t) \/ Write(t) \/ CloseFile(t)
MainStep == Call \/ CreateThread \/ InlineEnds \/ AllCreated \/ Join \/ Return \/ Again

Next == MainStep \/ (\E t \in Threads : WorkerStep(t)) \/ Crash

Spec == Init /\ [][Next]_vars

\* The operating system runs every thread that can run.
FairSpec == Spec /\ WF_vars(MainStep) /\ \A t \in Threads : WF_vars(WorkerStep(t))

-----------------------------------------------------------------------------
(***************************************************************************)
(* Properties                                                              *)
(***************************************************************************)
Bytes == {0} \union
    UNION {UNION {{a[k].data[j] : j \in 1..Len(a[k].data)} : k \in 1..Len(a)} : a \in Archives}

\* Every variable has its type, and a thread never looks at an entry beyond
\* the index that was read.
TypeOK ==
    /\ \A p \in Paths : fs[p] # Absent => \A j \in 1..Len(fs[p]) : fs[p][j] \in Bytes
    /\ nt \in 0..MaxCpu
    /\ \A t \in Threads :
           /\ worker[t].pc \in {"idle", "open", "entry", "create", "write", "ended"}
           /\ worker[t].pc = "entry" /\ worker[t].i <= Last(t) => worker[t].i \in 1..N
    /\ main.pc \in {"none", "create", "inline", "join", "returned"}
    /\ main.t \in 0..nt
    /\ calls \in 0..MaxCalls /\ faults \in 0..MaxFaults
    /\ archive \in Archives /\ missed \subseteq Paths

Unique == \A j, k \in 1..N : archive[j].path = archive[k].path => j = k

\* libpaf_core.c:409-410: the ranges never make two threads open the same
\* file, so no file is emptied or written by one thread under another.
OneWriter ==
    Unique => \A t, u \in Threads :
        /\ worker[t].pc \in {"create", "write"} /\ worker[u].pc \in {"create", "write"}
        /\ Entry(t).path = Entry(u).path
        => t = u

\* paf_extract_binary, when nothing fails: the threads together do what one
\* thread would, every entry is extracted whole, files that were there are
\* replaced only with overwrite, and nothing else changes.  An archive with an
\* unsafe path "must be rejected" by SPEC.md:142,206; the code (libpaf_core.c:291)
\* skips the entry, extracts the others and returns 0.  Of such an archive
\* only that no file at an unsafe path is touched is claimed.
Conforming == \A k \in 1..N : archive[k].path \notin Unsafe
Promised(p) ==
    IF ~overwrite /\ before[p] # Absent THEN before[p]
    ELSE IF \E k \in 1..N : archive[k].path = p
    THEN (CHOOSE e \in {archive[k] : k \in 1..N} : e.path = p).data
    ELSE before[p]
ExtractedWhole ==
    main.pc = "returned" /\ clean /\ Unique =>
        /\ Conforming => \A p \in Paths : fs[p] = Promised(p)
        /\ \A p \in Unsafe : fs[p] = before[p]

\* Without overwrite, a file that was there when the call began is the same
\* at every moment up to the next call, also if reads, writes or threads fail
\* or the process is killed.  The exception is a file that the code looked for
\* in vain (libpaf_core.c:301-304): fopen failed, for whatever reason, and the
\* file is emptied and extracted over at :319 as if it were not there.
ExistingKept ==
    ~overwrite =>
        \A p \in Paths : before[p] # Absent /\ p \notin missed => fs[p] = before[p]

\* libpaf_core.c:414-416: the caller returns, and frees the contexts the
\* threads use, only when every thread has ended.
NoneRunsOn == main.pc = "returned" => \A t \in Threads : ~Running(t)

\* Every call returns, unless the process is killed first: the caller's
\* waiting and the threads it runs itself never stop it for good.
CallsReturn == main.pc = "create" ~> main.pc \in {"returned", "none"}

=============================================================================
