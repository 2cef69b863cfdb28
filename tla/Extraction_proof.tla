-------------------------- MODULE Extraction_proof --------------------------
(***************************************************************************)
(* Proofs about Extraction, for every archive, every number of threads and *)
(* every number of calls, faults and crashes.                              *)
(***************************************************************************)
EXTENDS Extraction, Ranges, SequenceTheorems, TLAPS

Labels == {"idle", "open", "entry", "create", "write", "ended"}
MainLabels == {"none", "create", "inline", "join", "returned"}

\* The types the steps below need.
Types ==
    /\ nt \in 0..MaxCpu /\ (nt = 0 => N = 0)
    /\ worker \in [Threads -> [pc : Labels, i : Nat, pos : Nat]]
    /\ main \in [pc : MainLabels, t : Nat]
    /\ DOMAIN fs = Paths /\ DOMAIN before = Paths
    /\ archive \in Archives

\* A thread that runs has a range and is inside it.
InRange ==
    \A t \in Threads :
        /\ worker[t].pc # "idle" => t < nt
        /\ Running(t) => First(t) <= worker[t].i
        /\ worker[t].pc \in {"create", "write"} => worker[t].i <= Last(t)

\* Threads that were not created are idle, those that were joined have ended.
Order ==
    \A t \in Threads :
        /\ main.pc = "none" => worker[t].pc = "idle"
        /\ main.pc = "create" => main.t <= nt /\ (t >= main.t => worker[t].pc = "idle")
        /\ main.pc = "inline" => main.t < nt /\ (t > main.t => worker[t].pc = "idle")
        /\ main.pc = "join" => main.t <= nt /\ (t < main.t => worker[t].pc = "ended")
        /\ main.pc = "returned" /\ t < nt => worker[t].pc = "ended"

\* A file is opened only if none was there, or by leave of overwrite.
Allowed ==
    \A t \in Threads :
        worker[t].pc \in {"create", "write"} /\ ~overwrite =>
            before[Entry(t).path] = Absent \/ Entry(t).path \in missed

\* What holds in every state, whatever the archive.
Inv == Types /\ InRange /\ Order /\ Allowed /\ ExistingKept

LEMMA TypeConstants ==
    ASSUME Types
    PROVE  /\ N \in Nat /\ MaxCpu \in Nat \ {0}
           /\ \A k \in 1..N : archive[k].path \in Paths /\ archive[k].data \in Seq(Nat)
           /\ \A t \in Threads : t \in Nat
<1>1. archive \in Seq([path : Paths, data : Seq(Nat)])
  BY EntryAssumption DEF Types
<1>2. Len(archive) \in Nat /\ \A k \in 1..Len(archive) : archive[k] \in [path : Paths, data : Seq(Nat)]
  BY <1>1, ElementOfSeq, LenProperties
<1>3. QED
  BY <1>2, BoundAssumption DEF N, Threads

LEMMA Constants ==
    ASSUME Inv
    PROVE  /\ N \in Nat /\ MaxCpu \in Nat \ {0}
           /\ \A k \in 1..N : archive[k].path \in Paths /\ archive[k].data \in Seq(Nat)
           /\ \A t \in Threads : t \in Nat
BY TypeConstants DEF Inv

\* The ranges of the module are those of Ranges, counted from 1.
LEMMA RangeIsCut ==
    ASSUME Types, NEW t \in Nat, t < nt
    PROVE  First(t) = Cut(t, N, nt) + 1 /\ Last(t) = Cut(t + 1, N, nt)
<1>1. nt \in Nat \ {0} /\ N \in Nat
  BY TypeConstants DEF Types
<1>2. Cut(nt, N, nt) = N
  BY <1>1, CutsInOrder
<1>3. t = nt - 1 => t + 1 = nt
  BY <1>1
<1>4. QED
  BY <1>1, <1>2, <1>3 DEF First, Last, Cut

\* An entry in a range is in the archive and in no other range.
LEMMA RangeFacts ==
    ASSUME Types, NEW t \in Nat, t < nt
    PROVE  /\ First(t) \in 1..N + 1 /\ Last(t) \in 0..N
           /\ \A u \in Nat : u < nt /\ t < u => Last(t) < First(u)
<1>1. nt \in Nat \ {0} /\ N \in Nat /\ t \in 0..nt - 1
  BY TypeConstants DEF Types
<1>2. First(t) = Cut(t, N, nt) + 1 /\ Last(t) = Cut(t + 1, N, nt)
  BY RangeIsCut
<1>3. Cut(t, N, nt) \in Nat /\ Cut(t + 1, N, nt) \in Nat /\ Cut(t + 1, N, nt) <= N
  BY <1>1, RangesInside
<1>4. Cut(t, N, nt) <= Cut(t + 1, N, nt)
  BY <1>1, CutsInOrder
<1>5. ASSUME NEW u \in Nat, u < nt, t < u
      PROVE  Last(t) < First(u)
  <2>1. First(u) = Cut(u, N, nt) + 1
    BY <1>5, RangeIsCut
  <2>2. Cut(t + 1, N, nt) <= Cut(u, N, nt)
    BY <1>1, <1>5, RangesDisjoint
  <2>3. Cut(u, N, nt) \in Nat
    BY <1>1, <1>5, CutsInOrder
  <2>4. QED
    BY <1>2, <1>3, <2>1, <2>2, <2>3
<1>6. QED
  BY <1>1, <1>2, <1>3, <1>4, <1>5

-----------------------------------------------------------------------------

\* Before the first call everything is in order.
LEMMA InitInv == Init => Inv
<1>1. SUFFICES ASSUME Init PROVE Inv
  OBVIOUS
<1>2. Types
  BY <1>1, BoundAssumption DEF Init, Types, Idle, Labels, MainLabels
<1>3. InRange /\ Order /\ Allowed
  BY <1>1, <1>2, TypeConstants DEF Init, InRange, Order, Allowed, Idle, Running
<1>4. ExistingKept
  BY <1>1 DEF Init, ExistingKept
<1>5. QED
  BY <1>2, <1>3, <1>4 DEF Inv

\* A call starts from threads that are all idle.
LEMMA CallInv ==
    ASSUME Inv, Call
    PROVE  Inv'
<1>0. archive' \in Archives /\ Len(archive') \in Nat
  BY EntryAssumption, LenProperties DEF Call
<1>1. nt' \in 0..MaxCpu /\ (nt' = 0 => N' = 0)
  BY <1>0, BoundAssumption DEF Call, ThreadsFor, N
<1>2. \A t \in Threads : worker'[t].pc = "idle"
  BY DEF Call, ThreadsFor, Inv, Order
<1>3. Types'
  BY <1>0, <1>1 DEF Call, ThreadsFor, Inv, Types, MainLabels
<1>4. InRange' /\ Allowed'
  BY <1>2 DEF InRange, Allowed, Running
<1>5. Order'
  BY <1>1, <1>2, Constants DEF Order, Call, ThreadsFor
<1>6. ExistingKept'
  BY DEF Call, ThreadsFor, ExistingKept
<1>7. QED
  BY <1>3, <1>4, <1>5, <1>6 DEF Inv

\* A thread starts at the first entry of its range, and was idle before.
LEMMA CreateThreadInv ==
    ASSUME Inv, CreateThread
    PROVE  Inv'
<1>1. main.t \in Threads /\ main.t < nt /\ main.t \in Nat
  BY Constants DEF CreateThread, Inv, Types, Threads
<1>2. First(main.t) \in Nat
  BY <1>1, RangeFacts, Constants DEF Inv
<1>3. Types'
  BY <1>1, <1>2 DEF CreateThread, Inv, Types, Labels, MainLabels
<1>4. InRange'
  BY <1>1, <1>2, SMTT(30) DEF CreateThread, Inv, Types, InRange, Running, First, Last, N
<1>5. Order'
  BY <1>1, Constants DEF CreateThread, Inv, Types, Order
<1>6. Allowed' /\ ExistingKept'
  BY <1>1 DEF CreateThread, Inv, Types, Allowed, ExistingKept, Entry
<1>7. QED
  BY <1>3, <1>4, <1>5, <1>6 DEF Inv

\* The calling thread waiting, going on or giving up.
LEMMA MainInv ==
    ASSUME Inv, InlineEnds \/ AllCreated \/ Join \/ Return \/ Again \/ Crash
    PROVE  Inv'
<1>1. /\ nt' = nt
      /\ worker' = worker \/ worker' = [t \in Threads |-> Idle]
  BY DEF InlineEnds, AllCreated, Join, Return, Again, Crash
<1>2. UNCHANGED <<archive, fs, before, overwrite, missed>>
  BY DEF InlineEnds, AllCreated, Join, Return, Again, Crash
<1>3. Types'
  <2>1. N' = N
    BY <1>2 DEF N
  <2>2. main' \in [pc : MainLabels, t : Nat]
    BY DEF InlineEnds, AllCreated, Join, Return, Again, Crash, Inv, Types, MainLabels
  <2>3. worker' \in [Threads -> [pc : Labels, i : Nat, pos : Nat]]
    BY <1>1 DEF Inv, Types, Idle, Labels
  <2>4. QED
    BY <1>1, <1>2, <2>1, <2>2, <2>3 DEF Inv, Types
<1>4. InRange' /\ Allowed'
  <2>1. CASE worker' = worker
    BY <1>1, <1>2, <2>1 DEF Inv, InRange, Allowed, Running, First, Last, N, Entry
  <2>2. CASE worker' = [t \in Threads |-> Idle]
    BY <2>2 DEF InRange, Allowed, Running, Idle
  <2>3. QED
    BY <1>1, <2>1, <2>2
<1>5. Order'
  BY <1>1, Constants
  DEF InlineEnds, AllCreated, Join, Joinable, Return, Again, Crash, Inv, Types, Order, Idle, Threads
<1>6. ExistingKept'
  BY <1>2 DEF Inv, ExistingKept
<1>7. QED
  BY <1>3, <1>4, <1>5, <1>6 DEF Inv

\* A thread that takes a step was running, moves on in its own place, opens
\* an entry only after the checks and touches only the file of its entry.
LEMMA WorkerMoves ==
    ASSUME Inv, NEW t \in Threads, WorkerStep(t)
    PROVE  /\ worker[t].pc \notin {"idle", "ended"}
           /\ UNCHANGED <<archive, nt, main, overwrite, before>>
           /\ missed \subseteq missed'
           /\ \E w \in [pc : Labels \ {"idle"}, i : Nat, pos : Nat] :
                 /\ worker' = [worker EXCEPT ![t] = w]
                 /\ worker[t].i <= w.i
                 /\ w.pc \in {"create", "write"} =>
                       /\ w.i = worker[t].i /\ w.i <= Last(t)
                       /\ worker[t].pc # "open"
                       /\ worker[t].pc = "entry" =>
                             ~Kept(Entry(t).path) \/ Entry(t).path \in missed'
           /\ \/ fs' = fs
              \/ /\ worker[t].pc \in {"create", "write"}
                 /\ \E b : fs' = [fs EXCEPT ![Entry(t).path] = b]
<1> DEFINE Moves(w) == /\ w \in [pc : Labels \ {"idle"}, i : Nat, pos : Nat]
                       /\ worker' = [worker EXCEPT ![t] = w]
                       /\ worker[t].i <= w.i
                       /\ w.pc \in {"create", "write"} =>
                             /\ w.i = worker[t].i /\ w.i <= Last(t)
                             /\ worker[t].pc # "open"
                             /\ worker[t].pc = "entry" =>
                                   ~Kept(Entry(t).path) \/ Entry(t).path \in missed'
<1>1. worker[t] \in [pc : Labels, i : Nat, pos : Nat]
  BY DEF Inv, Types
<1>2. worker[t].pc \in {"create", "write"} => worker[t].i <= Last(t)
  BY DEF Inv, InRange
<1>3. ASSUME NEW label \in {"entry", "create", "write", "ended"}, Goto(t, label),
             label \in {"create", "write"} =>
                /\ worker[t].i <= Last(t) /\ worker[t].pc # "open"
                /\ worker[t].pc = "entry" =>
                      ~Kept(Entry(t).path) \/ Entry(t).path \in missed'
      PROVE  \E w : Moves(w)
  <2>1. Moves([worker[t] EXCEPT !.pc = label])
    BY <1>1, <1>3 DEF Goto, Labels
  <2>2. QED
    BY <2>1
<1>4. ASSUME NextEntry(t)
      PROVE  \E w : Moves(w)
  <2>1. Moves([pc |-> "entry", i |-> worker[t].i + 1, pos |-> 0])
    BY <1>1, <1>4, SMT DEF NextEntry, Labels, Inv, Types
  <2>2. QED
    BY <2>1
<1>5. CASE OpenArchive(t)
  BY <1>3, <1>5 DEF OpenArchive
<1>6. CASE Ended(t)
  BY <1>3, <1>6 DEF Ended
<1>7. CASE Check(t)
  <2>1. (Goto(t, "create") /\ ~Kept(Entry(t).path) /\ worker[t].i <= Last(t)) \/ NextEntry(t)
    BY <1>7 DEF Check
  <2>2. worker[t].pc = "entry"
    BY <1>7 DEF Check
  <2>3. \E w : Moves(w)
    BY <1>3, <1>4, <2>1, <2>2
  <2>4. QED
    BY <1>7, <2>2, <2>3 DEF Check
<1>8. CASE OpenFile(t)
  <2>1. \E w : Moves(w)
    BY <1>2, <1>3, <1>4, <1>8 DEF OpenFile
  <2>2. QED
    BY <1>8, <2>1 DEF OpenFile
<1>9. CASE Write(t)
  <2>1. \E w : Moves(w)
    <3>1. CASE worker' = [worker EXCEPT ![t].pos = @ + 1]
      <4>1. Moves([worker[t] EXCEPT !.pos = @ + 1])
        BY <1>1, <1>2, <1>9, <3>1 DEF Write, Labels
      <4>2. QED
        BY <4>1
    <3>2. QED
      BY <1>4, <1>9, <3>1 DEF Write
  <2>2. QED
    BY <1>9, <2>1 DEF Write
<1>10. CASE CloseFile(t)
  BY <1>4, <1>10 DEF CloseFile
<1>11. CASE LookInVain(t)
  BY <1>3, <1>11 DEF LookInVain
<1>12. QED
  BY <1>5, <1>6, <1>7, <1>8, <1>9, <1>10, <1>11 DEF WorkerStep

\* So the steps of the threads keep the invariant.
LEMMA WorkerInv ==
    ASSUME Inv, NEW t \in Threads, WorkerStep(t)
    PROVE  Inv'
<1>1. /\ UNCHANGED <<archive, nt, main, overwrite, before>> /\ missed \subseteq missed'
      /\ worker[t].pc \notin {"idle", "ended"}
  BY WorkerMoves
<1>2. PICK w \in [pc : Labels \ {"idle"}, i : Nat, pos : Nat] :
          /\ worker' = [worker EXCEPT ![t] = w]
          /\ worker[t].i <= w.i
          /\ w.pc \in {"create", "write"} =>
                /\ w.i = worker[t].i /\ w.i <= Last(t)
                /\ worker[t].pc # "open"
                /\ worker[t].pc = "entry" =>
                      ~Kept(Entry(t).path) \/ Entry(t).path \in missed'
  BY WorkerMoves
<1>3. \/ fs' = fs
      \/ /\ worker[t].pc \in {"create", "write"}
         /\ \E b : fs' = [fs EXCEPT ![Entry(t).path] = b]
  BY WorkerMoves
<1>4. Types'
  <2>1. N' = N
    BY <1>1 DEF N
  <2>2. QED
    BY <1>1, <1>2, <1>3, <2>1 DEF Inv, Types
<1>5. t < nt /\ First(t) \in Nat /\ First(t) <= worker[t].i /\ worker[t].i \in Nat
  <2>1. t < nt /\ First(t) <= worker[t].i /\ worker[t].i \in Nat
    BY <1>1 DEF Inv, InRange, Running, Types
  <2>2. QED
    BY <2>1, RangeFacts, Constants DEF Inv
<1>6. InRange'
  BY <1>1, <1>2, <1>5 DEF Inv, Types, InRange, Running, First, Last, N
<1>7. Order'
  BY <1>1, <1>2 DEF Inv, Types, Order
<1>8. Allowed'
  <2>1. ASSUME NEW u \in Threads, worker'[u].pc \in {"create", "write"}, ~overwrite
        PROVE  LET p == archive[worker'[u].i].path
               IN  before[p] = Absent \/ p \in missed'
    <3>1. CASE u # t
      BY <1>1, <1>2, <2>1, <3>1 DEF Inv, Types, Allowed, Entry
    <3>2. CASE u = t
      <4>1. worker'[t] = w /\ w.i = worker[t].i /\ w.i <= Last(t)
        BY <1>2, <2>1, <3>2 DEF Inv, Types
      <4>2. CASE worker[t].pc \in {"create", "write"}
        BY <1>1, <2>1, <3>2, <4>1, <4>2 DEF Inv, Allowed, Entry
      <4>3. CASE worker[t].pc = "entry"
        <5>1. fs[Entry(t).path] = Absent \/ Entry(t).path \in missed'
          BY <1>2, <2>1, <3>2, <4>1, <4>3 DEF Kept
        <5>2. worker[t].i \in 1..N
          BY <1>5, <4>1, RangeFacts, Constants DEF Inv
        <5>3. Entry(t).path \in Paths
          BY <5>2, Constants DEF Entry
        <5>4. QED
          BY <1>1, <2>1, <3>2, <4>1, <5>1, <5>3 DEF Inv, ExistingKept, Entry
      <4>4. worker[t].pc \in {"entry", "create", "write"}
        BY <1>1, <1>2, <2>1, <3>2, <4>1 DEF Inv, Types, Labels
      <4>5. QED
        BY <4>2, <4>3, <4>4
    <3>3. QED
      BY <3>1, <3>2
  <2>2. QED
    BY <1>1, <2>1 DEF Allowed, Entry
<1>9. ExistingKept'
  BY <1>1, <1>3 DEF Inv, Types, Allowed, ExistingKept
<1>10. QED
  BY <1>4, <1>6, <1>7, <1>8, <1>9 DEF Inv

-----------------------------------------------------------------------------

LEMMA StepInv == Inv /\ [Next]_vars => Inv'
<1>1. ASSUME Inv, Next PROVE Inv'
  BY <1>1, CallInv, CreateThreadInv, MainInv, WorkerInv DEF Next, MainStep
<1>2. ASSUME Inv, UNCHANGED vars PROVE Inv'
  BY <1>2 DEF vars, Inv, Types, InRange, Order, Allowed, ExistingKept, Running, First, Last, N,
     Entry
<1>3. QED
  BY <1>1, <1>2

LEMMA Invariance == Spec => []Inv
BY InitInv, StepInv, PTL DEF Spec

\* No two threads are ever at the same entry.
LEMMA NoSharedEntry ==
    ASSUME Inv, NEW t \in Threads, NEW u \in Threads,
           worker[t].pc \in {"create", "write"}, worker[u].pc \in {"create", "write"},
           worker[t].i = worker[u].i
    PROVE  t = u
<1>1. \A v \in {t, u} : /\ v \in Nat /\ v < nt
                        /\ First(v) <= worker[v].i /\ worker[v].i <= Last(v)
  BY Constants DEF Inv, InRange, Running
<1>2. \A v \in {t, u} : First(v) \in Nat /\ Last(v) \in Nat /\ worker[v].i \in Nat
  BY <1>1, RangeFacts, Constants, SMTT(30) DEF Inv, Types
<1>3. \A v, x \in {t, u} : v < x => Last(v) < First(x)
  BY <1>1, RangeFacts DEF Inv
<1>4. QED
  BY <1>1, <1>2, <1>3

\* libpaf_core.c:409-410: in an archive whose paths are unique no two threads
\* ever write one file, whatever the number of threads and entries.
THEOREM OneWriterAlways == Spec => []OneWriter
<1>1. ASSUME Inv PROVE OneWriter
  <2>1. SUFFICES ASSUME Unique, NEW t \in Threads, NEW u \in Threads,
                        worker[t].pc \in {"create", "write"},
                        worker[u].pc \in {"create", "write"},
                        Entry(t).path = Entry(u).path
                 PROVE  t = u
    BY DEF OneWriter
  <2>2. \A v \in {t, u} : worker[v].i \in 1..N
    <3>1. \A v \in {t, u} : /\ v \in Nat /\ v < nt /\ worker[v].i \in Nat
                            /\ First(v) <= worker[v].i /\ worker[v].i <= Last(v)
      BY <1>1, <2>1, Constants DEF Inv, InRange, Running, Types
    <3>2. \A v \in {t, u} : First(v) \in 1..N + 1 /\ Last(v) \in 0..N
      BY <1>1, <3>1, RangeFacts DEF Inv
    <3>3. N \in Nat
      BY <1>1, Constants
    <3>4. QED
      BY <3>1, <3>2, <3>3
  <2>3. worker[t].i = worker[u].i
    BY <2>1, <2>2 DEF Unique, Entry
  <2>4. QED
    BY <1>1, <2>1, <2>3, NoSharedEntry
<1>2. QED
  BY <1>1, Invariance, PTL

\* Without overwrite a file that was there at the call, and was found there,
\* keeps its content at every moment, whatever else fails and even if the
\* process is killed.
THEOREM ExistingKeptAlways == Spec => []ExistingKept
<1>1. Inv => ExistingKept
  BY DEF Inv
<1>2. QED
  BY <1>1, Invariance, PTL

\* libpaf_core.c:414-416: the contexts are freed when no thread runs.
THEOREM NoneRunsOnAlways == Spec => []NoneRunsOn
<1>1. Inv => NoneRunsOn
  BY DEF Inv, Types, Labels, InRange, Order, NoneRunsOn, Running
<1>2. QED
  BY <1>1, Invariance, PTL

-----------------------------------------------------------------------------
(***************************************************************************)
(* The result of a call without faults.                                    *)
(***************************************************************************)
\* What is known of a thread's place in its entry.
Opened ==
    /\ clean => missed = {}
    /\ \A t \in Threads :
           /\ worker[t].pc = "open" => worker[t].i = First(t)
           /\ worker[t].pc \in {"open", "entry", "create"} => worker[t].pos = 0
           /\ worker[t].pc \in {"create", "write"} => Entry(t).path \notin Unsafe
           /\ worker[t].pc = "write" => worker[t].pos <= Len(Entry(t).data)

PathOf(k) == archive[k].path
Written(k, pos) == [j \in 1..pos |-> archive[k].data[j]]
Mine(t, k) == t < nt /\ First(t) <= k /\ k <= Last(t)
Done(t, k) ==
    \/ worker[t].pc = "ended"
    \/ worker[t].pc \in {"entry", "create", "write"} /\ k < worker[t].i
At(t, k) == worker[t].pc = "write" /\ k = worker[t].i
Ends(k) == IF PathOf(k) \in Unsafe THEN before[PathOf(k)] ELSE Promised(PathOf(k))
Expected(t, k) == IF Done(t, k) THEN Ends(k)
                  ELSE IF At(t, k) THEN Written(k, worker[t].pos)
                  ELSE before[PathOf(k)]

\* During a call without faults every file is as it was, partly written or
\* as it should be, according to where the thread of its range is.
Whole ==
    /\ \A t \in Threads : \A k \in 1..N : Mine(t, k) => fs[PathOf(k)] = Expected(t, k)
    /\ \A p \in Paths : (\A k \in 1..N : PathOf(k) # p) => fs[p] = before[p]
WholeInv == clean /\ Unique /\ main.pc # "none" => Whole

LEMMA WrittenEnds ==
    ASSUME Inv, NEW k \in 1..N
    PROVE  Written(k, 0) = <<>> /\ Written(k, Len(archive[k].data)) = archive[k].data
<1>1. archive[k].data \in Seq(Nat)
  BY Constants
<1>2. Written(k, Len(archive[k].data)) = archive[k].data
  BY <1>1, LenProperties DEF Written
<1>3. Written(k, 0) = <<>>
  BY 1..0 = {}, EmptySeq DEF Written
<1>4. QED
  BY <1>2, <1>3

\* The next byte at the end of what is written.
LEMMA WrittenNext ==
    ASSUME NEW k \in 1..N, NEW pos \in Nat, pos < Len(archive[k].data)
    PROVE  Put(Written(k, pos), pos, archive[k].data[pos + 1]) = Written(k, pos + 1)
<1>1. Len(Written(k, pos)) = pos
  BY DEF Written
<1>2. QED
  BY <1>1 DEF Put, Written

\* A thread at work is at an entry of the archive that is its own.
LEMMA AtWork ==
    ASSUME Inv, NEW t \in Threads, Running(t)
    PROVE  /\ t \in Nat /\ t < nt /\ worker[t].i \in Nat /\ worker[t].pos \in Nat
           /\ First(t) \in 1..N + 1 /\ Last(t) \in 0..N
           /\ First(t) <= worker[t].i
           /\ worker[t].i <= Last(t) =>
                 worker[t].i \in 1..N /\ Mine(t, worker[t].i) /\ Entry(t).path \in Paths
<1>1. t \in Nat /\ t < nt /\ First(t) <= worker[t].i
  BY Constants DEF Inv, InRange, Running
<1>2. First(t) \in 1..N + 1 /\ Last(t) \in 0..N
  BY <1>1, RangeFacts DEF Inv
<1>3. worker[t].i \in Nat /\ worker[t].pos \in Nat
  BY DEF Inv, Types
<1>4. worker[t].i <= Last(t) => worker[t].i \in 1..N
  BY <1>1, <1>2, <1>3, Constants
<1>5. QED
  BY <1>1, <1>2, <1>3, <1>4, Constants DEF Mine, Entry

\* An entry belongs to one thread.
LEMMA OneOwner ==
    ASSUME Inv, NEW t \in Threads, NEW u \in Threads, NEW k \in 1..N, Mine(t, k), Mine(u, k)
    PROVE  t = u
<1>1. \A v \in {t, u} : v \in Nat /\ v < nt /\ First(v) <= k /\ k <= Last(v)
  BY Constants DEF Mine
<1>2. \A v \in {t, u} : First(v) \in Nat /\ Last(v) \in Nat
  BY <1>1, RangeFacts, Constants DEF Inv
<1>3. \A v, x \in {t, u} : v < x => Last(v) < First(x)
  BY <1>1, RangeFacts DEF Inv
<1>4. QED
  BY <1>1, <1>2, <1>3, Constants

LEMMA OpenedStep ==
    ASSUME Inv, Opened, Next
    PROVE  Opened'
<1>1. CASE Call
  <2>1. \A t \in Threads : worker'[t].pc = "idle"
    BY <1>1 DEF Call, ThreadsFor, Inv, Order
  <2>2. missed' = {}
    BY <1>1 DEF Call
  <2>3. QED
    BY <2>1, <2>2 DEF Opened
<1>2. CASE CreateThread
  <2>1. main.t \in Threads
    BY <1>2, Constants DEF CreateThread, Inv, Types, Threads
  <2>2. QED
    BY <1>2, <2>1 DEF CreateThread, Inv, Types, Opened, Entry, First, N
<1>3. CASE InlineEnds \/ AllCreated \/ Join \/ Return
  BY <1>3 DEF InlineEnds, AllCreated, Join, Return, Opened, Entry, First, N
<1>4. CASE Again \/ Crash
  BY <1>4 DEF Again, Crash, Fault, Opened, Idle
<1>5. ASSUME NEW t \in Threads, WorkerStep(t)
      PROVE  Opened'
  <2>1. worker[t] \in [pc : Labels, i : Nat, pos : Nat] /\ worker \in [Threads -> [pc : Labels, i : Nat, pos : Nat]]
    BY DEF Inv, Types
  <2>2. UNCHANGED <<archive, nt>>
    BY <1>5, WorkerMoves
  <2> DEFINE Fine(v) ==
        /\ worker'[v].pc = "open" => worker'[v].i = First(v)
        /\ worker'[v].pc \in {"open", "entry", "create"} => worker'[v].pos = 0
        /\ worker'[v].pc \in {"create", "write"} => archive[worker'[v].i].path \notin Unsafe
        /\ worker'[v].pc = "write" => worker'[v].pos <= Len(archive[worker'[v].i].data)
  <2>3. ASSUME NEW v \in Threads, v # t PROVE Fine(v)
    <3>1. worker'[v] = worker[v]
      BY <1>5, <2>1, <2>3, WorkerMoves
    <3>2. QED
      BY <3>1 DEF Opened, Entry
  <2>4. NextEntry(t) => Fine(t)
    BY <2>1 DEF NextEntry
  <2>5. Fine(t)
    <3>1. CASE OpenArchive(t)
      BY <2>1, <3>1 DEF OpenArchive, Goto, Opened
    <3>2. CASE Ended(t)
      BY <2>1, <3>2 DEF Ended, Goto, Opened
    <3>3. CASE Check(t)
      BY <2>1, <2>4, <3>3 DEF Check, Goto, Opened, Entry
    <3>4. CASE OpenFile(t)
      <4>1. worker[t].i \in 1..N
        <5>1. Running(t) /\ worker[t].i <= Last(t)
          BY <3>4 DEF OpenFile, Running, Inv, InRange
        <5>2. QED
          BY <5>1, AtWork
      <4>2. Len(archive[worker[t].i].data) \in Nat
        BY <4>1, Constants
      <4>3. QED
        BY <2>1, <2>4, <3>4, <4>2, SMTT(20) DEF OpenFile, Goto, Opened, Entry
    <3>5. CASE Write(t)
      <4>1. worker[t].i \in 1..N
        <5>1. Running(t) /\ worker[t].i <= Last(t)
          BY <3>5 DEF Write, Running, Inv, InRange
        <5>2. QED
          BY <5>1, AtWork
      <4>2. Len(archive[worker[t].i].data) \in Nat
        BY <4>1, Constants
      <4>3. CASE worker' = [worker EXCEPT ![t].pos = @ + 1]
        <5>1. worker'[t].pc = "write" /\ worker'[t].i = worker[t].i
          BY <2>1, <3>5, <4>3 DEF Write
        <5>2. worker'[t].pos = worker[t].pos + 1 /\ worker[t].pos < Len(archive[worker[t].i].data)
          BY <2>1, <3>5, <4>3 DEF Write, Entry
        <5>3. archive[worker[t].i].path \notin Unsafe /\ worker[t].pos \in Nat
          BY <2>1, <3>5 DEF Write, Opened, Entry
        <5>4. QED
          BY <4>2, <5>1, <5>2, <5>3
      <4>4. QED
        BY <2>4, <3>5, <4>3 DEF Write
    <3>6. CASE CloseFile(t)
      BY <2>4, <3>6 DEF CloseFile
    <3>7. CASE LookInVain(t)
      BY <2>1, <3>7 DEF LookInVain, Goto, Opened, Entry
    <3>8. QED
      BY <1>5, <3>1, <3>2, <3>3, <3>4, <3>5, <3>6, <3>7 DEF WorkerStep
  <2>6. clean' => missed' = {}
    <3>1. Fault \/ (clean' = clean /\ missed' = missed)
      BY <1>5
      DEF WorkerStep, OpenArchive, Ended, Check, LookInVain, OpenFile, Write, CloseFile, NoFault
    <3>2. QED
      BY <3>1 DEF Fault, Opened
  <2>7. \A v \in Threads : Fine(v)
    BY <2>3, <2>5
  <2>8. QED
    BY <2>2, <2>6, <2>7 DEF Opened, Entry, First, N
<1>6. QED
  BY <1>1, <1>2, <1>3, <1>4, <1>5 DEF Next, MainStep

\* An entry that is done has what was promised for its path.
LEMMA PromisedOf ==
    ASSUME Unique, NEW k \in 1..N
    PROVE  Ends(k) = IF PathOf(k) \in Unsafe \/ (~overwrite /\ before[PathOf(k)] # Absent)
                                 THEN before[PathOf(k)] ELSE archive[k].data
<1>1. \A e \in {archive[j] : j \in 1..N} : e.path = PathOf(k) => e = archive[k]
  BY DEF Unique, PathOf
<1>2. archive[k] \in {archive[j] : j \in 1..N} /\ archive[k].path = PathOf(k)
  BY DEF PathOf
<1>3. (CHOOSE e \in {archive[j] : j \in 1..N} : e.path = PathOf(k)) = archive[k]
  BY <1>1, <1>2
<1>4. QED
  BY <1>3 DEF Ends, Promised, PathOf

\* The calling thread leaves files and places as they are.
LEMMA WholeMain ==
    ASSUME Inv, Opened, Whole, clean, Unique,
           CreateThread \/ InlineEnds \/ AllCreated \/ Join \/ Return
    PROVE  Whole'
<1>1. UNCHANGED <<archive, fs, nt, before, overwrite>>
  BY DEF CreateThread, InlineEnds, AllCreated, Join, Return
<1>2. ASSUME NEW t \in Threads, NEW k \in 1..N, Mine(t, k)
      PROVE  Expected(t, k)' = Expected(t, k)
  <2>1. CASE UNCHANGED worker
    BY <1>1, <2>1 DEF Expected, Done, At, Ends, Promised, PathOf, Written, N
  <2>2. CASE CreateThread /\ t = main.t
    <3>1. worker[t].pc = "idle"
      BY <2>2, Constants DEF CreateThread, Inv, Types, Order
    <3>2. worker'[t].pc = "open"
      BY <2>2 DEF CreateThread, Inv, Types
    <3>3. QED
      BY <1>1, <3>1, <3>2 DEF Expected, Done, At, PathOf, Written
  <2>3. CASE CreateThread /\ t # main.t
    <3>1. worker'[t] = worker[t]
      BY <2>3 DEF CreateThread, Inv, Types
    <3>2. QED
      BY <1>1, <3>1 DEF Expected, Done, At, Ends, Promised, PathOf, Written, N
  <2>4. QED
    BY <2>1, <2>2, <2>3 DEF InlineEnds, AllCreated, Join, Return
<1>3. \A t \in Threads, k \in 1..N : Mine(t, k)' <=> Mine(t, k)
  BY <1>1 DEF Mine, First, Last, N
<1>4. N' = N /\ \A k \in 1..N : PathOf(k)' = PathOf(k)
  BY <1>1 DEF N, PathOf
<1>5. QED
  BY <1>1, <1>2, <1>3, <1>4 DEF Whole

\* A thread changes what is expected of its own entries alone, and no file
\* but that of its entry.
LEMMA WholeWorker ==
    ASSUME Inv, Whole, Unique, NEW t \in Threads, WorkerStep(t),
           \A k \in 1..N : Mine(t, k) => fs'[PathOf(k)] = Expected(t, k)'
    PROVE  Whole'
<1>1. UNCHANGED <<archive, nt, before, overwrite>> /\ Running(t)
  BY WorkerMoves DEF Running
<1>2. \A u \in Threads : u # t => worker'[u] = worker[u]
  BY WorkerMoves DEF Inv, Types
<1>3. \A u \in Threads, k \in 1..N : Mine(u, k)' <=> Mine(u, k)
  BY <1>1 DEF Mine, First, Last, N
<1>4. \A p \in Paths : fs'[p] = fs[p] \/ (worker[t].i <= Last(t) /\ p = Entry(t).path)
  BY WorkerMoves DEF Inv, Types, InRange
<1>5. worker[t].i <= Last(t) => worker[t].i \in 1..N /\ Mine(t, worker[t].i)
  BY <1>1, AtWork
<1>6. ASSUME NEW u \in Threads, u # t, NEW k \in 1..N, Mine(u, k)
      PROVE  fs'[PathOf(k)] = Expected(u, k)'
  <2>1. PathOf(k) \in Paths
    BY Constants DEF PathOf
  <2>2. fs'[PathOf(k)] = fs[PathOf(k)]
    <3>1. SUFFICES ASSUME worker[t].i <= Last(t), PathOf(k) = Entry(t).path PROVE FALSE
      BY <1>4, <2>1
    <3>2. k = worker[t].i
      BY <1>5, <3>1 DEF Unique, PathOf, Entry
    <3>3. QED
      BY <1>5, <1>6, <3>1, <3>2, OneOwner
  <2>3. Expected(u, k)' = Expected(u, k)
    <3>1. worker'[u] = worker[u] /\ UNCHANGED <<archive, before, overwrite>>
      BY <1>1, <1>2, <1>6
    <3>2. QED
      BY <3>1 DEF Expected, Done, At, Ends, Promised, PathOf, Written, N
  <2>4. QED
    BY <1>6, <2>2, <2>3 DEF Whole
<1>7. ASSUME NEW p \in Paths, \A k \in 1..N : PathOf(k) # p
      PROVE  fs'[p] = before[p]
  <2>1. fs'[p] = fs[p]
    BY <1>4, <1>5, <1>7 DEF Entry, PathOf
  <2>2. QED
    BY <1>7, <2>1 DEF Whole
<1>8. \A u \in Threads, k \in 1..N : Mine(u, k)' => fs'[PathOf(k)] = Expected(u, k)'
  BY <1>3, <1>6
<1>9. N' = N /\ before' = before /\ \A k \in 1..N : PathOf(k)' = PathOf(k)
  BY <1>1 DEF N, PathOf
<1>10. QED
  BY <1>7, <1>8, <1>9 DEF Whole

\* Without a fault a thread brings the entry it is at to what is expected.
LEMMA OwnEntries ==
    ASSUME Inv, Opened, Whole, clean, Unique, NEW t \in Threads, WorkerStep(t), ~Fault,
           NEW k \in 1..N, Mine(t, k)
    PROVE  fs'[PathOf(k)] = Expected(t, k)'
<1> DEFINE w == worker[t]
<1>1. worker \in [Threads -> [pc : Labels, i : Nat, pos : Nat]] /\ DOMAIN fs = Paths
  BY DEF Inv, Types
<1>2. UNCHANGED <<archive, before, overwrite>> /\ Running(t)
  BY WorkerMoves DEF Running
<1>3. /\ w.i \in Nat /\ w.pos \in Nat /\ First(t) <= w.i /\ First(t) \in Nat /\ Last(t) \in Nat
      /\ w.i <= Last(t) => w.i \in 1..N
  BY <1>2, AtWork, Constants
<1>4. fs[PathOf(k)] = Expected(t, k) /\ First(t) <= k /\ k <= Last(t) /\ k \in Nat
  BY Constants DEF Whole, Mine
<1>5. Ends(k)' = Ends(k)
  BY <1>2 DEF Ends, Promised, PathOf, N
<1>6. PathOf(k) \in Paths
  BY Constants DEF PathOf
\* An entry the thread is not at stays as it is.
<1>7. ASSUME w.i <= Last(t), k # w.i PROVE PathOf(k) # Entry(t).path
  BY <1>3, <1>7 DEF Unique, PathOf, Entry
<1>8. CASE OpenArchive(t)
  <2>1. worker'[t].pc = "entry" /\ worker'[t].i = w.i /\ w.pc = "open" /\ fs' = fs
    BY <1>1, <1>8 DEF OpenArchive, Goto
  <2>2. w.i = First(t)
    BY <2>1 DEF Opened
  <2>3. QED
    BY <1>2, <1>3, <1>4, <2>1, <2>2 DEF Expected, Done, At, PathOf, Written
<1>9. CASE Ended(t)
  <2>1. worker'[t].pc = "ended" /\ w.pc = "entry" /\ fs' = fs /\ Last(t) < w.i
    BY <1>1, <1>3, <1>9 DEF Ended, Goto
  <2>2. QED
    BY <1>3, <1>4, <1>5, <2>1 DEF Expected, Done
<1>10. CASE Check(t)
  <2>1. w.pc = "entry" /\ w.i <= Last(t) /\ fs' = fs
    BY <1>10 DEF Check
  <2>2. CASE Goto(t, "create")
    <3>1. worker'[t].pc = "create" /\ worker'[t].i = w.i
      BY <1>1, <2>2 DEF Goto
    <3>2. QED
      BY <1>2, <1>4, <1>5, <2>1, <3>1 DEF Expected, Done, At, PathOf, Written
  <2>3. CASE NextEntry(t) /\ (Entry(t).path \in Unsafe \/ Kept(Entry(t).path))
    <3>1. worker'[t].pc = "entry" /\ worker'[t].i = w.i + 1
      BY <1>1, <2>3 DEF NextEntry
    <3>2. CASE k = w.i
      <4>1. fs[PathOf(k)] = before[PathOf(k)] /\ PathOf(k) = Entry(t).path
        BY <1>3, <1>4, <2>1, <3>2 DEF Expected, Done, At, Entry, PathOf
      <4>2. Ends(k) = before[PathOf(k)]
        BY <2>3, <4>1, PromisedOf DEF Kept
      <4>3. QED
        BY <1>3, <1>5, <2>1, <3>1, <3>2, <4>1, <4>2 DEF Expected, Done
    <3>3. CASE k # w.i
      BY <1>2, <1>3, <1>4, <1>5, <2>1, <3>1, <3>3 DEF Expected, Done, At, PathOf, Written
    <3>4. QED
      BY <3>2, <3>3
  <2>4. QED
    BY <1>10, <2>2, <2>3 DEF Check
<1>11. CASE OpenFile(t)
  <2>1. /\ w.pc = "create" /\ Goto(t, "write")
        /\ fs' = [fs EXCEPT ![Entry(t).path] = <<>>]
    BY <1>11 DEF OpenFile
  <2>2. worker'[t].pc = "write" /\ worker'[t].i = w.i /\ worker'[t].pos = 0
    BY <1>1, <2>1 DEF Goto, Opened
  <2>3. w.i <= Last(t)
    BY <2>1 DEF Inv, InRange
  <2>4. CASE k = w.i
    <3>1. fs'[PathOf(k)] = <<>>
      BY <1>1, <1>6, <2>1, <2>4 DEF PathOf, Entry
    <3>2. QED
      BY <1>3, <2>2, <2>4, <3>1, WrittenEnds DEF Expected, Done, At, Written
  <2>5. CASE k # w.i
    BY <1>1, <1>2, <1>4, <1>5, <1>6, <1>7, <2>1, <2>2, <2>3, <2>5 DEF Expected, Done, At, PathOf, Written
  <2>6. QED
    BY <2>4, <2>5
<1>12. CASE Write(t)
  <2>1. /\ w.pc = "write" /\ w.pos < Len(Entry(t).data)
        /\ fs' = [fs EXCEPT ![Entry(t).path] = Put(@, w.pos, Entry(t).data[w.pos + 1])]
        /\ worker' = [worker EXCEPT ![t].pos = @ + 1]
    BY <1>12 DEF Write
  <2>2. worker'[t].pc = "write" /\ worker'[t].i = w.i /\ worker'[t].pos = w.pos + 1
    BY <1>1, <2>1
  <2>3. w.i <= Last(t)
    BY <2>1 DEF Inv, InRange
  <2>4. CASE k = w.i
    <3>1. fs[PathOf(k)] = Written(k, w.pos)
      BY <1>3, <1>4, <2>1, <2>4 DEF Expected, Done, At, PathOf, Written
    <3>2. fs'[PathOf(k)] = Put(fs[PathOf(k)], w.pos, archive[k].data[w.pos + 1])
      BY <1>1, <1>6, <2>1, <2>4 DEF PathOf, Entry
    <3>3. fs'[PathOf(k)] = Written(k, w.pos + 1)
      BY <1>3, <2>1, <2>4, <3>1, <3>2, WrittenNext DEF Entry
    <3>4. Expected(t, k)' = Written(k, w.pos + 1)
      BY <1>2, <1>3, <2>2, <2>4 DEF Expected, Done, At, Written
    <3>5. QED
      BY <3>3, <3>4
  <2>5. CASE k # w.i
    <3>1. fs'[PathOf(k)] = fs[PathOf(k)]
      BY <1>1, <1>6, <1>7, <2>1, <2>3, <2>5
    <3>2. QED
      BY <1>2, <1>4, <1>5, <2>1, <2>2, <2>5, <3>1 DEF Expected, Done, At, PathOf, Written
  <2>6. QED
    BY <2>4, <2>5
<1>13. CASE CloseFile(t)
  <2>1. w.pc = "write" /\ w.pos = Len(Entry(t).data) /\ NextEntry(t) /\ fs' = fs
    BY <1>13 DEF CloseFile
  <2>2. worker'[t].pc = "entry" /\ worker'[t].i = w.i + 1
    BY <1>1, <2>1 DEF NextEntry
  <2>3. CASE k = w.i
    <3>1. fs[PathOf(k)] = Written(k, Len(archive[k].data))
      BY <1>3, <1>4, <2>1, <2>3 DEF Expected, Done, At, Entry
    <3>2. PathOf(k) \notin Unsafe /\ (overwrite \/ before[PathOf(k)] = Absent)
      <4>1. missed = {}
        BY DEF Opened
      <4>2. QED
        BY <2>1, <2>3, <4>1 DEF Opened, Inv, Allowed, PathOf, Entry
    <3>3. Ends(k) = archive[k].data
      BY <3>2, PromisedOf
    <3>4. QED
      BY <1>3, <1>5, <2>1, <2>2, <2>3, <3>1, <3>3, WrittenEnds DEF Expected, Done
  <2>4. CASE k # w.i
    BY <1>2, <1>3, <1>4, <1>5, <2>1, <2>2, <2>4 DEF Expected, Done, At, PathOf, Written
  <2>5. QED
    BY <2>3, <2>4
<1>14. QED
  BY <1>8, <1>9, <1>10, <1>11, <1>12, <1>13 DEF WorkerStep, LookInVain

LEMMA WholeStep == Inv /\ Opened /\ WholeInv /\ [Next]_vars => WholeInv'
<1>1. SUFFICES ASSUME Inv, Opened, WholeInv, [Next]_vars, clean', Unique', main'.pc # "none"
               PROVE  Whole'
  BY DEF WholeInv
<1>0. ASSUME archive' = archive PROVE Unique
  BY <1>0, <1>1 DEF Unique, N
<1>2. CASE Call
  <2>1. \A t \in Threads : worker'[t].pc = "idle"
    BY <1>1, <1>2 DEF Call, ThreadsFor, Inv, Order
  <2>2. before' = fs' /\ fs' = fs
    BY <1>2 DEF Call, ThreadsFor
  <2>3. QED
    BY <2>1, <2>2 DEF Whole, Expected, Done, At
<1>3. CASE CreateThread \/ InlineEnds \/ AllCreated \/ Join \/ Return
  <2>1. clean /\ main.pc # "none" /\ archive' = archive
    BY <1>1, <1>3 DEF CreateThread, InlineEnds, AllCreated, Join, Return
  <2>2. Unique /\ Whole
    BY <1>0, <1>1, <2>1 DEF WholeInv
  <2>3. QED
    BY <1>1, <1>3, <2>1, <2>2, WholeMain
<1>4. CASE Again \/ Crash
  <2>1. main' = [pc |-> "none", t |-> 0]
    BY <1>4 DEF Again, Crash
  <2>2. QED
    BY <1>1, <2>1
<1>5. ASSUME NEW t \in Threads, WorkerStep(t)
      PROVE  Whole'
  <2>1. ~Fault
    BY <1>1 DEF Fault
  <2>2. clean
    BY <1>1, <1>5, <2>1
    DEF WorkerStep, OpenArchive, Ended, Check, LookInVain, OpenFile, Write, CloseFile, NoFault
  <2>3. main.pc # "none" /\ Unique
    BY <1>0, <1>1, <1>5, WorkerMoves
  <2>4. Whole
    BY <1>1, <2>2, <2>3 DEF WholeInv
  <2>5. QED
    BY <1>1, <1>5, <2>1, <2>2, <2>3, <2>4, OwnEntries, WholeWorker
<1>6. CASE UNCHANGED vars
  <2>1. Whole
    BY <1>0, <1>1, <1>6 DEF vars, WholeInv
  <2>2. QED
    BY <1>6, <2>1
    DEF vars, Whole, Expected, Done, At, Mine, First, Last, N, Ends, Promised, PathOf, Written
<1>7. QED
  BY <1>1, <1>2, <1>3, <1>4, <1>5, <1>6 DEF Next, MainStep

\* paf_extract_binary: a call in which nothing fails leaves every entry
\* extracted whole, existing files replaced only with overwrite, and nothing
\* else changed - for every archive with unique, safe paths and any threads;
\* of an archive with unsafe paths no file at such a path is touched.
THEOREM ExtractedWholeAlways == Spec => []ExtractedWhole
<1>1. Init => Opened /\ WholeInv
  BY DEF Init, Opened, WholeInv, Idle
<1>2. Inv /\ Opened /\ [Next]_vars => Opened'
  BY OpenedStep DEF vars, Opened, Entry, First, N
<1>3. ASSUME Inv, WholeInv PROVE ExtractedWhole
  <2>1. SUFFICES ASSUME main.pc = "returned", clean, Unique, NEW p \in Paths
                 PROVE  /\ Conforming => fs[p] = Promised(p)
                        /\ p \in Unsafe => fs[p] = before[p]
    BY EntryAssumption DEF ExtractedWhole
  <2>2. Whole
    BY <1>3, <2>1 DEF WholeInv
  <2>3. CASE \A k \in 1..N : PathOf(k) # p
    BY <2>2, <2>3 DEF Whole, Promised, PathOf
  <2>4. ASSUME NEW k \in 1..N, PathOf(k) = p
        PROVE  fs[p] = Ends(k)
    <3>1. nt \in Nat \ {0} /\ N \in Nat /\ k - 1 \in 0..N - 1
      BY <1>3, <2>4, Constants DEF Inv, Types
    <3>2. PICK t \in 0..nt - 1 : Cut(t, N, nt) <= k - 1 /\ k - 1 < Cut(t + 1, N, nt)
      BY <3>1, RangesCover
    <3>3. t \in Nat /\ t < nt /\ t \in Threads
      BY <1>3, <3>1, Constants DEF Inv, Types, Threads
    <3>4. First(t) = Cut(t, N, nt) + 1 /\ Last(t) = Cut(t + 1, N, nt)
      BY <1>3, <3>3, RangeIsCut DEF Inv
    <3>5. Cut(t, N, nt) \in Nat /\ Cut(t + 1, N, nt) \in Nat
      BY <3>1, <3>2, RangesInside
    <3>6. Mine(t, k)
      BY <3>1, <3>2, <3>3, <3>4, <3>5 DEF Mine
    <3>7. worker[t].pc = "ended"
      BY <1>3, <2>1, <3>3 DEF Inv, Order
    <3>8. QED
      BY <2>2, <2>4, <3>3, <3>6, <3>7 DEF Whole, Expected, Done
  <2>5. ASSUME NEW k \in 1..N, PathOf(k) = p
        PROVE  /\ Conforming => Ends(k) = Promised(p)
               /\ p \in Unsafe => Ends(k) = before[p]
    BY <2>5 DEF Ends, Conforming, PathOf
  <2>6. QED
    BY <2>3, <2>4, <2>5
<1>4. QED
  BY <1>1, <1>2, <1>3, WholeStep, Invariance, PTL DEF Spec
=============================================================================
