---------------------------- MODULE StorageQueue ----------------------------
(***************************************************************************)
(* The DirectStorage engines (libpaf/src/win): the loader of file regions  *)
(* (paf_io_directstorage.cpp, with paf_gpu_direct_load around it), the     *)
(* patch engine (paf_patch_dstorage.cpp) and the load into a D3D12         *)
(* resource (paf_io_d3d12_direct.cpp), each on a queue of its own.  The    *)
(* queue is what dstorage.h says of it: a ring of entries; reads finish in *)
(* any order; an event, status or fence behind them is set when all of     *)
(* them are through, whether they could be read or not.                    *)
(***************************************************************************)
EXTENDS Integers, Sequences, FiniteSets

CONSTANTS
    Calls,       \* Calls[client]: what is asked for: [path, items]; an item
                 \* is a region [from, size, to, deleted]
    Capacity,    \* DSTORAGE_MAX_QUEUE_CAPACITY
    BufferSize,  \* the bytes of the destination
    Word32,      \* 2^32 in the units of this instance
    MaxCalls, MaxFaults, MaxTimeouts, \* bounds
    None         \* no file, no byte

Clients == {"loader", "engine", "d3d12"}

\* A queue takes a request and what is set behind it.
ASSUME QueueAssumption == Capacity \in Nat /\ Capacity >= 3 /\ Word32 \in Nat \ {0}

\* No region is so large that the casts of sizes to UINT32 lose anything.  The
\* regions a caller asks for in one call do not overlap in its buffer: the GPU
\* extractor puts each behind the one before (paf_extractor_gpu.c:503).
LargestSize == 2147483647  \* TLC knows no greater number
Region == [from : Nat, size : 0..LargestSize, to : Nat, deleted : BOOLEAN]
ASSUME CallsAssumption ==
    \A name \in Clients : \A c \in Calls[name] :
        /\ c.items \in Seq(Region)
        /\ name # "engine" =>
              \A i, j \in 1..Len(c.items) : i # j =>
                  \/ c.items[i].size = 0 \/ c.items[j].size = 0
                  \/ c.items[i].to + c.items[i].size <= c.items[j].to
                  \/ c.items[j].to + c.items[j].size <= c.items[i].to

VARIABLES
    client,   \* the engine the process uses
    events,   \* EnqueueSetEvent can be used: SDK 1.1 and an event
    made,     \* the COM objects the engine has: "factory", "queue"
    file, current, \* m_file, m_current_path
    queue,    \* the entries not yet retired: [kind, item, live, src, state]
    submitted,\* how many of them the device may work on
    failing,  \* a read failed since the last status entry
    signal,   \* the auto-reset event (or the fence's)
    status,   \* the status array: "pending", "ok", "failed"
    call,     \* the call being served, or the last one
    pc, at, inBatch, \* where it is; items looked at; counted since a wait
    buffer,   \* the destination
    ioFailed, \* items flagged as failed
    total,    \* *out_total_copied_size
    ret,      \* what the last call returned
    lost,     \* history: items of this call whose read failed
    calls, faults, timeouts

vars == <<client, events, made, file, current, queue, submitted, failing, signal, status,
          call, pc, at, inBatch, buffer, ioFailed, total, ret, lost, calls, faults, timeouts>>
device == <<queue, submitted, failing, signal, status, buffer, lost>>
objects == <<client, events, made, file, current>>
bounds == <<calls, faults, timeouts>>
answer == <<ioFailed, total, ret>>

Items == call.items
Positions == 1..Len(Items)

\* Files the loader skips as empty, and the engine as deleted.
Skipped(i) == CASE client = "loader" -> Items[i].size = 0
                [] client = "engine" -> Items[i].deleted
                [] OTHER -> FALSE

\* Where an item goes: the engine packs what it does not skip.
Packed[i \in 0..Len(Items)] ==
    IF i = 0 THEN 0 ELSE Packed[i - 1] + (IF Skipped(i) THEN 0 ELSE Items[i].size)
To(i) == IF client = "engine" THEN Packed[i - 1] ELSE Items[i].to

\* Where the request of an item begins to read.  An item of the engine names
\* the place of its data in the data block, as the index does; the delta keeps
\* the lower 32 bits of it (libpaf_list.c:39, paf_delta.c:75,101), and the
\* engine takes these for the place in the file.
Offset(i) == IF client = "engine" THEN Items[i].from % Word32 ELSE Items[i].from

\* The bytes requested for item i in a destination, read from a file.
Placed(b, i, src) ==
    [j \in DOMAIN b |->
        IF j \in To(i)..(To(i) + Items[i].size - 1)
        THEN <<src, Offset(i) + j - To(i)>> ELSE b[j]]
IsRead(i) == Placed(buffer, i, call.path) = buffer

CanFault == faults < MaxFaults
Fault == faults' = faults + 1
NoFault == UNCHANGED faults

(***************************************************************************)
(* The queue (dstorage.h).                                                 *)
(***************************************************************************)
\* One entry of the ring is kept free to tell full from empty.
Room == Len(queue) < Capacity - 1

\* An enqueued entry waits for Submit, or until the queue is half full.
Enqueued(entry) ==
    /\ Room
    /\ queue' = Append(queue, entry)
    /\ submitted' = IF 2 * (Len(queue) + 1) >= Capacity THEN Len(queue) + 1 ELSE submitted

Entry(kind, i, src) == [kind |-> kind, item |-> i, live |-> TRUE, src |-> src,
                        state |-> IF kind = "read" THEN "todo" ELSE "done"]

\* A read ends; without a file it cannot but fail.  A request of an earlier
\* call writes into the destination of that call.
Read(k) ==
    /\ k <= submitted /\ queue[k].state = "todo"
    /\ \/ /\ queue[k].src # None /\ NoFault
          /\ queue' = [queue EXCEPT ![k].state = "done"]
          /\ buffer' = IF queue[k].live THEN Placed(buffer, queue[k].item, queue[k].src) ELSE buffer
          /\ UNCHANGED lost
       \/ /\ IF queue[k].src = None THEN NoFault ELSE CanFault /\ Fault
          /\ queue' = [queue EXCEPT ![k].state = "bad"]
          /\ lost' = IF queue[k].live THEN lost \union {queue[k].item} ELSE lost
          /\ UNCHANGED buffer
    /\ UNCHANGED <<objects, submitted, failing, signal, status, call, pc, at, inBatch, answer,
                   calls, timeouts>>

\* The entry at the head is through.
Retire ==
    /\ submitted > 0 /\ Head(queue).state # "todo"
    /\ queue' = Tail(queue)
    /\ submitted' = submitted - 1
    /\ failing' = CASE Head(queue).kind = "read" -> failing \/ Head(queue).state = "bad"
                    [] Head(queue).kind = "status" -> FALSE
                    [] OTHER -> failing
    /\ signal' = (signal \/ Head(queue).kind = "event")
    /\ status' = IF Head(queue).kind = "status" /\ Head(queue).live
                 THEN IF failing THEN "failed" ELSE "ok" ELSE status
    /\ UNCHANGED <<objects, call, pc, at, inBatch, buffer, answer, lost, bounds>>

(***************************************************************************)
(* A call.                                                                 *)
(***************************************************************************)
Return(r) == pc' = "idle" /\ ret' = r

\* paf_gpu_direct_load reads with fread when the loader has failed.
Single == client = "loader" /\ Len(Items) = 1
Failed(c) == IF client = "loader" /\ Len(c.items) = 1
             THEN pc' = "fread" /\ UNCHANGED ret ELSE Return("failed")

\* PafDirectStorage::OpenFile: the old file is gone before the new one is
\* open, the path is noted only then.
OpenFilePathFirst(path, ok) ==  \* mutant: the path is noted first, the old file kept
    /\ current' = path
    /\ file' = IF ok THEN path ELSE file
OpenFile(path, ok) ==
    /\ file' = IF ok THEN path ELSE None
    /\ current' = IF ok THEN path ELSE current

\* The objects of the loader and of the engine are made once, those of the
\* D3D12 load every time.
Begin(c) ==
    /\ calls' = calls + 1 /\ call' = c
    /\ at' = 0 /\ inBatch' = 0 /\ ioFailed' = {} /\ total' = 0 /\ lost' = {}
    /\ buffer' = [j \in 0..(BufferSize - 1) |-> None]
    /\ queue' = IF client = "d3d12" THEN <<>>
                ELSE [k \in 1..Len(queue) |-> [queue[k] EXCEPT !.live = FALSE]]
    /\ submitted' = IF client = "d3d12" THEN 0 ELSE submitted
    /\ UNCHANGED <<client, failing, signal, status, timeouts>>

MayStart(c) == pc = "idle" /\ calls < MaxCalls /\ c \in Calls[client]

\* The loader's Initialize goes wrong: no DLL or no factory; no queue; no
\* event.  It is not tried again when there is a factory.  The engine's
\* constructor runs once, so the engine is of no use from then on.
CannotInitialize(c) ==
    /\ MayStart(c) /\ "factory" \notin made /\ client # "d3d12"
    /\ CanFault /\ Fault
    /\ \/ client = "loader" /\ UNCHANGED <<made, events>>
       \/ made' = {"factory"} /\ UNCHANGED events
       \/ client = "loader" /\ events /\ made' = {"factory", "queue"} /\ events' = FALSE
    /\ Failed(c) /\ Begin(c)
    /\ UNCHANGED <<file, current>>

\* EnsureFile: the file is known by its path only.  The engine opens its
\* file for every call; so does the D3D12 load, which makes its factory and
\* queue again, too, and may fail with any of them.
Start(c) ==
    /\ MayStart(c)
    /\ made' = IF "factory" \in made THEN made ELSE {"factory", "queue"}
    /\ IF client = "engine" /\ made = {"factory"}
       THEN Return("failed") /\ NoFault /\ UNCHANGED <<file, current>>
       ELSE IF client = "loader" /\ current = c.path
       THEN pc' = "fill" /\ NoFault /\ UNCHANGED <<file, current, ret>>
       ELSE \/ OpenFile(c.path, TRUE) /\ NoFault /\ pc' = "fill" /\ UNCHANGED ret
            \/ OpenFile(c.path, FALSE) /\ CanFault /\ Fault /\ Failed(c)
    /\ Begin(c)
    /\ UNCHANGED events

\* At most so many items of the loader, requests of the engine, wait for one
\* event.
BatchCap == Capacity - 2
Full == inBatch >= IF client = "loader" THEN BatchCap ELSE Capacity - 1
Waiting(i) == {j \in (i - inBatch + 1)..i : ~Skipped(j)}
Flushing == at = Len(Items) \/ Full

Skip ==
    /\ pc = "fill" /\ ~Flushing /\ Skipped(at + 1)
    /\ at' = at + 1
    /\ inBatch' = IF client = "loader" THEN inBatch + 1 ELSE inBatch
    /\ UNCHANGED <<objects, device, call, pc, answer, bounds>>

\* Without a queue a null pointer is called.
EnqueueRequest ==
    /\ pc = "fill" /\ ~Flushing /\ ~Skipped(at + 1)
    /\ IF "queue" \in made
       THEN /\ Enqueued(Entry("read", at + 1, file))
            /\ at' = at + 1 /\ inBatch' = inBatch + 1
            /\ UNCHANGED pc
       ELSE pc' = "dead" /\ UNCHANGED <<queue, submitted, at, inBatch>>
    /\ UNCHANGED <<objects, failing, signal, status, call, buffer, lost, answer, bounds>>

\* Nothing was enqueued since the last wait: the loader goes on, and both
\* return without waiting; the engine does not tell its total then.
NothingToWait ==
    /\ pc = "fill" /\ Flushing
    /\ IF client = "loader" THEN Waiting(at) = {} ELSE inBatch = 0
    /\ inBatch' = 0
    /\ IF at = Len(Items) THEN Return("ok") ELSE UNCHANGED <<pc, ret>>
    /\ UNCHANGED <<objects, device, call, at, ioFailed, total, bounds>>

\* A failed sub-batch of the loader flags all its items and the next one is
\* tried; a single load then reads the file itself.
SubBatchFailed ==
    IF client = "loader"
    THEN /\ ioFailed' = ioFailed \union (at - inBatch + 1)..at
         /\ inBatch' = 0
         /\ IF Single THEN pc' = "fread" ELSE pc' = "fill"
         /\ UNCHANGED ret
    ELSE Return("failed") /\ UNCHANGED <<ioFailed, inBatch>>

\* The event is reset, or a status array made.
Reset ==
    /\ pc = "fill" /\ Flushing
    /\ IF client = "loader" THEN Waiting(at) # {} ELSE inBatch > 0
    /\ IF events \/ client = "d3d12"
       THEN /\ signal' = FALSE /\ pc' = "mark"
            /\ NoFault /\ UNCHANGED <<status, ioFailed, inBatch, ret>>
       ELSE \/ /\ status' = "pending" /\ pc' = "mark"
               /\ NoFault /\ UNCHANGED <<signal, ioFailed, inBatch, ret>>
            \/ /\ CanFault /\ Fault /\ SubBatchFailed
               /\ UNCHANGED <<signal, status>>
    /\ UNCHANGED <<objects, queue, submitted, failing, buffer, lost, call, at, total,
                   calls, timeouts>>

\* EnqueueSetEvent, EnqueueStatus or EnqueueSignal, then Submit.
MarkLate ==  \* mutant: what is enqueued is submitted before the mark is
    /\ queue' = Append(queue, Entry(IF events \/ client = "d3d12" THEN "event" ELSE "status", 0, None))
    /\ submitted' = Len(queue)
Mark ==
    /\ queue' = Append(queue, Entry(IF events \/ client = "d3d12" THEN "event" ELSE "status", 0, None))
    /\ submitted' = Len(queue) + 1

Submit ==
    /\ pc = "mark" /\ Room
    /\ Mark
    /\ pc' = "wait"
    /\ UNCHANGED <<objects, failing, signal, status, buffer, lost, call, at, inBatch, answer, bounds>>

\* With the wait over: the next sub-batch, or the end.
Sum == Packed[Len(Items)]
GoOn ==
    /\ inBatch' = 0
    /\ IF at = Len(Items)
       THEN /\ Return("ok")
            /\ total' = IF client = "engine" /\ ~Full THEN Sum ELSE total
       ELSE pc' = "fill" /\ UNCHANGED <<total, ret>>
    /\ UNCHANGED ioFailed

\* The event says that the reads are through, not that they went well.
WaitEvent ==
    /\ pc = "wait" /\ signal
    /\ signal' = FALSE
    /\ GoOn
    /\ UNCHANGED <<objects, queue, submitted, failing, status, buffer, lost, call, at, bounds>>

WaitStatusUnchecked == status # "pending" /\ GoOn  \* mutant: the HRESULT is not looked at
WaitStatus == status # "pending" /\ IF status = "failed" THEN SubBatchFailed /\ UNCHANGED total ELSE GoOn

StatusComplete ==
    /\ pc = "wait" /\ ~(events \/ client = "d3d12")
    /\ WaitStatus
    /\ UNCHANGED <<objects, device, call, at, bounds>>

\* The engine gives up after 30 s, with the reads still under way.  The
\* D3D12 load takes its 10 s for success.
WaitTimeout ==
    /\ pc = "wait" /\ client # "loader" /\ timeouts < MaxTimeouts
    /\ timeouts' = timeouts + 1
    /\ Return(IF client = "d3d12" THEN "ok" ELSE "failed")
    /\ UNCHANGED <<objects, device, call, at, inBatch, ioFailed, total, calls, faults>>

\* The D3D12 load may have no event to wait for its fence with.
CannotWait ==
    /\ pc = "wait" /\ client = "d3d12" /\ CanFault /\ Fault
    /\ Return("failed")
    /\ UNCHANGED <<objects, device, call, at, inBatch, ioFailed, total, calls, timeouts>>

ReadByHand ==
    /\ pc = "fread"
    /\ \/ buffer' = Placed(buffer, 1, call.path) /\ ioFailed' = {} /\ Return("ok") /\ NoFault
       \/ CanFault /\ Fault /\ Return("failed") /\ UNCHANGED <<buffer, ioFailed>>
    /\ UNCHANGED <<objects, queue, submitted, failing, signal, status, lost, call, at, inBatch,
                   total, calls, timeouts>>

Init ==
    /\ client \in Clients /\ events \in BOOLEAN
    /\ made = {} /\ file = None /\ current = None
    /\ queue = <<>> /\ submitted = 0 /\ failing = FALSE /\ signal = FALSE /\ status = "pending"
    /\ call = [path |-> None, items |-> <<>>] /\ pc = "idle" /\ at = 0 /\ inBatch = 0
    /\ buffer = [j \in 0..(BufferSize - 1) |-> None]
    /\ ioFailed = {} /\ total = 0 /\ ret = "none" /\ lost = {}
    /\ calls = 0 /\ faults = 0 /\ timeouts = 0

Device == Retire \/ \E k \in 1..Len(queue) : Read(k)
Step == Skip \/ EnqueueRequest \/ NothingToWait \/ Reset \/ Submit \/ WaitEvent \/ StatusComplete
        \/ ReadByHand

Next ==
    \/ \E c \in Calls[client] : Start(c) \/ CannotInitialize(c)
    \/ Step \/ WaitTimeout \/ CannotWait \/ Device

\* The device works on what is submitted and a running call goes on; a
\* timeout need not happen.
Spec == Init /\ [][Next]_vars /\ WF_vars(Step) /\ WF_vars(Device)
-----------------------------------------------------------------------------
(***************************************************************************)
(* Properties                                                              *)
(***************************************************************************)
\* The variables have their types; the submitted entries are a prefix.
TypeOK ==
    /\ client \in Clients /\ made \subseteq {"factory", "queue"}
    /\ submitted \in 0..Len(queue) /\ Len(queue) < Capacity
    /\ pc \in {"idle", "fread", "fill", "mark", "wait", "dead"}
    /\ at \in 0..Len(Items) /\ inBatch \in 0..at
    /\ ret \in {"none", "ok", "failed"} /\ total \in Nat

\* paf_io_directstorage.cpp:102-143, paf_gpu.c:95-109: whatever files were
\* opened, or could not be opened, before, a load that succeeds has put the
\* bytes of the file it was given where they belong, but for the items it
\* flags; only the wait for an event leaves a read that failed unflagged.
LoadedOrFlagged ==
    client = "loader" /\ pc = "idle" /\ ret = "ok" =>
        \A i \in Positions \ ioFailed : IsRead(i) \/ (events /\ i \in lost)

\* paf_patch_dstorage.cpp:54-138 and paf_io_d3d12_direct.cpp:70-90: if no
\* wait was ever given up, success means that the bytes requested for every
\* file of the delta are in the buffer, behind those for the one before it,
\* but for reads that failed before an event or a fence; with a status array
\* success means all of it even then.  The total is told unless the last wait
\* was for a full queue.  The requested bytes are not the file's: the data
\* block begins 32 bytes into the archive (paf_extractor.c:134), and the
\* engine (:112) asks for the place in the block, cut to 32 bits, as if it
\* were one in the archive.
PatchDelivered ==
    client # "loader" /\ pc = "idle" /\ ret = "ok" =>
        /\ timeouts = 0 \/ (client = "engine" /\ ~events) =>
              \A i \in Positions : ~Skipped(i) =>
                  IsRead(i) \/ ((events \/ client = "d3d12") /\ i \in lost)
        /\ total \in {0, Sum}

\* paf_io_directstorage.cpp:50-56, paf_patch_dstorage.cpp:121-133: every
\* call returns, also the loader's, which waits without a limit, and the
\* engine's, which fills the ring before it enqueues its event; or it has
\* died without a queue.
CallsReturn == pc \notin {"idle", "dead"} ~> pc \in {"idle", "dead"}
=============================================================================
