--------------------------- MODULE MCStorageQueue ---------------------------
(***************************************************************************)
(* A ring of four entries: the loader waits after two items, the engine    *)
(* after three.  Single loads and batches of up to three items from two    *)
(* files, some of them empty; deltas that fill the ring exactly, or more   *)
(* than once, with deleted files between and an offset that 32 bits cut.   *)
(***************************************************************************)
EXTENDS StorageQueue

Item(from, size, to) == [from |-> from, size |-> size, to |-> to, deleted |-> FALSE]
Gone(from, size) == [from |-> from, size |-> size, to |-> 0, deleted |-> TRUE]
Call(path, items) == [path |-> path, items |-> items]

AllCalls ==
    [loader |-> {Call("a", <<Item(0, 1, 0)>>), Call("b", <<Item(1, 2, 0)>>),
                 Call("a", <<Item(3, 1, 2), Item(0, 0, 3), Item(1, 2, 0)>>),
                 Call("b", <<Item(3, 1, 2), Item(0, 1, 0), Item(2, 1, 1), Item(0, 0, 3)>>)},
     engine |-> {Call("a", <<Item(0, 1, 0), Gone(1, 1), Item(2, 1, 0), Item(3, 1, 0)>>),
                 Call("b", <<Item(2, 1, 0), Item(0, 1, 0), Item(1, 0, 0), Item(7, 1, 0)>>)},
     d3d12  |-> {Call("a", <<Item(0, 2, 1)>>)}]
=============================================================================
