-------------------------------- MODULE Delta -------------------------------
(***************************************************************************)
(* paf_delta_calculate (libpaf/src/paf_delta.c): the difference of two     *)
(* archive indices.  The paths of the new index go into a hash map with    *)
(* linear probing; the old entries are looked up in it one by one; what no *)
(* old entry met has been added.  One action per iteration of a loop.      *)
(*                                                                         *)
(* A hash of a file is any value; DJB2 is an arbitrary function of paths.  *)
(***************************************************************************)
EXTENDS Integers, Sequences

CONSTANTS
    Path,      \* the paths that occur in the two indices
    Hash,      \* SHA-256 values
    PathHash,  \* hash_string, before it is reduced to the size of the map
    NoHash     \* what a DELETED entry has in the place of its hash

ASSUME PathHashAssumption == PathHash \in [Path -> Nat]

VARIABLES
    oldList, newList,  \* what paf_list_binary returned
    slots,    \* the map: an index into newList, or 0 for a slot left by calloc
    used,     \* the slots an old entry has met
    k,        \* the loop index, 1-based
    probe,    \* how far the running lookup has moved from its first slot
    phase,    \* the loop that runs
    results   \* the delta entries

dvars == <<oldList, newList, slots, used, k, probe, phase, results>>

\* The indices of one directory name no path twice.
IsList(l) ==
    /\ l \in Seq([path : Path, hash : Hash])
    /\ \A i, j \in 1..Len(l) : l[i].path = l[j].path => i = j

SizeForCount(n) == IF n > 0 THEN n ELSE 16  \* mutant: no room to spare
MapSizeFor(n) == IF n > 0 THEN 4 * n ELSE 16
MapSize == MapSizeFor(Len(newList))

\* h = (h + 1) % map_size, d times from hash_string(p) % map_size.
At(m, p, d) ==
    LET h == (PathHash[p] % m) + d
    IN  IF h < m THEN h ELSE h - m

NextProbe == IF probe + 1 < MapSize THEN probe + 1 ELSE 0

Entry(p, status, hash) == [path |-> p, status |-> status, hash |-> hash]

(***************************************************************************)
(* The call, and the loop that fills the map.                              *)
(***************************************************************************)
Calculate(o, n) ==
    /\ phase \in {"idle", "done", "failed"}
    /\ oldList' = o /\ newList' = n
    /\ slots' = [s \in 0..MapSizeFor(Len(n)) - 1 |-> 0]
    /\ used' = {} /\ k' = 1 /\ probe' = 0 /\ results' = <<>>
    /\ phase' \in {"insert", "failed"}  \* an index or the map may be refused

InsertSlot == At(MapSize, newList[k].path, probe)

InsertProbe ==
    /\ phase = "insert" /\ k <= Len(newList)
    /\ slots[InsertSlot] # 0
    /\ probe' = NextProbe
    /\ UNCHANGED <<oldList, newList, slots, used, k, phase, results>>

Insert ==
    /\ phase = "insert" /\ k <= Len(newList)
    /\ slots[InsertSlot] = 0
    /\ slots' = [slots EXCEPT ![InsertSlot] = k]
    /\ k' = k + 1 /\ probe' = 0
    /\ UNCHANGED <<oldList, newList, used, phase, results>>

EndInsert ==
    /\ phase = "insert" /\ k > Len(newList)
    /\ phase' \in {"compare", "failed"}  \* malloc of the results
    /\ k' = 1 /\ probe' = 0
    /\ UNCHANGED <<oldList, newList, slots, used, results>>

(***************************************************************************)
(* The loop over the old entries.                                          *)
(***************************************************************************)
OldEntry    == oldList[k]
CompareSlot == At(MapSize, OldEntry.path, probe)
Met         == newList[slots[CompareSlot]]

CompareProbe ==
    /\ phase = "compare" /\ k <= Len(oldList)
    /\ slots[CompareSlot] # 0 /\ Met.path # OldEntry.path
    /\ probe' = NextProbe
    /\ UNCHANGED <<oldList, newList, slots, used, k, phase, results>>

FoundUnmarked ==  \* mutant: map[h].used stays 0
    /\ phase = "compare" /\ k <= Len(oldList)
    /\ slots[CompareSlot] # 0 /\ Met.path = OldEntry.path
    /\ results' = IF Met.hash = OldEntry.hash THEN results
                  ELSE Append(results, Entry(OldEntry.path, "updated", Met.hash))
    /\ k' = k + 1 /\ probe' = 0
    /\ UNCHANGED <<oldList, newList, slots, used, phase>>
Found ==
    /\ phase = "compare" /\ k <= Len(oldList)
    /\ slots[CompareSlot] # 0 /\ Met.path = OldEntry.path
    /\ used' = used \cup {CompareSlot}
    /\ results' = IF Met.hash = OldEntry.hash THEN results
                  ELSE Append(results, Entry(OldEntry.path, "updated", Met.hash))
    /\ k' = k + 1 /\ probe' = 0
    /\ UNCHANGED <<oldList, newList, slots, phase>>

NotFound ==
    /\ phase = "compare" /\ k <= Len(oldList)
    /\ slots[CompareSlot] = 0
    /\ results' = Append(results, Entry(OldEntry.path, "deleted", NoHash))
    /\ k' = k + 1 /\ probe' = 0
    /\ UNCHANGED <<oldList, newList, slots, used, phase>>

EndCompare ==
    /\ phase = "compare" /\ k > Len(oldList)
    /\ phase' = "sweep"
    /\ k' = 1
    /\ UNCHANGED <<oldList, newList, slots, used, probe, results>>

(***************************************************************************)
(* The loop over the map: slot k - 1.                                      *)
(***************************************************************************)
Sweep ==
    /\ phase = "sweep" /\ k <= MapSize
    /\ results' = IF slots[k - 1] = 0 \/ k - 1 \in used THEN results
                  ELSE LET e == newList[slots[k - 1]]
                       IN  Append(results, Entry(e.path, "added", e.hash))
    /\ k' = k + 1
    /\ UNCHANGED <<oldList, newList, slots, used, probe, phase>>

EndSweepEarly ==  \* mutant: the last slot is not looked at
    /\ phase = "sweep" /\ k >= MapSize
    /\ phase' = "done"
    /\ UNCHANGED <<oldList, newList, slots, used, k, probe, results>>
EndSweep ==
    /\ phase = "sweep" /\ k > MapSize
    /\ phase' = "done"
    /\ UNCHANGED <<oldList, newList, slots, used, k, probe, results>>

DeltaInit ==
    /\ oldList = <<>> /\ newList = <<>>
    /\ slots = [s \in 0..MapSizeFor(0) - 1 |-> 0]
    /\ used = {} /\ k = 1 /\ probe = 0 /\ phase = "idle" /\ results = <<>>

DeltaStep ==
    \/ InsertProbe \/ Insert \/ EndInsert
    \/ CompareProbe \/ Found \/ NotFound \/ EndCompare
    \/ Sweep \/ EndSweep

Start == \E o, n \in Seq([path : Path, hash : Hash]) :
            IsList(o) /\ IsList(n) /\ Calculate(o, n)

DeltaSpec == DeltaInit /\ [][Start \/ DeltaStep]_dvars
-----------------------------------------------------------------------------
Listed(l, p) == \E j \in 1..Len(l) : l[j].path = p

\* The difference of the two indices, entry by entry.
Diff ==
    { Entry(oldList[i].path, "deleted", NoHash) :
        i \in {i \in 1..Len(oldList) : ~Listed(newList, oldList[i].path)} }
    \cup { Entry(newList[j].path, "added", newList[j].hash) :
        j \in {j \in 1..Len(newList) : ~Listed(oldList, newList[j].path)} }
    \cup { Entry(newList[j].path, "updated", newList[j].hash) :
        j \in {j \in 1..Len(newList) : \E i \in 1..Len(oldList) :
                  /\ oldList[i].path = newList[j].path
                  /\ oldList[i].hash # newList[j].hash} }

\* When paf_delta_calculate has returned 0, its entries are exactly the
\* difference of the two indices, each path named once: no probe has missed
\* a path that was in the map, and none was left unmarked for the last loop.
DeltaExact ==
    phase = "done" =>
        /\ {results[j] : j \in 1..Len(results)} = Diff
        /\ \A i, j \in 1..Len(results) : results[i].path = results[j].path => i = j
=============================================================================
