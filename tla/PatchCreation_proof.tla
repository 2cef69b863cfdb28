------------------------- MODULE PatchCreation_proof ------------------------
(***************************************************************************)
(* paf_delta_calculate returns exactly the difference of the two indices,  *)
(* whatever their lengths and whatever the hash function of the paths; and *)
(* a patch made from it is faithful, safe to apply and, if nothing else    *)
(* touches the files, turns the old directory into the new one.            *)
(***************************************************************************)
EXTENDS PatchCreation, Ranges, SequenceTheorems, TLAPS

(***************************************************************************)
(* The difference of two indices (module Delta).                           *)
(***************************************************************************)
Results  == [path : Path, status : Statuses, hash : Hash \cup {NoHash}]
Map(nl)  == 0..MapSizeFor(Len(nl)) - 1

\* Entry j of the new index is in the map, and the way from the first slot
\* of its path to it has no gap.
InMap(sl, nl, j) ==
    \E d \in Map(nl) :
        /\ sl[At(MapSizeFor(Len(nl)), nl[j].path, d)] = j
        /\ \A c \in 0..d - 1 : sl[At(MapSizeFor(Len(nl)), nl[j].path, c)] # 0

\* The map holds the first n entries of the new index, each once.
MapHolds(sl, nl, n) ==
    /\ \A s \in Map(nl) : sl[s] \in 0..n
    /\ \A s, t \in Map(nl) : sl[s] = sl[t] /\ sl[s] # 0 => s = t
    /\ \A j \in 1..n : InMap(sl, nl, j)

\* What the first n old entries contribute to the difference.
FromOld(ol, nl, n) ==
    { Entry(ol[i].path, "deleted", NoHash) :
        i \in {i \in 1..n : ~Listed(nl, ol[i].path)} }
    \cup { Entry(nl[j].path, "updated", nl[j].hash) :
        j \in {j \in 1..Len(nl) : \E i \in 1..n :
                  ol[i].path = nl[j].path /\ ol[i].hash # nl[j].hash} }

\* What the first n slots contribute.
FromMap(sl, nl, us, n) ==
    { Entry(nl[sl[s]].path, "added", nl[sl[s]].hash) :
        s \in {s \in 0..n - 1 : sl[s] # 0 /\ s \notin us} }

\* The slots that the first n old entries meet.
MetBy(sl, ol, nl, n) ==
    {s \in Map(nl) : sl[s] # 0 /\ \E i \in 1..n : ol[i].path = nl[sl[s]].path}

Exactly(r, D) ==
    /\ {r[j] : j \in 1..Len(r)} = D
    /\ \A i, j \in 1..Len(r) : r[i].path = r[j].path => i = j

DeltaTypes ==
    /\ IsList(oldList) /\ IsList(newList)
    /\ slots \in [Map(newList) -> Nat]
    /\ k \in Nat \ {0} /\ probe \in Map(newList)
    /\ results \in Seq(Results)

InsertInv ==
    phase = "insert" =>
        /\ k <= Len(newList) + 1
        /\ MapHolds(slots, newList, k - 1)
        /\ used = {} /\ results = <<>>
        /\ k <= Len(newList) => \A c \in 0..probe - 1 :
              slots[At(MapSizeFor(Len(newList)), newList[k].path, c)] # 0

CompareInv ==
    phase = "compare" =>
        /\ k <= Len(oldList) + 1
        /\ MapHolds(slots, newList, Len(newList))
        /\ used = MetBy(slots, oldList, newList, k - 1)
        /\ Exactly(results, FromOld(oldList, newList, k - 1))
        /\ k <= Len(oldList) => \A c \in 0..probe - 1 :
              LET s == At(MapSizeFor(Len(newList)), oldList[k].path, c)
              IN  slots[s] # 0 /\ newList[slots[s]].path # oldList[k].path

SweepInv ==
    phase = "sweep" =>
        /\ k <= MapSizeFor(Len(newList)) + 1
        /\ MapHolds(slots, newList, Len(newList))
        /\ used = MetBy(slots, oldList, newList, Len(oldList))
        /\ Exactly(results, FromOld(oldList, newList, Len(oldList))
                              \cup FromMap(slots, newList, used, k - 1))

DeltaInv == DeltaTypes /\ InsertInv /\ CompareInv /\ SweepInv /\ DeltaExact

-----------------------------------------------------------------------------
LEMMA ListTypes ==
    ASSUME NEW l, IsList(l)
    PROVE  /\ Len(l) \in Nat
           /\ \A j \in 1..Len(l) : l[j] \in [path : Path, hash : Hash]
           /\ \A j \in 1..Len(l) : l[j].path \in Path /\ l[j].hash \in Hash
           /\ \A i, j \in 1..Len(l) : l[i].path = l[j].path => i = j
<1>1. l \in Seq([path : Path, hash : Hash])
  BY DEF IsList
<1>2. Len(l) \in Nat /\ \A j \in 1..Len(l) : l[j] \in [path : Path, hash : Hash]
  BY <1>1, ElementOfSeq, LenProperties
<1>3. QED
  BY <1>2 DEF IsList

LEMMA MapSizeType ==
    ASSUME NEW n \in Nat
    PROVE  MapSizeFor(n) \in Nat \ {0} /\ n < MapSizeFor(n)
BY DEF MapSizeFor

\* A lookup never leaves the map.
LEMMA AtRange ==
    ASSUME NEW m \in Nat \ {0}, NEW p \in Path, NEW d \in 0..m - 1
    PROVE  At(m, p, d) \in 0..m - 1
<1>1. PathHash[p] \in Nat
  BY PathHashAssumption
<1>2. PathHash[p] % m \in 0..m - 1
  BY <1>1
<1>3. QED
  BY <1>2 DEF At

\* One more entry at the end of results adds it to the set of results.
LEMMA AppendExactly ==
    ASSUME NEW r \in Seq(Results), NEW D, Exactly(r, D), NEW e \in Results,
           \A x \in D : x.path # e.path
    PROVE  Append(r, e) \in Seq(Results) /\ Exactly(Append(r, e), D \cup {e})
<1> DEFINE a == Append(r, e)
<1>1. /\ a \in Seq(Results) /\ Len(r) \in Nat /\ Len(a) = Len(r) + 1
      /\ \A j \in 1..Len(r) : a[j] = r[j]
      /\ a[Len(r) + 1] = e
  BY AppendProperties, LenProperties
<1>2. \A j \in 1..Len(r) : r[j] \in D
  BY DEF Exactly
<1>3. {a[j] : j \in 1..Len(a)} = D \cup {e}
  <2>1. \A j \in 1..Len(a) : a[j] \in D \cup {e}
    BY <1>1, <1>2
  <2>2. \A x \in D : \E j \in 1..Len(r) : x = r[j]
    BY DEF Exactly
  <2>3. \A x \in D \cup {e} : \E j \in 1..Len(a) : x = a[j]
    <3> TAKE x \in D \cup {e}
    <3>1. CASE x = e
      BY <3>1, <1>1
    <3>2. CASE x \in D
      <4>1. PICK j \in 1..Len(r) : x = r[j]
        BY <3>2, <2>2
      <4>2. j \in 1..Len(a) /\ x = a[j]
        BY <4>1, <1>1
      <4>3. QED
        BY <4>2
    <3>3. QED
      BY <3>1, <3>2
  <2>4. QED
    BY <2>1, <2>3
<1>4. ASSUME NEW i \in 1..Len(a), NEW j \in 1..Len(a), a[i].path = a[j].path
      PROVE  i = j
  <2>1. CASE i \in 1..Len(r) /\ j \in 1..Len(r)
    BY <2>1, <1>1, <1>4 DEF Exactly
  <2>2. CASE i \in 1..Len(r) /\ j = Len(r) + 1
    BY <2>2, <1>1, <1>2, <1>4
  <2>3. CASE i = Len(r) + 1 /\ j \in 1..Len(r)
    BY <2>3, <1>1, <1>2, <1>4
  <2>4. CASE i = Len(r) + 1 /\ j = Len(r) + 1
    BY <2>4
  <2>5. QED
    BY <1>1, <2>1, <2>2, <2>3, <2>4
<1>5. QED
  BY <1>1, <1>3, <1>4 DEF Exactly
-----------------------------------------------------------------------------
\* A new entry put into the first empty slot of its way is in the map, and
\* the entries before it stay there.
LEMMA InsertKeeps ==
    ASSUME NEW nl, IsList(nl), NEW n \in 1..Len(nl),
           NEW sl \in [Map(nl) -> Nat], MapHolds(sl, nl, n - 1),
           NEW d \in Map(nl),
           \A c \in 0..d - 1 : sl[At(MapSizeFor(Len(nl)), nl[n].path, c)] # 0,
           sl[At(MapSizeFor(Len(nl)), nl[n].path, d)] = 0
    PROVE  MapHolds([sl EXCEPT ![At(MapSizeFor(Len(nl)), nl[n].path, d)] = n], nl, n)
<1> DEFINE m == MapSizeFor(Len(nl))
           s0 == At(m, nl[n].path, d)
           new1 == [sl EXCEPT ![s0] = n]
<1>1. Len(nl) \in Nat /\ \A j \in 1..Len(nl) : nl[j].path \in Path
  BY ListTypes
<1>2. m \in Nat \ {0} /\ Map(nl) = 0..m - 1
  BY <1>1, MapSizeType DEF Map
<1>3. \A j \in 1..Len(nl), c \in Map(nl) : At(m, nl[j].path, c) \in Map(nl)
  BY <1>1, <1>2, AtRange
<1>4. s0 \in Map(nl) /\ sl[s0] = 0
  BY <1>3
<1>5. \A s \in Map(nl) : new1[s] = IF s = s0 THEN n ELSE sl[s]
  OBVIOUS
<1> HIDE DEF m, s0, new1
<1>6. \A s \in Map(nl) : new1[s] \in 0..n
  BY <1>1, <1>5 DEF MapHolds
<1>7. \A s, t \in Map(nl) : new1[s] = new1[t] /\ new1[s] # 0 => s = t
  BY <1>1, <1>5 DEF MapHolds
<1>8. ASSUME NEW j \in 1..n - 1
      PROVE  InMap(new1, nl, j)
  <2>1. PICK e \in Map(nl) :
           /\ sl[At(m, nl[j].path, e)] = j
           /\ \A c \in 0..e - 1 : sl[At(m, nl[j].path, c)] # 0
    BY DEF MapHolds, InMap, m
  <2>2. \A c \in 0..e : c \in Map(nl)
    BY <1>2
  <2> j \in 1..Len(nl)
    BY <1>1
  <2>3. \A c \in 0..e : At(m, nl[j].path, c) \in Map(nl)
    BY <1>3, <2>2
  <2>4. new1[At(m, nl[j].path, e)] = j
    <3>1. At(m, nl[j].path, e) \in Map(nl) /\ At(m, nl[j].path, e) # s0
      BY <1>2, <1>4, <2>1, <2>3, SMTT(20)
    <3>2. QED
      BY <1>5, <2>1, <3>1
  <2>5. \A c \in 0..e - 1 : new1[At(m, nl[j].path, c)] # 0
    <3> SUFFICES ASSUME NEW c \in 0..e - 1
                 PROVE  new1[At(m, nl[j].path, c)] # 0
      OBVIOUS
    <3>1. At(m, nl[j].path, c) \in Map(nl)
      <4>1. c \in 0..e
        BY <1>2
      <4>2. QED
        BY <2>3, <4>1
    <3>2. sl[At(m, nl[j].path, c)] # 0
      BY <2>1
    <3>3. n # 0
      BY <1>1
    <3>4. QED
      BY <1>5, <3>1, <3>2, <3>3
  <2>6. QED
    BY <2>4, <2>5 DEF InMap, m
<1>9. InMap(new1, nl, n)
  <2>1. new1[At(m, nl[n].path, d)] = n
    BY <1>4, <1>5 DEF s0
  <2>2. \A c \in 0..d - 1 : At(m, nl[n].path, c) \in Map(nl)
    <3>1. \A c \in 0..d - 1 : c \in Map(nl)
      BY <1>2
    <3>2. QED
      BY <1>3, <3>1
  <2>3. \A c \in 0..d - 1 : new1[At(m, nl[n].path, c)] # 0
    BY <1>1, <1>5, <2>2 DEF m
  <2>4. QED
    BY <2>1, <2>3 DEF InMap, m
<1>10. QED
  <2>1. \A j \in 1..n : j \in 1..n - 1 \/ j = n
    BY <1>1
  <2>2. MapHolds(new1, nl, n)
    BY <1>6, <1>7, <1>8, <1>9, <2>1 DEF MapHolds
  <2>3. QED
    BY <2>2 DEF new1, s0, m

\* A lookup that meets a gap proves the path absent: had it been in the map,
\* the lookup would have met it before.
LEMMA GapMeansAbsent ==
    ASSUME NEW nl, IsList(nl), NEW sl \in [Map(nl) -> Nat],
           MapHolds(sl, nl, Len(nl)), NEW p \in Path, NEW d \in Map(nl),
           sl[At(MapSizeFor(Len(nl)), p, d)] = 0,
           \A c \in 0..d - 1 : nl[sl[At(MapSizeFor(Len(nl)), p, c)]].path # p
    PROVE  ~Listed(nl, p)
<1> SUFFICES ASSUME NEW j \in 1..Len(nl), nl[j].path = p
             PROVE  FALSE
  BY DEF Listed
<1> DEFINE m == MapSizeFor(Len(nl))
<1>1. PICK e \in Map(nl) :
         sl[At(m, p, e)] = j /\ \A c \in 0..e - 1 : sl[At(m, p, c)] # 0
  BY DEF MapHolds, InMap
<1>2. Len(nl) \in Nat /\ m \in Nat \ {0}
  BY ListTypes, MapSizeType
<1>3. ~(e < d)
  BY <1>1, <1>2 DEF Map
<1>4. ~(d < e)
  BY <1>1, <1>2 DEF Map
<1>5. e # d
  BY <1>1, <1>2
<1>6. QED
  BY <1>2, <1>3, <1>4, <1>5 DEF Map
-----------------------------------------------------------------------------
\* The contribution of old entry n, by what its lookup found.
LEMMA FromOldDeleted ==
    ASSUME NEW ol, IsList(ol), NEW nl, IsList(nl), NEW n \in 1..Len(ol),
           ~Listed(nl, ol[n].path)
    PROVE  FromOld(ol, nl, n)
             = FromOld(ol, nl, n - 1) \cup {Entry(ol[n].path, "deleted", NoHash)}
<1>1. Len(ol) \in Nat /\ Len(nl) \in Nat
  BY ListTypes
<1>2. \A i : i \in 1..n <=> i \in 1..n - 1 \/ i = n
  BY <1>1
<1>3. \A j \in 1..Len(nl) : ol[n].path # nl[j].path
  BY DEF Listed
<1>4. QED
  BY <1>2, <1>3 DEF FromOld

LEMMA FromOldSame ==
    ASSUME NEW ol, IsList(ol), NEW nl, IsList(nl), NEW n \in 1..Len(ol),
           NEW j \in 1..Len(nl), nl[j].path = ol[n].path, nl[j].hash = ol[n].hash
    PROVE  FromOld(ol, nl, n) = FromOld(ol, nl, n - 1)
<1>1. Len(ol) \in Nat /\ Len(nl) \in Nat
  BY ListTypes
<1>2. \A i : i \in 1..n <=> i \in 1..n - 1 \/ i = n
  BY <1>1
<1>3. Listed(nl, ol[n].path)
  BY DEF Listed
<1>4. \A h \in 1..Len(nl) : ol[n].path = nl[h].path => h = j
  BY ListTypes
<1>5. QED
  BY <1>2, <1>3, <1>4 DEF FromOld

LEMMA FromOldUpdated ==
    ASSUME NEW ol, IsList(ol), NEW nl, IsList(nl), NEW n \in 1..Len(ol),
           NEW j \in 1..Len(nl), nl[j].path = ol[n].path, nl[j].hash # ol[n].hash
    PROVE  FromOld(ol, nl, n)
             = FromOld(ol, nl, n - 1) \cup {Entry(nl[j].path, "updated", nl[j].hash)}
<1>1. Len(ol) \in Nat /\ Len(nl) \in Nat
  BY ListTypes
<1>2. \A i : i \in 1..n <=> i \in 1..n - 1 \/ i = n
  BY <1>1
<1>3. Listed(nl, ol[n].path)
  BY DEF Listed
<1>4. \A h \in 1..Len(nl) : ol[n].path = nl[h].path => h = j
  BY ListTypes
<1>5. QED
  BY <1>2, <1>3, <1>4 DEF FromOld

\* Nothing that the first n old entries contribute has another path than
\* one of theirs.
LEMMA FromOldPaths ==
    ASSUME NEW ol, NEW nl, NEW n, NEW x \in FromOld(ol, nl, n)
    PROVE  \E i \in 1..n : x.path = ol[i].path
BY DEF FromOld, Entry

\* Slot n of the map, when the last loop looks at it.
LEMMA FromMapStep ==
    ASSUME NEW sl, NEW nl, NEW us, NEW n \in Nat \ {0}
    PROVE  FromMap(sl, nl, us, n) = FromMap(sl, nl, us, n - 1) \cup
              (IF sl[n - 1] = 0 \/ n - 1 \in us THEN {}
               ELSE {Entry(nl[sl[n - 1]].path, "added", nl[sl[n - 1]].hash)})
<1>1. \A s : s \in 0..n - 1 <=> s \in 0..(n - 1) - 1 \/ s = n - 1
  OBVIOUS
<1>2. QED
  BY <1>1 DEF FromMap

\* An entry of the new index sits in a slot that no old entry met exactly if
\* its path is not in the old index.
LEMMA UnmetMeansAdded ==
    ASSUME NEW ol, IsList(ol), NEW nl, IsList(nl), NEW sl \in [Map(nl) -> Nat],
           MapHolds(sl, nl, Len(nl))
    PROVE  /\ \A s \in Map(nl) : sl[s] # 0 /\ s \notin MetBy(sl, ol, nl, Len(ol)) =>
                  sl[s] \in 1..Len(nl) /\ ~Listed(ol, nl[sl[s]].path)
           /\ \A j \in 1..Len(nl) : ~Listed(ol, nl[j].path) =>
                  \E s \in Map(nl) :
                     sl[s] = j /\ sl[s] # 0 /\ s \notin MetBy(sl, ol, nl, Len(ol))
<1>1. Len(nl) \in Nat /\ \A j \in 1..Len(nl) : nl[j].path \in Path
  BY ListTypes
<1>2. ASSUME NEW s \in Map(nl), sl[s] # 0, s \notin MetBy(sl, ol, nl, Len(ol))
      PROVE  sl[s] \in 1..Len(nl) /\ ~Listed(ol, nl[sl[s]].path)
  <2>1. sl[s] \in 1..Len(nl)
    BY <1>1, <1>2 DEF MapHolds
  <2>2. QED
    BY <1>2, <2>1 DEF MetBy, Listed
<1>3. ASSUME NEW j \in 1..Len(nl), ~Listed(ol, nl[j].path)
      PROVE  \E s \in Map(nl) :
                sl[s] = j /\ sl[s] # 0 /\ s \notin MetBy(sl, ol, nl, Len(ol))
  <2> DEFINE m == MapSizeFor(Len(nl))
  <2>1. PICK d \in Map(nl) : sl[At(m, nl[j].path, d)] = j
    BY DEF MapHolds, InMap
  <2>2. m \in Nat \ {0} /\ Map(nl) = 0..m - 1
    BY <1>1, MapSizeType DEF Map
  <2>3. At(m, nl[j].path, d) \in Map(nl)
    BY <1>1, <2>2, AtRange
  <2>4. j # 0
    BY <1>1
  <2>5. At(m, nl[j].path, d) \notin MetBy(sl, ol, nl, Len(ol))
    BY <1>3, <2>1 DEF MetBy, Listed
  <2>6. QED
    BY <2>1, <2>3, <2>4, <2>5
<1>4. QED
  BY <1>2, <1>3

\* All old entries and all slots together contribute the difference.
LEMMA Complete ==
    ASSUME IsList(oldList), IsList(newList), slots \in [Map(newList) -> Nat],
           MapHolds(slots, newList, Len(newList)),
           used = MetBy(slots, oldList, newList, Len(oldList))
    PROVE  FromOld(oldList, newList, Len(oldList))
              \cup FromMap(slots, newList, used, MapSizeFor(Len(newList))) = Diff
<1> DEFINE Added == { Entry(newList[j].path, "added", newList[j].hash) :
               j \in {j \in 1..Len(newList) : ~Listed(oldList, newList[j].path)} }
<1>1. ASSUME NEW x \in FromMap(slots, newList, used, MapSizeFor(Len(newList)))
      PROVE  x \in Added
  <2>1. PICK s \in Map(newList) :
           /\ slots[s] # 0 /\ s \notin used
           /\ x = Entry(newList[slots[s]].path, "added", newList[slots[s]].hash)
    BY <1>1 DEF FromMap, Map
  <2>2. slots[s] \in 1..Len(newList) /\ ~Listed(oldList, newList[slots[s]].path)
    BY <2>1, UnmetMeansAdded
  <2>3. QED
    BY <2>1, <2>2
<1>2. ASSUME NEW x \in Added
      PROVE  x \in FromMap(slots, newList, used, MapSizeFor(Len(newList)))
  <2>1. PICK j \in 1..Len(newList) :
           /\ ~Listed(oldList, newList[j].path)
           /\ x = Entry(newList[j].path, "added", newList[j].hash)
    BY <1>2
  <2>2. PICK s \in Map(newList) : slots[s] = j /\ slots[s] # 0 /\ s \notin used
    BY <2>1, UnmetMeansAdded
  <2>3. QED
    BY <2>1, <2>2 DEF FromMap, Map
<1>3. FromMap(slots, newList, used, MapSizeFor(Len(newList))) = Added
  BY <1>1, <1>2
<1>4. QED
  BY <1>3 DEF FromOld, Diff
-----------------------------------------------------------------------------
\* The slot that the running lookup looks at is one of the map.
LEMMA LookupTypes ==
    ASSUME DeltaTypes
    PROVE  /\ Len(oldList) \in Nat /\ Len(newList) \in Nat
           /\ MapSizeFor(Len(newList)) \in Nat \ {0}
           /\ Map(newList) = 0..MapSize - 1 /\ MapSize = MapSizeFor(Len(newList))
           /\ k <= Len(newList) => /\ k \in 1..Len(newList)
                                   /\ InsertSlot \in Map(newList)
           /\ k <= Len(oldList) => /\ k \in 1..Len(oldList)
                                   /\ OldEntry.path \in Path
                                   /\ CompareSlot \in Map(newList)
           /\ NextProbe \in Map(newList)
<1>1. /\ Len(oldList) \in Nat /\ Len(newList) \in Nat
      /\ \A j \in 1..Len(newList) : newList[j].path \in Path
      /\ \A j \in 1..Len(oldList) : oldList[j].path \in Path
  BY ListTypes DEF DeltaTypes
<1>2. /\ MapSizeFor(Len(newList)) \in Nat \ {0}
      /\ Map(newList) = 0..MapSize - 1 /\ MapSize = MapSizeFor(Len(newList))
  BY <1>1, MapSizeType DEF Map, MapSize
<1>3. k \in Nat \ {0} /\ probe \in 0..MapSize - 1
  BY <1>2 DEF DeltaTypes
<1> HIDE DEF DeltaTypes
<1>4. ASSUME k <= Len(newList)
      PROVE  k \in 1..Len(newList) /\ InsertSlot \in Map(newList)
  <2>1. k \in 1..Len(newList)
    BY <1>1, <1>3, <1>4
  <2>2. newList[k].path \in Path
    BY <1>1, <2>1
  <2>3. At(MapSize, newList[k].path, probe) \in 0..MapSize - 1
    BY <1>2, <1>3, <2>2, AtRange
  <2>4. QED
    BY <1>2, <2>1, <2>3 DEF InsertSlot
<1>5. ASSUME k <= Len(oldList)
      PROVE  /\ k \in 1..Len(oldList) /\ OldEntry.path \in Path
             /\ CompareSlot \in Map(newList)
  <2>1. k \in 1..Len(oldList)
    BY <1>1, <1>3, <1>5
  <2>2. OldEntry.path \in Path
    BY <1>1, <2>1 DEF OldEntry
  <2>3. At(MapSize, OldEntry.path, probe) \in 0..MapSize - 1
    BY <1>2, <1>3, <2>2, AtRange
  <2>4. QED
    BY <1>2, <2>1, <2>2, <2>3 DEF CompareSlot
<1>6. NextProbe \in Map(newList)
  BY <1>2, <1>3 DEF NextProbe
<1>7. QED
  BY <1>1, <1>2, <1>4, <1>5, <1>6

\* The first loop fills the map.
LEMMA InsertStep ==
    ASSUME DeltaInv, InsertProbe \/ Insert \/ EndInsert
    PROVE  DeltaInv'
<1> USE DEF DeltaInv
<1>0. /\ Len(newList) \in Nat /\ k \in Nat \ {0} /\ DeltaTypes
      /\ MapSizeFor(Len(newList)) \in Nat \ {0}
      /\ Map(newList) = 0..MapSize - 1 /\ MapSize = MapSizeFor(Len(newList))
      /\ probe \in 0..MapSize - 1
  BY LookupTypes DEF DeltaTypes
<1>1. CASE InsertProbe
  <2>1. DeltaTypes'
    BY <1>1, LookupTypes DEF InsertProbe, DeltaTypes
  <2>2. \A c \in 0..NextProbe - 1 : c \in 0..probe - 1 \/ c = probe
    BY <1>0 DEF NextProbe
  <2>3. InsertInv'
    BY <1>1, <1>0, <2>2 DEF InsertProbe, InsertInv, InsertSlot
  <2>4. QED
    BY <1>1, <2>1, <2>3 DEF InsertProbe, CompareInv, SweepInv, DeltaExact
<1>2. CASE Insert
  <2>1. /\ k \in 1..Len(newList) /\ phase = "insert" /\ phase' = "insert"
        /\ slots' = [slots EXCEPT ![InsertSlot] = k] /\ k' = k + 1 /\ probe' = 0
        /\ slots[InsertSlot] = 0
        /\ UNCHANGED <<oldList, newList, used, results>>
    BY <1>2, LookupTypes DEF Insert
  <2>2. DeltaTypes'
    <3>1. slots \in [Map(newList) -> Nat] /\ k \in Nat
      BY DEF DeltaTypes
    <3>2. slots' \in [Map(newList) -> Nat]
      BY <2>1, <3>1
    <3>3. k' \in Nat \ {0} /\ probe' \in Map(newList)
      BY <1>0, <2>1
    <3>4. QED
      BY <2>1, <3>2, <3>3 DEF DeltaTypes, Map
  <2>3. MapHolds(slots', newList, k)
    <3>1. /\ MapHolds(slots, newList, k - 1)
          /\ \A c \in 0..probe - 1 :
                slots[At(MapSizeFor(Len(newList)), newList[k].path, c)] # 0
      BY <2>1, <1>0 DEF InsertInv
    <3>2. /\ slots[At(MapSizeFor(Len(newList)), newList[k].path, probe)] = 0
          /\ slots' = [slots EXCEPT
                ![At(MapSizeFor(Len(newList)), newList[k].path, probe)] = k]
      BY <2>1, <1>0 DEF InsertSlot
    <3>3. IsList(newList) /\ slots \in [Map(newList) -> Nat] /\ probe \in Map(newList)
      BY DEF DeltaTypes
    <3>4. MapHolds([slots EXCEPT ![At(MapSizeFor(Len(newList)), newList[k].path, probe)] = k],
                   newList, k)
      BY <2>1, <3>1, <3>2, <3>3, InsertKeeps
    <3>5. QED
      BY <3>2, <3>4
  <2>4. InsertInv'
    BY <1>0, <2>1, <2>3 DEF InsertInv
  <2>5. QED
    BY <2>1, <2>2, <2>4 DEF CompareInv, SweepInv, DeltaExact
<1>3. CASE EndInsert
  <2>1. /\ phase = "insert" /\ k > Len(newList) /\ phase' \in {"compare", "failed"}
        /\ k' = 1 /\ probe' = 0
        /\ UNCHANGED <<oldList, newList, slots, used, results>>
    BY <1>3 DEF EndInsert
  <2>2. DeltaTypes'
    BY <1>0, <2>1 DEF DeltaTypes
  <2>3. MapHolds(slots, newList, Len(newList)) /\ used = {} /\ results = <<>>
    <3>1. k - 1 = Len(newList)
      BY <1>0, <2>1 DEF InsertInv
    <3>2. QED
      BY <2>1, <3>1 DEF InsertInv
  <2>4. used = MetBy(slots, oldList, newList, 0)
    BY <2>3 DEF MetBy
  <2>5. Exactly(results, FromOld(oldList, newList, 0))
    BY <2>3 DEF Exactly, FromOld
  <2>6. CompareInv'
    BY <1>0, <2>1, <2>3, <2>4, <2>5, LookupTypes DEF CompareInv
  <2>7. QED
    BY <2>1, <2>2, <2>6 DEF InsertInv, SweepInv, DeltaExact
<1>4. QED
  BY <1>1, <1>2, <1>3

\* An entry about old entry n is none of those about the ones before it.
LEMMA FreshPath ==
    ASSUME NEW ol, IsList(ol), NEW nl, NEW n \in 1..Len(ol)
    PROVE  \A x \in FromOld(ol, nl, n - 1) : x.path # ol[n].path
<1>1. Len(ol) \in Nat /\ \A i, j \in 1..Len(ol) : ol[i].path = ol[j].path => i = j
  BY ListTypes
<1>2. \A i \in 1..n - 1 : i \in 1..Len(ol) /\ i # n
  BY <1>1
<1>3. QED
  BY <1>1, <1>2, FromOldPaths

\* The second loop looks every old entry up.
LEMMA LookupStep ==
    ASSUME DeltaInv, CompareProbe \/ Found \/ NotFound \/ EndCompare
    PROVE  DeltaInv'
<1> USE DEF DeltaInv
<1>0. /\ Len(oldList) \in Nat /\ Len(newList) \in Nat /\ k \in Nat \ {0}
      /\ MapSizeFor(Len(newList)) \in Nat \ {0}
      /\ Map(newList) = 0..MapSize - 1 /\ MapSize = MapSizeFor(Len(newList))
      /\ probe \in 0..MapSize - 1
      /\ IsList(oldList) /\ IsList(newList)
      /\ slots \in [Map(newList) -> Nat] /\ results \in Seq(Results)
  BY LookupTypes DEF DeltaTypes
<1>a. ASSUME phase = "compare", k <= Len(oldList)
      PROVE  /\ k \in 1..Len(oldList) /\ CompareSlot \in Map(newList)
             /\ OldEntry = oldList[k] /\ OldEntry.path \in Path
             /\ MapHolds(slots, newList, Len(newList))
             /\ used = MetBy(slots, oldList, newList, k - 1)
             /\ Exactly(results, FromOld(oldList, newList, k - 1))
             /\ \A x \in FromOld(oldList, newList, k - 1) : x.path # OldEntry.path
             /\ \A c \in 0..probe - 1 :
                   LET s == At(MapSizeFor(Len(newList)), oldList[k].path, c)
                   IN  slots[s] # 0 /\ newList[slots[s]].path # oldList[k].path
  <2>1. k \in 1..Len(oldList) /\ CompareSlot \in Map(newList) /\ OldEntry.path \in Path
    BY <1>a, LookupTypes
  <2>2. \A x \in FromOld(oldList, newList, k - 1) : x.path # OldEntry.path
    BY <1>0, <2>1, FreshPath DEF OldEntry
  <2>3. QED
    BY <1>a, <2>1, <2>2 DEF CompareInv, OldEntry
<1>1. CASE CompareProbe
  <2>1. DeltaTypes'
    BY <1>1, LookupTypes DEF CompareProbe, DeltaTypes
  <2>2. \A c \in 0..NextProbe - 1 : c \in 0..probe - 1 \/ c = probe
    BY <1>0 DEF NextProbe
  <2>3. CompareInv'
    BY <1>1, <1>0, <2>2 DEF CompareProbe, CompareInv, CompareSlot, OldEntry, Met
  <2>4. QED
    BY <1>1, <2>1, <2>3 DEF CompareProbe, InsertInv, SweepInv, DeltaExact
<1>2. CASE NotFound
  <2>1. /\ phase = "compare" /\ phase' = "compare" /\ k <= Len(oldList)
        /\ k' = k + 1 /\ probe' = 0 /\ slots[CompareSlot] = 0
        /\ results' = Append(results, Entry(OldEntry.path, "deleted", NoHash))
        /\ UNCHANGED <<oldList, newList, slots, used>>
    BY <1>2 DEF NotFound
  <2> DEFINE e == Entry(OldEntry.path, "deleted", NoHash)
  <2>2. e \in Results /\ e.path = OldEntry.path
    BY <1>a, <2>1 DEF Entry, Results, Statuses
  <2>3. ~Listed(newList, OldEntry.path)
    <3>1. slots[At(MapSizeFor(Len(newList)), OldEntry.path, probe)] = 0
      BY <1>0, <2>1 DEF CompareSlot
    <3>2. \A c \in 0..probe - 1 :
             newList[slots[At(MapSizeFor(Len(newList)), OldEntry.path, c)]].path
               # OldEntry.path
      BY <1>a, <2>1
    <3>3. /\ probe \in Map(newList) /\ OldEntry.path \in Path
          /\ MapHolds(slots, newList, Len(newList))
      BY <1>0, <1>a, <2>1
    <3>4. QED
      BY <1>0, <3>1, <3>2, <3>3, GapMeansAbsent
  <2>4. FromOld(oldList, newList, k) = FromOld(oldList, newList, k - 1) \cup {e}
    <3>1. k \in 1..Len(oldList) /\ OldEntry = oldList[k]
      BY <1>a, <2>1
    <3>2. ~Listed(newList, oldList[k].path)
      BY <2>3, <3>1
    <3>3. FromOld(oldList, newList, k) = FromOld(oldList, newList, k - 1)
             \cup {Entry(oldList[k].path, "deleted", NoHash)}
      BY <1>0, <3>1, <3>2, FromOldDeleted
    <3>4. QED
      BY <3>1, <3>3
  <2>5. /\ Append(results, e) \in Seq(Results)
        /\ Exactly(Append(results, e), FromOld(oldList, newList, k))
    <3>1. /\ Exactly(results, FromOld(oldList, newList, k - 1))
          /\ \A x \in FromOld(oldList, newList, k - 1) : x.path # e.path
      BY <1>a, <2>1, <2>2
    <3> HIDE DEF e
    <3>2. QED
      BY <1>0, <2>2, <2>4, <3>1, AppendExactly
  <2>6. MetBy(slots, oldList, newList, k) = MetBy(slots, oldList, newList, k - 1)
    <3>1. \A i : i \in 1..k <=> i \in 1..k - 1 \/ i = k
      BY <1>0
    <3>2. \A s \in Map(newList) : slots[s] # 0 => slots[s] \in 1..Len(newList)
      BY <1>0, <1>a, <2>1 DEF MapHolds
    <3>3. \A s \in Map(newList) :
             slots[s] # 0 => oldList[k].path # newList[slots[s]].path
      BY <1>a, <2>1, <2>3, <3>2 DEF Listed
    <3>4. QED
      BY <3>1, <3>3 DEF MetBy
  <2>7. DeltaTypes'
    BY <1>0, <2>1, <2>5 DEF DeltaTypes
  <2>8. CompareInv'
    BY <1>0, <1>a, <2>1, <2>5, <2>6 DEF CompareInv
  <2>9. QED
    BY <2>1, <2>7, <2>8 DEF InsertInv, SweepInv, DeltaExact
<1>3. CASE Found
  <2>1. /\ phase = "compare" /\ phase' = "compare" /\ k <= Len(oldList)
        /\ k' = k + 1 /\ probe' = 0
        /\ slots[CompareSlot] # 0 /\ Met.path = OldEntry.path
        /\ used' = used \cup {CompareSlot}
        /\ results' = IF Met.hash = OldEntry.hash THEN results
                      ELSE Append(results, Entry(OldEntry.path, "updated", Met.hash))
        /\ UNCHANGED <<oldList, newList, slots>>
    BY <1>3 DEF Found
  <2> DEFINE e == Entry(OldEntry.path, "updated", Met.hash)
             j == slots[CompareSlot]
  <2>2. j \in 1..Len(newList) /\ Met = newList[j]
    BY <1>0, <1>a, <2>1 DEF MapHolds, Met
  <2>3. Met.hash \in Hash /\ e \in Results /\ e.path = OldEntry.path
    BY <1>0, <1>a, <2>1, <2>2, ListTypes DEF Entry, Results, Statuses
  <2>4. /\ results' \in Seq(Results)
        /\ Exactly(results', FromOld(oldList, newList, k))
    <3>1. CASE Met.hash = OldEntry.hash
      <4>1. FromOld(oldList, newList, k) = FromOld(oldList, newList, k - 1)
        BY <1>0, <1>a, <2>1, <2>2, <3>1, FromOldSame
      <4>2. QED
        BY <1>0, <1>a, <2>1, <3>1, <4>1
    <3>2. CASE Met.hash # OldEntry.hash
      <4>1. FromOld(oldList, newList, k) = FromOld(oldList, newList, k - 1) \cup {e}
        <5>1. /\ k \in 1..Len(oldList) /\ j \in 1..Len(newList)
              /\ newList[j].path = oldList[k].path /\ newList[j].hash # oldList[k].hash
          BY <1>a, <2>1, <2>2, <3>2
        <5>2. FromOld(oldList, newList, k) = FromOld(oldList, newList, k - 1)
                 \cup {Entry(newList[j].path, "updated", newList[j].hash)}
          BY <1>0, <5>1, FromOldUpdated, SMTT(20)
        <5>3. e = Entry(newList[j].path, "updated", newList[j].hash)
          BY <2>1, <2>2
        <5>4. QED
          BY <5>2, <5>3
      <4>2. /\ Append(results, e) \in Seq(Results)
            /\ Exactly(Append(results, e), FromOld(oldList, newList, k))
        <5>1. /\ Exactly(results, FromOld(oldList, newList, k - 1))
              /\ \A x \in FromOld(oldList, newList, k - 1) : x.path # e.path
          BY <1>a, <2>1, <2>3
        <5> HIDE DEF e
        <5>2. QED
          BY <1>0, <2>3, <4>1, <5>1, AppendExactly
      <4>3. QED
        BY <2>1, <3>2, <4>2
    <3>3. QED
      BY <3>1, <3>2
  <2>5. MetBy(slots, oldList, newList, k)
          = MetBy(slots, oldList, newList, k - 1) \cup {CompareSlot}
    <3>1. \A i : i \in 1..k <=> i \in 1..k - 1 \/ i = k
      BY <1>0
    <3>2. \A s \in Map(newList) : slots[s] # 0 => slots[s] \in 1..Len(newList)
      BY <1>0, <1>a, <2>1 DEF MapHolds
    <3>3. \A s \in Map(newList) :
             slots[s] # 0 /\ oldList[k].path = newList[slots[s]].path => s = CompareSlot
      <4> TAKE s \in Map(newList)
      <4> HAVE slots[s] # 0 /\ oldList[k].path = newList[slots[s]].path
      <4>1. newList[slots[s]].path = newList[j].path
        BY <1>a, <2>1, <2>2
      <4>2. slots[s] = j
        BY <1>0, <2>2, <3>2, <4>1, ListTypes
      <4>3. QED
        BY <1>a, <2>1, <4>2 DEF MapHolds
    <3>4. oldList[k].path = newList[slots[CompareSlot]].path
      BY <1>a, <2>1, <2>2
    <3>5. QED
      BY <1>a, <2>1, <3>1, <3>3, <3>4 DEF MetBy
  <2>6. DeltaTypes'
    BY <1>0, <2>1, <2>4 DEF DeltaTypes
  <2>7. CompareInv'
    BY <1>0, <1>a, <2>1, <2>4, <2>5 DEF CompareInv
  <2>8. QED
    BY <2>1, <2>6, <2>7 DEF InsertInv, SweepInv, DeltaExact
<1>4. CASE EndCompare
  <2>1. /\ phase = "compare" /\ phase' = "sweep" /\ k > Len(oldList) /\ k' = 1
        /\ UNCHANGED <<oldList, newList, slots, used, probe, results>>
    BY <1>4 DEF EndCompare
  <2>2. k - 1 = Len(oldList)
    BY <1>0, <2>1 DEF CompareInv
  <2>3. FromMap(slots, newList, used, 0) = {}
    BY DEF FromMap
  <2>4. /\ MapHolds(slots, newList, Len(newList))
        /\ used = MetBy(slots, oldList, newList, Len(oldList))
        /\ Exactly(results, FromOld(oldList, newList, Len(oldList))
                              \cup FromMap(slots, newList, used, 0))
    BY <2>1, <2>2, <2>3 DEF CompareInv
  <2>5. k' - 1 = 0 /\ k' <= MapSizeFor(Len(newList)) + 1
    BY <1>0, <2>1
  <2>6. SweepInv'
    BY <2>1, <2>4, <2>5 DEF SweepInv
  <2>7. DeltaTypes'
    BY <1>0, <2>1 DEF DeltaTypes
  <2>8. QED
    BY <2>1, <2>6, <2>7 DEF InsertInv, CompareInv, DeltaExact
<1>5. QED
  BY <1>1, <1>2, <1>3, <1>4

\* The third loop collects what no old entry met.
LEMMA SweepStep ==
    ASSUME DeltaInv, Sweep \/ EndSweep
    PROVE  DeltaInv'
<1> USE DEF DeltaInv
<1>0. /\ Len(oldList) \in Nat /\ Len(newList) \in Nat /\ k \in Nat \ {0}
      /\ MapSizeFor(Len(newList)) \in Nat \ {0}
      /\ Map(newList) = 0..MapSize - 1 /\ MapSize = MapSizeFor(Len(newList))
      /\ probe \in Map(newList)
      /\ IsList(oldList) /\ IsList(newList)
      /\ slots \in [Map(newList) -> Nat] /\ results \in Seq(Results)
  BY LookupTypes DEF DeltaTypes
<1> DEFINE O == FromOld(oldList, newList, Len(oldList))
<1>1. CASE Sweep
  <2>1. /\ phase = "sweep" /\ phase' = "sweep" /\ k <= MapSize /\ k' = k + 1
        /\ results' = IF slots[k - 1] = 0 \/ k - 1 \in used THEN results
                      ELSE Append(results, Entry(newList[slots[k - 1]].path, "added",
                                                 newList[slots[k - 1]].hash))
        /\ UNCHANGED <<oldList, newList, slots, used, probe>>
    BY <1>1 DEF Sweep
  <2>2. /\ MapHolds(slots, newList, Len(newList))
        /\ used = MetBy(slots, oldList, newList, Len(oldList))
        /\ Exactly(results, O \cup FromMap(slots, newList, used, k - 1))
    BY <2>1 DEF SweepInv
  <2>3. k - 1 \in Map(newList)
    BY <1>0, <2>1
  <2>4. /\ results' \in Seq(Results)
        /\ Exactly(results', O \cup FromMap(slots, newList, used, k))
    <3>1. CASE slots[k - 1] = 0 \/ k - 1 \in used
      <4>1. FromMap(slots, newList, used, k) = FromMap(slots, newList, used, k - 1)
        <5>1. FromMap(slots, newList, used, k)
                = FromMap(slots, newList, used, k - 1) \cup {}
          BY <1>0, <3>1, FromMapStep
        <5>2. QED
          BY <5>1
      <4>2. QED
        BY <1>0, <2>1, <2>2, <3>1, <4>1
    <3>2. CASE slots[k - 1] # 0 /\ k - 1 \notin used
      <4> DEFINE j == slots[k - 1]
                 e == Entry(newList[j].path, "added", newList[j].hash)
                 D == O \cup FromMap(slots, newList, used, k - 1)
      <4>1. j \in 1..Len(newList) /\ ~Listed(oldList, newList[j].path)
        BY <1>0, <2>2, <2>3, <3>2, UnmetMeansAdded
      <4>2. e \in Results /\ e.path = newList[j].path
        BY <1>0, <4>1, ListTypes DEF Entry, Results, Statuses
      <4>3. \A x \in O : x.path # e.path
        BY <4>1, <4>2, FromOldPaths DEF Listed
      <4>4. ASSUME NEW x \in FromMap(slots, newList, used, k - 1)
            PROVE  x.path # e.path
        <5>1. PICK s \in 0..(k - 1) - 1 :
                 slots[s] # 0 /\ x = Entry(newList[slots[s]].path, "added",
                                           newList[slots[s]].hash)
          BY <4>4 DEF FromMap
        <5>2. s \in Map(newList) /\ s # k - 1
          BY <1>0, <2>1
        <5>3. slots[s] \in 1..Len(newList) /\ slots[s] # j
          BY <1>0, <2>2, <2>3, <3>2, <5>1, <5>2 DEF MapHolds
        <5>4. newList[slots[s]].path # newList[j].path
          BY <1>0, <4>1, <5>3, ListTypes
        <5>5. QED
          BY <4>2, <5>1, <5>4 DEF Entry
      <4>5. \A x \in D : x.path # e.path
        BY <4>3, <4>4
      <4>6. O \cup FromMap(slots, newList, used, k) = D \cup {e}
        <5>1. FromMap(slots, newList, used, k)
                = FromMap(slots, newList, used, k - 1) \cup {e}
          BY <1>0, <3>2, FromMapStep, SMTT(20)
        <5>2. QED
          BY <5>1
      <4>7. Append(results, e) \in Seq(Results) /\ Exactly(Append(results, e), D \cup {e})
        <5> HIDE DEF D, e
        <5>1. QED
          BY <1>0, <2>2, <4>2, <4>5, AppendExactly DEF D
      <4>8. results' = Append(results, e)
        BY <2>1, <3>2
      <4>9. QED
        BY <4>6, <4>7, <4>8
    <3>3. QED
      BY <3>1, <3>2
  <2>5. SweepInv'
    <3>1. k' - 1 = k /\ k' <= MapSizeFor(Len(newList)) + 1
      BY <1>0, <2>1
    <3>2. QED
      BY <2>1, <2>2, <2>4, <3>1 DEF SweepInv
  <2>6. DeltaTypes'
    BY <1>0, <2>1, <2>4 DEF DeltaTypes
  <2>7. QED
    BY <2>1, <2>5, <2>6 DEF InsertInv, CompareInv, DeltaExact
<1>2. CASE EndSweep
  <2>1. /\ phase = "sweep" /\ k > MapSize /\ phase' = "done"
        /\ UNCHANGED <<oldList, newList, slots, used, k, probe, results>>
    BY <1>2 DEF EndSweep
  <2>2. k - 1 = MapSizeFor(Len(newList))
    BY <1>0, <2>1 DEF SweepInv
  <2>3. Exactly(results, Diff)
    BY <1>0, <2>1, <2>2, Complete DEF SweepInv
  <2>4. DeltaExact'
    <3>1. Diff' = Diff
      BY <2>1 DEF Diff
    <3>2. Exactly(results', Diff')
      BY <2>1, <2>3, <3>1
    <3>3. QED
      BY <3>2 DEF DeltaExact, Exactly
  <2>5. DeltaTypes'
    BY <1>0, <2>1 DEF DeltaTypes
  <2>6. QED
    BY <2>1, <2>4, <2>5 DEF InsertInv, CompareInv, SweepInv
<1>3. QED
  BY <1>1, <1>2

\* A call begins with an empty map, whatever the last one left.
LEMMA StartStep ==
    ASSUME DeltaInv, Start
    PROVE  DeltaInv'
<1>1. PICK o, n \in Seq([path : Path, hash : Hash]) :
         IsList(o) /\ IsList(n) /\ Calculate(o, n)
  BY DEF Start
<1>2. /\ oldList' = o /\ newList' = n /\ used' = {} /\ k' = 1 /\ probe' = 0
      /\ results' = <<>> /\ phase' \in {"insert", "failed"}
      /\ slots' = [s \in 0..MapSizeFor(Len(n)) - 1 |-> 0]
  BY <1>1 DEF Calculate
<1>3. Len(n) \in Nat /\ MapSizeFor(Len(n)) \in Nat \ {0}
  BY <1>1, ListTypes, MapSizeType
<1>4. DeltaTypes'
  BY <1>1, <1>2, <1>3, EmptySeq DEF DeltaTypes, Map
<1>5. MapHolds(slots', n, 0)
  BY <1>2, <1>3 DEF MapHolds, Map
<1>6. InsertInv'
  BY <1>2, <1>3, <1>5 DEF InsertInv
<1>7. QED
  BY <1>2, <1>4, <1>6 DEF DeltaInv, CompareInv, SweepInv, DeltaExact

\* What other parts of the program do leaves the calculation alone.
LEMMA DeltaStutters ==
    ASSUME DeltaInv, UNCHANGED dvars
    PROVE  DeltaInv'
<1>1. UNCHANGED <<oldList, newList, slots, used, k, probe, phase, results>>
  BY DEF dvars
<1>2. DeltaTypes' /\ InsertInv'
  BY <1>1 DEF DeltaInv, DeltaTypes, InsertInv
<1>3. CompareInv' /\ SweepInv'
  BY <1>1 DEF DeltaInv, CompareInv, SweepInv
<1>4. DeltaExact'
  <2>1. Diff' = Diff
    BY <1>1 DEF Diff
  <2>2. phase = "done" => Exactly(results, Diff)
    BY DEF DeltaInv, DeltaExact, Exactly
  <2>3. phase' = "done" => Exactly(results', Diff')
    BY <1>1, <2>1, <2>2
  <2>4. QED
    BY <2>3 DEF DeltaExact, Exactly
<1>5. QED
  BY <1>2, <1>3, <1>4 DEF DeltaInv

LEMMA DeltaStart == DeltaInit => DeltaInv
<1> SUFFICES ASSUME DeltaInit PROVE DeltaInv
  OBVIOUS
<1>1. IsList(<<>>)
  BY EmptySeq DEF IsList
<1>2. MapSizeFor(0) \in Nat \ {0} /\ Len(<<>>) = 0
  BY DEF MapSizeFor
<1>3. DeltaTypes
  BY <1>1, <1>2, EmptySeq DEF DeltaInit, DeltaTypes, Map
<1>4. QED
  BY <1>3 DEF DeltaInit, DeltaInv, InsertInv, CompareInv, SweepInv, DeltaExact

\* However long the indices, however their paths collide in the map and
\* however often it is called: when paf_delta_calculate returns 0, its
\* entries are the difference of the two indices, each path named once.
THEOREM Exactness == DeltaSpec => []DeltaExact
<1>1. DeltaInit => DeltaInv
  BY DeltaStart
<1>2. DeltaInv /\ [Start \/ DeltaStep]_dvars => DeltaInv'
  <2> SUFFICES ASSUME DeltaInv, [Start \/ DeltaStep]_dvars PROVE DeltaInv'
    OBVIOUS
  <2>1. CASE UNCHANGED dvars
    BY <2>1, DeltaStutters
  <2>2. QED
    BY <2>1, StartStep, InsertStep, LookupStep, SweepStep DEF DeltaStep
<1>3. DeltaInv => DeltaExact
  BY DEF DeltaInv
<1>4. QED
  BY <1>1, <1>2, <1>3, PTL DEF DeltaSpec

-----------------------------------------------------------------------------
(***************************************************************************)
(* What an index says of a path, and what the difference says of it.       *)
(***************************************************************************)
Value(l, p) ==
    IF Listed(l, p) THEN l[CHOOSE j \in 1..Len(l) : l[j].path = p].hash ELSE Absent

LEMMA ValueIs ==
    ASSUME NEW l, IsList(l), NEW j \in 1..Len(l)
    PROVE  Listed(l, l[j].path) /\ Value(l, l[j].path) = l[j].hash
<1> DEFINE p == l[j].path
           c == CHOOSE i \in 1..Len(l) : l[i].path = p
<1>1. c \in 1..Len(l) /\ l[c].path = p
  OBVIOUS
<1>2. c = j
  BY <1>1, ListTypes
<1>3. Listed(l, p)
  BY DEF Listed
<1>4. Value(l, p) = l[c].hash
  BY <1>3 DEF Value
<1>5. QED
  BY <1>2, <1>3, <1>4

\* A path that is listed is listed at one place.
LEMMA ListedAt ==
    ASSUME NEW l, IsList(l), NEW p, Listed(l, p)
    PROVE  \E j \in 1..Len(l) : l[j].path = p /\ Value(l, p) = l[j].hash
<1>1. PICK j \in 1..Len(l) : l[j].path = p
  BY DEF Listed
<1>2. QED
  BY <1>1, ValueIs

\* One more entry, of a path not listed yet.
LEMMA ListAppend ==
    ASSUME NEW l, IsList(l), NEW p \in Path, NEW h \in Hash, ~Listed(l, p)
    PROVE  LET m == Append(l, [path |-> p, hash |-> h])
           IN  /\ IsList(m)
               /\ Listed(m, p) /\ Value(m, p) = h
               /\ \A q : q # p => (Listed(m, q) <=> Listed(l, q)) /\ Value(m, q) = Value(l, q)
<1> DEFINE e == [path |-> p, hash |-> h]
           m == Append(l, e)
           n == Len(l)
<1>1. /\ m \in Seq([path : Path, hash : Hash]) /\ n \in Nat /\ Len(m) = n + 1
      /\ \A i \in 1..n : m[i] = l[i]
      /\ m[n + 1] = e
  BY AppendProperties, LenProperties DEF IsList
<1>2. \A i \in 1..n : l[i].path # p
  BY DEF Listed
<1>3. e.path = p /\ e.hash = h
  OBVIOUS
<1> HIDE DEF e, m
<1>4. ASSUME NEW i \in 1..Len(m), NEW j \in 1..Len(m), m[i].path = m[j].path PROVE i = j
  <2>1. CASE i \in 1..n /\ j \in 1..n
    BY <1>1, <1>4, <2>1, ListTypes
  <2>2. CASE ~(i \in 1..n /\ j \in 1..n)
    BY <1>1, <1>2, <1>3, <1>4, <2>2
  <2>3. QED
    BY <2>1, <2>2
<1>5. IsList(m)
  BY <1>1, <1>4 DEF IsList
<1>6. Listed(m, p) /\ Value(m, p) = h
  <2>1. n + 1 \in 1..Len(m) /\ m[n + 1].path = p /\ m[n + 1].hash = h
    BY <1>1, <1>3
  <2>2. QED
    BY <1>5, <2>1, ValueIs
<1>7. ASSUME NEW q, q # p
      PROVE  (Listed(m, q) <=> Listed(l, q)) /\ Value(m, q) = Value(l, q)
  <2>1. ASSUME Listed(l, q) PROVE Listed(m, q) /\ Value(m, q) = Value(l, q)
    <3>1. PICK j \in 1..n : l[j].path = q /\ Value(l, q) = l[j].hash
      BY <2>1, ListedAt
    <3>2. j \in 1..Len(m) /\ m[j] = l[j]
      BY <1>1
    <3>3. QED
      BY <1>5, <3>1, <3>2, ValueIs
  <2>2. ASSUME Listed(m, q) PROVE Listed(l, q)
    <3>1. PICK j \in 1..Len(m) : m[j].path = q
      BY <2>2 DEF Listed
    <3>2. j # n + 1
      BY <1>1, <1>3, <1>7, <3>1
    <3>3. j \in 1..n
      BY <1>1, <3>2
    <3>4. QED
      BY <1>1, <3>1, <3>3 DEF Listed
  <2>3. ASSUME ~Listed(l, q) PROVE Value(m, q) = Value(l, q)
    BY <2>2, <2>3 DEF Value
  <2>4. QED
    BY <2>1, <2>2, <2>3
<1>8. QED
  BY <1>5, <1>6, <1>7 DEF m, e

\* What entry j of the results says, when the calculation has succeeded.
Says(r) ==
    /\ r \in Results /\ r.path \in Path /\ r.status \in Statuses
    /\ r.status = "deleted" =>
          r.hash = NoHash /\ Listed(oldList, r.path) /\ ~Listed(newList, r.path)
    /\ r.status # "deleted" =>
          r.hash \in Hash /\ Listed(newList, r.path) /\ r.hash = Value(newList, r.path)
    /\ r.status = "updated" => Listed(oldList, r.path)

LEMMA ResultSays ==
    ASSUME DeltaInv, phase = "done"
    PROVE  \A j \in 1..Len(results) : Says(results[j])
<1> SUFFICES ASSUME NEW j \in 1..Len(results) PROVE Says(results[j])
  OBVIOUS
<1> DEFINE r == results[j]
<1>1. results \in Seq(Results) /\ IsList(oldList) /\ IsList(newList)
  BY DEF DeltaInv, DeltaTypes
<1>2. r \in Results
  BY <1>1, ElementOfSeq
<1>3. r.path \in Path /\ r.status \in Statuses
  BY <1>2 DEF Results
<1>4. r \in Diff
  BY DEF DeltaInv, DeltaExact
<1> HIDE DEF r
<1>5. CASE \E i \in 1..Len(oldList) : /\ ~Listed(newList, oldList[i].path)
                                      /\ r = Entry(oldList[i].path, "deleted", NoHash)
  <2>1. PICK i \in 1..Len(oldList) : /\ ~Listed(newList, oldList[i].path)
                                     /\ r = Entry(oldList[i].path, "deleted", NoHash)
    BY <1>5
  <2>2. r.path = oldList[i].path /\ r.status = "deleted" /\ r.hash = NoHash
    BY <2>1 DEF Entry
  <2>3. Listed(oldList, r.path)
    BY <2>2 DEF Listed
  <2>4. QED
    BY <1>2, <1>3, <2>1, <2>2, <2>3 DEF Says, r
<1>6. CASE \E i \in 1..Len(newList) : r = Entry(newList[i].path, "added", newList[i].hash)
  <2>1. PICK i \in 1..Len(newList) : r = Entry(newList[i].path, "added", newList[i].hash)
    BY <1>6
  <2>2. r.path = newList[i].path /\ r.status = "added" /\ r.hash = newList[i].hash
    BY <2>1 DEF Entry
  <2>3. Listed(newList, r.path) /\ Value(newList, r.path) = r.hash /\ r.hash \in Hash
    BY <1>1, <2>2, ValueIs, ListTypes
  <2>4. QED
    BY <1>2, <1>3, <2>2, <2>3 DEF Says, r
<1>7. CASE \E i \in 1..Len(newList) :
              /\ Listed(oldList, newList[i].path)
              /\ r = Entry(newList[i].path, "updated", newList[i].hash)
  <2>1. PICK i \in 1..Len(newList) :
              /\ Listed(oldList, newList[i].path)
              /\ r = Entry(newList[i].path, "updated", newList[i].hash)
    BY <1>7
  <2>2. r.path = newList[i].path /\ r.status = "updated" /\ r.hash = newList[i].hash
    BY <2>1 DEF Entry
  <2>3. Listed(newList, r.path) /\ Value(newList, r.path) = r.hash /\ r.hash \in Hash
    BY <1>1, <2>2, ValueIs, ListTypes
  <2>4. QED
    BY <1>2, <1>3, <2>1, <2>2, <2>3 DEF Says, r
<1>8. QED
  BY <1>4, <1>5, <1>6, <1>7 DEF Diff, Listed

\* A path about which the indices differ is that of an entry.
LEMMA DifferenceNamed ==
    ASSUME DeltaInv, phase = "done", NEW p \in Path,
           \/ Listed(oldList, p) /\ ~Listed(newList, p)
           \/ Listed(newList, p) /\ ~Listed(oldList, p)
           \/ Listed(oldList, p) /\ Listed(newList, p) /\ Value(oldList, p) # Value(newList, p)
    PROVE  \E j \in 1..Len(results) : results[j].path = p
<1>1. IsList(oldList) /\ IsList(newList)
  BY DEF DeltaInv, DeltaTypes
<1>2. ASSUME NEW x \in Diff, x.path = p PROVE \E j \in 1..Len(results) : results[j].path = p
  BY <1>2 DEF DeltaInv, DeltaExact
<1>3. CASE Listed(oldList, p) /\ ~Listed(newList, p)
  <2>1. PICK i \in 1..Len(oldList) : oldList[i].path = p
    BY <1>3 DEF Listed
  <2> DEFINE x == Entry(oldList[i].path, "deleted", NoHash)
  <2>2. x \in Diff
    BY <1>3, <2>1 DEF Diff
  <2>3. x.path = p
    BY <2>1 DEF Entry
  <2> HIDE DEF x
  <2>4. QED
    BY <1>2, <2>2, <2>3
<1>4. CASE Listed(newList, p) /\ ~Listed(oldList, p)
  <2>1. PICK i \in 1..Len(newList) : newList[i].path = p
    BY <1>4 DEF Listed
  <2> DEFINE x == Entry(newList[i].path, "added", newList[i].hash)
  <2>2. x \in Diff
    BY <1>4, <2>1 DEF Diff
  <2>3. x.path = p
    BY <2>1 DEF Entry
  <2> HIDE DEF x
  <2>4. QED
    BY <1>2, <2>2, <2>3
<1>5. CASE Listed(oldList, p) /\ Listed(newList, p) /\ Value(oldList, p) # Value(newList, p)
  <2>1. PICK i \in 1..Len(oldList) : oldList[i].path = p /\ Value(oldList, p) = oldList[i].hash
    BY <1>1, <1>5, ListedAt
  <2>2. PICK j \in 1..Len(newList) : newList[j].path = p /\ Value(newList, p) = newList[j].hash
    BY <1>1, <1>5, ListedAt
  <2> DEFINE x == Entry(newList[j].path, "updated", newList[j].hash)
  <2>3. x \in Diff
    BY <1>5, <2>1, <2>2 DEF Diff
  <2>4. x.path = p
    BY <2>2 DEF Entry
  <2> HIDE DEF x
  <2>5. QED
    BY <1>2, <2>3, <2>4
<1>6. QED
  BY <1>3, <1>4, <1>5

-----------------------------------------------------------------------------
(***************************************************************************)
(* What is collected of a directory.                                       *)
(***************************************************************************)
PathCell == UNION {{p[i] : i \in DOMAIN p} : p \in Path}
ByteCell == UNION {{c[i] : i \in DOMAIN c} : c \in Contents}

\* Paths and contents are sequences.
LEMMA Strings ==
    /\ \A p \in Path : p \in Seq(PathCell) /\ Len(p) \in Nat
    /\ \A c \in Contents : c \in Seq(ByteCell) /\ Len(c) \in Nat
<1>1. ASSUME NEW p \in Path PROVE p \in Seq(PathCell) /\ Len(p) \in Nat
  <2>1. p \in Seq({p[i] : i \in DOMAIN p})
    BY PathAssumption, SMTT(30) DEF IsString
  <2>2. {p[i] : i \in DOMAIN p} \subseteq PathCell
    BY DEF PathCell
  <2>3. QED
    BY <2>1, <2>2, SeqMonotonic, LenProperties
<1>2. ASSUME NEW c \in Contents PROVE c \in Seq(ByteCell) /\ Len(c) \in Nat
  <2>1. c \in Seq({c[i] : i \in DOMAIN c})
    BY PathAssumption DEF IsString
  <2>2. {c[i] : i \in DOMAIN c} \subseteq ByteCell
    BY DEF ByteCell
  <2>3. QED
    BY <2>1, <2>2, SeqMonotonic, LenProperties
<1>3. QED
  BY <1>1, <1>2

Trees == [Path -> Contents \cup {Absent}]
Item  == [path : Path, size : Nat]

\* The list l has the files of t among the first m paths, each once.
Collects(l, t, m) ==
    /\ l \in Seq(Item)
    /\ \A j \in 1..Len(l) : /\ \E i \in 1..m : l[j].path = Order[i]
                            /\ t[l[j].path] # Absent
                            /\ l[j].size = Len(t[l[j].path])
    /\ \A i \in 1..m : t[Order[i]] # Absent => \E j \in 1..Len(l) : l[j].path = Order[i]
    /\ \A i, j \in 1..Len(l) : l[i].path = l[j].path => i = j

With(t, n, before) ==
    LET p == Order[n]
    IN  IF t[p] = Absent THEN before ELSE Append(before, [path |-> p, size |-> Len(t[p])])
CollectedUpTo(f, t, m) == f = [n \in 0..m |-> IF n = 0 THEN <<>> ELSE With(t, n, f[n - 1])]

LEMMA CollectedExists ==
    ASSUME NEW t
    PROVE  \A m \in Nat : \E f : CollectedUpTo(f, t, m)
<1> DEFINE S == {m \in Nat : \E f : CollectedUpTo(f, t, m)}
<1>1. 0 \in S
  <2> DEFINE g == [j \in 0..0 |-> <<>>]
  <2>1. CollectedUpTo(g, t, 0)
    BY DEF CollectedUpTo
  <2>2. QED
    BY <2>1
<1>2. ASSUME NEW m \in Nat, m \in S PROVE m + 1 \in S
  <2>1. PICK f : CollectedUpTo(f, t, m)
    BY <1>2
  <2> DEFINE g == [j \in 0..m + 1 |-> IF j = m + 1 THEN With(t, j, f[m]) ELSE f[j]]
  <2>2. ASSUME NEW j \in 0..m + 1 PROVE g[j] = IF j = 0 THEN <<>> ELSE With(t, j, g[j - 1])
    <3>1. CASE j = m + 1
      BY <3>1
    <3>2. CASE j # m + 1
      <4>1. j \in 0..m /\ g[j] = f[j] /\ (j # 0 => g[j - 1] = f[j - 1])
        BY <3>2
      <4>2. f[j] = IF j = 0 THEN <<>> ELSE With(t, j, f[j - 1])
        BY <2>1, <4>1 DEF CollectedUpTo
      <4> HIDE DEF g
      <4>3. QED
        BY <4>1, <4>2
    <3>3. QED
      BY <3>1, <3>2
  <2>3. g = [j \in 0..m + 1 |-> g[j]]
    OBVIOUS
  <2> HIDE DEF g
  <2>4. CollectedUpTo(g, t, m + 1)
    BY <2>2, <2>3 DEF CollectedUpTo
  <2>5. QED
    BY <2>4
<1> HIDE DEF S
<1>3. \A m \in Nat : m \in S
  BY <1>1, <1>2, NatInductionOn
<1>4. QED
  BY <1>3 DEF S

\* One more path is looked at.
LEMMA CollectsMore ==
    ASSUME NEW t \in Trees, NEW m \in Nat, m + 1 <= Len(Order), NEW l, Collects(l, t, m)
    PROVE  Collects(With(t, m + 1, l), t, m + 1)
<1> DEFINE p == Order[m + 1]
           z == t[p]
<1>0. Order \in Seq(Path) /\ Len(Order) \in Nat
  BY PathAssumption, LenProperties
<1>1. p \in Path /\ z \in Contents \cup {Absent}
  <2>1. m + 1 \in 1..Len(Order)
    BY <1>0
  <2>2. p \in Path
    BY <1>0, <2>1, ElementOfSeq
  <2>3. QED
    BY <2>2 DEF Trees
<1>2. \A i \in 1..m : Order[i] # p
  <2>1. \A i \in 1..m : i \in 1..Len(Order) /\ m + 1 \in 1..Len(Order) /\ i # m + 1
    BY <1>0
  <2>2. QED
    BY <2>1, PathAssumption
<1>3. \A i : i \in 1..m + 1 <=> i \in 1..m \/ i = m + 1
  OBVIOUS
<1>4. With(t, m + 1, l) = IF z = Absent THEN l ELSE Append(l, [path |-> p, size |-> Len(z)])
  BY DEF With
<1>5. CASE z = Absent
  BY <1>3, <1>4, <1>5 DEF Collects
<1>6. CASE z # Absent
  <2> DEFINE e == [path |-> p, size |-> Len(z)]
             a == Append(l, e)
             n == Len(l)
  <2>1. e \in Item /\ e.path = p /\ e.size = Len(z)
    <3>1. z \in Contents
      BY <1>1, <1>6
    <3>2. Len(z) \in Nat
      BY <3>1, Strings
    <3>4. QED
      BY <1>1, <3>2 DEF Item
  <2> HIDE DEF e
  <2>2. /\ a \in Seq(Item) /\ n \in Nat /\ Len(a) = n + 1
        /\ \A i \in 1..n : a[i] = l[i]
        /\ a[n + 1] = e
    BY <2>1, AppendProperties, LenProperties DEF Collects
  <2> HIDE DEF a, n
  <2>3. \A j \in 1..Len(a) : j \in 1..n \/ (j = n + 1 /\ a[j] = e)
    BY <2>2
  <2>4. \A j \in 1..n : j \in 1..Len(l) /\ a[j] = l[j] /\ l[j].path # p
    <3>1. \A j \in 1..Len(l) : \E i \in 1..m : l[j].path = Order[i]
      BY DEF Collects
    <3>2. \A j \in 1..n : j \in 1..Len(l) /\ a[j] = l[j]
      BY <2>2 DEF n
    <3> HIDE DEF p
    <3>3. QED
      BY <1>2, <3>1, <3>2
  <2> HIDE DEF p
  <2>5. ASSUME NEW j \in 1..Len(a)
        PROVE  /\ \E i \in 1..m + 1 : a[j].path = Order[i]
               /\ t[a[j].path] # Absent /\ a[j].size = Len(t[a[j].path])
    <3>1. CASE j \in 1..n
      <4>1. a[j] = l[j] /\ j \in 1..Len(l)
        BY <2>4, <3>1
      <4>2. /\ \E i \in 1..m : l[j].path = Order[i]
            /\ t[l[j].path] # Absent /\ l[j].size = Len(t[l[j].path])
        BY <4>1 DEF Collects
      <4>3. QED
        BY <1>3, <4>1, <4>2
    <3>2. CASE j = n + 1 /\ a[j] = e
      <4>1. a[j].path = Order[m + 1] /\ m + 1 \in 1..m + 1
        BY <2>1, <3>2 DEF p
      <4>2. QED
        BY <1>6, <2>1, <3>2, <4>1
    <3>3. QED
      BY <2>3, <3>1, <3>2
  <2>6. ASSUME NEW i \in 1..m + 1, t[Order[i]] # Absent
        PROVE  \E j \in 1..Len(a) : a[j].path = Order[i]
    <3>1. CASE i = m + 1
      <4>1. n + 1 \in 1..Len(a) /\ a[n + 1].path = Order[i]
        BY <2>1, <2>2, <3>1 DEF p
      <4>2. QED
        BY <4>1
    <3>2. CASE i \in 1..m
      <4>1. PICK j \in 1..Len(l) : l[j].path = Order[i]
        BY <2>6, <3>2 DEF Collects
      <4>2. j \in 1..Len(a) /\ a[j] = l[j]
        BY <2>2 DEF n
      <4>3. QED
        BY <4>1, <4>2
    <3>3. QED
      BY <1>3, <3>1, <3>2
  <2>7. ASSUME NEW i \in 1..Len(a), NEW j \in 1..Len(a), a[i].path = a[j].path PROVE i = j
    <3>1. CASE i \in 1..n /\ j \in 1..n
      <4>1. i \in 1..Len(l) /\ j \in 1..Len(l) /\ l[i].path = l[j].path
        BY <2>4, <2>7, <3>1
      <4>2. QED
        BY <4>1 DEF Collects
    <3>2. CASE ~(i \in 1..n /\ j \in 1..n)
      BY <2>1, <2>3, <2>4, <2>7, <3>2
    <3>3. QED
      BY <3>1, <3>2
  <2>8. Collects(a, t, m + 1)
    BY <2>2, <2>5, <2>6, <2>7 DEF Collects
  <2>9. QED
    BY <1>4, <1>6, <2>8 DEF a, e, p
<1>7. QED
  BY <1>5, <1>6

LEMMA CollectedIs ==
    ASSUME NEW t \in Trees
    PROVE  Collects(CollectedIn(t), t, Len(Order))
<1> DEFINE C == Len(Order)
           f == CHOOSE f : CollectedUpTo(f, t, C)
<1>1. C \in Nat
  BY PathAssumption, LenProperties
<1>2. CollectedUpTo(f, t, C)
  <2>1. \E g : CollectedUpTo(g, t, C)
    BY <1>1, CollectedExists
  <2>2. QED
    BY <2>1, Zenon
<1>3. CollectedIn(t) = f[C]
  BY Zenon DEF CollectedIn, CollectedUpTo, With
<1> HIDE DEF f, C
<1> DEFINE S == {m \in Nat : m <= C => Collects(f[m], t, m)}
<1>4. 0 \in S
  <2>1. f[0] = <<>>
    BY <1>1, <1>2 DEF CollectedUpTo
  <2>2. Collects(<<>>, t, 0)
    <3>1. <<>> \in Seq(Item) /\ Len(<<>>) = 0
      BY EmptySeq
    <3>2. QED
      BY <3>1 DEF Collects
  <2>3. QED
    BY <2>1, <2>2
<1>5. ASSUME NEW m \in Nat, m \in S PROVE m + 1 \in S
  <2>1. SUFFICES ASSUME m + 1 <= C PROVE Collects(f[m + 1], t, m + 1)
    OBVIOUS
  <2>2. Collects(f[m], t, m)
    BY <1>1, <1>5, <2>1
  <2>3. Collects(With(t, m + 1, f[m]), t, m + 1)
    BY <2>1, <2>2, CollectsMore DEF C
  <2> DEFINE n == m + 1
  <2>4. n \in 0..C /\ n # 0 /\ n - 1 = m
    BY <1>1, <2>1
  <2> HIDE DEF n
  <2>5. f[n] = With(t, n, f[m])
    BY <1>2, <2>4 DEF CollectedUpTo
  <2>6. QED
    BY <2>3, <2>5 DEF n
<1> HIDE DEF S
<1>6. \A m \in Nat : m \in S
  BY <1>4, <1>5, NatInductionOn
<1>7. C \in S
  BY <1>1, <1>6
<1>8. QED
  BY <1>1, <1>3, <1>7 DEF S, C

-----------------------------------------------------------------------------
(***************************************************************************)
(* The invariant of paf_create_patch.                                      *)
(***************************************************************************)
Passed(l, n) == {l[i].path : i \in 1..n}

\* File p of side s, with content c, can be opened.
Shown(c, s, p) == c # Absent /\ <<s, p>> \notin Unreadable

\* Of the files nobody changed, the index l has those of P that can be
\* opened, with their contents, and no others.
Records(l, t, s, ch, P) ==
    \A p \in Path : <<s, p>> \notin ch =>
        /\ Listed(l, p) <=> p \in P /\ Shown(t[p], s, p)
        /\ Listed(l, p) => Value(l, p) = t[p]

\* The list td is what was collected of t, but for files changed since.
Collected(td, t, s, ch) ==
    /\ \A i, j \in 1..Len(td) : td[i].path = td[j].path => i = j
    /\ \A p \in Path : <<s, p>> \notin ch => (p \in Passed(td, Len(td)) <=> t[p] # Absent)
    /\ \A i \in 1..Len(td) : <<s, td[i].path>> \notin ch => td[i].size = Len(t[td[i].path])

DataCell  == ByteCell \cup [kind : {"pafd"}, base : Contents, target : Contents]
EntryCell == [kind : {"entry"}, flag : {"deleted", "full", "delta"},
              hash : Hash \cup {NoHash}, pathOff : Nat, pathLen : Nat, off : Nat, size : Nat]
PatchRec  == [data : Seq(DataCell), dataOff : Nat, index : Seq(EntryCell),
              paths : Seq(PathCell), pathOff : Nat, errors : Nat]

\* The bytes d of an entry with flag f and hash h for a path p.
Payload(f, h, d, r, sn, ch) ==
    /\ f = "deleted" => d = <<>>
    /\ f = "full" /\ <<"new", r.path>> \notin ch => d = h
    /\ f = "delta" => r.status = "updated" /\ Len(d) = 1
    /\ f = "delta" /\ <<"new", r.path>> \notin ch => d[1].target = h
    /\ f = "delta" /\ <<"old", r.path>> \notin ch => d[1].base = Value(sn["old"], r.path)

\* Entry e of the patch g is that of the difference r.
Tells(g, e, r, sn, ch) ==
    /\ e.pathLen = Len(r.path) /\ Sits(g.paths, e.pathOff, r.path)
    /\ e.hash = r.hash /\ (r.status = "deleted" <=> e.flag = "deleted")
    /\ \E d \in Seq(DataCell) : /\ e.size = Len(d) /\ Sits(g.data, e.off, d)
                                /\ Payload(e.flag, e.hash, d, r, sn, ch)

\* The temporary files hold the first n entries.
Filled(g, rs, sn, ch, n) ==
    /\ g \in PatchRec /\ g.dataOff = Len(g.data) /\ g.pathOff = Len(g.paths)
    /\ Len(g.index) = n
    /\ g.errors = 0 => \A j \in 1..n : Tells(g, g.index[j], rs[j], sn, ch)

NoPatch == [data |-> <<>>, dataOff |-> 0, index |-> <<>>,
            paths |-> <<>>, pathOff |-> 0, errors |-> 0]

PTypes ==
    /\ pc \in {"collect", "read", "delta", "entries", "publish", "done"}
    /\ tree \in [Side -> Trees] /\ side \in Side
    /\ todo \in Seq(Item) /\ next \in Nat \ {0}
    /\ snap \in [Side -> Seq([path : Path, hash : Hash])]
    /\ IsList(snap["old"]) /\ IsList(snap["new"])

\* While a snapshot is taken.
ReadInv ==
    /\ pc = "collect" => snap[side] = <<>>
    /\ pc \in {"collect", "read"} /\ side = "old" => snap["new"] = <<>>
    /\ pc = "read" =>
          /\ next <= Len(todo) + 1
          /\ Collected(todo, tree[side], side, changed)
          /\ \A j \in 1..Len(snap[side]) : snap[side][j].path \in Passed(todo, next - 1)
          /\ Records(snap[side], tree[side], side, changed, Passed(todo, next - 1))

\* The snapshots that have been taken, and the comparison.
Compared == pc \in {"delta", "entries", "publish"} \/ out # NoFile
SnapInv ==
    /\ side = "new" => Records(snap["old"], tree["old"], "old", changed, Path)
    /\ Compared => /\ side = "new" /\ oldList = snap["old"] /\ newList = snap["new"]
                   /\ Records(snap["new"], tree["new"], "new", changed, Path)

PatchInv ==
    /\ pc \in {"collect", "read", "delta"} => patch = NoPatch
    /\ pc = "entries" => /\ phase = "done" /\ next <= Len(results) + 1
                         /\ ~lost => Filled(patch, results, snap, changed, next - 1)
    /\ pc = "publish" \/ out # NoFile =>
          /\ phase = "done"
          /\ ~lost => /\ patch.errors = 0
                      /\ Filled(patch, results, snap, changed, Len(results))

OutInv ==
    out # NoFile =>
        /\ pc = "done"
        /\ ~lost => \E n \in 0..Len(PatchFile) : /\ out = SubSeq(PatchFile, 1, n)
                                                 /\ ~cut => n = Len(PatchFile)

Inv == DeltaInv /\ PTypes /\ ReadInv /\ SnapInv /\ PatchInv /\ OutInv

-----------------------------------------------------------------------------
(***************************************************************************)
(* The snapshots.                                                          *)
(***************************************************************************)
LEMMA PassedMore ==
    ASSUME NEW l, NEW n \in Nat \ {0}
    PROVE  \A p : p \in Passed(l, n) <=> p \in Passed(l, n - 1) \/ p = l[n].path
<1>1. \A i : i \in 1..n <=> i \in 1..n - 1 \/ i = n
  OBVIOUS
<1>2. QED
  BY <1>1 DEF Passed

\* A file read as long as it was when it was collected is read whole.
LEMMA ReadHash ==
    ASSUME NEW c \in Contents, NEW z \in Nat
    PROVE  Read(c, 0, z) \in Hash /\ (z = Len(c) => Read(c, 0, z) = c)
<1> DEFINE n == MinOf(0 + z, Len(c))
<1>1. Len(c) \in Nat /\ c \in Seq(ByteCell)
  BY Strings
<1>2. n \in 0..Len(c) /\ (z = Len(c) => n = Len(c))
  BY <1>1 DEF MinOf
<1>3. Read(c, 0, z) = SubSeq(c, 1, n)
  BY DEF Read
<1> HIDE DEF n
<1>4. SubSeq(c, 1, n) \in Hash
  BY <1>2, PathAssumption
<1>5. SubSeq(c, 1, Len(c)) = c
  BY <1>1, SubSeqFull
<1>6. QED
  BY <1>2, <1>3, <1>4, <1>5

LEMMA CollectedStart ==
    ASSUME NEW t \in Trees, NEW s, NEW ch
    PROVE  LET td == CollectedIn(t)
           IN  /\ td \in Seq(Item) /\ Collected(td, t, s, ch)
               /\ Records(<<>>, t, s, ch, Passed(td, 0))
<1> DEFINE td == CollectedIn(t)
<1>1. Collects(td, t, Len(Order))
  BY CollectedIs
<1> HIDE DEF td
<1>2. td \in Seq(Item) /\ \A i, j \in 1..Len(td) : td[i].path = td[j].path => i = j
  BY <1>1 DEF Collects
<1>3. ASSUME NEW p \in Path PROVE p \in Passed(td, Len(td)) <=> t[p] # Absent
  <2>1. PICK i \in 1..Len(Order) : Order[i] = p
    BY PathAssumption
  <2>2. t[p] # Absent => \E j \in 1..Len(td) : td[j].path = p
    BY <1>1, <2>1 DEF Collects
  <2>3. \A j \in 1..Len(td) : t[td[j].path] # Absent
    BY <1>1 DEF Collects
  <2>4. QED
    BY <2>2, <2>3 DEF Passed
<1>4. Collected(td, t, s, ch)
  <2>1. \A i \in 1..Len(td) : td[i].size = Len(t[td[i].path])
    BY <1>1 DEF Collects
  <2>2. QED
    BY <1>2, <1>3, <2>1 DEF Collected
<1>5. Records(<<>>, t, s, ch, Passed(td, 0))
  BY DEF Records, Passed, Listed
<1>6. QED
  BY <1>2, <1>4, <1>5 DEF td

\* One collected file is opened and read, or is not.
LEMMA ReadKeeps ==
    ASSUME NEW l, IsList(l), NEW td \in Seq(Item), NEW t \in Trees, NEW s, NEW ch,
           NEW n \in 1..Len(td), Collected(td, t, s, ch),
           \A j \in 1..Len(l) : l[j].path \in Passed(td, n - 1),
           Records(l, t, s, ch, Passed(td, n - 1)),
           NEW m, m = IF Shown(t[td[n].path], s, td[n].path)
                      THEN Append(l, [path |-> td[n].path,
                                      hash |-> Read(t[td[n].path], 0, td[n].size)])
                      ELSE l
    PROVE  /\ IsList(m)
           /\ \A j \in 1..Len(m) : m[j].path \in Passed(td, n)
           /\ Records(m, t, s, ch, Passed(td, n))
<1> DEFINE p == td[n].path
           z == td[n].size
           h == Read(t[p], 0, z)
           yes == Shown(t[p], s, p)
<1>1. p \in Path /\ z \in Nat /\ t[p] \in Contents \cup {Absent}
  <2>1. td[n] \in Item
    BY ElementOfSeq
  <2>2. QED
    BY <2>1 DEF Item, Trees
<1>2. n \in Nat \ {0} /\ Len(td) \in Nat
  BY LenProperties
<1>3. p \notin Passed(td, n - 1)
  <2>1. \A i \in 1..n - 1 : i \in 1..Len(td) /\ i # n
    BY <1>2
  <2>2. QED
    BY <2>1 DEF Passed, Collected
<1>4. ~Listed(l, p)
  BY <1>3 DEF Listed
<1>5. yes => h \in Hash /\ (z = Len(t[p]) => h = t[p])
  BY <1>1, ReadHash DEF Shown
<1>6. m = IF yes THEN Append(l, [path |-> p, hash |-> h]) ELSE l
  OBVIOUS
<1>7. <<s, p>> \notin ch => z = Len(t[p])
  BY DEF Collected
<1>8. \A q : q \in Passed(td, n) <=> q \in Passed(td, n - 1) \/ q = p
  BY <1>2, PassedMore
<1>9. \A q \in Path : <<s, q>> \notin ch =>
         /\ Listed(l, q) <=> q \in Passed(td, n - 1) /\ Shown(t[q], s, q)
         /\ Listed(l, q) => Value(l, q) = t[q]
  BY DEF Records
<1> HIDE DEF p, z, h
<1>10. CASE yes
  <2>1. /\ IsList(m) /\ Listed(m, p) /\ Value(m, p) = h
        /\ \A q : q # p => (Listed(m, q) <=> Listed(l, q)) /\ Value(m, q) = Value(l, q)
    BY <1>1, <1>4, <1>5, <1>6, <1>10, ListAppend
  <2>2. ASSUME NEW j \in 1..Len(m) PROVE m[j].path \in Passed(td, n)
    <3>1. Listed(m, m[j].path)
      BY DEF Listed
    <3>2. CASE m[j].path = p
      BY <1>8, <3>2
    <3>3. CASE m[j].path # p
      <4>1. Listed(l, m[j].path)
        BY <2>1, <3>1, <3>3
      <4>2. m[j].path \in Passed(td, n - 1)
        BY <4>1 DEF Listed
      <4>3. QED
        BY <1>8, <4>2
    <3>4. QED
      BY <3>2, <3>3
  <2>3. ASSUME NEW q \in Path, <<s, q>> \notin ch
        PROVE  /\ Listed(m, q) <=> q \in Passed(td, n) /\ Shown(t[q], s, q)
               /\ Listed(m, q) => Value(m, q) = t[q]
    <3>1. CASE q = p
      BY <1>5, <1>7, <1>8, <1>10, <2>1, <2>3, <3>1
    <3>2. CASE q # p
      BY <1>8, <1>9, <2>1, <2>3, <3>2
    <3>3. QED
      BY <3>1, <3>2
  <2>4. QED
    BY <2>1, <2>2, <2>3 DEF Records
<1>11. CASE ~yes
  <2>1. m = l
    BY <1>6, <1>11
  <2>2. \A q \in Path : <<s, q>> \notin ch =>
           /\ Listed(l, q) <=> q \in Passed(td, n) /\ Shown(t[q], s, q)
           /\ Listed(l, q) => Value(l, q) = t[q]
    BY <1>4, <1>8, <1>9, <1>11
  <2>3. QED
    BY <1>8, <2>1, <2>2 DEF Records
<1>12. QED
  BY <1>10, <1>11

\* When all that was collected has been read, the index is complete.
LEMMA ReadAll ==
    ASSUME NEW l, NEW td, NEW t, NEW s, NEW ch, Collected(td, t, s, ch),
           Records(l, t, s, ch, Passed(td, Len(td)))
    PROVE  Records(l, t, s, ch, Path)
BY DEF Records, Collected, Shown

\* A file of side s changes.
LEMMA ChangeRecords ==
    ASSUME NEW l, NEW t \in Trees, NEW s, NEW ch, NEW P, Records(l, t, s, ch, P),
           NEW u \in Trees, NEW ch2, ch \subseteq ch2,
           \A q \in Path : <<s, q>> \notin ch2 => u[q] = t[q]
    PROVE  Records(l, u, s, ch2, P)
BY DEF Records

LEMMA ChangeCollected ==
    ASSUME NEW td \in Seq(Item), NEW t \in Trees, NEW s, NEW ch, Collected(td, t, s, ch),
           NEW u \in Trees, NEW ch2, ch \subseteq ch2,
           \A q \in Path : <<s, q>> \notin ch2 => u[q] = t[q]
    PROVE  Collected(td, u, s, ch2)
<1>1. \A i \in 1..Len(td) : td[i].path \in Path
  <2>1. \A i \in 1..Len(td) : td[i] \in Item
    BY ElementOfSeq
  <2>2. QED
    BY <2>1 DEF Item
<1>2. QED
  BY <1>1 DEF Collected

\* Before the entries there is no patch and no archive.
LEMMA Early ==
    ASSUME Inv, pc \in {"collect", "read", "delta"}, pc' \in {"collect", "read", "delta"},
           UNCHANGED <<patch, out>>
    PROVE  out = NoFile /\ out' = NoFile /\ PatchInv' /\ OutInv'
<1>1. out = NoFile
  BY DEF Inv, OutInv
<1>2. QED
  BY <1>1 DEF Inv, PatchInv, OutInv

LEMMA InitHolds == Init => Inv
<1> SUFFICES ASSUME Init PROVE Inv
  OBVIOUS
<1>1. DeltaInv
  BY DeltaStart DEF Init
<1>2. IsList(<<>>) /\ <<>> \in Seq([path : Path, hash : Hash]) /\ <<>> \in Seq(Item)
  BY EmptySeq DEF IsList
<1>3. PTypes
  <2>1. tree \in [Side -> Trees]
    BY DEF Init, Trees
  <2>2. side \in Side /\ next \in Nat \ {0} /\ pc = "collect"
    BY DEF Init, Side
  <2>3. snap["old"] = <<>> /\ snap["new"] = <<>>
        /\ snap \in [Side -> Seq([path : Path, hash : Hash])]
    BY <1>2 DEF Init, Side
  <2>4. todo = <<>>
    BY DEF Init
  <2>5. QED
    BY <1>2, <2>1, <2>2, <2>3, <2>4 DEF PTypes
<1>4. ReadInv /\ SnapInv
  BY DEF Init, ReadInv, SnapInv, Compared, Side
<1>5. PatchInv /\ OutInv
  BY DEF Init, PatchInv, OutInv, NoPatch
<1>6. QED
  BY <1>1, <1>3, <1>4, <1>5 DEF Inv

LEMMA CollectHolds == Inv /\ Collect => Inv'
<1> SUFFICES ASSUME Inv, Collect PROVE Inv'
  OBVIOUS
<1>1. /\ pc = "collect" /\ pc' = "read" /\ next' = 1 /\ todo' = CollectedIn(tree[side])
      /\ UNCHANGED <<dvars, tree, side, snap, patch, out, result, changed, lost, cut>>
  BY DEF Collect
<1>2. PTypes /\ ReadInv /\ SnapInv
  BY DEF Inv
<1>3. DeltaInv'
  BY <1>1, DeltaStutters DEF Inv
<1>4. tree[side] \in Trees
  BY <1>2 DEF PTypes
<1>5. /\ todo' \in Seq(Item) /\ Collected(todo', tree[side], side, changed)
      /\ Records(<<>>, tree[side], side, changed, Passed(todo', 0))
  BY <1>1, <1>4, CollectedStart
<1>6. snap[side] = <<>>
  BY <1>1, <1>2 DEF ReadInv
<1>7. PTypes'
  <2>1. next' \in Nat \ {0}
    BY <1>1
  <2>2. QED
    BY <1>1, <1>2, <1>5, <2>1 DEF PTypes
<1>8. ReadInv'
  <2>1. next' <= Len(todo') + 1 /\ next' - 1 = 0
    BY <1>1, <1>5, LenProperties
  <2>2. side = "old" => snap["new"] = <<>>
    BY <1>1, <1>2 DEF ReadInv
  <2>3. \A j \in 1..Len(<<>>) : FALSE
    BY EmptySeq
  <2>4. Passed(todo', next' - 1) = Passed(todo', 0)
    BY <2>1
  <2>5. QED
    BY <1>1, <1>5, <1>6, <2>1, <2>2, <2>3, <2>4 DEF ReadInv
<1>9. out' = NoFile /\ PatchInv' /\ OutInv'
  BY <1>1, Early
<1>10. SnapInv'
  BY <1>1, <1>2, <1>9 DEF SnapInv, Compared
<1>11. QED
  BY <1>3, <1>7, <1>8, <1>9, <1>10 DEF Inv

LEMMA ReadFileHolds == Inv /\ ReadFile => Inv'
<1> SUFFICES ASSUME Inv, ReadFile PROVE Inv'
  OBVIOUS
<1> DEFINE p == todo[next].path
           l == snap[side]
           m == snap'[side]
           t == tree[side]
           h == Read(t[p], 0, todo[next].size)
<1>1. /\ pc = "read" /\ pc' = "read" /\ next <= Len(todo) /\ next' = next + 1
      /\ UNCHANGED <<dvars, tree, side, todo, patch, out, result, changed, lost, cut>>
      /\ snap' = IF CanOpen(side, p)
                 THEN [snap EXCEPT ![side] = Append(@, [path |-> p, hash |-> h])]
                 ELSE snap
  BY DEF ReadFile
<1>2. PTypes /\ ReadInv /\ SnapInv
  BY DEF Inv
<1>3. DeltaInv'
  BY <1>1, DeltaStutters DEF Inv
<1>4. /\ t \in Trees /\ IsList(l) /\ side \in Side /\ todo \in Seq(Item)
      /\ next \in 1..Len(todo) /\ Len(todo) \in Nat
      /\ snap \in [Side -> Seq([path : Path, hash : Hash])]
  BY <1>1, <1>2, LenProperties DEF PTypes, Side
<1>5. /\ Collected(todo, t, side, changed)
      /\ \A j \in 1..Len(l) : l[j].path \in Passed(todo, next - 1)
      /\ Records(l, t, side, changed, Passed(todo, next - 1))
  BY <1>1, <1>2 DEF ReadInv
<1>6. CanOpen(side, p) <=> Shown(t[p], side, p)
  BY DEF CanOpen, Shown
<1>7. m = IF Shown(t[p], side, p) THEN Append(l, [path |-> p, hash |-> h]) ELSE l
  BY <1>1, <1>4, <1>6
<1>8. \A s \in Side : s # side => snap'[s] = snap[s]
  BY <1>1, <1>4
<1>9. DOMAIN snap' = Side /\ snap' = [s \in Side |-> snap'[s]]
  BY <1>1, <1>4
<1>10. /\ IsList(m)
       /\ \A j \in 1..Len(m) : m[j].path \in Passed(todo, next)
       /\ Records(m, t, side, changed, Passed(todo, next))
  <2> HIDE DEF l, m, t
  <2>1. QED
    BY <1>4, <1>5, <1>7, ReadKeeps
<1> HIDE DEF m, h, p
<1>11. PTypes'
  <2>1. IsList(snap'["old"]) /\ IsList(snap'["new"])
    BY <1>2, <1>4, <1>8, <1>10 DEF PTypes, Side, m
  <2>2. \A s \in Side : snap'[s] \in Seq([path : Path, hash : Hash])
    BY <2>1 DEF IsList, Side
  <2>3. snap' \in [Side -> Seq([path : Path, hash : Hash])]
    BY <1>9, <2>2
  <2>4. next' \in Nat \ {0}
    BY <1>1, <1>4
  <2>5. QED
    BY <1>1, <1>2, <2>1, <2>3, <2>4 DEF PTypes
<1>12. ReadInv'
  <2>1. next' <= Len(todo') + 1 /\ next' - 1 = next
    BY <1>1, <1>4
  <2>2. side = "old" => snap'["new"] = <<>>
    BY <1>1, <1>2, <1>8 DEF ReadInv, Side
  <2>3. Passed(todo', next' - 1) = Passed(todo, next)
    BY <1>1, <2>1
  <2>4. QED
    BY <1>1, <1>5, <1>10, <2>1, <2>2, <2>3 DEF ReadInv, m
<1>13. out' = NoFile /\ PatchInv' /\ OutInv'
  BY <1>1, Early
<1>14. SnapInv'
  <2>1. side = "new" => snap'["old"] = snap["old"]
    BY <1>8 DEF Side
  <2>2. QED
    BY <1>1, <1>2, <1>13, <2>1 DEF SnapInv, Compared
<1>15. QED
  BY <1>3, <1>11, <1>12, <1>13, <1>14 DEF Inv

\* What a finished snapshot records.
LEMMA SnapshotDone ==
    ASSUME Inv, pc = "read", next > Len(todo)
    PROVE  Records(snap[side], tree[side], side, changed, Path)
<1>1. todo \in Seq(Item) /\ next \in Nat \ {0} /\ next <= Len(todo) + 1
  BY DEF Inv, PTypes, ReadInv
<1>2. next - 1 = Len(todo)
  BY <1>1, LenProperties
<1>3. /\ Collected(todo, tree[side], side, changed)
      /\ Records(snap[side], tree[side], side, changed, Passed(todo, next - 1))
  BY DEF Inv, ReadInv
<1>4. QED
  BY <1>2, <1>3, ReadAll

LEMMA EndOldHolds == Inv /\ EndOldSnapshot => Inv'
<1> SUFFICES ASSUME Inv, EndOldSnapshot PROVE Inv'
  OBVIOUS
<1>1. /\ pc = "read" /\ pc' = "collect" /\ next > Len(todo) /\ side = "old" /\ side' = "new"
      /\ UNCHANGED <<dvars, tree, todo, next, snap, patch, out, result, changed, lost, cut>>
  BY DEF EndOldSnapshot
<1>2. DeltaInv'
  BY <1>1, DeltaStutters DEF Inv
<1>3. PTypes'
  BY <1>1 DEF Inv, PTypes, Side
<1>4. ReadInv'
  BY <1>1 DEF Inv, ReadInv
<1>5. out' = NoFile /\ PatchInv' /\ OutInv'
  BY <1>1, Early
<1>6. SnapInv'
  <2>1. Records(snap["old"], tree["old"], "old", changed, Path)
    BY <1>1, SnapshotDone
  <2>2. QED
    BY <1>1, <1>5, <2>1 DEF SnapInv, Compared
<1>7. QED
  BY <1>2, <1>3, <1>4, <1>5, <1>6 DEF Inv

LEMMA EndNewHolds == Inv /\ EndNewSnapshot => Inv'
<1> SUFFICES ASSUME Inv, EndNewSnapshot PROVE Inv'
  OBVIOUS
<1>1. /\ pc = "read" /\ pc' = "delta" /\ next > Len(todo) /\ side = "new"
      /\ Calculate(snap["old"], snap["new"])
      /\ UNCHANGED <<tree, side, todo, next, snap, patch, out, result, changed, lost, cut>>
  BY DEF EndNewSnapshot
<1>2. DeltaInv'
  <2>1. IsList(snap["old"]) /\ IsList(snap["new"])
    BY DEF Inv, PTypes
  <2>2. Start
    BY <1>1, <2>1 DEF Start, IsList
  <2>3. QED
    BY <2>2, StartStep DEF Inv
<1>3. PTypes'
  BY <1>1 DEF Inv, PTypes
<1>4. ReadInv'
  BY <1>1 DEF ReadInv
<1>5. out' = NoFile /\ PatchInv' /\ OutInv'
  BY <1>1, Early
<1>6. SnapInv'
  <2>1. Records(snap["new"], tree["new"], "new", changed, Path)
    BY <1>1, SnapshotDone
  <2>2. Records(snap["old"], tree["old"], "old", changed, Path)
    BY <1>1 DEF Inv, SnapInv
  <2>3. oldList' = snap["old"] /\ newList' = snap["new"]
    BY <1>1 DEF Calculate
  <2>4. QED
    BY <1>1, <2>1, <2>2, <2>3 DEF SnapInv
<1>7. QED
  BY <1>2, <1>3, <1>4, <1>5, <1>6 DEF Inv

LEMMA StepKeepsLists == DeltaStep => oldList' = oldList /\ newList' = newList
BY DEF DeltaStep, InsertProbe, Insert, EndInsert, CompareProbe, Found, NotFound,
       EndCompare, Sweep, EndSweep

LEMMA CompareHolds == Inv /\ CompareStep => Inv'
<1> SUFFICES ASSUME Inv, CompareStep PROVE Inv'
  OBVIOUS
<1>1. /\ pc = "delta" /\ DeltaStep
      /\ UNCHANGED <<tree, pc, side, todo, next, snap, patch, out, result, changed, lost, cut>>
  BY DEF CompareStep, pvars
<1>2. DeltaInv'
  BY <1>1, InsertStep, LookupStep, SweepStep DEF DeltaStep, Inv
<1>3. oldList' = oldList /\ newList' = newList
  BY <1>1, StepKeepsLists
<1>4. PTypes' /\ ReadInv'
  BY <1>1 DEF Inv, PTypes, ReadInv
<1>5. out' = NoFile /\ PatchInv' /\ OutInv'
  BY <1>1, Early
<1>6. SnapInv'
  BY <1>1, <1>3 DEF Inv, SnapInv, Compared
<1>7. QED
  BY <1>2, <1>4, <1>5, <1>6 DEF Inv

LEMMA EndDeltaHolds == Inv /\ EndDelta => Inv'
<1> SUFFICES ASSUME Inv, EndDelta PROVE Inv'
  OBVIOUS
<1>1. /\ pc = "delta" /\ phase = "done" /\ pc' = "entries" /\ next' = 1
      /\ UNCHANGED <<dvars, tree, side, todo, snap, patch, out, result, changed, lost, cut>>
  BY DEF EndDelta
<1>2. DeltaInv'
  BY <1>1, DeltaStutters DEF Inv
<1>3. PTypes'
  <2>1. next' \in Nat \ {0}
    BY <1>1
  <2>2. QED
    BY <1>1, <2>1 DEF Inv, PTypes
<1>4. ReadInv'
  BY <1>1 DEF ReadInv
<1>5. out = NoFile /\ patch = NoPatch
  BY <1>1 DEF Inv, OutInv, PatchInv
<1>6. UNCHANGED <<oldList, newList, phase, results>>
  BY <1>1 DEF dvars
<1>7. SnapInv'
  BY <1>1, <1>6 DEF Inv, SnapInv, Compared
<1>8. PatchInv'
  <2>1. Filled(NoPatch, results, snap, changed, 0)
    BY EmptySeq DEF Filled, NoPatch, PatchRec
  <2>2. results \in Seq(Results)
    BY DEF Inv, DeltaInv, DeltaTypes
  <2>3. next' - 1 = 0 /\ next' <= Len(results) + 1
    BY <1>1, <2>2, LenProperties
  <2>4. QED
    BY <1>1, <1>5, <1>6, <2>1, <2>3 DEF PatchInv
<1>9. OutInv'
  BY <1>1, <1>5 DEF OutInv
<1>10. QED
  BY <1>2, <1>3, <1>4, <1>7, <1>8, <1>9 DEF Inv

-----------------------------------------------------------------------------
(***************************************************************************)
(* The entries.                                                            *)
(***************************************************************************)
\* What is appended to the temporary files moves nothing that is in them.
LEMMA TellsStays ==
    ASSUME NEW g \in PatchRec, NEW g2 \in PatchRec, NEW b \in Seq(DataCell),
           NEW q \in Seq(PathCell), g2.data = g.data \o b, g2.paths = g.paths \o q,
           NEW e \in EntryCell, NEW r, NEW sn, NEW ch, Tells(g, e, r, sn, ch)
    PROVE  Tells(g2, e, r, sn, ch)
<1>1. e.pathOff \in Nat /\ e.off \in Nat /\ e.pathLen \in Nat /\ e.size \in Nat
  BY DEF EntryCell
<1>2. g.data \in Seq(DataCell) /\ g.paths \in Seq(PathCell)
  BY DEF PatchRec
<1>3. Sits(g2.paths, e.pathOff, r.path)
  BY <1>1, <1>2, AtStays DEF Tells
<1>4. PICK d \in Seq(DataCell) : /\ e.size = Len(d) /\ Sits(g.data, e.off, d)
                                 /\ Payload(e.flag, e.hash, d, r, sn, ch)
  BY DEF Tells
<1>5. Sits(g2.data, e.off, d)
  BY <1>1, <1>2, <1>4, AtStays
<1>6. QED
  BY <1>3, <1>4, <1>5 DEF Tells

\* The patch g with one more entry e, its bytes b and its path q.
More(g, e, b, q) ==
    [data |-> g.data \o b, dataOff |-> g.dataOff + Len(b), index |-> Append(g.index, e),
     paths |-> g.paths \o q, pathOff |-> g.pathOff + Len(q), errors |-> g.errors]

LEMMA MoreIs ==
    ASSUME NEW g \in PatchRec, NEW e \in EntryCell, NEW b \in Seq(DataCell),
           NEW q \in Seq(PathCell), g.dataOff = Len(g.data), g.pathOff = Len(g.paths)
    PROVE  LET g2 == More(g, e, b, q)
           IN  /\ g2 \in PatchRec
               /\ g2.dataOff = Len(g2.data) /\ g2.pathOff = Len(g2.paths)
               /\ g2.data = g.data \o b /\ g2.paths = g.paths \o q
               /\ g2.index = Append(g.index, e) /\ g2.errors = g.errors
<1> DEFINE g2 == More(g, e, b, q)
           D == g.data \o b
           P == g.paths \o q
           X == Append(g.index, e)
<1>1. /\ g.data \in Seq(DataCell) /\ g.paths \in Seq(PathCell) /\ g.index \in Seq(EntryCell)
      /\ g.dataOff \in Nat /\ g.pathOff \in Nat /\ g.errors \in Nat
  BY DEF PatchRec
<1>2. /\ D \in Seq(DataCell) /\ Len(D) = Len(g.data) + Len(b) /\ Len(D) \in Nat
      /\ P \in Seq(PathCell) /\ Len(P) = Len(g.paths) + Len(q) /\ Len(P) \in Nat
      /\ X \in Seq(EntryCell)
  BY <1>1, ConcatProperties, AppendProperties, LenProperties
<1>3. g2 = [data |-> D, dataOff |-> g.dataOff + Len(b), index |-> X,
            paths |-> P, pathOff |-> g.pathOff + Len(q), errors |-> g.errors]
  BY DEF More
<1> HIDE DEF g2, D, P, X
<1>4. /\ g2.data = D /\ g2.dataOff = Len(D) /\ g2.index = X
      /\ g2.paths = P /\ g2.pathOff = Len(P) /\ g2.errors = g.errors
  BY <1>2, <1>3
<1>5. g2 = [data |-> D, dataOff |-> Len(D), index |-> X,
            paths |-> P, pathOff |-> Len(P), errors |-> g.errors]
  BY <1>2, <1>3
<1>6. g2 \in PatchRec
  BY <1>1, <1>2, <1>5 DEF PatchRec
<1>7. QED
  BY <1>4, <1>6 DEF g2, D, P, X

\* An entry that tells difference n.
LEMMA MoreFilled ==
    ASSUME NEW g, NEW rs, NEW sn, NEW ch, NEW n \in Nat \ {0},
           Filled(g, rs, sn, ch, n - 1),
           rs[n].path \in Path, NEW b \in Seq(DataCell), NEW e \in EntryCell,
           e.pathOff = g.pathOff, e.pathLen = Len(rs[n].path),
           e.off = g.dataOff, e.size = Len(b),
           e.hash = rs[n].hash, rs[n].status = "deleted" <=> e.flag = "deleted",
           Payload(e.flag, e.hash, b, rs[n], sn, ch)
    PROVE  Filled(More(g, e, b, rs[n].path), rs, sn, ch, n)
<1> DEFINE g2 == More(g, e, b, rs[n].path)
           q == rs[n].path
<1>1. q \in Seq(PathCell) /\ Len(q) \in Nat
  BY Strings
<1>2. /\ g \in PatchRec /\ g.dataOff = Len(g.data) /\ g.pathOff = Len(g.paths)
      /\ Len(g.index) = n - 1
      /\ g.data \in Seq(DataCell) /\ g.paths \in Seq(PathCell) /\ g.index \in Seq(EntryCell)
  BY DEF Filled, PatchRec
<1>3. /\ g2 \in PatchRec
      /\ g2.dataOff = Len(g2.data) /\ g2.pathOff = Len(g2.paths)
      /\ g2.data = g.data \o b /\ g2.paths = g.paths \o q
      /\ g2.index = Append(g.index, e) /\ g2.errors = g.errors
  BY <1>1, <1>2, MoreIs, ZenonT(60)
<1> HIDE DEF g2
<1>4. /\ Len(g2.index) = n /\ g2.index[n] = e
      /\ \A j \in 1..n - 1 : g2.index[j] = g.index[j] /\ g.index[j] \in EntryCell
  <2>1. /\ Len(g2.index) = (n - 1) + 1 /\ g2.index[(n - 1) + 1] = e
        /\ \A j \in 1..n - 1 : g2.index[j] = g.index[j]
    BY <1>2, <1>3, AppendProperties
  <2>2. \A j \in 1..n - 1 : g.index[j] \in EntryCell
    BY <1>2, ElementOfSeq
  <2>3. (n - 1) + 1 = n
    OBVIOUS
  <2>4. QED
    BY <2>1, <2>2, <2>3
<1>5. Tells(g2, e, rs[n], sn, ch)
  <2>1. Sits(g2.paths, e.pathOff, q)
    BY <1>1, <1>2, <1>3, AtEnd
  <2>2. Sits(g2.data, e.off, b)
    BY <1>2, <1>3, AtEnd
  <2>3. QED
    BY <2>1, <2>2 DEF Tells
<1>6. ASSUME g2.errors = 0, NEW j \in 1..n PROVE Tells(g2, g2.index[j], rs[j], sn, ch)
  <2>1. CASE j = n
    BY <1>4, <1>5, <2>1
  <2>2. CASE j # n
    <3>1. j \in 1..n - 1
      BY <2>2
    <3>2. Tells(g, g.index[j], rs[j], sn, ch) /\ g.index[j] \in EntryCell
      BY <1>3, <1>4, <1>6, <3>1 DEF Filled
    <3>3. Tells(g2, g.index[j], rs[j], sn, ch)
      BY <1>1, <1>2, <1>3, <3>2, TellsStays
    <3>4. QED
      BY <1>4, <3>1, <3>3
  <2>3. QED
    BY <2>1, <2>2
<1>7. QED
  BY <1>3, <1>4, <1>6 DEF Filled, g2

\* An entry written in spite of an error.
LEMMA BadFilled ==
    ASSUME NEW g, NEW rs, NEW sn, NEW ch, NEW n \in Nat \ {0},
           Filled(g, rs, sn, ch, n - 1), NEW q \in Path, NEW e \in EntryCell,
           NEW g2, g2 = [g EXCEPT !.index = Append(@, e), !.paths = @ \o q,
                                  !.pathOff = @ + Len(q), !.errors = @ + 1]
    PROVE  Filled(g2, rs, sn, ch, n)
<1> DEFINE P == g.paths \o q
           X == Append(g.index, e)
<1>1. q \in Seq(PathCell) /\ Len(q) \in Nat
  BY Strings
<1>2. /\ g \in PatchRec /\ g.dataOff = Len(g.data) /\ g.pathOff = Len(g.paths)
      /\ Len(g.index) = n - 1
      /\ g.data \in Seq(DataCell) /\ g.paths \in Seq(PathCell) /\ g.index \in Seq(EntryCell)
      /\ g.errors \in Nat /\ g.dataOff \in Nat /\ g.pathOff \in Nat
  BY DEF Filled, PatchRec
<1>3. /\ P \in Seq(PathCell) /\ Len(P) = Len(g.paths) + Len(q) /\ Len(P) \in Nat
      /\ X \in Seq(EntryCell) /\ Len(X) = Len(g.index) + 1
  BY <1>1, <1>2, ConcatProperties, AppendProperties, LenProperties
<1>4. g2 = [data |-> g.data, dataOff |-> g.dataOff, index |-> X,
            paths |-> P, pathOff |-> g.pathOff + Len(q), errors |-> g.errors + 1]
  BY <1>2 DEF PatchRec
<1> HIDE DEF P, X
<1>5. g.pathOff + Len(q) = Len(P) /\ g.errors + 1 \in Nat /\ g.errors + 1 # 0 /\ Len(X) = n
  BY <1>2, <1>3
<1>6. g2 = [data |-> g.data, dataOff |-> g.dataOff, index |-> X,
            paths |-> P, pathOff |-> Len(P), errors |-> g.errors + 1]
  BY <1>4, <1>5
<1>7. g2 \in PatchRec
  BY <1>2, <1>3, <1>5, <1>6 DEF PatchRec
<1>8. QED
  BY <1>2, <1>5, <1>6, <1>7 DEF Filled

\* One more entry has been written.
LEMMA EntryHolds ==
    ASSUME Inv, pc = "entries", next <= Len(results), NextEntry,
           ~lost' => Filled(patch', results, snap, changed, next)
    PROVE  Inv'
<1>1. /\ pc = "entries" /\ pc' = "entries" /\ next' = next + 1
      /\ UNCHANGED <<dvars, tree, side, todo, snap, out, result, changed, cut>>
  BY DEF NextEntry
<1>2. DeltaInv'
  BY <1>1, DeltaStutters DEF Inv
<1>3. UNCHANGED <<oldList, newList, phase, results>>
  BY <1>1 DEF dvars
<1>4. next \in Nat \ {0} /\ Len(results) \in Nat
  BY LenProperties DEF Inv, PTypes, DeltaInv, DeltaTypes
<1>5. next' \in Nat \ {0} /\ next' - 1 = next /\ next' <= Len(results) + 1
  BY <1>1, <1>4
<1>6. PTypes'
  BY <1>1, <1>5 DEF Inv, PTypes
<1>7. ReadInv'
  BY <1>1 DEF ReadInv
<1>8. out = NoFile
  BY <1>1 DEF Inv, OutInv
<1>9. SnapInv'
  BY <1>1, <1>3 DEF Inv, SnapInv, Compared
<1>10. PatchInv'
  <2>1. phase = "done"
    BY <1>1 DEF Inv, PatchInv
  <2>2. QED
    BY <1>1, <1>3, <1>5, <1>8, <2>1 DEF PatchInv
<1>11. OutInv'
  BY <1>1, <1>8 DEF OutInv
<1>12. QED
  BY <1>2, <1>6, <1>7, <1>9, <1>10, <1>11 DEF Inv

\* What is known of the difference that is handled next.
LEMMA NextResult ==
    ASSUME Inv, pc = "entries", next <= Len(results)
    PROVE  /\ next \in Nat \ {0} /\ Says(R) /\ R = results[next] /\ R.path \in Path
           /\ R.hash \in Hash \cup {NoHash}
           /\ ~lost => /\ Filled(patch, results, snap, changed, next - 1)
                       /\ patch \in PatchRec /\ patch.pathOff \in Nat
                       /\ patch.dataOff \in Nat
           /\ IsList(oldList) /\ IsList(newList)
           /\ oldList = snap["old"] /\ newList = snap["new"]
           /\ Records(snap["old"], tree["old"], "old", changed, Path)
           /\ Records(snap["new"], tree["new"], "new", changed, Path)
           /\ tree["old"] \in Trees /\ tree["new"] \in Trees
<1>1. next \in Nat \ {0} /\ next \in 1..Len(results)
  BY LenProperties DEF Inv, PTypes, DeltaInv, DeltaTypes
<1>2. phase = "done" /\ (~lost => Filled(patch, results, snap, changed, next - 1))
  BY DEF Inv, PatchInv
<1>3. Says(R)
  BY <1>1, <1>2, ResultSays DEF Inv, R
<1>4. ~lost => patch \in PatchRec /\ patch.pathOff \in Nat /\ patch.dataOff \in Nat
  BY <1>2 DEF Filled, PatchRec
<1>5. /\ oldList = snap["old"] /\ newList = snap["new"]
      /\ Records(snap["old"], tree["old"], "old", changed, Path)
      /\ Records(snap["new"], tree["new"], "new", changed, Path)
  BY DEF Inv, SnapInv, Compared
<1>6. tree["old"] \in Trees /\ tree["new"] \in Trees
  BY DEF Inv, PTypes, Side
<1>7. IsList(oldList) /\ IsList(newList)
  BY DEF Inv, DeltaInv, DeltaTypes
<1>8. R.path \in Path /\ R.hash \in Hash \cup {NoHash}
  BY <1>3 DEF Says, Results
<1>9. QED
  BY <1>1, <1>2, <1>3, <1>4, <1>5, <1>6, <1>7, <1>8 DEF R

LEMMA AddEntryHolds ==
    ASSUME Inv, pc = "entries", next <= Len(results), NextEntry,
           NEW flag \in {"deleted", "full", "delta"}, NEW b \in Seq(DataCell),
           AddEntry(flag, b, R.hash), R.status = "deleted" <=> flag = "deleted",
           Payload(flag, R.hash, b, R, snap, changed)
    PROVE  Inv'
<1> DEFINE e == [kind |-> "entry", flag |-> flag, hash |-> R.hash,
                 pathOff |-> patch.pathOff, pathLen |-> Len(R.path),
                 off |-> patch.dataOff, size |-> Len(b)]
<1>0. CASE lost'
  BY <1>0, EntryHolds
<1> SUFFICES ASSUME ~lost' PROVE Inv'
  BY <1>0
<1> DEFINE more == patch' = [patch EXCEPT
                 !.data = @ \o b, !.dataOff = @ + Len(b), !.index = Append(patch.index, e),
                 !.paths = @ \o R.path, !.pathOff = @ + Len(R.path)]
<1>b. (more /\ lost' = lost) \/ lost' = TRUE
  BY Zenon DEF AddEntry
<1>c. lost' # TRUE
  OBVIOUS
<1>d. more /\ lost' = lost
  <2> HIDE DEF more
  <2> QED  BY <1>b, <1>c
<1>a. ~lost /\ more
  <2> HIDE DEF more
  <2> QED  BY <1>d
<1>1. /\ next \in Nat \ {0} /\ R = results[next] /\ R.path \in Path
      /\ R.hash \in Hash \cup {NoHash}
      /\ Filled(patch, results, snap, changed, next - 1)
      /\ patch \in PatchRec /\ patch.pathOff \in Nat /\ patch.dataOff \in Nat
  BY <1>a, NextResult
<1>2. Len(R.path) \in Nat /\ Len(b) \in Nat
  BY <1>1, Strings, LenProperties
<1>3. e \in EntryCell
  BY <1>1, <1>2 DEF EntryCell
<1>4. /\ e.pathOff = patch.pathOff /\ e.pathLen = Len(R.path) /\ e.off = patch.dataOff
      /\ e.size = Len(b) /\ e.hash = R.hash /\ e.flag = flag
  OBVIOUS
<1>5. patch' = More(patch, e, b, R.path)
  BY <1>1, <1>a DEF More, PatchRec
<1> HIDE DEF e, more
<1>6. Filled(More(patch, e, b, R.path), results, snap, changed, next)
  BY <1>1, <1>3, <1>4, MoreFilled
<1>7. QED
  BY <1>5, <1>6, EntryHolds

LEMMA DeletedHolds == Inv /\ DeletedEntry => Inv'
<1> SUFFICES ASSUME Inv, DeletedEntry PROVE Inv'
  OBVIOUS
<1>1. /\ pc = "entries" /\ next <= Len(results) /\ R.status = "deleted"
      /\ AddEntry("deleted", <<>>, NoHash) /\ NextEntry
  BY DEF DeletedEntry
<1>2. R.hash = NoHash
  BY <1>1, NextResult DEF Says
<1>3. <<>> \in Seq(DataCell)
  BY EmptySeq
<1>4. Payload("deleted", R.hash, <<>>, R, snap, changed)
  BY DEF Payload
<1>5. QED
  BY <1>1, <1>2, <1>3, <1>4, AddEntryHolds

\* An index that was right about a file is right about its content.
LEMMA StillThere ==
    ASSUME NEW l, IsList(l), NEW t, NEW s, NEW ch, NEW p \in Path,
           Records(l, t, s, ch, Path), <<s, p>> \notin ch, Listed(l, p)
    PROVE  Value(l, p) = t[p]
BY DEF Records

LEMMA FullHolds == Inv /\ FullEntry => Inv'
<1> SUFFICES ASSUME Inv, FullEntry PROVE Inv'
  OBVIOUS
<1> DEFINE b == tree["new"][R.path]
<1>1. /\ pc = "entries" /\ next <= Len(results) /\ R.status # "deleted"
      /\ CanOpen("new", R.path)
      /\ AddEntry("full", b, R.hash) /\ NextEntry
  BY DEF FullEntry
<1>2. /\ Says(R) /\ R.path \in Path /\ newList = snap["new"] /\ IsList(newList)
      /\ Records(snap["new"], tree["new"], "new", changed, Path) /\ tree["new"] \in Trees
  BY <1>1, NextResult
<1>3. b \in Seq(DataCell)
  <2>1. b \in Contents
    BY <1>1, <1>2 DEF CanOpen, Trees
  <2>2. ByteCell \subseteq DataCell
    BY DEF DataCell
  <2>3. QED
    BY <2>1, <2>2, Strings, SeqMonotonic
<1>4. <<"new", R.path>> \notin changed => b = R.hash
  BY <1>1, <1>2, StillThere DEF Says
<1> HIDE DEF b
<1>5. Payload("full", R.hash, b, R, snap, changed)
  BY <1>4 DEF Payload
<1>6. QED
  BY <1>1, <1>3, <1>5, AddEntryHolds

LEMMA DeltaEntryHolds == Inv /\ DeltaEntry => Inv'
<1> SUFFICES ASSUME Inv, DeltaEntry PROVE Inv'
  OBVIOUS
<1> DEFINE x == tree["old"][R.path]
           y == tree["new"][R.path]
           c == [kind |-> "pafd", base |-> x, target |-> y]
           b == Pafd(x, y)
<1>1. /\ pc = "entries" /\ next <= Len(results) /\ R.status = "updated"
      /\ CanOpen("old", R.path) /\ CanOpen("new", R.path)
      /\ AddEntry("delta", b, R.hash) /\ NextEntry
  BY DEF DeltaEntry
<1>2. /\ Says(R) /\ R.path \in Path /\ IsList(newList) /\ IsList(oldList)
      /\ newList = snap["new"] /\ oldList = snap["old"]
      /\ Records(snap["old"], tree["old"], "old", changed, Path) /\ tree["old"] \in Trees
      /\ Records(snap["new"], tree["new"], "new", changed, Path) /\ tree["new"] \in Trees
  BY <1>1, NextResult
<1>3. x \in Contents /\ y \in Contents
  BY <1>1, <1>2 DEF CanOpen, Trees
<1>4. <<"new", R.path>> \notin changed => y = R.hash
  BY <1>1, <1>2, StillThere DEF Says
<1>5. <<"old", R.path>> \notin changed => x = Value(snap["old"], R.path)
  BY <1>1, <1>2, StillThere DEF Says
<1> HIDE DEF x, y
<1>6. c \in DataCell /\ c.base = x /\ c.target = y
  BY <1>3 DEF DataCell
<1>7. b = <<c>>
  BY DEF Pafd
<1> HIDE DEF c, b
<1>8. b \in Seq(DataCell) /\ Len(b) = 1 /\ b[1] = c
  BY <1>6, <1>7
<1>9. Payload("delta", R.hash, b, R, snap, changed)
  BY <1>1, <1>4, <1>5, <1>6, <1>8 DEF Payload
<1>10. QED
  BY <1>1, <1>8, <1>9, AddEntryHolds

LEMMA FailedHolds == Inv /\ FailedEntry => Inv'
<1> SUFFICES ASSUME Inv, FailedEntry PROVE Inv'
  OBVIOUS
<1> DEFINE e == [kind |-> "entry", flag |-> "full", hash |-> NoHash,
                 pathOff |-> patch.pathOff, pathLen |-> Len(R.path), off |-> 0, size |-> 0]
<1>1. /\ pc = "entries" /\ next <= Len(results) /\ NextEntry
      /\ patch' = [patch EXCEPT !.index = Append(@, e), !.paths = @ \o R.path,
                                !.pathOff = @ + Len(R.path), !.errors = @ + 1]
      /\ UNCHANGED lost
  BY DEF FailedEntry
<1>0. CASE lost
  BY <1>0, <1>1, EntryHolds
<1> SUFFICES ASSUME ~lost PROVE Inv'
  BY <1>0
<1>2. /\ next \in Nat \ {0} /\ R.path \in Path /\ patch.pathOff \in Nat
      /\ Filled(patch, results, snap, changed, next - 1)
  BY <1>1, NextResult
<1>3. Len(R.path) \in Nat
  BY <1>2, Strings
<1>4. e \in EntryCell
  BY <1>2, <1>3 DEF EntryCell
<1> HIDE DEF e
<1>5. Filled(patch', results, snap, changed, next)
  BY <1>1, <1>2, <1>4, BadFilled
<1>6. QED
  BY <1>1, <1>5, EntryHolds

-----------------------------------------------------------------------------
(***************************************************************************)
(* The archive, failures, and what other programs do.                      *)
(***************************************************************************)
LEMMA EndEntriesHolds == Inv /\ EndEntries => Inv'
<1> SUFFICES ASSUME Inv, EndEntries PROVE Inv'
  OBVIOUS
<1>1. /\ pc = "entries" /\ next > Len(results)
      /\ UNCHANGED <<dvars, tree, side, todo, next, snap, patch, out, changed, lost, cut>>
      /\ pc' = "done" \/ (~(patch.errors > 0) /\ pc' = "publish")
  BY DEF EndEntries
<1>2. DeltaInv'
  BY <1>1, DeltaStutters DEF Inv
<1>3. UNCHANGED <<oldList, newList, phase, results>>
  BY <1>1 DEF dvars
<1>4. PTypes'
  BY <1>1 DEF Inv, PTypes
<1>5. ReadInv'
  BY <1>1 DEF ReadInv
<1>6. out = NoFile
  BY <1>1 DEF Inv, OutInv
<1>7. SnapInv'
  BY <1>1, <1>3, <1>6 DEF Inv, SnapInv, Compared
<1>8. PatchInv'
  <2>1. phase = "done" /\ next <= Len(results) + 1
        /\ (~lost => Filled(patch, results, snap, changed, next - 1))
    BY <1>1 DEF Inv, PatchInv
  <2>2. next - 1 = Len(results)
    <3>1. next \in Nat \ {0} /\ Len(results) \in Nat
      BY LenProperties DEF Inv, PTypes, DeltaInv, DeltaTypes
    <3>2. QED
      BY <1>1, <2>1, <3>1
  <2>3. ~lost /\ ~(patch.errors > 0) => patch.errors = 0
    <3>1. ~lost => patch.errors \in Nat
      BY <2>1 DEF Filled, PatchRec
    <3>2. QED
      BY <3>1
  <2>4. QED
    BY <1>1, <1>3, <1>6, <2>1, <2>2, <2>3 DEF PatchInv
<1>9. OutInv'
  BY <1>1, <1>6 DEF OutInv
<1>10. QED
  BY <1>2, <1>4, <1>5, <1>7, <1>8, <1>9 DEF Inv

\* The parts of the patch are sequences of the cells an archive is made of.
HeaderCell == [kind : {"header"}, indexOnly : {FALSE}, count : Nat, indexOff : Nat, pathOff : Nat]
FileCell   == HeaderCell \cup DataCell \cup EntryCell \cup PathCell

PatchHdr ==
    Header(FALSE, Len(patch.index), HeaderSize + patch.dataOff,
           HeaderSize + patch.dataOff + Len(patch.index) * EntrySize)

LEMMA PatchFileIs ==
    ASSUME NEW n, Filled(patch, results, snap, changed, n)
    PROVE  /\ PatchFile \in Seq(FileCell) /\ Len(PatchFile) \in Nat
           /\ LaidOut(PatchFile, PatchHdr, patch.data, patch.index, patch.paths)
<1>1. /\ patch.data \in Seq(DataCell) /\ patch.index \in Seq(EntryCell)
      /\ patch.paths \in Seq(PathCell) /\ patch.dataOff \in Nat
  BY DEF Filled, PatchRec
<1>2. /\ patch.data \in Seq(FileCell) /\ patch.index \in Seq(FileCell)
      /\ patch.paths \in Seq(FileCell)
  BY <1>1, SeqMonotonic DEF FileCell
<1>3. PatchHdr \in FileCell
  <2>1. Len(patch.index) \in Nat
    BY <1>1, LenProperties
  <2>2. Len(patch.index) * EntrySize \in Nat /\ HeaderSize + patch.dataOff \in Nat
    BY <1>1, <2>1 DEF EntrySize, HeaderSize
  <2>3. HeaderSize + patch.dataOff + Len(patch.index) * EntrySize \in Nat
    BY <2>2
  <2>4. PatchHdr \in HeaderCell
    BY <2>1, <2>2, <2>3 DEF PatchHdr, Header, HeaderCell
  <2>5. QED
    BY <2>4 DEF FileCell
<1>4. PatchFile = <<PatchHdr>> \o patch.data \o patch.index \o patch.paths
  BY DEF PatchFile, PatchHdr
<1>5. PatchFile \in Seq(FileCell)
      /\ LaidOut(PatchFile, PatchHdr, patch.data, patch.index, patch.paths)
  BY <1>2, <1>3, <1>4, Layout
<1>6. QED
  BY <1>5, LenProperties

LEMMA PublishHolds == Inv /\ Publish => Inv'
<1> SUFFICES ASSUME Inv, Publish PROVE Inv'
  OBVIOUS
<1>1. /\ pc = "publish" /\ pc' = "done"
      /\ UNCHANGED <<dvars, tree, side, todo, next, snap, patch, changed, lost>>
      /\ \/ out' = PatchFile /\ cut' = FALSE
         \/ \E n \in 0..Len(PatchFile) - 1 :
               out' = SubSeq(PatchFile, 1, n) /\ cut' = TRUE
  BY DEF Publish
<1>2. DeltaInv'
  BY <1>1, DeltaStutters DEF Inv
<1>3. UNCHANGED <<oldList, newList, phase, results>>
  BY <1>1 DEF dvars
<1>4. PTypes'
  BY <1>1 DEF Inv, PTypes
<1>5. ReadInv'
  BY <1>1 DEF ReadInv
<1>6. SnapInv'
  BY <1>1, <1>3 DEF Inv, SnapInv, Compared
<1>7. /\ phase = "done"
      /\ ~lost => /\ patch.errors = 0
                  /\ Filled(patch, results, snap, changed, Len(results))
  BY <1>1 DEF Inv, PatchInv
<1>8. PatchInv'
  BY <1>1, <1>3, <1>7 DEF PatchInv
<1>9. OutInv'
  <2>0. SUFFICES ASSUME ~lost PROVE OutInv'
    BY <1>1 DEF OutInv
  <2>1. PatchFile' = PatchFile
    BY <1>1 DEF PatchFile
  <2>2. PatchFile \in Seq(FileCell) /\ Len(PatchFile) \in Nat
    BY <1>7, <2>0, PatchFileIs
  <2>3. \E n \in 0..Len(PatchFile) : /\ out' = SubSeq(PatchFile, 1, n)
                                     /\ ~cut' => n = Len(PatchFile)
    <3>1. CASE out' = PatchFile /\ cut' = FALSE
      <4>1. SubSeq(PatchFile, 1, Len(PatchFile)) = PatchFile
        BY <2>2, SubSeqFull
      <4>2. Len(PatchFile) \in 0..Len(PatchFile)
        BY <2>2
      <4>3. QED
        BY <3>1, <4>1, <4>2
    <3>2. CASE \E n \in 0..Len(PatchFile) - 1 :
                  out' = SubSeq(PatchFile, 1, n) /\ cut' = TRUE
      <4>1. PICK n \in 0..Len(PatchFile) - 1 :
                  out' = SubSeq(PatchFile, 1, n) /\ cut' = TRUE
        BY <3>2
      <4>2. n \in 0..Len(PatchFile)
        BY <2>2
      <4>3. QED
        BY <4>1, <4>2
    <3>3. QED
      BY <1>1, <3>1, <3>2
  <2>4. QED
    BY <1>1, <2>1, <2>3 DEF OutInv
<1>10. QED
  BY <1>2, <1>4, <1>5, <1>6, <1>8, <1>9 DEF Inv

LEMMA GiveUpHolds == Inv /\ GiveUp => Inv'
<1> SUFFICES ASSUME Inv, GiveUp PROVE Inv'
  OBVIOUS
<1>1. /\ pc \in {"collect", "publish", "read", "delta", "entries"} /\ pc' = "done"
      /\ UNCHANGED <<dvars, tree, side, todo, next, snap, patch, out, changed, lost, cut>>
  BY DEF GiveUp
<1>2. DeltaInv'
  BY <1>1, DeltaStutters DEF Inv
<1>3. out = NoFile
  BY <1>1 DEF Inv, OutInv
<1>4. PTypes' /\ ReadInv' /\ PatchInv' /\ OutInv'
  BY <1>1, <1>3 DEF Inv, PTypes, ReadInv, PatchInv, OutInv
<1>5. SnapInv'
  BY <1>1, <1>3 DEF Inv, SnapInv, Compared
<1>6. QED
  BY <1>2, <1>4, <1>5 DEF Inv

\* More files have changed: less is said.
LEMMA ChangeFilled ==
    ASSUME NEW g, NEW rs, NEW sn, NEW ch, NEW n, Filled(g, rs, sn, ch, n),
           NEW ch2, ch \subseteq ch2
    PROVE  Filled(g, rs, sn, ch2, n)
<1>1. ASSUME NEW e, NEW r, Tells(g, e, r, sn, ch) PROVE Tells(g, e, r, sn, ch2)
  <2>1. PICK d \in Seq(DataCell) : /\ e.size = Len(d) /\ Sits(g.data, e.off, d)
                                   /\ Payload(e.flag, e.hash, d, r, sn, ch)
    BY <1>1 DEF Tells
  <2>2. Payload(e.flag, e.hash, d, r, sn, ch2)
    BY <2>1 DEF Payload
  <2>3. QED
    BY <1>1, <2>1, <2>2 DEF Tells
<1>2. QED
  BY <1>1 DEF Filled

LEMMA ChangeHolds == Inv /\ Change => Inv'
<1> SUFFICES ASSUME Inv, Change PROVE Inv'
  OBVIOUS
<1>1. PICK z \in Side, p \in Path, c \in Contents \cup {Absent} :
          /\ tree' = [tree EXCEPT ![z][p] = c]
          /\ changed' = changed \cup {<<z, p>>}
  BY DEF Change
<1>2. /\ pc \in {"collect", "read", "entries"}
      /\ UNCHANGED <<dvars, pc, side, todo, next, snap, patch, out, result, lost, cut>>
  BY DEF Change
<1>3. DeltaInv'
  BY <1>2, DeltaStutters DEF Inv
<1>4. UNCHANGED <<oldList, newList, phase, results>>
  BY <1>2 DEF dvars
<1>5. tree \in [Side -> Trees] /\ side \in Side /\ todo \in Seq(Item)
  BY DEF Inv, PTypes
<1>6. tree' \in [Side -> Trees]
  BY <1>1, <1>5 DEF Trees
<1>7. ASSUME NEW s \in Side
      PROVE  /\ tree[s] \in Trees /\ tree'[s] \in Trees /\ changed \subseteq changed'
             /\ \A q \in Path : <<s, q>> \notin changed' => tree'[s][q] = tree[s][q]
  BY <1>1, <1>5, <1>6 DEF Trees
<1>8. PTypes'
  BY <1>2, <1>6 DEF Inv, PTypes
<1>9. ASSUME NEW s \in Side, NEW l, NEW P, Records(l, tree[s], s, changed, P)
      PROVE  Records(l, tree'[s], s, changed', P)
  BY <1>7, <1>9, ChangeRecords
<1>10. ReadInv'
  <2>1. pc = "read" => Collected(todo, tree'[side], side, changed')
    BY <1>5, <1>7, ChangeCollected DEF Inv, ReadInv
  <2>2. QED
    BY <1>2, <1>5, <1>9, <2>1 DEF Inv, ReadInv
<1>11. out = NoFile
  BY <1>2 DEF Inv, OutInv
<1>12. SnapInv'
  <2>1. "old" \in Side /\ "new" \in Side
    BY DEF Side
  <2>2. QED
    BY <1>2, <1>4, <1>9, <2>1 DEF Inv, SnapInv, Compared
<1>13. PatchInv'
  <2>1. changed \subseteq changed'
    BY <1>1
  <2>2. pc = "entries" /\ ~lost => Filled(patch, results, snap, changed', next - 1)
    BY <2>1, ChangeFilled DEF Inv, PatchInv
  <2>3. QED
    BY <1>2, <1>4, <1>11, <2>2 DEF Inv, PatchInv
<1>14. OutInv'
  BY <1>2, <1>11 DEF OutInv
<1>15. QED
  BY <1>3, <1>8, <1>10, <1>12, <1>13, <1>14 DEF Inv

LEMMA InvStutters == Inv /\ UNCHANGED vars => Inv'
<1> SUFFICES ASSUME Inv, UNCHANGED vars PROVE Inv'
  OBVIOUS
<1>1. UNCHANGED <<dvars, tree, pc, side, todo, next, snap, patch, out, result, changed, lost, cut>>
  BY DEF vars, pvars
<1>2. DeltaInv'
  BY <1>1, DeltaStutters DEF Inv
<1>3. UNCHANGED <<oldList, newList, phase, results>>
  BY <1>1 DEF dvars
<1>4. PTypes' /\ ReadInv'
  BY <1>1 DEF Inv, PTypes, ReadInv
<1>5. SnapInv' /\ PatchInv'
  BY <1>1, <1>3 DEF Inv, SnapInv, Compared, PatchInv
<1>6. OutInv'
  <2>1. PatchFile' = PatchFile
    BY <1>1 DEF PatchFile
  <2>2. QED
    BY <1>1, <2>1 DEF Inv, OutInv
<1>7. QED
  BY <1>2, <1>4, <1>5, <1>6 DEF Inv

LEMMA InvAlways == Spec => []Inv
<1>1. Inv /\ [Next]_vars => Inv'
  BY CollectHolds, ReadFileHolds, EndOldHolds, EndNewHolds, CompareHolds, EndDeltaHolds,
     DeletedHolds, FullHolds, DeltaEntryHolds, FailedHolds, EndEntriesHolds, PublishHolds,
     GiveUpHolds, ChangeHolds, InvStutters DEF Next, Step
<1>2. QED
  BY InitHolds, <1>1, PTL DEF Spec

-----------------------------------------------------------------------------
(***************************************************************************)
(* What the readers of the format see of out_paf, cut or not.              *)
(***************************************************************************)
LEMMA CutIs ==
    ASSUME NEW T, NEW f \in Seq(T), NEW n \in 0..Len(f), NEW g, g = SubSeq(f, 1, n)
    PROVE  g \in Seq(T) /\ Len(g) = n /\ \A i \in 1..n : g[i] = f[i]
<1>1. Len(f) \in Nat /\ n \in Nat
  BY LenProperties
<1>2. \A i \in 1..n : f[i] \in T
  BY <1>1, ElementOfSeq
<1>3. /\ g \in Seq(T) /\ Len(g) = IF 1 <= n THEN n - 1 + 1 ELSE 0
      /\ \A i \in 1..n - 1 + 1 : g[i] = f[1 + i - 1]
  BY <1>1, <1>2, SubSeqProperties
<1>4. QED
  BY <1>1, <1>3

\* A reader of a file that was cut gets what was written at a place, or
\* notices that it gets less.
GotOrShort(x, s, n, f) == /\ Len(x) = Len(s) => x = s
                          /\ n = Len(f) => x = s

LEMMA ReadCut ==
    ASSUME NEW T, NEW f \in Seq(T), NEW n \in 0..Len(f), NEW g, g = SubSeq(f, 1, n),
           NEW S, NEW s \in Seq(S), NEW o \in Nat, Sits(f, o, s),
           NEW x, x = Read(g, o, Len(s))
    PROVE  GotOrShort(x, s, n, f)
<1>1. g \in Seq(T) /\ Len(g) = n /\ \A i \in 1..n : g[i] = f[i]
  BY CutIs
<1>2. Len(f) \in Nat /\ n \in Nat /\ Len(s) \in Nat /\ o + Len(s) <= Len(f)
  BY LenProperties DEF Sits
<1>3. CASE o + Len(s) <= n
  <2>1. Sits(g, o, s)
    <3>1. \A i \in 1..Len(s) : o + i \in 1..n
      BY <1>2, <1>3
    <3>2. QED
      BY <1>1, <1>3, <3>1 DEF Sits
  <2>2. x = s
    BY <1>1, <2>1, AtIsGot DEF Read, MinOf
  <2>3. QED
    BY <2>2 DEF GotOrShort
<1>4. CASE ~(o + Len(s) <= n)
  <2>1. x = SubSeq(g, o + 1, n)
    <3>1. ~(o + Len(s) < n)
      BY <1>2, <1>4
    <3>2. QED
      BY <1>1, <3>1 DEF Read, MinOf
  <2>2. \A i \in (o + 1)..n : g[i] \in T
    <3>1. \A i \in (o + 1)..n : i \in 1..n
      BY <1>2
    <3>2. QED
      BY <1>1, <3>1, ElementOfSeq
  <2> DEFINE y == SubSeq(g, o + 1, n)
  <2>3. y \in Seq(T) /\ Len(y) = IF o + 1 <= n THEN n - (o + 1) + 1 ELSE 0
    <3>1. o + 1 \in Int /\ n \in Int
      BY <1>2
    <3>2. QED
      BY <2>2, <3>1, SubSeqProperties
  <2> HIDE DEF y
  <2>4. Len(y) = Len(s) => Len(s) = 0 /\ Len(y) = 0
    BY <1>2, <1>4, <2>3
  <2>5. Len(y) = Len(s) => y = s
    BY <2>3, <2>4, EmptySeq
  <2>6. n # Len(f)
    BY <1>2, <1>4
  <2>7. QED
    BY <2>1, <2>5, <2>6 DEF GotOrShort, y
<1>5. QED
  BY <1>3, <1>4

\* The archive is the file that was put together, up to where it was cut.
LEMMA OutIs ==
    ASSUME Inv, out # NoFile, ~lost
    PROVE  /\ phase = "done" /\ Filled(patch, results, snap, changed, Len(results))
           /\ patch.errors = 0 /\ patch.dataOff = Len(patch.data) /\ Len(results) \in Nat
           /\ patch.data \in Seq(DataCell) /\ patch.index \in Seq(EntryCell)
           /\ patch.paths \in Seq(PathCell) /\ Len(patch.index) = Len(results)
           /\ PatchFile \in Seq(FileCell) /\ Len(PatchFile) \in Nat
           /\ LaidOut(PatchFile, PatchHdr, patch.data, patch.index, patch.paths)
           /\ \E n \in 0..Len(PatchFile) : /\ out = SubSeq(PatchFile, 1, n)
                                           /\ ~cut => n = Len(PatchFile)
<1>1. /\ phase = "done" /\ Filled(patch, results, snap, changed, Len(results))
      /\ patch.errors = 0
  BY DEF Inv, PatchInv
<1>2. /\ patch.data \in Seq(DataCell) /\ patch.index \in Seq(EntryCell)
      /\ patch.paths \in Seq(PathCell) /\ Len(patch.index) = Len(results)
      /\ patch.dataOff = Len(patch.data)
  BY <1>1 DEF Filled, PatchRec
<1>3. Len(results) \in Nat
  BY <1>2, LenProperties
<1>4. QED
  BY <1>1, <1>2, <1>3, PatchFileIs DEF Inv, OutInv

LEMMA ArchiveRead ==
    ASSUME Inv, out # NoFile, ~lost
    PROVE  /\ ~cut => Readable(out)
           /\ Readable(out) => Hdr(out) = PatchHdr /\ IndexCells(out) = patch.index
<1> DEFINE A == PatchFile
           I == patch.index
<1>1. PICK n \in 0..Len(A) : out = SubSeq(A, 1, n) /\ (~cut => n = Len(A))
  BY OutIs
<1>2. /\ A \in Seq(FileCell) /\ Len(A) \in Nat /\ I \in Seq(EntryCell) /\ Len(I) \in Nat
      /\ LaidOut(A, PatchHdr, patch.data, I, patch.paths)
      /\ patch.dataOff = Len(patch.data) /\ Len(patch.data) \in Nat
  BY OutIs, LenProperties
<1> HIDE DEF A, I
<1>3. Len(out) = n /\ \A i \in 1..n : out[i] = A[i]
  BY <1>1, <1>2, CutIs
<1>4. Len(A) > 0 /\ A[1] = PatchHdr /\ Sits(A, 1 + Len(patch.data), I)
  BY <1>2 DEF LaidOut
<1>5. /\ PatchHdr.kind = "header" /\ PatchHdr.count = Len(I)
      /\ PatchHdr.indexOff = 1 + Len(patch.data)
  BY <1>2 DEF PatchHdr, Header, HeaderSize, I
<1>6. ASSUME n >= 1 PROVE Hdr(out) = PatchHdr
  BY <1>3, <1>4, <1>6 DEF Hdr
<1>7. ASSUME Hdr(out) = PatchHdr
      PROVE  /\ Len(IndexCells(out)) = Len(I) => IndexCells(out) = I
             /\ n = Len(A) => IndexCells(out) = I
  <2> DEFINE o == 1 + Len(patch.data)
             x == IndexCells(out)
  <2>1. x = Read(out, o, Len(I))
    BY <1>2, <1>5, <1>7 DEF IndexCells, EntrySize
  <2>2. o \in Nat /\ Sits(A, o, I)
    BY <1>2, <1>4
  <2> HIDE DEF o, x
  <2>3. GotOrShort(x, I, n, A)
    BY <1>1, <1>2, <2>1, <2>2, ReadCut
  <2>4. QED
    BY <2>3 DEF GotOrShort, x
<1>8. ~cut => Readable(out)
  BY <1>1, <1>2, <1>3, <1>4, <1>5, <1>6, <1>7 DEF Readable, HeaderSize
<1>9. ASSUME Readable(out) PROVE Hdr(out) = PatchHdr /\ IndexCells(out) = I
  BY <1>3, <1>5, <1>6, <1>7, <1>9 DEF Readable, HeaderSize
<1>10. QED
  BY <1>8, <1>9 DEF I

\* What the readers get of entry j.
EntryIsRead(j) ==
    LET e == IndexCells(out)[j]
        r == results[j]
        d == EntryData(out, e)
        q == EntryPath(out, e)
    IN  /\ e \in EntryCell /\ e.hash = r.hash
        /\ r.status = "deleted" <=> e.flag = "deleted"
        /\ Len(q) = e.pathLen => q = r.path
        /\ ~cut => /\ q = r.path /\ Len(q) = e.pathLen
                   /\ Len(d) = e.size /\ Payload(e.flag, e.hash, d, r, snap, changed)

LEMMA EntryRead ==
    ASSUME Inv, out # NoFile, ~lost, Readable(out)
    PROVE  Hdr(out).count = Len(results) /\ \A j \in 1..Len(results) : EntryIsRead(j)
<1>1. Hdr(out) = PatchHdr /\ IndexCells(out) = patch.index
  BY ArchiveRead
<1>2. /\ Filled(patch, results, snap, changed, Len(results)) /\ patch.errors = 0
      /\ phase = "done" /\ patch.dataOff = Len(patch.data) /\ Len(results) \in Nat
      /\ patch.data \in Seq(DataCell) /\ patch.index \in Seq(EntryCell)
      /\ patch.paths \in Seq(PathCell) /\ Len(patch.index) = Len(results)
      /\ PatchFile \in Seq(FileCell) /\ Len(PatchFile) \in Nat
      /\ LaidOut(PatchFile, PatchHdr, patch.data, patch.index, patch.paths)
  BY OutIs
<1>3. PICK n \in 0..Len(PatchFile) : /\ out = SubSeq(PatchFile, 1, n)
                                     /\ ~cut => n = Len(PatchFile)
  BY OutIs
<1>4. Hdr(out).count = Len(results)
  BY <1>1, <1>2 DEF PatchHdr, Header
<1> DEFINE a == Len(patch.data)
           b == Len(patch.index)
<1>5. a \in Nat /\ b \in Nat
  BY <1>2, LenProperties
<1>6. Hdr(out).pathOff = 1 + a + b
  <2>1. PatchHdr.pathOff = 1 + patch.dataOff + b * 1
    BY DEF PatchHdr, Header, HeaderSize, EntrySize
  <2>2. patch.dataOff = a
    BY <1>2
  <2> HIDE DEF a, b
  <2>3. QED
    BY <1>1, <1>5, <2>1, <2>2
<1>7. ASSUME NEW j \in 1..Len(results) PROVE EntryIsRead(j)
  <2> DEFINE e == patch.index[j]
             r == results[j]
             q == EntryPath(out, e)
             x == EntryData(out, e)
  <2>1. e \in EntryCell /\ e.pathOff \in Nat /\ e.off \in Nat
    <3>1. e \in EntryCell
      BY <1>2, ElementOfSeq
    <3>2. QED
      BY <3>1 DEF EntryCell
  <2>2. Tells(patch, e, r, snap, changed)
    BY <1>2 DEF Filled
  <2>3. r.path \in Path
    BY <1>2, ResultSays DEF Inv, Says
  <2>4. r.path \in Seq(PathCell) /\ Len(r.path) \in Nat
    BY <2>3, Strings
  <2> HIDE DEF e, r
  <2>5. /\ e.pathLen = Len(r.path) /\ Sits(patch.paths, e.pathOff, r.path)
        /\ e.hash = r.hash /\ (r.status = "deleted" <=> e.flag = "deleted")
    BY <2>2 DEF Tells
  <2>6. PICK d \in Seq(DataCell) : /\ e.size = Len(d) /\ Sits(patch.data, e.off, d)
                                   /\ Payload(e.flag, e.hash, d, r, snap, changed)
    BY <2>2 DEF Tells
  <2>7. /\ Len(q) = e.pathLen => q = r.path
        /\ ~cut => q = r.path
    <3> DEFINE o == 1 + a + b + e.pathOff
    <3>1. Sits(PatchFile, o, r.path)
      BY <1>2, <2>1, <2>4, <2>5 DEF LaidOut
    <3>2. q = Read(out, o, Len(r.path))
      BY <1>6, <2>5 DEF EntryPath
    <3> HIDE DEF a, b, q
    <3>3. o \in Nat
      BY <1>5, <2>1
    <3> HIDE DEF o
    <3>4. GotOrShort(q, r.path, n, PatchFile)
      BY <1>2, <1>3, <2>4, <3>1, <3>2, <3>3, ReadCut
    <3>5. QED
      BY <1>3, <2>5, <3>4 DEF GotOrShort
  <2>8. ~cut => x = d
    <3> DEFINE o == 1 + e.off
    <3>1. Sits(PatchFile, o, d)
      BY <1>2, <2>1, <2>6, LenProperties DEF LaidOut
    <3>2. o \in Nat
      BY <2>1
    <3>3. x = Read(out, o, Len(d))
      BY <2>6 DEF EntryData, HeaderSize
    <3> HIDE DEF o, x
    <3>4. GotOrShort(x, d, n, PatchFile)
      BY <1>2, <1>3, <3>1, <3>2, <3>3, ReadCut
    <3>5. QED
      BY <1>3, <3>4 DEF GotOrShort
  <2> HIDE DEF q, x
  <2>9. ~cut => Len(x) = e.size /\ Payload(e.flag, e.hash, x, r, snap, changed)
    BY <2>6, <2>8
  <2>10. QED
    BY <1>1, <2>1, <2>5, <2>7, <2>9 DEF EntryIsRead, e, r, q, x
<1>8. QED
  BY <1>4, <1>7

-----------------------------------------------------------------------------
(***************************************************************************)
(* What the patch is.                                                      *)
(***************************************************************************)
LEMMA SnapshotIsValue ==
    ASSUME NEW s, NEW p
    PROVE  SnapshotOf(s, p) = Value(snap[s], p)
BY DEF SnapshotOf, Value

LEMMA FaithfulHolds == Inv => PatchFaithful
<1> SUFFICES ASSUME Inv, out # NoFile, ~lost, ~cut
             PROVE  /\ WellFormed(out) /\ Hdr(out).count = Len(results)
                    /\ \A j \in 1..Len(results) :
                          LET e == IndexCells(out)[j]
                              d == EntryData(out, e)
                              r == results[j]
                              same(s) == <<s, r.path>> \notin changed
                          IN  /\ EntryPath(out, e) = r.path /\ e.hash = r.hash
                              /\ Len(d) = e.size
                              /\ r.status = "deleted" <=> e.flag = "deleted"
                              /\ e.flag = "deleted" => e.size = 0
                              /\ e.flag = "full" /\ same("new") => d = e.hash
                              /\ e.flag = "delta" => r.status = "updated" /\ Len(d) = 1
                              /\ e.flag = "delta" /\ same("new") => d[1].target = e.hash
                              /\ e.flag = "delta" /\ same("old") =>
                                    d[1].base = SnapshotOf("old", r.path)
  BY DEF PatchFaithful
<1>1. Readable(out)
  BY ArchiveRead
<1>2. Hdr(out).count = Len(results) /\ \A j \in 1..Len(results) : EntryIsRead(j)
  BY <1>1, EntryRead
<1>3. WellFormed(out)
  <2>1. \A j \in 1..Len(results) : IndexCells(out)[j].kind = "entry"
    BY <1>2 DEF EntryIsRead, EntryCell
  <2>2. QED
    BY <1>1, <1>2, <2>1 DEF WellFormed
<1>4. ASSUME NEW j \in 1..Len(results)
      PROVE  LET e == IndexCells(out)[j]
                 d == EntryData(out, e)
                 r == results[j]
                 same(s) == <<s, r.path>> \notin changed
             IN  /\ EntryPath(out, e) = r.path /\ e.hash = r.hash
                 /\ Len(d) = e.size
                 /\ r.status = "deleted" <=> e.flag = "deleted"
                 /\ e.flag = "deleted" => e.size = 0
                 /\ e.flag = "full" /\ same("new") => d = e.hash
                 /\ e.flag = "delta" => r.status = "updated" /\ Len(d) = 1
                 /\ e.flag = "delta" /\ same("new") => d[1].target = e.hash
                 /\ e.flag = "delta" /\ same("old") =>
                       d[1].base = SnapshotOf("old", r.path)
  <2> DEFINE e == IndexCells(out)[j]
             d == EntryData(out, e)
             r == results[j]
  <2>1. /\ EntryPath(out, e) = r.path /\ e.hash = r.hash /\ Len(d) = e.size
        /\ r.status = "deleted" <=> e.flag = "deleted"
        /\ Payload(e.flag, e.hash, d, r, snap, changed)
    BY <1>2 DEF EntryIsRead
  <2>2. Len(<<>>) = 0
    BY EmptySeq
  <2> HIDE DEF d, e, r
  <2>3. /\ e.flag = "deleted" => e.size = 0
        /\ e.flag = "full" /\ <<"new", r.path>> \notin changed => d = e.hash
        /\ e.flag = "delta" => r.status = "updated" /\ Len(d) = 1
        /\ e.flag = "delta" /\ <<"new", r.path>> \notin changed => d[1].target = e.hash
        /\ e.flag = "delta" /\ <<"old", r.path>> \notin changed =>
              d[1].base = SnapshotOf("old", r.path)
    BY <2>1, <2>2, SnapshotIsValue DEF Payload
  <2>4. QED
    BY <2>1, <2>3 DEF d, e, r
<1>5. QED
  BY <1>2, <1>3, <1>4

\* The entries that are applied to file p are those of its differences.
LEMMA EntriesOf ==
    ASSUME Inv, out # NoFile, ~lost, Readable(out), NEW p \in Path
    PROVE  /\ \A j \in EntryOf(p) :
                 /\ j \in 1..Len(results) /\ results[j].path = p /\ Says(results[j])
                 /\ EntryIsRead(j)
           /\ ~cut /\ p \notin Refused =>
                 \A j \in 1..Len(results) : results[j].path = p => j \in EntryOf(p)
<1>1. Hdr(out).count = Len(results) /\ \A j \in 1..Len(results) : EntryIsRead(j)
  BY EntryRead
<1>2. \A j \in 1..Len(results) : Says(results[j])
  BY OutIs, ResultSays DEF Inv
<1>3. ASSUME NEW j \in EntryOf(p)
      PROVE  j \in 1..Len(results) /\ results[j].path = p
  <2>1. /\ j \in 1..Len(results) /\ EntryPath(out, IndexCells(out)[j]) = p
        /\ Len(EntryPath(out, IndexCells(out)[j])) = IndexCells(out)[j].pathLen
    BY <1>1 DEF EntryOf, Entries
  <2>2. QED
    BY <1>1, <2>1 DEF EntryIsRead
<1>4. ASSUME ~cut, p \notin Refused, NEW j \in 1..Len(results), results[j].path = p
      PROVE j \in EntryOf(p)
  <2>1. /\ EntryPath(out, IndexCells(out)[j]) = p
        /\ Len(EntryPath(out, IndexCells(out)[j])) = IndexCells(out)[j].pathLen
    BY <1>1, <1>4 DEF EntryIsRead
  <2>2. QED
    BY <1>1, <1>4, <2>1 DEF EntryOf, Entries
<1>5. QED
  BY <1>1, <1>2, <1>3, <1>4

\* What a difference of file p says of the snapshot of the new directory.
LEMMA SaysOfNew ==
    ASSUME Inv, out # NoFile, NEW r, Says(r)
    PROVE  /\ r.status = "deleted" => SnapshotOf("new", r.path) = Absent
           /\ r.status # "deleted" => r.hash = SnapshotOf("new", r.path)
<1>1. newList = snap["new"]
  BY DEF Inv, SnapInv, Compared
<1>2. QED
  BY <1>1, SnapshotIsValue DEF Says, Value

LEMMA SafeHolds == Inv => ApplySafe
<1> SUFFICES ASSUME Inv, out # NoFile, ~lost, NEW p \in Path,
                    NEW c \in Contents \cup {Absent}, NEW free \in BOOLEAN
             PROVE  Applied(p, c, free) \subseteq {c, SnapshotOf("new", p)}
  BY DEF ApplySafe
<1>1. CASE ~Readable(out) \/ EntryOf(p) = {}
  BY <1>1 DEF Applied
<1>2. CASE Readable(out) /\ EntryOf(p) # {}
  <2>1. Applied(p, c, free) \subseteq {Effect(IndexCells(out)[j], c) : j \in EntryOf(p)} \cup {c}
    BY <1>2 DEF Applied
  <2>2. ASSUME NEW j \in EntryOf(p)
        PROVE  Effect(IndexCells(out)[j], c) \in {c, SnapshotOf("new", p)}
    <3> DEFINE e == IndexCells(out)[j]
               r == results[j]
    <3>1. r.path = p /\ Says(r) /\ EntryIsRead(j)
      BY <1>2, EntriesOf
    <3>2. e.hash = r.hash /\ (r.status = "deleted" <=> e.flag = "deleted")
      BY <3>1 DEF EntryIsRead
    <3> HIDE DEF e, r
    <3>3. /\ r.status = "deleted" => SnapshotOf("new", p) = Absent
          /\ r.status # "deleted" => r.hash = SnapshotOf("new", p)
      BY <3>1, SaysOfNew
    <3>4. Effect(e, c) \in {c, SnapshotOf("new", p)}
      BY <3>2, <3>3 DEF Effect
    <3>5. QED
      BY <3>4 DEF e
  <2>3. QED
    BY <2>1, <2>2
<1>3. QED
  BY <1>1, <1>2

\* Nothing changed: what the snapshots have of a file that can be opened.
LEMMA Unchanged ==
    ASSUME Inv, out # NoFile, changed = {}, NEW s \in Side, NEW p \in Path
    PROVE  /\ Listed(snap[s], p) <=> Shown(tree[s][p], s, p)
           /\ Listed(snap[s], p) => Value(snap[s], p) = tree[s][p]
<1>1. Records(snap[s], tree[s], s, changed, Path)
  BY DEF Inv, SnapInv, Compared, Side
<1>2. QED
  BY <1>1 DEF Records

LEMMA TransformsHolds == Inv => PatchTransforms
<1> SUFFICES ASSUME Inv, out # NoFile, ~lost, ~cut, changed = {}, NEW p \in Path,
                    <<"new", p>> \notin Unreadable, p \notin Refused,
                    tree["new"][p] = Absent => <<"old", p>> \notin Unreadable
             PROVE  Applied(p, tree["old"][p], TRUE) = {tree["new"][p]}
  BY DEF PatchTransforms
<1> DEFINE ol == snap["old"]
           nl == snap["new"]
           x == tree["old"][p]
           y == tree["new"][p]
<1>1. Readable(out)
  BY ArchiveRead
<1>2. oldList = ol /\ newList = nl /\ phase = "done" /\ DeltaInv
  BY OutIs DEF Inv, SnapInv, Compared
<1>3. /\ Listed(ol, p) <=> x # Absent /\ <<"old", p>> \notin Unreadable
      /\ Listed(ol, p) => Value(ol, p) = x
      /\ Listed(nl, p) <=> y # Absent
      /\ Listed(nl, p) => Value(nl, p) = y
  BY Unchanged DEF Shown, Side
<1>4. y = Absent => <<"old", p>> \notin Unreadable
  OBVIOUS
<1> HIDE DEF x, y, ol, nl
<1>5. CASE EntryOf(p) = {}
  <2>1. Applied(p, x, TRUE) = {x}
    BY <1>5 DEF Applied
  <2>2. ~\E j \in 1..Len(results) : results[j].path = p
    BY <1>1, <1>5, EntriesOf
  <2>3. /\ ~(Listed(ol, p) /\ ~Listed(nl, p)) /\ ~(Listed(nl, p) /\ ~Listed(ol, p))
        /\ Listed(ol, p) /\ Listed(nl, p) => Value(ol, p) = Value(nl, p)
    BY <1>2, <2>2, DifferenceNamed
  <2>4. x = y
    BY <1>3, <1>4, <2>3
  <2>5. QED
    BY <2>1, <2>4 DEF x, y
<1>6. CASE EntryOf(p) # {}
  <2>1. Applied(p, x, TRUE) = {Effect(IndexCells(out)[j], x) : j \in EntryOf(p)}
    BY <1>1, <1>6 DEF Applied
  <2>2. ASSUME NEW j \in EntryOf(p) PROVE Effect(IndexCells(out)[j], x) = y
    <3> DEFINE e == IndexCells(out)[j]
               r == results[j]
               d == EntryData(out, e)
    <3>1. r.path = p /\ Says(r) /\ EntryIsRead(j)
      BY <1>1, EntriesOf
    <3>2. /\ e.hash = r.hash /\ (r.status = "deleted" <=> e.flag = "deleted")
          /\ e.flag \in {"deleted", "full", "delta"}
          /\ Len(d) = e.size /\ Payload(e.flag, e.hash, d, r, snap, changed)
      BY <3>1 DEF EntryIsRead, EntryCell
    <3>3. Staged(e, x) = IF Len(d) # e.size THEN Absent
                         ELSE IF e.flag = "full" THEN d
                         ELSE IF d[1].base = x THEN d[1].target ELSE Absent
      BY DEF Staged
    <3> HIDE DEF e, r, d
    <3>4. /\ r.status = "deleted" => Listed(ol, p) /\ ~Listed(nl, p)
          /\ r.status # "deleted" => Listed(nl, p) /\ r.hash = Value(nl, p)
          /\ r.status = "updated" => Listed(ol, p)
      BY <1>2, <3>1 DEF Says
    <3>5. CASE e.flag = "deleted"
      BY <1>3, <3>2, <3>4, <3>5 DEF Effect, e
    <3>6. CASE e.flag = "full"
      <4>1. d = e.hash
        BY <3>2, <3>6 DEF Payload
      <4>2. Staged(e, x) = e.hash /\ e.hash = y
        BY <1>3, <3>2, <3>3, <3>4, <3>6, <4>1
      <4>3. QED
        BY <3>6, <4>2 DEF Effect, e
    <3>7. CASE e.flag = "delta"
      <4>1. r.status = "updated" /\ d[1].target = e.hash /\ d[1].base = Value(ol, p)
        BY <3>1, <3>2, <3>7 DEF Payload, ol
      <4>2. Staged(e, x) = e.hash /\ e.hash = y
        BY <1>3, <3>2, <3>3, <3>4, <3>7, <4>1
      <4>3. QED
        BY <3>7, <4>2 DEF Effect, e
    <3>8. QED
      BY <3>2, <3>5, <3>6, <3>7
  <2>3. Applied(p, x, TRUE) = {y}
    BY <1>6, <2>1, <2>2
  <2>4. QED
    BY <2>3 DEF x, y
<1>7. QED
  BY <1>5, <1>6

-----------------------------------------------------------------------------
\* A patch archive that paf_create_patch returned with 0, and no byte of which
\* was lost on the way, has one well-formed entry per difference, whose path and payload the
\* readers of the format get, whatever changed while the patch was made: for
\* every two directories, every hash function of paths and every set of files
\* that cannot be opened.
THEOREM PatchFaithfulAlways == Spec => []PatchFaithful
<1>1. Inv => PatchFaithful
  BY FaithfulHolds
<1>2. QED
  BY <1>1, InvAlways, PTL

\* Whatever changes while the patch is made and wherever the archive is cut,
\* paf_patch_apply_atomic leaves a file as it was or installs what the
\* snapshot of the new directory recorded, unless bytes for one of the three
\* temporary files were lost, which the code does not notice.
THEOREM ApplySafeAlways == Spec => []ApplySafe
<1>1. Inv => ApplySafe
  BY SafeHolds
<1>2. QED
  BY <1>1, InvAlways, PTL

\* If nothing changes and nothing is lost, the patch turns the old directory
\* into the new one, but for paths the applier refuses and for those of which
\* one directory has a file where the other has a directory.
THEOREM PatchTransformsAlways == Spec => []PatchTransforms
<1>1. Inv => PatchTransforms
  BY TransformsHolds
<1>2. QED
  BY <1>1, InvAlways, PTL
=============================================================================
