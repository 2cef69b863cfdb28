------------------------- MODULE StorageQueue_proof -------------------------
(***************************************************************************)
(* Proofs about StorageQueue: what a load or a delta that is reported as   *)
(* done has put in the buffer, for all calls, every capacity of the queue, *)
(* and however many reads fail and waits are given up.                     *)
(***************************************************************************)
EXTENDS StorageQueue, Ranges, SequenceTheorems, TLAPS

\* What is set behind the reads is an event or a fence, not a status.
Signals == events \/ client = "d3d12"

\* No wait was given up, or only waits for a status.
Sound == timeouts = 0 \/ ~Signals

Busy == {"fill", "mark", "wait"}

(***************************************************************************)
(* The places of the items, with what they depend on as parameters.        *)
(***************************************************************************)
SkippedIn(cl, items, i) ==
    CASE cl = "loader" -> items[i].size = 0
      [] cl = "engine" -> items[i].deleted
      [] OTHER -> FALSE
Packs(f, cl, items) ==
    f = [i \in 0..Len(items) |->
            IF i = 0 THEN 0
            ELSE f[i - 1] + (IF SkippedIn(cl, items, i) THEN 0 ELSE items[i].size)]
PackedIn(cl, items) == CHOOSE f : Packs(f, cl, items)
Place(cl, items, i) == IF cl = "engine" THEN PackedIn(cl, items)[i - 1] ELSE items[i].to

FromIn(cl, items, i) == IF cl = "engine" THEN items[i].from % Word32 ELSE items[i].from

\* The bytes requested for the item are in a buffer.
Has(b, cl, c, i) ==
    \A j \in DOMAIN b :
        j \in Place(cl, c.items, i)..(Place(cl, c.items, i) + c.items[i].size - 1) =>
            b[j] = <<c.path, FromIn(cl, c.items, i) + j - Place(cl, c.items, i)>>

(***************************************************************************)
(* The invariant.                                                          *)
(***************************************************************************)
Paths == {None} \cup UNION {{c.path : c \in Calls[name]} : name \in Clients}
Entries == {e \in [kind : {"read", "event", "status"}, item : Nat, live : BOOLEAN, src : Paths,
                   state : {"todo", "done", "bad"}] : e.state = "todo" => e.kind = "read"}

Types ==
    /\ TypeOK
    /\ call.items = <<>> \/ call \in Calls[client]
    /\ queue \in Seq(Entries) /\ file \in Paths
    /\ events \in BOOLEAN /\ signal \in BOOLEAN /\ failing \in BOOLEAN
    /\ status \in {"pending", "ok", "failed"}
    /\ buffer = [j \in DOMAIN buffer |-> buffer[j]]
    /\ timeouts \in Nat /\ (client = "loader" => timeouts = 0)
    /\ client # "loader" => ioFailed = {} /\ pc # "fread"
    /\ pc = "fread" => Len(call.items) = 1
    /\ total \in {0, PackedIn(client, call.items)[Len(call.items)]}

\* Before the objects are made nothing is in the queue.
Unused == "factory" \notin made => queue = <<>> /\ ~signal /\ pc \in {"idle", "fread"}

\* Without events none is set.
NoEvents == ~Signals => ~signal /\ \A k \in 1..Len(queue) : queue[k].kind # "event"

\* A running call reads from its file, or from none.
FileInv == /\ file \in {None, current}
           /\ pc \in Busy => file \in {None, call.path}

\* The entries of this call are behind those of earlier ones.
Live(q, k) == q[k].live /\ q[k].kind = "read"
ReadsInv ==
    /\ \A k \in 1..Len(queue) : Live(queue, k) =>
          /\ queue[k].item \in 1..Len(call.items)
          /\ ~SkippedIn(client, call.items, queue[k].item)
          /\ queue[k].src \in {None, call.path}
    /\ \A j, k \in 1..Len(queue) : j < k /\ queue[j].live => queue[k].live

\* Marks of this call, and all events: there is one at most, at the end of
\* the queue, while it is waited for.
MarksInv ==
    /\ pc \in Busy => \A k \in 1..Len(queue) :
          queue[k].kind # "read" /\ (Signals \/ queue[k].live) =>
              pc = "wait" /\ k = Len(queue) /\ queue[k].live
    /\ Signals /\ client # "d3d12" /\ pc \notin Busy =>
          \A k \in 1..Len(queue) : queue[k].kind = "read"

\* The answer to a wait says that the queue is through.
WaitInv ==
    /\ pc = "mark" => IF Signals THEN ~signal ELSE status = "pending"
    /\ pc = "wait" /\ (IF Signals THEN signal ELSE status # "pending") => queue = <<>>

\* What is with an item that was looked at: it is to be read yet, or its
\* batch will be reported as failed.
Todo(q, i) == \E k \in 1..Len(q) : Live(q, k) /\ q[k].item = i /\ q[k].state = "todo"
Bad(q, i)  == \E k \in 1..Len(q) : Live(q, k) /\ q[k].item = i /\ q[k].state = "bad"
NoDeadMark(q) == \A k \in 1..Len(q) : q[k].kind = "status" => q[k].live
InBatch(i) == IF client = "loader" THEN i > at - inBatch ELSE inBatch > 0
Doomed(i) ==
    \/ Bad(queue, i)
    \/ failing /\ NoDeadMark(queue) /\ (pc = "wait" => status = "pending")
    \/ pc = "wait" /\ status = "failed"
Underway(i) == Todo(queue, i) \/ (~Signals /\ Doomed(i))

\* Or it is through: skipped, flagged, read, or lost before an event.
Through(i) ==
    \/ SkippedIn(client, call.items, i)
    \/ i \in ioFailed
    \/ Has(buffer, client, call, i)
    \/ Signals /\ i \in lost

ItemsInv ==
    /\ pc \in Busy => \A i \in 1..at : Through(i) \/ (InBatch(i) /\ Underway(i))
    /\ pc = "idle" /\ ret = "ok" => \A i \in 1..Len(call.items) : Through(i)

IInv == /\ Types /\ Unused /\ NoEvents /\ FileInv /\ ReadsInv
        /\ Sound => MarksInv /\ WaitInv /\ ItemsInv

-----------------------------------------------------------------------------
(***************************************************************************)
(* The places.                                                             *)
(***************************************************************************)
LEMMA RegionIs == \A r \in Region : r.from \in Nat /\ r.size \in Nat /\ r.to \in Nat
<1>1. LargestSize \in Nat
  BY SMT DEF LargestSize
<1>2. QED
  BY <1>1 DEF Region

LEMMA PackedIs ==
    ASSUME NEW cl, NEW items \in Seq(Region)
    PROVE  /\ Packs(PackedIn(cl, items), cl, items)
           /\ \A i \in 0..Len(items) : PackedIn(cl, items)[i] \in Nat
<1> DEFINE n == Len(items)
           a == [i \in 1..n |-> [size |-> IF SkippedIn(cl, items, i) THEN 0 ELSE items[i].size]]
<1>1. n \in Nat /\ \A i \in 1..n : items[i].size \in Nat
  <2>1. n \in Nat /\ \A i \in 1..n : items[i] \in Region
    BY ElementOfSeq, LenProperties
  <2>2. QED
    BY <2>1, RegionIs
<1>2. PICK f : Sums(f, a, 1, n)
  <2> HIDE DEF a
  <2>1. \E f : Sums(f, a, 1, 1 - 1 + n)
    <3>1. \A m \in Nat : \E f : Sums(f, a, 1, 1 - 1 + m)
      <4>1. 1 \in Nat \ {0}
        OBVIOUS
      <4>2. QED
        BY <4>1, SumExists
    <3>2. QED
      BY <1>1, <3>1
  <2>2. 1 - 1 + n = n
    BY <1>1
  <2>3. QED
    BY <2>1, <2>2
<1>3. \A g : Packs(g, cl, items) <=> Sums(g, a, 1, n)
  <2>1. ASSUME NEW g PROVE Packs(g, cl, items) <=> Sums(g, a, 1, n)
    <3>1. \A i \in 0..n :
             (IF i = 0 THEN 0
              ELSE g[i - 1] + (IF SkippedIn(cl, items, i) THEN 0 ELSE items[i].size))
             = (IF i < 1 THEN 0 ELSE g[i - 1] + a[i].size)
      BY <1>1
    <3>2. 1 - 1 = 0
      OBVIOUS
    <3>3. QED
      BY <3>1, <3>2 DEF Packs, Sums
  <2>2. QED
    BY <2>1
<1>4. Packs(PackedIn(cl, items), cl, items)
  <2>1. \E g : Packs(g, cl, items)
    BY <1>2, <1>3
  <2>2. QED
    BY <2>1, Zenon DEF PackedIn
<1>5. \A i \in 1 - 1 .. n : PackedIn(cl, items)[i] \in Nat
  <2>1. Sums(PackedIn(cl, items), a, 1, n)
    BY <1>3, <1>4
  <2>2. \A k \in 1..n : a[k].size \in Nat
    BY <1>1
  <2> DEFINE g == PackedIn(cl, items)
  <2> HIDE DEF a, n, g
  <2>3. n \in Nat /\ 1 \in Nat \ {0} /\ Sums(g, a, 1, n)
    BY <1>1, <2>1 DEF g
  <2>4. \A i \in 1 - 1 .. n : g[i] \in Nat
    BY <2>2, <2>3, SumIsNat
  <2>5. QED
    BY <2>4 DEF g
<1>6. QED
  BY <1>1, <1>4, <1>5

\* Later items are packed behind earlier ones.
LEMMA PackedUp ==
    ASSUME NEW cl, NEW items \in Seq(Region), NEW i \in 1..Len(items), ~SkippedIn(cl, items, i),
           NEW j \in i + 1..Len(items)
    PROVE  PackedIn(cl, items)[i - 1] + items[i].size <= PackedIn(cl, items)[j - 1]
<1> DEFINE p == PackedIn(cl, items)
           S == {m \in Nat : i + m <= Len(items) => p[i - 1] + items[i].size <= p[i + m]}
<1>1. /\ Len(items) \in Nat /\ \A k \in 0..Len(items) : p[k] \in Nat
      /\ \A k \in 1..Len(items) : items[k].size \in Nat
  <2>1. \A k \in 1..Len(items) : items[k] \in Region
    BY ElementOfSeq
  <2>2. QED
    BY <2>1, RegionIs, PackedIs, LenProperties
<1>2. \A k \in 1..Len(items) :
         p[k] = p[k - 1] + (IF SkippedIn(cl, items, k) THEN 0 ELSE items[k].size)
  <2>1. Packs(p, cl, items)
    BY PackedIs
  <2> HIDE DEF p
  <2>2. QED
    BY <1>1, <2>1, SMTT(30) DEF Packs
<1> HIDE DEF p
<1>3. 0 \in S
  BY <1>1, <1>2
<1>4. ASSUME NEW m \in Nat, m \in S PROVE m + 1 \in S
  <2>1. SUFFICES ASSUME i + (m + 1) <= Len(items)
                 PROVE  p[i - 1] + items[i].size <= p[i + (m + 1)]
    OBVIOUS
  <2>2. i + (m + 1) \in 1..Len(items) /\ i + (m + 1) - 1 = i + m /\ i + m \in 0..Len(items)
        /\ i - 1 \in 0..Len(items)
    BY <1>1, <2>1
  <2>3. p[i - 1] + items[i].size <= p[i + m]
    BY <1>4, <2>2
  <2>4. p[i + m] <= p[i + (m + 1)]
    <3> DEFINE k == i + (m + 1)
    <3>1. k \in 1..Len(items) /\ k - 1 = i + m
      BY <2>2
    <3> HIDE DEF k
    <3>2. p[k] = p[k - 1] + (IF SkippedIn(cl, items, k) THEN 0 ELSE items[k].size)
      BY <1>2, <3>1
    <3>3. p[k - 1] \in Nat /\ items[k].size \in Nat
      BY <1>1, <2>2, <3>1
    <3>4. p[k - 1] <= p[k]
      BY <3>2, <3>3
    <3>5. QED
      BY <3>1, <3>4 DEF k
  <2>5. p[i - 1] \in Nat /\ p[i + m] \in Nat /\ p[i + (m + 1)] \in Nat /\ items[i].size \in Nat
    <3>1. i + (m + 1) \in 0..Len(items)
      BY <2>2
    <3>2. QED
      BY <1>1, <2>2, <3>1
  <2>6. QED
    BY <2>3, <2>4, <2>5
<1>5. \A m \in Nat : m \in S
  <2> HIDE DEF S
  <2>1. QED
    BY <1>3, <1>4, NatInductionOn
<1>6. j - 1 - i \in Nat /\ i + (j - 1 - i) = j - 1 /\ j - 1 <= Len(items)
  BY <1>1
<1>7. QED
  BY <1>5, <1>6 DEF p

\* The items of one call do not overlap.
Callable(cl, items) ==
    /\ items \in Seq(Region)
    /\ cl # "engine" =>
          \A i, j \in 1..Len(items) : i # j =>
              \/ items[i].size = 0 \/ items[j].size = 0
              \/ items[i].to + items[i].size <= items[j].to
              \/ items[j].to + items[j].size <= items[i].to

LEMMA RegionsApart ==
    ASSUME NEW a \in Nat, NEW s \in Nat, NEW b \in Nat, NEW t \in Nat,
           s = 0 \/ t = 0 \/ a + s <= b \/ b + t <= a
    PROVE  \A n : n \in a..(a + s - 1) => n \notin b..(b + t - 1)
OBVIOUS

LEMMA PlacesApart ==
    ASSUME NEW cl, NEW items, Callable(cl, items),
           NEW i \in 1..Len(items), ~SkippedIn(cl, items, i),
           NEW j \in 1..Len(items), ~SkippedIn(cl, items, j), i # j,
           NEW n \in Place(cl, items, i)..(Place(cl, items, i) + items[i].size - 1)
    PROVE  n \notin Place(cl, items, j)..(Place(cl, items, j) + items[j].size - 1)
<1>1. items \in Seq(Region) /\ Len(items) \in Nat
  BY LenProperties DEF Callable
<1>2. \A k \in 1..Len(items) : items[k].size \in Nat /\ items[k].to \in Nat
  <2>1. \A k \in 1..Len(items) : items[k] \in Region
    BY <1>1, ElementOfSeq
  <2>2. QED
    BY <2>1, RegionIs
<1>a. /\ items[i].size \in Nat /\ items[j].size \in Nat
      /\ items[i].to \in Nat /\ items[j].to \in Nat
  BY <1>2
<1>3. CASE cl = "engine"
  <2> DEFINE p == PackedIn(cl, items)
  <2>1. p[i - 1] \in Nat /\ p[j - 1] \in Nat
    <3>1. i - 1 \in 0..Len(items) /\ j - 1 \in 0..Len(items)
      BY <1>1
    <3>2. QED
      BY <1>1, <3>1, PackedIs
  <2>2. i < j => p[i - 1] + items[i].size <= p[j - 1]
    <3>1. i < j => j \in i + 1..Len(items)
      BY <1>1
    <3>2. QED
      BY <1>1, <3>1, PackedUp
  <2>3. j < i => p[j - 1] + items[j].size <= p[i - 1]
    <3>1. j < i => i \in j + 1..Len(items)
      BY <1>1
    <3>2. QED
      BY <1>1, <3>1, PackedUp
  <2>4. Place(cl, items, i) = p[i - 1] /\ Place(cl, items, j) = p[j - 1]
    BY <1>3 DEF Place
  <2> HIDE DEF p
  <2>5. n \in p[i - 1]..(p[i - 1] + items[i].size - 1)
    BY <2>4
  <2>6. n \notin p[j - 1]..(p[j - 1] + items[j].size - 1)
    <3>1. p[i - 1] + items[i].size <= p[j - 1] \/ p[j - 1] + items[j].size <= p[i - 1]
      BY <1>1, <2>2, <2>3
    <3>2. QED
      BY <1>a, <2>1, <2>5, <3>1, RegionsApart
  <2>7. QED
    BY <2>4, <2>6
<1>4. CASE cl # "engine"
  <2>1. \/ items[i].size = 0 \/ items[j].size = 0
        \/ items[i].to + items[i].size <= items[j].to
        \/ items[j].to + items[j].size <= items[i].to
    BY <1>4 DEF Callable
  <2>2. n \in items[i].to..(items[i].to + items[i].size - 1)
    BY <1>4 DEF Place
  <2>3. n \notin items[j].to..(items[j].to + items[j].size - 1)
    BY <1>a, <2>1, <2>2, RegionsApart
  <2>4. QED
    BY <1>4, <2>3 DEF Place
<1>5. QED
  BY <1>3, <1>4

(***************************************************************************)
(* The operators of StorageQueue.                                          *)
(***************************************************************************)
LEMMA SkippedIs == \A i : Skipped(i) <=> SkippedIn(client, call.items, i)
BY DEF Skipped, SkippedIn, Items

LEMMA PackedIsIn == Packed = PackedIn(client, call.items)
BY DEF Packed, PackedIn, Packs, Skipped, SkippedIn, Items

PlacedAt(b, cl, c, i, src) ==
    [j \in DOMAIN b |->
        IF j \in Place(cl, c.items, i)..(Place(cl, c.items, i) + c.items[i].size - 1)
        THEN <<src, FromIn(cl, c.items, i) + j - Place(cl, c.items, i)>> ELSE b[j]]

LEMMA PlacedIs == \A b, i, src : Placed(b, i, src) = PlacedAt(b, client, call, i, src)
BY PackedIsIn DEF Placed, PlacedAt, To, Place, Offset, FromIn, Items

\* What reading an item does to the buffer.
IsBuffer(b) == b = [j \in DOMAIN b |-> b[j]]

LEMMA PlacedHas ==
    ASSUME NEW b, NEW cl, NEW c, NEW i
    PROVE  IsBuffer(PlacedAt(b, cl, c, i, c.path)) /\ Has(PlacedAt(b, cl, c, i, c.path), cl, c, i)
BY DEF PlacedAt, Has, IsBuffer

LEMMA HasIsPlaced ==
    ASSUME NEW b, IsBuffer(b), NEW cl, NEW c, NEW i, Has(b, cl, c, i)
    PROVE  PlacedAt(b, cl, c, i, c.path) = b
BY DEF PlacedAt, Has, IsBuffer

LEMMA PlacedKeeps ==
    ASSUME NEW b, NEW cl, NEW c, Callable(cl, c.items), NEW src,
           NEW i \in 1..Len(c.items), ~SkippedIn(cl, c.items, i),
           NEW j \in 1..Len(c.items), ~SkippedIn(cl, c.items, j), i # j,
           Has(b, cl, c, j)
    PROVE  Has(PlacedAt(b, cl, c, i, src), cl, c, j)
<1>1. SUFFICES ASSUME NEW n \in DOMAIN b,
                      n \in Place(cl, c.items, j)..(Place(cl, c.items, j) + c.items[j].size - 1)
               PROVE  PlacedAt(b, cl, c, i, src)[n] = b[n]
  BY DEF Has, PlacedAt
<1>2. n \notin Place(cl, c.items, i)..(Place(cl, c.items, i) + c.items[i].size - 1)
  BY <1>1, PlacesApart
<1>3. QED
  BY <1>2 DEF PlacedAt

-----------------------------------------------------------------------------
(***************************************************************************)
(* What is done to the queue: an entry is appended, its head is retired,   *)
(* the state of a read is set.                                             *)
(***************************************************************************)
Appended(q, r, e) ==
    /\ q \in Seq(Entries) /\ r \in Seq(Entries) /\ Len(q) \in Nat /\ Len(r) = Len(q) + 1
    /\ r[Len(q) + 1] = e /\ \A k \in 1..Len(q) : r[k] = q[k]
Retired(q, r) ==
    /\ q \in Seq(Entries) /\ r \in Seq(Entries) /\ Len(q) \in Nat \ {0} /\ Len(r) = Len(q) - 1
    /\ Head(q) = q[1] /\ \A k \in 1..Len(r) : r[k] = q[k + 1]
    /\ Len(q) = 1 => r = <<>>
Changed(q, r, k, s) ==
    /\ q \in Seq(Entries) /\ r \in Seq(Entries) /\ Len(q) \in Nat /\ Len(r) = Len(q)
    /\ k \in 1..Len(q) /\ r[k].state = s
    /\ \A j \in 1..Len(q) :
          /\ r[j].kind = q[j].kind /\ r[j].item = q[j].item
          /\ r[j].live = q[j].live /\ r[j].src = q[j].src
          /\ j # k => r[j].state = q[j].state

LEMMA AppendIs ==
    ASSUME NEW q \in Seq(Entries), NEW e \in Entries
    PROVE  Appended(q, Append(q, e), e)
BY LenProperties DEF Appended

LEMMA RetireIs ==
    ASSUME NEW q \in Seq(Entries), q # <<>>
    PROVE  Retired(q, Tail(q))
<1>1. Len(q) \in Nat \ {0}
  BY EmptySeq
<1>2. Tail(q) \in Seq(Entries) /\ Len(Tail(q)) = Len(q) - 1
      /\ \A k \in 1..Len(Tail(q)) : Tail(q)[k] = q[k + 1]
  BY HeadTailProperties
<1>3. Head(q) = q[1]
  BY <1>1
<1>4. Len(q) = 1 => Tail(q) = <<>>
  <2>1. Tail(q) # <<>> => Len(Tail(q)) \in Nat \ {0}
    BY <1>2, EmptySeq
  <2>2. QED
    BY <1>2, <2>1
<1>5. QED
  BY <1>1, <1>2, <1>3, <1>4 DEF Retired

LEMMA ChangeIs ==
    ASSUME NEW q \in Seq(Entries), NEW k \in 1..Len(q), NEW s \in {"done", "bad"}
    PROVE  Changed(q, [q EXCEPT ![k].state = s], k, s)
<1> DEFINE e == [q[k] EXCEPT !.state = s]
           r == [q EXCEPT ![k] = e]
<1>1. Len(q) \in Nat /\ \A j \in 1..Len(q) : q[j] \in Entries
  BY ElementOfSeq, LenProperties
<1>2. e \in Entries /\ e.state = s /\ e.kind = q[k].kind /\ e.item = q[k].item
      /\ e.live = q[k].live /\ e.src = q[k].src
  BY <1>1 DEF Entries
<1> HIDE DEF e
<1>3. r \in Seq(Entries) /\ Len(r) = Len(q)
      /\ \A j \in 1..Len(q) : r[j] = IF j = k THEN e ELSE q[j]
  BY <1>2, ExceptSeq
<1> HIDE DEF r
<1>4. Changed(q, r, k, s)
  BY <1>1, <1>2, <1>3 DEF Changed
<1>5. QED
  BY <1>4 DEF r, e

\* What is still to be read, or could not be read, stays in the queue.
LEMMA AppendKeeps ==
    ASSUME NEW q, NEW r, NEW e, Appended(q, r, e)
    PROVE  /\ \A i : (Todo(q, i) => Todo(r, i)) /\ (Bad(q, i) => Bad(r, i))
           /\ e.live /\ e.kind = "read" /\ e.state = "todo" => Todo(r, e.item)
           /\ NoDeadMark(q) /\ e.live => NoDeadMark(r)
<1>1. \A k \in 1..Len(q) : k \in 1..Len(r) /\ r[k] = q[k]
  BY DEF Appended
<1>2. Len(q) + 1 \in 1..Len(r) /\ r[Len(q) + 1] = e
      /\ \A k \in 1..Len(r) : k \in 1..Len(q) \/ k = Len(q) + 1
  BY DEF Appended
<1>3. \A i : (Todo(q, i) => Todo(r, i)) /\ (Bad(q, i) => Bad(r, i))
  BY <1>1 DEF Todo, Bad, Live
<1>4. e.live /\ e.kind = "read" /\ e.state = "todo" => Todo(r, e.item)
  BY <1>2 DEF Todo, Live
<1>5. NoDeadMark(q) /\ e.live => NoDeadMark(r)
  BY <1>1, <1>2 DEF NoDeadMark
<1>6. QED
  BY <1>3, <1>4, <1>5

LEMMA RetireKeeps ==
    ASSUME NEW q, NEW r, Retired(q, r), q[1].state # "todo"
    PROVE  /\ \A i : Todo(q, i) => Todo(r, i)
           /\ \A i : Bad(q, i) => Bad(r, i) \/ (Live(q, 1) /\ q[1].state = "bad")
           /\ NoDeadMark(q) => NoDeadMark(r)
<1>1. \A k \in 1..Len(q) : k = 1 \/ (k - 1 \in 1..Len(r) /\ r[k - 1] = q[k])
  <2>1. ASSUME NEW k \in 1..Len(q), k # 1 PROVE k - 1 \in 1..Len(r) /\ r[k - 1] = q[k]
    <3>1. k - 1 \in 1..Len(r) /\ k - 1 + 1 = k
      BY <2>1 DEF Retired
    <3>2. r[k - 1] = q[(k - 1) + 1]
      BY <3>1 DEF Retired
    <3>3. QED
      BY <3>1, <3>2
  <2>2. QED
    BY <2>1
<1>2. \A k \in 1..Len(r) : k + 1 \in 1..Len(q) /\ r[k] = q[k + 1]
  BY DEF Retired
<1>3. \A i : Todo(q, i) => Todo(r, i)
  BY <1>1 DEF Todo, Live
<1>4. \A i : Bad(q, i) => Bad(r, i) \/ (Live(q, 1) /\ q[1].state = "bad")
  BY <1>1 DEF Bad, Live
<1>5. NoDeadMark(q) => NoDeadMark(r)
  BY <1>2 DEF NoDeadMark
<1>6. QED
  BY <1>3, <1>4, <1>5

LEMMA ChangeKeeps ==
    ASSUME NEW q, NEW r, NEW k, NEW s, Changed(q, r, k, s), q[k].state = "todo"
    PROVE  /\ \A i : Todo(q, i) => Todo(r, i) \/ (Live(q, k) /\ q[k].item = i)
           /\ \A i : Bad(q, i) => Bad(r, i)
           /\ Live(q, k) /\ s = "bad" => Bad(r, q[k].item)
           /\ NoDeadMark(q) => NoDeadMark(r)
<1>1. \A j \in 1..Len(q) : j \in 1..Len(r) /\ (Live(r, j) <=> Live(q, j)) /\ r[j].item = q[j].item
  BY DEF Changed, Live
<1>2. \A i : Todo(q, i) => Todo(r, i) \/ (Live(q, k) /\ q[k].item = i)
  BY <1>1 DEF Changed, Todo
<1>3. \A i : Bad(q, i) => Bad(r, i)
  BY <1>1 DEF Changed, Bad
<1>4. Live(q, k) /\ s = "bad" => Bad(r, q[k].item)
  BY <1>1 DEF Changed, Bad
<1>5. NoDeadMark(q) => NoDeadMark(r)
  BY DEF Changed, NoDeadMark
<1>6. QED
  BY <1>2, <1>3, <1>4, <1>5

-----------------------------------------------------------------------------
(***************************************************************************)
(* Types.                                                                  *)
(***************************************************************************)
LEMMA CallIs ==
    ASSUME NEW cl \in Clients, NEW c, c.items = <<>> \/ c \in Calls[cl]
    PROVE  /\ Callable(cl, c.items) /\ Len(c.items) \in Nat
           /\ PackedIn(cl, c.items)[Len(c.items)] \in Nat
<1>1. Callable(cl, c.items)
  <2>1. CASE c.items = <<>>
    <3>1. <<>> \in Seq(Region) /\ Len(<<>>) = 0
      BY EmptySeq
    <3>2. 1..0 = {}
      OBVIOUS
    <3>3. QED
      BY <2>1, <3>1, <3>2 DEF Callable
  <2>2. CASE c \in Calls[cl]
    BY <2>2, CallsAssumption DEF Callable
  <2>3. QED
    BY <2>1, <2>2
<1>2. c.items \in Seq(Region) /\ Len(c.items) \in Nat
  BY <1>1, LenProperties DEF Callable
<1>3. Len(c.items) \in 0..Len(c.items)
  BY <1>2
<1>4. QED
  BY <1>1, <1>2, <1>3, PackedIs

LEMMA TypeFacts ==
    ASSUME Types
    PROVE  /\ client \in Clients /\ Callable(client, call.items) /\ Len(call.items) \in Nat
           /\ Sum = PackedIn(client, call.items)[Len(call.items)] /\ Sum \in Nat
           /\ Items = call.items /\ at \in Nat /\ inBatch \in Nat /\ inBatch <= at
           /\ at <= Len(call.items) /\ Len(queue) \in Nat
<1>1. client \in Clients /\ Callable(client, call.items) /\ Len(call.items) \in Nat
      /\ PackedIn(client, call.items)[Len(call.items)] \in Nat
  BY CallIs DEF Types, TypeOK
<1>2. Sum = PackedIn(client, call.items)[Len(call.items)]
  BY PackedIsIn DEF Sum, Items
<1>3. Len(queue) \in Nat
  BY LenProperties DEF Types
<1>4. QED
  BY <1>1, <1>2, <1>3 DEF Types, TypeOK, Items

LEMMA InitIInv == Init => IInv
<1> SUFFICES ASSUME Init PROVE IInv
  OBVIOUS
<1>1. Len(<<>>) = 0 /\ <<>> \in Seq(Entries) /\ 1..0 = {}
  BY EmptySeq
<1>2. Types
  <2>1. TypeOK
    BY <1>1, QueueAssumption DEF Init, TypeOK, Items
  <2>2. QED
    BY <1>1, <2>1 DEF Init, Types, Paths
<1>3. Unused /\ NoEvents /\ FileInv
  BY <1>1 DEF Init, Unused, NoEvents, FileInv, Busy
<1>4. ReadsInv
  BY <1>1 DEF Init, ReadsInv
<1>5. MarksInv /\ WaitInv /\ ItemsInv
  BY <1>1 DEF Init, MarksInv, WaitInv, ItemsInv, Busy
<1>6. QED
  BY <1>2, <1>3, <1>4, <1>5 DEF IInv

(***************************************************************************)
(* Steps that leave the queue and the call as they are.                    *)
(***************************************************************************)
Quiet == \/ Skip \/ NothingToWait \/ Reset \/ WaitEvent \/ StatusComplete
         \/ WaitTimeout \/ CannotWait \/ ReadByHand

LEMMA QuietTypes == IInv /\ Quiet => Types' /\ (Sound' => Sound)
<1> SUFFICES ASSUME IInv, Quiet PROVE Types' /\ (Sound' => Sound)
  OBVIOUS
<1>1. Types
  BY DEF IInv
<1>2. UNCHANGED <<client, events, made, file, current, queue, submitted, failing, call>>
  BY DEF Quiet, Skip, NothingToWait, Reset, WaitEvent, StatusComplete, WaitTimeout, CannotWait,
         ReadByHand, objects, device
<1>3. at' \in Nat /\ inBatch' \in Nat /\ inBatch' <= at' /\ at' <= Len(call.items)
  <2>1. CASE Skip
    BY <1>1, <2>1, TypeFacts DEF Skip, Flushing
  <2>2. CASE ~Skip
    BY <1>1, <2>2, TypeFacts DEF Quiet, NothingToWait, Reset, WaitEvent, StatusComplete,
         WaitTimeout, CannotWait, ReadByHand, GoOn, WaitStatus, SubBatchFailed
  <2>3. QED
    BY <2>1, <2>2
<1>4. total' \in {total, Sum}
  BY DEF Quiet, Skip, NothingToWait, Reset, WaitEvent, StatusComplete, WaitTimeout, CannotWait,
         ReadByHand, GoOn, WaitStatus, SubBatchFailed, answer
<1>5. /\ pc' \in {"idle", "fread", "fill", "mark", "wait", "dead"}
      /\ ret' \in {"none", "ok", "failed"} /\ signal' \in BOOLEAN
      /\ status' \in {"pending", "ok", "failed"}
      /\ client # "loader" => ioFailed' = {} /\ pc' # "fread"
      /\ pc' = "fread" => Len(call.items) = 1
  BY <1>1 DEF Types, Items, TypeOK, Quiet, Skip, NothingToWait, Reset, WaitEvent, StatusComplete,
         WaitTimeout, CannotWait, ReadByHand, GoOn, WaitStatus, SubBatchFailed, Single, Return,
         answer, objects, device
<1>6. IsBuffer(buffer')
  <2>1. CASE ReadByHand
    <3>1. buffer' = PlacedAt(buffer, client, call, 1, call.path) \/ buffer' = buffer
      BY <2>1, PlacedIs DEF ReadByHand
    <3>2. IsBuffer(buffer)
      BY <1>1 DEF Types, IsBuffer
    <3>3. QED
      BY <3>1, <3>2, PlacedHas
  <2>2. CASE ~ReadByHand
    BY <1>1, <2>2 DEF Types, IsBuffer, Quiet, Skip, NothingToWait, Reset, WaitEvent,
         StatusComplete, WaitTimeout, CannotWait, device
  <2>3. QED
    BY <2>1, <2>2
<1>7. timeouts' \in Nat /\ (client = "loader" => timeouts' = 0)
      /\ (timeouts' = 0 => timeouts = 0)
  <2>1. CASE WaitTimeout
    BY <1>1, <2>1 DEF Types, WaitTimeout
  <2>2. CASE ~WaitTimeout
    BY <1>1, <2>2 DEF Types, Quiet, Skip, NothingToWait, Reset, WaitEvent, StatusComplete,
         CannotWait, ReadByHand, bounds
  <2>3. QED
    BY <2>1, <2>2
<1>8. TypeOK'
  <2>1. Items' = Items /\ Items = call.items
    BY <1>2 DEF Items
  <2>2. total' \in Nat
    BY <1>1, <1>4, TypeFacts DEF Types, TypeOK
  <2>3. QED
    BY <1>1, <1>2, <1>3, <1>5, <2>1, <2>2, TypeFacts DEF Types, TypeOK
<1>9. total' \in {0, PackedIn(client, call.items)[Len(call.items)]}
  BY <1>1, <1>4, TypeFacts DEF Types
<1>10. Types'
  BY <1>1, <1>2, <1>5, <1>6, <1>7, <1>8, <1>9 DEF Types, IsBuffer
<1>11. Sound' => Sound
  BY <1>2, <1>7 DEF Sound, Signals
<1>12. QED
  BY <1>10, <1>11

LEMMA QuietShape ==
    IInv /\ Quiet => Unused' /\ NoEvents' /\ FileInv' /\ ReadsInv' /\ (Sound' => MarksInv')
<1> SUFFICES ASSUME IInv, Quiet
             PROVE  Unused' /\ NoEvents' /\ FileInv' /\ ReadsInv' /\ (Sound' => MarksInv')
  OBVIOUS
<1>1. UNCHANGED <<client, events, made, file, current, queue, submitted, failing, call>>
  BY DEF Quiet, Skip, NothingToWait, Reset, WaitEvent, StatusComplete, WaitTimeout, CannotWait,
         ReadByHand, objects, device
<1>2. signal' => signal
  BY DEF Quiet, Skip, NothingToWait, Reset, WaitEvent, StatusComplete, WaitTimeout, CannotWait,
         ReadByHand, device
<1>3. pc' \in Busy => pc \in Busy
  BY DEF Quiet, Skip, NothingToWait, Reset, WaitEvent, StatusComplete, WaitTimeout, CannotWait,
         ReadByHand, GoOn, WaitStatus, SubBatchFailed, Return, Busy, device, objects
<1>4. pc \in {"idle", "fread"} => pc' \in {"idle", "fread"}
  BY DEF Quiet, Skip, NothingToWait, Reset, WaitEvent, StatusComplete, WaitTimeout, CannotWait,
         ReadByHand, Return
<1>5. Unused' /\ NoEvents' /\ FileInv'
  BY <1>1, <1>2, <1>3, <1>4 DEF IInv, Unused, NoEvents, FileInv, Signals
<1>6. ReadsInv'
  BY <1>1 DEF IInv, ReadsInv
<1>7. ASSUME Sound' PROVE MarksInv'
  <2>1. Sound /\ MarksInv /\ WaitInv /\ NoEvents
    BY <1>7, QuietTypes DEF IInv
  <2>2. CASE Skip \/ NothingToWait \/ Reset
    <3>1. pc = "fill" /\ pc' # "wait"
      BY <2>2 DEF Skip, NothingToWait, Reset, Return, SubBatchFailed
    <3>2. \A k \in 1..Len(queue) : ~(queue[k].kind # "read" /\ (Signals \/ queue[k].live))
      BY <2>1, <3>1 DEF MarksInv, Busy
    <3>3. QED
      BY <1>1, <3>1, <3>2 DEF MarksInv, Signals
  <2>3. CASE WaitEvent \/ StatusComplete
    <3>1. queue = <<>>
      BY <2>1, <2>3 DEF WaitEvent, StatusComplete, WaitStatus, WaitInv, NoEvents, Signals
    <3>2. Len(<<>>) = 0 /\ 1..0 = {}
      BY EmptySeq
    <3>3. QED
      BY <1>1, <3>1, <3>2 DEF MarksInv
  <2>4. CASE WaitTimeout \/ CannotWait
    <3>1. pc' = "idle"
      BY <2>4 DEF WaitTimeout, CannotWait, Return
    <3>2. ~(Signals' /\ client' # "d3d12")
      <4>1. CASE WaitTimeout
        <5>1. timeouts' # 0
          BY <4>1 DEF IInv, Types, WaitTimeout
        <5>2. QED
          BY <1>7, <5>1 DEF Sound
      <4>2. CASE CannotWait
        BY <1>1, <4>2 DEF CannotWait
      <4>3. QED
        BY <2>4, <4>1, <4>2
    <3>3. QED
      BY <3>1, <3>2 DEF MarksInv, Busy
  <2>5. CASE ReadByHand
    BY <1>1, <2>1, <2>5 DEF ReadByHand, MarksInv, Busy, Signals, Return
  <2>6. QED
    BY <2>2, <2>3, <2>4, <2>5 DEF Quiet
<1>8. QED
  BY <1>5, <1>6, <1>7

(***************************************************************************)
(* What is known of the items after these steps.                           *)
(***************************************************************************)
\* Nothing is under way in an empty queue.
LEMMA NoneUnderway == Len(queue) = 0 => \A i : ~Todo(queue, i) /\ ~Bad(queue, i)
BY DEF Todo, Bad

LEMMA QuietItems == IInv /\ Quiet /\ Sound' => WaitInv' /\ ItemsInv'
<1> SUFFICES ASSUME IInv, Quiet, Sound' PROVE WaitInv' /\ ItemsInv'
  OBVIOUS
<1>1. UNCHANGED <<client, events, queue, failing, call>>
  BY DEF Quiet, Skip, NothingToWait, Reset, WaitEvent, StatusComplete, WaitTimeout, CannotWait,
         ReadByHand, objects, device
<1>2. Types /\ Sound /\ NoEvents /\ MarksInv /\ WaitInv /\ ItemsInv
  BY QuietTypes DEF IInv
<1>3. /\ at \in Nat /\ inBatch \in Nat /\ inBatch <= at /\ at <= Len(call.items)
      /\ Items = call.items /\ Len(call.items) \in Nat /\ client \in Clients
  BY <1>2, TypeFacts
<1>4. CASE Skip
  <2>1. /\ pc = "fill" /\ pc' = "fill" /\ at' = at + 1 /\ SkippedIn(client, call.items, at + 1)
        /\ inBatch' = IF client = "loader" THEN inBatch + 1 ELSE inBatch
        /\ UNCHANGED <<status, buffer, lost, ioFailed>>
    BY <1>4, SkippedIs DEF Skip, device, answer
  <2>2. \A i \in 1..at : Through(i) => Through(i)'
    BY <1>1, <2>1 DEF Through, Signals
  <2>3. \A i \in 1..at : InBatch(i) /\ Underway(i) => InBatch(i)' /\ Underway(i)'
    BY <1>1, <1>3, <2>1 DEF InBatch, Underway, Doomed, Signals
  <2>4. \A i : i = at + 1 => Through(i)'
    BY <1>1, <2>1 DEF Through
  <2>5. \A i \in 1..at' : i \in 1..at \/ i = at + 1
    BY <1>3, <2>1
  <2>6. ItemsInv'
    BY <1>2, <2>1, <2>2, <2>3, <2>4, <2>5 DEF ItemsInv, Busy
  <2>7. QED
    BY <2>1, <2>6 DEF WaitInv
<1>5. CASE NothingToWait
  <2>1. /\ pc = "fill" /\ pc' \in {"fill", "idle"} /\ UNCHANGED <<at, status, buffer, lost, ioFailed>>
        /\ pc' = "idle" => at = Len(call.items)
        /\ \A i \in 1..at : InBatch(i) => SkippedIn(client, call.items, i)
    <3>1. /\ pc = "fill" /\ pc' \in {"fill", "idle"} /\ UNCHANGED <<at, status, buffer, lost, ioFailed>>
          /\ pc' = "idle" => at = Len(call.items)
      BY <1>3, <1>5 DEF NothingToWait, Return, device
    <3>2. ASSUME NEW i \in 1..at, InBatch(i) PROVE SkippedIn(client, call.items, i)
      <4>1. client = "loader" /\ i \in (at - inBatch + 1)..at
        BY <1>3, <1>5, <3>2 DEF NothingToWait, InBatch
      <4>2. i \notin Waiting(at)
        BY <1>5, <4>1 DEF NothingToWait
      <4>3. QED
        BY <4>1, <4>2, SkippedIs DEF Waiting
    <3>3. QED
      BY <3>1, <3>2
  <2>2. \A i \in 1..at : Through(i)
    BY <1>2, <2>1 DEF ItemsInv, Busy, Through
  <2>3. \A i \in 1..at : Through(i)'
    BY <1>1, <2>1, <2>2 DEF Through, Signals
  <2>4. QED
    BY <1>1, <2>1, <2>3 DEF ItemsInv, WaitInv, Busy
<1>6. CASE Reset
  <2>1. /\ pc = "fill" /\ pc' \in {"mark", "fill", "fread", "idle"}
        /\ UNCHANGED <<at, buffer, lost>> /\ (pc' = "idle" => ret' = "failed")
    BY <1>6 DEF Reset, Return, SubBatchFailed
  <2>2. CASE pc' = "mark"
    <3>1. UNCHANGED <<ioFailed, inBatch>> /\ (IF Signals THEN ~signal' ELSE status' = "pending")
      BY <1>6, <2>2 DEF Reset, Signals, SubBatchFailed, Return
    <3>2. \A i \in 1..at : Through(i) => Through(i)'
      BY <1>1, <2>1, <3>1 DEF Through, Signals
    <3>3. \A i \in 1..at : InBatch(i) /\ Underway(i) => InBatch(i)' /\ Underway(i)'
      BY <1>1, <2>1, <2>2, <3>1 DEF InBatch, Underway, Doomed, Signals
    <3>4. QED
      BY <1>1, <1>2, <2>1, <2>2, <3>1, <3>2, <3>3 DEF ItemsInv, WaitInv, Busy, Signals
  <2>3. CASE pc' = "fill"
    <3>1. /\ client = "loader" /\ ioFailed' = ioFailed \union (at - inBatch + 1)..at
      BY <1>6, <2>1, <2>3 DEF Reset, SubBatchFailed, Return
    <3>2. \A i \in 1..at : Through(i) => Through(i)'
      BY <1>1, <2>1, <3>1 DEF Through, Signals
    <3>3. \A i \in 1..at : InBatch(i) => Through(i)'
      BY <1>3, <3>1 DEF InBatch, Through
    <3>4. QED
      BY <1>2, <2>1, <2>3, <3>2, <3>3 DEF ItemsInv, WaitInv, Busy
  <2>4. CASE pc' \in {"fread", "idle"}
    BY <2>1, <2>4 DEF ItemsInv, WaitInv, Busy
  <2>5. QED
    BY <2>1, <2>2, <2>3, <2>4
<1>7. CASE WaitEvent \/ StatusComplete
  <2>1. pc = "wait" /\ queue = <<>> /\ UNCHANGED <<at, buffer, lost>>
    BY <1>2, <1>7 DEF WaitEvent, StatusComplete, WaitStatus, WaitInv, NoEvents, Signals, device
  <2>2. \A i : ~Todo(queue, i) /\ ~Bad(queue, i)
    BY <2>1, NoneUnderway, EmptySeq
  <2>3. CASE GoOn /\ (Signals \/ status = "ok")
    <3>1. \A i \in 1..at : ~Underway(i)
      BY <2>1, <2>2, <2>3 DEF Underway, Doomed
    <3>2. \A i \in 1..at : Through(i)
      BY <1>2, <2>1, <3>1 DEF ItemsInv, Busy
    <3>3. \A i \in 1..at : Through(i)'
      BY <1>1, <2>1, <2>3, <3>2 DEF Through, Signals, GoOn
    <3>4. pc' \in {"idle", "fill"} /\ (pc' = "idle" => at = Len(call.items))
      BY <1>3, <2>3 DEF GoOn, Return
    <3>5. QED
      BY <1>1, <2>1, <3>3, <3>4 DEF ItemsInv, WaitInv, Busy
  <2>4. CASE SubBatchFailed
    <3>1. CASE client = "loader"
      <4>1. ioFailed' = ioFailed \union (at - inBatch + 1)..at /\ pc' \in {"fill", "fread"}
        BY <2>4, <3>1 DEF SubBatchFailed
      <4>2. \A i \in 1..at : Through(i) => Through(i)'
        BY <1>1, <2>1, <4>1 DEF Through, Signals
      <4>3. \A i \in 1..at : InBatch(i) => Through(i)'
        BY <1>3, <3>1, <4>1 DEF InBatch, Through
      <4>4. QED
        BY <1>2, <2>1, <4>1, <4>2, <4>3 DEF ItemsInv, WaitInv, Busy
    <3>2. CASE client # "loader"
      BY <2>4, <3>2 DEF SubBatchFailed, Return, ItemsInv, WaitInv, Busy
    <3>3. QED
      BY <3>1, <3>2
  <2>5. (GoOn /\ (Signals \/ status = "ok")) \/ SubBatchFailed
    <3>1. status \in {"pending", "ok", "failed"}
      BY <1>2 DEF Types
    <3>2. CASE WaitEvent
      BY <1>2, <3>2 DEF WaitEvent, NoEvents
    <3>3. CASE StatusComplete
      BY <3>1, <3>3 DEF StatusComplete, WaitStatus
    <3>4. QED
      BY <1>7, <3>2, <3>3
  <2>6. QED
    BY <2>3, <2>4, <2>5
<1>8. CASE WaitTimeout \/ CannotWait
  <2>1. pc' = "idle" /\ ret' = "failed"
    <3>1. CASE WaitTimeout
      <4>1. timeouts' # 0
        BY <1>2, <3>1 DEF Types, WaitTimeout
      <4>2. client # "d3d12"
        BY <1>1, <4>1 DEF Sound, Signals
      <4>3. QED
        BY <3>1, <4>2 DEF WaitTimeout, Return
    <3>2. CASE CannotWait
      BY <3>2 DEF CannotWait, Return
    <3>3. QED
      BY <1>8, <3>1, <3>2
  <2>2. QED
    BY <2>1 DEF ItemsInv, WaitInv, Busy
<1>9. CASE ReadByHand
  <2>1. pc' = "idle" /\ (ret' = "ok" => buffer' = PlacedAt(buffer, client, call, 1, call.path))
    BY <1>9, PlacedIs DEF ReadByHand, Return
  <2>2. ret' = "ok" => Has(buffer', client, call, 1)
    BY <2>1, PlacedHas
  <2>3. Len(call.items) = 1
    BY <1>2, <1>9 DEF Types, ReadByHand
  <2>4. \A i \in 1..Len(call.items) : i = 1
    BY <2>3
  <2>5. QED
    BY <1>1, <2>1, <2>2, <2>4 DEF ItemsInv, WaitInv, Through, Busy
<1>10. QED
  BY <1>4, <1>5, <1>6, <1>7, <1>8, <1>9 DEF Quiet

-----------------------------------------------------------------------------
(***************************************************************************)
(* A call begins: what is still in the queue belongs to it no more.        *)
(***************************************************************************)
LEMMA BeginQueue ==
    ASSUME Types, NEW c, Begin(c)
    PROVE  /\ queue' \in Seq(Entries) /\ Len(queue') \in Nat /\ Len(queue') <= Len(queue)
           /\ submitted' \in 0..Len(queue')
           /\ \A k \in 1..Len(queue') : ~queue'[k].live /\ queue'[k].kind = queue[k].kind
           /\ client = "d3d12" => Len(queue') = 0
           /\ client # "d3d12" => Len(queue') = Len(queue)
<1>1. Len(queue) \in Nat /\ \A k \in 1..Len(queue) : queue[k] \in Entries
  BY LenProperties, ElementOfSeq DEF Types
<1>2. submitted \in 0..Len(queue)
  BY DEF Types, TypeOK
<1>3. CASE client = "d3d12"
  <2>1. queue' = <<>> /\ submitted' = 0
    BY <1>3 DEF Begin
  <2>2. Len(<<>>) = 0 /\ <<>> \in Seq(Entries) /\ 1..0 = {}
    BY EmptySeq
  <2>3. QED
    BY <1>1, <1>3, <2>1, <2>2
<1>4. CASE client # "d3d12"
  <2> DEFINE r == [k \in 1..Len(queue) |-> [queue[k] EXCEPT !.live = FALSE]]
  <2>1. queue' = r /\ submitted' = submitted
    BY <1>4 DEF Begin
  <2>2. \A k \in 1..Len(queue) :
           r[k] \in Entries /\ ~r[k].live /\ r[k].kind = queue[k].kind
    BY <1>1 DEF Entries
  <2>3. r \in Seq(Entries) /\ Len(r) = Len(queue)
    BY <1>1, <2>2
  <2> HIDE DEF r
  <2>4. QED
    BY <1>1, <1>2, <1>4, <2>1, <2>2, <2>3
<1>5. QED
  BY <1>3, <1>4

LEMMA BeginTypes ==
    ASSUME Types, NEW c \in Calls[client], Begin(c), made' \subseteq {"factory", "queue"},
           file' \in Paths, events' \in BOOLEAN,
           pc' \in {"idle", "fread", "fill"}, ret' \in {"none", "ok", "failed"},
           pc' = "fread" => client = "loader" /\ Len(c.items) = 1
    PROVE  Types'
<1>1. /\ client' = client /\ client \in Clients /\ call' = c /\ Items' = c.items
      /\ at' = 0 /\ inBatch' = 0 /\ ioFailed' = {} /\ total' = 0
      /\ UNCHANGED <<failing, signal, status, timeouts>>
  BY DEF Begin, Items, Types, TypeOK
<1>2. Len(c.items) \in Nat
  BY <1>1, CallIs
<1>3. Len(queue') < Capacity /\ submitted' \in 0..Len(queue') /\ queue' \in Seq(Entries)
  <2>1. Len(queue) < Capacity /\ Len(queue) \in Nat
    BY LenProperties DEF Types, TypeOK
  <2>2. QED
    BY <2>1, BeginQueue, QueueAssumption
<1>4. buffer' = [j \in DOMAIN buffer' |-> buffer'[j]]
  BY DEF Begin
<1>5. TypeOK'
  BY <1>1, <1>2, <1>3 DEF TypeOK
<1>6. QED
  BY <1>1, <1>3, <1>4, <1>5 DEF Types

LEMMA StartKeeps == ASSUME IInv, NEW c \in Calls[client], Start(c) PROVE IInv'
<1>1. Types /\ Unused /\ NoEvents /\ FileInv
  BY DEF IInv
<1>2. Begin(c) /\ pc = "idle" /\ client' = client /\ call' = c /\ at' = 0 /\ timeouts' = timeouts
      /\ signal' = signal /\ events' = events
  BY DEF Start, MayStart, Begin
<1>3. /\ "factory" \in made' /\ made' \subseteq {"factory", "queue"}
  BY <1>1 DEF Start, Types, TypeOK
<1>4. client \in Clients /\ c.path \in Paths /\ None \in Paths
  <2>1. client \in Clients
    BY <1>1 DEF Types, TypeOK
  <2>2. QED
    BY <2>1 DEF Paths
<1>5. /\ pc' \in {"idle", "fread", "fill"} /\ (pc' = "idle" => ret' = "failed")
      /\ ret' \in {"none", "ok", "failed"}
      /\ pc' = "fread" => client = "loader" /\ Len(c.items) = 1
  BY <1>1 DEF Start, Types, TypeOK, Failed, Return
<1>6. /\ file' \in Paths /\ file' \in {None, current'} /\ (pc' = "fill" => file' \in {None, c.path})
  BY <1>1, <1>4 DEF Start, OpenFile, Types, FileInv, Failed, Return
<1>7. Types'
  <2>1. events' \in BOOLEAN
    BY <1>1, <1>2 DEF Types
  <2>2. QED
    BY <1>1, <1>2, <1>3, <1>5, <1>6, <2>1, BeginTypes
<1>8. Unused'
  BY <1>3 DEF Unused
<1>9. \A k \in 1..Len(queue') : /\ k \in 1..Len(queue) /\ ~queue'[k].live
                                /\ queue'[k].kind = queue[k].kind /\ client # "d3d12"
  <2>1. Len(queue) \in Nat
    BY <1>1, LenProperties DEF Types
  <2>2. QED
    BY <1>1, <1>2, <2>1, BeginQueue
<1>10. NoEvents'
  BY <1>1, <1>2, <1>9 DEF NoEvents, Signals
<1>11. FileInv'
  BY <1>2, <1>5, <1>6 DEF FileInv, Busy
<1>12. ReadsInv'
  BY <1>9 DEF ReadsInv, Live
<1>13. ASSUME Sound' PROVE MarksInv' /\ WaitInv' /\ ItemsInv'
  <2>1. Sound /\ MarksInv
    BY <1>2, <1>13 DEF Sound, Signals, IInv
  <2>2. Signals /\ client # "d3d12" => \A k \in 1..Len(queue) : queue[k].kind = "read"
    BY <1>2, <2>1 DEF MarksInv, Busy
  <2>3. MarksInv'
    BY <1>2, <1>5, <1>9, <2>2 DEF MarksInv, Signals, Busy
  <2>4. WaitInv' /\ ItemsInv'
    BY <1>2, <1>5 DEF WaitInv, ItemsInv, Busy
  <2>5. QED
    BY <2>3, <2>4
<1>14. QED
  BY <1>7, <1>8, <1>10, <1>11, <1>12, <1>13 DEF IInv

LEMMA CannotInitializeKeeps ==
    ASSUME IInv, NEW c \in Calls[client], CannotInitialize(c) PROVE IInv'
<1>1. Types /\ Unused /\ NoEvents /\ FileInv
  BY DEF IInv
<1>2. /\ Begin(c) /\ client' = client /\ UNCHANGED <<file, current, signal>>
      /\ "factory" \notin made
  BY DEF CannotInitialize, MayStart, Begin
<1>3. /\ pc' \in {"idle", "fread"} /\ (pc' = "idle" => ret' = "failed")
      /\ ret' \in {"none", "ok", "failed"} /\ events' \in BOOLEAN
      /\ pc' = "fread" => client = "loader" /\ Len(c.items) = 1
      /\ made' \subseteq {"factory", "queue"}
  BY <1>1 DEF CannotInitialize, Failed, Return, Types, TypeOK
<1>4. queue = <<>> /\ ~signal
  BY <1>1, <1>2 DEF Unused
<1>5. Len(queue') = 0 /\ queue' = <<>>
  <2>1. Len(queue) = 0
    BY <1>4, EmptySeq
  <2>2. queue' \in Seq(Entries) /\ Len(queue') = 0
    BY <1>1, <1>2, <2>1, BeginQueue
  <2>3. QED
    BY <2>2, EmptySeq
<1>6. Types'
  <2>1. file' \in Paths
    BY <1>1, <1>2 DEF Types
  <2>2. QED
    BY <1>1, <1>2, <1>3, <2>1, BeginTypes
<1>7. Unused' /\ NoEvents' /\ FileInv' /\ ReadsInv'
  BY <1>1, <1>2, <1>3, <1>4, <1>5 DEF Unused, NoEvents, FileInv, ReadsInv, Busy
<1>8. MarksInv' /\ WaitInv' /\ ItemsInv'
  BY <1>3, <1>5 DEF MarksInv, WaitInv, ItemsInv, Busy
<1>9. QED
  BY <1>6, <1>7, <1>8 DEF IInv

-----------------------------------------------------------------------------
(***************************************************************************)
(* A request is enqueued, the mark behind the requests, and the device     *)
(* works.                                                                  *)
(***************************************************************************)
LEMMA EnqueueKeeps == ASSUME IInv, EnqueueRequest PROVE IInv'
<1>1. Types /\ Unused /\ NoEvents /\ FileInv /\ ReadsInv
  BY DEF IInv
<1>2. /\ UNCHANGED <<client, events, made, file, current, failing, signal, status, call, buffer,
                     lost, ioFailed, total, ret, timeouts>>
      /\ pc = "fill" /\ ~Skipped(at + 1) /\ at # Len(Items)
  BY DEF EnqueueRequest, objects, answer, bounds, Flushing
<1>3. /\ at \in Nat /\ inBatch \in Nat /\ inBatch <= at /\ at <= Len(call.items)
      /\ Items = call.items /\ Len(call.items) \in Nat /\ client \in Clients
      /\ Items' = Items /\ Len(queue) \in Nat
  BY <1>1, <1>2, TypeFacts DEF Items
<1>4. "factory" \in made
  BY <1>1, <1>2 DEF Unused
<1>5. Sound' => Sound
  BY <1>2 DEF Sound, Signals
<1>6. CASE "queue" \notin made
  <2>1. pc' = "dead" /\ UNCHANGED <<queue, submitted, at, inBatch>>
    BY <1>6 DEF EnqueueRequest
  <2>2. Types'
    BY <1>1, <1>2, <1>3, <2>1 DEF Types, TypeOK
  <2>3. Unused' /\ NoEvents' /\ FileInv' /\ ReadsInv'
    BY <1>1, <1>2, <1>4, <2>1 DEF Unused, NoEvents, FileInv, ReadsInv, Signals, Busy
  <2>4. ASSUME Sound' PROVE MarksInv' /\ WaitInv' /\ ItemsInv'
    <3>1. MarksInv
      BY <1>5, <2>4 DEF IInv
    <3>2. MarksInv'
      BY <1>2, <2>1, <3>1 DEF MarksInv, Signals, Busy
    <3>3. WaitInv' /\ ItemsInv'
      BY <2>1 DEF WaitInv, ItemsInv, Busy
    <3>4. QED
      BY <3>2, <3>3
  <2>5. QED
    BY <2>2, <2>3, <2>4 DEF IInv
<1>7. CASE "queue" \in made
  <2> DEFINE e == Entry("read", at + 1, file)
  <2>1. /\ Room /\ queue' = Append(queue, e) /\ pc' = pc /\ at' = at + 1
        /\ inBatch' = inBatch + 1 /\ submitted' \in {Len(queue) + 1, submitted}
    BY <1>2, <1>7 DEF EnqueueRequest, Enqueued
  <2>2. /\ e \in Entries /\ e.live /\ e.kind = "read" /\ e.state = "todo" /\ e.item = at + 1
        /\ e.src = file
    BY <1>1, <1>3 DEF Entry, Entries, Types
  <2> HIDE DEF e
  <2>3. Appended(queue, queue', e)
    BY <1>1, <2>1, <2>2, AppendIs DEF Types
  <2>4. at + 1 \in 1..Len(call.items) /\ ~SkippedIn(client, call.items, at + 1)
    BY <1>2, <1>3, SkippedIs
  <2>5. Types'
    <3>1. Len(queue') < Capacity /\ submitted' \in 0..Len(queue') /\ queue' \in Seq(Entries)
      BY <1>1, <1>3, <2>1, <2>3, QueueAssumption, SMTT(30) DEF Room, Appended, Types, TypeOK
    <3>2. at' \in 0..Len(Items') /\ inBatch' \in 0..at'
      BY <1>3, <2>1, <2>4
    <3>3. TypeOK'
      BY <1>1, <1>2, <1>3, <2>1, <3>1, <3>2 DEF Types, TypeOK
    <3>4. QED
      BY <1>1, <1>2, <2>1, <3>1, <3>3 DEF Types
  <2>6. \A k \in 1..Len(queue') : k \in 1..Len(queue) \/ k = Len(queue) + 1
    BY <2>3 DEF Appended
  <2>7. /\ queue'[Len(queue) + 1] = e /\ Len(queue) + 1 = Len(queue')
        /\ \A k \in 1..Len(queue) : queue'[k] = queue[k]
    BY <2>3 DEF Appended
  <2>8. Unused' /\ NoEvents' /\ FileInv'
    <3>1. NoEvents'
      BY <1>1, <1>2, <2>2, <2>6, <2>7 DEF NoEvents, Signals
    <3>2. QED
      BY <1>1, <1>2, <1>4, <2>1, <3>1 DEF Unused, FileInv
  <2>9. ReadsInv'
    <3>1. file \in {None, call.path}
      BY <1>1, <1>2 DEF FileInv, Busy
    <3>2. \A k \in 1..Len(queue') : Live(queue', k) =>
             /\ queue'[k].item \in 1..Len(call.items)
             /\ ~SkippedIn(client, call.items, queue'[k].item)
             /\ queue'[k].src \in {None, call.path}
      BY <1>1, <2>2, <2>4, <2>6, <2>7, <3>1 DEF ReadsInv, Live
    <3>3. \A j, k \in 1..Len(queue') : j < k /\ queue'[j].live => queue'[k].live
      BY <1>1, <1>3, <2>2, <2>6, <2>7 DEF ReadsInv
    <3>4. QED
      BY <1>2, <3>2, <3>3 DEF ReadsInv
  <2>10. ASSUME Sound' PROVE MarksInv' /\ WaitInv' /\ ItemsInv'
    <3>1. MarksInv /\ WaitInv /\ ItemsInv
      BY <1>5, <2>10 DEF IInv
    <3>2. \A k \in 1..Len(queue') : ~(queue'[k].kind # "read" /\ (Signals \/ queue'[k].live))
      <4>1. \A k \in 1..Len(queue) : ~(queue[k].kind # "read" /\ (Signals \/ queue[k].live))
        BY <1>2, <3>1 DEF MarksInv, Busy
      <4>2. QED
        BY <2>2, <2>6, <2>7, <4>1
    <3>3. MarksInv'
      BY <1>2, <2>1, <3>2 DEF MarksInv, Signals, Busy
    <3>4. /\ \A i : (Todo(queue, i) => Todo(queue', i)) /\ (Bad(queue, i) => Bad(queue', i))
          /\ Todo(queue', at + 1)
          /\ NoDeadMark(queue) => NoDeadMark(queue')
      BY <2>2, <2>3, AppendKeeps
    <3>5. \A i \in 1..at : Through(i) => Through(i)'
      BY <1>2 DEF Through, Signals
    <3>6. \A i \in 1..at : InBatch(i) /\ Underway(i) => InBatch(i)' /\ Underway(i)'
      BY <1>2, <1>3, <2>1, <3>4 DEF InBatch, Underway, Doomed, Signals
    <3>7. \A i : i = at + 1 => InBatch(i)' /\ Underway(i)'
      BY <1>2, <1>3, <2>1, <3>4 DEF InBatch, Underway
    <3>8. \A i \in 1..at' : i \in 1..at \/ i = at + 1
      BY <1>3, <2>1
    <3>9. ItemsInv'
      BY <1>2, <2>1, <3>1, <3>5, <3>6, <3>7, <3>8 DEF ItemsInv, Busy
    <3>10. WaitInv'
      BY <1>2, <2>1 DEF WaitInv
    <3>11. QED
      BY <3>3, <3>9, <3>10
  <2>11. QED
    BY <2>5, <2>8, <2>9, <2>10 DEF IInv
<1>8. QED
  BY <1>6, <1>7

LEMMA SubmitKeeps == ASSUME IInv, Submit PROVE IInv'
<1>1. Types /\ Unused /\ NoEvents /\ FileInv /\ ReadsInv
  BY DEF IInv
<1>2. /\ UNCHANGED <<client, events, made, file, current, failing, signal, status, call, buffer,
                     lost, at, inBatch, ioFailed, total, ret, timeouts>>
      /\ pc = "mark" /\ pc' = "wait" /\ Room
  BY DEF Submit, objects, answer, bounds
<1> DEFINE e == Entry(IF Signals THEN "event" ELSE "status", 0, None)
<1>3. queue' = Append(queue, e) /\ submitted' = Len(queue) + 1
  BY DEF Submit, Mark, Signals
<1>4. /\ e \in Entries /\ e.live /\ e.kind = (IF Signals THEN "event" ELSE "status")
      /\ e.kind # "read"
  BY DEF Entry, Entries, Paths
<1> HIDE DEF e
<1>5. Appended(queue, queue', e)
  BY <1>1, <1>3, <1>4, AppendIs DEF Types
<1>6. /\ \A k \in 1..Len(queue') : k \in 1..Len(queue) \/ k = Len(queue) + 1
      /\ queue'[Len(queue) + 1] = e /\ Len(queue) + 1 = Len(queue') /\ Len(queue) \in Nat
      /\ \A k \in 1..Len(queue) : queue'[k] = queue[k]
  BY <1>5 DEF Appended
<1>7. Types'
  <2>1. Len(queue') < Capacity /\ submitted' \in 0..Len(queue') /\ queue' \in Seq(Entries)
    BY <1>2, <1>3, <1>5, <1>6, QueueAssumption DEF Room, Appended
  <2>2. TypeOK'
    BY <1>1, <1>2, <2>1 DEF Types, TypeOK, Items
  <2>3. QED
    BY <1>1, <1>2, <2>1, <2>2 DEF Types
<1>8. Unused' /\ NoEvents' /\ FileInv'
  <2>1. NoEvents'
    BY <1>1, <1>2, <1>4, <1>6 DEF NoEvents, Signals
  <2>2. QED
    BY <1>1, <1>2, <2>1 DEF Unused, FileInv, Busy
<1>9. ReadsInv'
  <2>1. \A k \in 1..Len(queue') : Live(queue', k) =>
           /\ queue'[k].item \in 1..Len(call.items)
           /\ ~SkippedIn(client, call.items, queue'[k].item)
           /\ queue'[k].src \in {None, call.path}
    BY <1>1, <1>4, <1>6 DEF ReadsInv, Live
  <2>2. \A j, k \in 1..Len(queue') : j < k /\ queue'[j].live => queue'[k].live
    BY <1>1, <1>4, <1>6 DEF ReadsInv
  <2>3. QED
    BY <1>2, <2>1, <2>2 DEF ReadsInv
<1>10. ASSUME Sound' PROVE MarksInv' /\ WaitInv' /\ ItemsInv'
  <2>1. Sound /\ MarksInv /\ WaitInv /\ ItemsInv
    BY <1>2, <1>10 DEF Sound, Signals, IInv
  <2>2. \A k \in 1..Len(queue) : ~(queue[k].kind # "read" /\ (Signals \/ queue[k].live))
    BY <1>2, <2>1 DEF MarksInv, Busy
  <2>3. MarksInv'
    BY <1>2, <1>4, <1>6, <2>2 DEF MarksInv, Signals, Busy
  <2>4. WaitInv'
    BY <1>2, <2>1 DEF WaitInv, Signals
  <2>5. /\ \A i : (Todo(queue, i) => Todo(queue', i)) /\ (Bad(queue, i) => Bad(queue', i))
        /\ NoDeadMark(queue) => NoDeadMark(queue')
    BY <1>4, <1>5, AppendKeeps
  <2>6. \A i \in 1..at : Through(i) => Through(i)'
    BY <1>2 DEF Through, Signals
  <2>7. ~Signals => status = "pending"
    BY <1>2, <2>1 DEF WaitInv
  <2>8. \A i \in 1..at : InBatch(i) /\ Underway(i) => InBatch(i)' /\ Underway(i)'
    BY <1>2, <2>5, <2>7 DEF InBatch, Underway, Doomed, Signals
  <2>9. ItemsInv'
    BY <1>2, <2>1, <2>6, <2>8 DEF ItemsInv, Busy
  <2>10. QED
    BY <2>3, <2>4, <2>9
<1>11. QED
  BY <1>7, <1>8, <1>9, <1>10 DEF IInv

LEMMA RetireStep == ASSUME IInv, Retire PROVE IInv'
<1>1. Types /\ Unused /\ NoEvents /\ FileInv /\ ReadsInv
  BY DEF IInv
<1>2. /\ UNCHANGED <<client, events, made, file, current, call, pc, at, inBatch, buffer, ioFailed,
                     total, ret, lost, timeouts>>
      /\ queue' = Tail(queue) /\ submitted' = submitted - 1 /\ submitted > 0
      /\ Head(queue).state # "todo" /\ signal' = (signal \/ Head(queue).kind = "event")
  BY DEF Retire, objects, answer, bounds
<1>3. Len(queue) \in Nat /\ submitted \in 0..Len(queue) /\ queue # <<>>
  <2>1. Len(queue) \in Nat /\ submitted \in 0..Len(queue)
    BY <1>1, LenProperties DEF Types, TypeOK
  <2>2. QED
    BY <1>2, <2>1, EmptySeq
<1>4. Retired(queue, queue') /\ Head(queue) = queue[1] /\ queue[1] \in Entries
  <2>1. Retired(queue, queue')
    BY <1>1, <1>2, <1>3, RetireIs DEF Types
  <2>2. QED
    BY <1>3, <2>1, ElementOfSeq DEF Retired
<1> DEFINE e == queue[1]
<1>5. /\ \A k \in 1..Len(queue') : k + 1 \in 1..Len(queue) /\ queue'[k] = queue[k + 1]
      /\ queue' \in Seq(Entries) /\ Len(queue') = Len(queue) - 1 /\ 1 \in 1..Len(queue)
      /\ Len(queue) = 1 => queue' = <<>>
  BY <1>4 DEF Retired
<1>6. Types'
  <2>1. Len(queue') < Capacity /\ submitted' \in 0..Len(queue')
    BY <1>1, <1>2, <1>3, <1>5, QueueAssumption DEF Types, TypeOK
  <2>2. TypeOK'
    BY <1>1, <1>2, <2>1 DEF Types, TypeOK, Items
  <2>3. failing' \in BOOLEAN /\ signal' \in BOOLEAN /\ status' \in {"pending", "ok", "failed"}
    BY <1>1 DEF Retire, Types
  <2>4. QED
    BY <1>1, <1>2, <1>5, <2>2, <2>3 DEF Types
<1>7. Unused' /\ NoEvents' /\ FileInv'
  <2>1. NoEvents'
    BY <1>1, <1>2, <1>4, <1>5 DEF NoEvents, Signals
  <2>2. QED
    BY <1>1, <1>2, <1>3, <2>1 DEF Unused, FileInv
<1>8. ReadsInv'
  <2>1. \A k \in 1..Len(queue') : Live(queue', k) =>
           /\ queue'[k].item \in 1..Len(call.items)
           /\ ~SkippedIn(client, call.items, queue'[k].item)
           /\ queue'[k].src \in {None, call.path}
    BY <1>1, <1>5 DEF ReadsInv, Live
  <2>2. \A j, k \in 1..Len(queue') : j < k /\ queue'[j].live => queue'[k].live
    <3>1. ASSUME NEW j \in 1..Len(queue'), NEW k \in 1..Len(queue'), j < k, queue'[j].live
          PROVE  queue'[k].live
      <4>1. j + 1 \in 1..Len(queue) /\ k + 1 \in 1..Len(queue) /\ j + 1 < k + 1
        BY <1>5, <3>1
      <4>2. queue'[j] = queue[j + 1] /\ queue'[k] = queue[k + 1]
        BY <1>5, <3>1
      <4>3. QED
        BY <1>1, <3>1, <4>1, <4>2 DEF ReadsInv
    <3>2. QED
      BY <3>1
  <2>3. QED
    BY <1>2, <2>1, <2>2 DEF ReadsInv
<1>9. ASSUME Sound' PROVE MarksInv' /\ WaitInv' /\ ItemsInv'
  <2>1. Sound /\ MarksInv /\ WaitInv /\ ItemsInv
    BY <1>2, <1>9 DEF Sound, Signals, IInv
  <2>2. MarksInv'
    <3>1. ASSUME pc \in Busy, NEW k \in 1..Len(queue'), queue'[k].kind # "read",
                 Signals \/ queue'[k].live
          PROVE  pc = "wait" /\ k = Len(queue') /\ queue'[k].live
      <4>1. k + 1 \in 1..Len(queue) /\ queue'[k] = queue[k + 1]
        BY <1>5
      <4>2. pc = "wait" /\ k + 1 = Len(queue) /\ queue[k + 1].live
        BY <2>1, <3>1, <4>1 DEF MarksInv
      <4>3. QED
        BY <1>3, <1>5, <4>1, <4>2
    <3>2. ASSUME Signals, client # "d3d12", pc \notin Busy, NEW k \in 1..Len(queue')
          PROVE  queue'[k].kind = "read"
      BY <1>5, <2>1, <3>2 DEF MarksInv
    <3>3. QED
      BY <1>2, <3>1, <3>2 DEF MarksInv, Signals
  \* A mark of this call that is retired was the last entry.
  <2>3. pc \in Busy /\ e.kind # "read" /\ (Signals \/ e.live) => pc = "wait" /\ queue' = <<>>
    BY <1>5, <2>1 DEF MarksInv
  <2>4. status' # status =>
           e.kind = "status" /\ e.live /\ status' = (IF failing THEN "failed" ELSE "ok")
    BY <1>4 DEF Retire
  <2>5. WaitInv'
    <3>1. ASSUME pc = "mark" PROVE IF Signals THEN ~signal' ELSE status' = "pending"
      <4>1. ~(e.kind # "read" /\ (Signals \/ e.live))
        BY <2>3, <3>1 DEF Busy
      <4>2. QED
        BY <1>2, <1>4, <2>1, <2>4, <3>1, <4>1 DEF WaitInv
    <3>2. ASSUME pc = "wait", IF Signals THEN signal' ELSE status' # "pending"
          PROVE  queue' = <<>>
      <4>1. ~(IF Signals THEN signal ELSE status # "pending")
        BY <1>3, <2>1, <3>2 DEF WaitInv
      <4>2. e.kind # "read" /\ (Signals \/ e.live)
        BY <1>2, <1>4, <2>4, <3>2, <4>1
      <4>3. QED
        BY <2>3, <3>2, <4>2 DEF Busy
    <3>3. QED
      BY <1>2, <3>1, <3>2 DEF WaitInv, Signals
  <2>6. \A i : Through(i) => Through(i)'
    BY <1>2 DEF Through, Signals
  <2>7. ASSUME NEW i \in 1..at, pc \in Busy, InBatch(i), Underway(i), ~Through(i)
        PROVE  InBatch(i)' /\ Underway(i)'
    <3>1. InBatch(i)'
      BY <1>2, <2>7 DEF InBatch
    <3>2. /\ Todo(queue, i) => Todo(queue', i)
          /\ Bad(queue, i) => Bad(queue', i) \/ (Live(queue, 1) /\ e.state = "bad")
          /\ NoDeadMark(queue) => NoDeadMark(queue')
      BY <1>2, <1>4, RetireKeeps
    <3>3. CASE Todo(queue, i)
      BY <3>1, <3>2, <3>3 DEF Underway
    <3>4. CASE ~Todo(queue, i)
      <4>1. ~Signals /\ Doomed(i) /\ ~Signals'
        BY <1>2, <2>7, <3>4 DEF Underway, Signals
      <4>2. pc = "wait" => status = "pending"
        BY <1>3, <2>1, <4>1 DEF WaitInv
      <4>3. e.kind # "event"
        BY <1>1, <1>5, <4>1 DEF NoEvents
      <4>4. CASE Bad(queue, i) /\ Live(queue, 1) /\ e.state = "bad"
        <5>1. failing' /\ status' = status
          BY <1>4, <2>4, <4>4 DEF Retire, Live
        <5>2. NoDeadMark(queue')
          <6>1. ASSUME NEW k \in 1..Len(queue') PROVE queue'[k].live
            <7>1. k + 1 \in 1..Len(queue) /\ queue'[k] = queue[k + 1] /\ 1 < k + 1
              BY <1>3, <1>5
            <7>2. QED
              BY <1>1, <1>5, <4>4, <7>1 DEF ReadsInv, Live
          <6>2. QED
            BY <6>1 DEF NoDeadMark
        <5>3. QED
          BY <1>2, <3>1, <4>1, <4>2, <5>1, <5>2 DEF Underway, Doomed
      <4>5. CASE Bad(queue', i)
        BY <3>1, <4>1, <4>5 DEF Underway, Doomed
      <4>6. CASE failing /\ NoDeadMark(queue)
        <5>1. CASE e.kind = "read"
          <6>1. failing' /\ status' = status /\ NoDeadMark(queue')
            BY <1>4, <2>4, <3>2, <4>6, <5>1 DEF Retire
          <6>2. QED
            BY <1>2, <3>1, <4>1, <4>2, <6>1 DEF Underway, Doomed
        <5>2. CASE e.kind = "status"
          <6>1. e.live
            BY <1>5, <4>6, <5>2 DEF NoDeadMark
          <6>2. status' = "failed" /\ pc = "wait"
            BY <1>4, <2>3, <2>7, <4>6, <5>2, <6>1 DEF Retire
          <6>3. QED
            BY <1>2, <3>1, <4>1, <6>2 DEF Underway, Doomed
        <5>3. QED
          BY <1>4, <4>3, <5>1, <5>2 DEF Entries
      <4>7. QED
        BY <3>2, <4>1, <4>2, <4>4, <4>5, <4>6 DEF Doomed
    <3>5. QED
      BY <3>3, <3>4
  <2>8. ItemsInv'
    BY <1>2, <2>1, <2>6, <2>7 DEF ItemsInv
  <2>9. QED
    BY <2>2, <2>5, <2>8
<1>10. QED
  BY <1>6, <1>7, <1>8, <1>9 DEF IInv

LEMMA ReadKeeps == ASSUME IInv, NEW k \in 1..Len(queue), Read(k) PROVE IInv'
<1>1. Types /\ Unused /\ NoEvents /\ FileInv /\ ReadsInv
  BY DEF IInv
<1>2. /\ UNCHANGED <<client, events, made, file, current, submitted, failing, signal, status, call,
                     pc, at, inBatch, ioFailed, total, ret, timeouts>>
      /\ queue[k].state = "todo"
  BY DEF Read, objects, answer
<1>3. PICK s \in {"done", "bad"} : queue' = [queue EXCEPT ![k].state = s]
  BY DEF Read
<1>4. Changed(queue, queue', k, s)
  BY <1>1, <1>3, ChangeIs DEF Types
<1>5. /\ queue' \in Seq(Entries) /\ Len(queue') = Len(queue)
      /\ \A j \in 1..Len(queue) :
            /\ queue'[j].kind = queue[j].kind /\ queue'[j].item = queue[j].item
            /\ queue'[j].live = queue[j].live /\ queue'[j].src = queue[j].src
  BY <1>4 DEF Changed
<1> DEFINE e == queue[k]
\* What may come of the read.
<1>6. /\ e.live /\ s = "done" =>
            buffer' = PlacedAt(buffer, client, call, e.item, e.src) /\ e.src # None
      /\ ~(e.live /\ s = "done") => buffer' = buffer
      /\ lost \subseteq lost' /\ (e.live /\ s = "bad" => e.item \in lost')
  <2>1. queue'[k].state = s
    BY <1>4 DEF Changed
  <2>2. Len(queue) \in Nat /\ queue[k] \in Entries
    BY <1>1, LenProperties, ElementOfSeq DEF Types
  <2>3. CASE /\ queue' = [queue EXCEPT ![k].state = "done"] /\ queue[k].src # None
             /\ buffer' = IF queue[k].live THEN Placed(buffer, queue[k].item, queue[k].src)
                          ELSE buffer
             /\ UNCHANGED lost
    <3>1. s = "done"
      <4>1. Changed(queue, queue', k, "done")
        BY <1>1, <2>3, ChangeIs DEF Types
      <4>2. QED
        BY <2>1, <4>1 DEF Changed
    <3>2. QED
      BY <2>3, <3>1, PlacedIs
  <2>4. CASE /\ queue' = [queue EXCEPT ![k].state = "bad"]
             /\ lost' = IF queue[k].live THEN lost \union {queue[k].item} ELSE lost
             /\ UNCHANGED buffer
    <3>1. s = "bad"
      <4>1. Changed(queue, queue', k, "bad")
        BY <1>1, <2>4, ChangeIs DEF Types
      <4>2. QED
        BY <2>1, <4>1 DEF Changed
    <3>2. QED
      BY <2>4, <3>1
  <2>5. QED
    BY <2>3, <2>4 DEF Read
<1>7. IsBuffer(buffer')
  <2>1. IsBuffer(buffer)
    BY <1>1 DEF Types, IsBuffer
  <2>2. \A i, src : IsBuffer(PlacedAt(buffer, client, call, i, src))
    BY DEF IsBuffer, PlacedAt
  <2>3. QED
    BY <1>6, <2>1, <2>2
<1>8. Types'
  <2>1. TypeOK'
    BY <1>1, <1>2, <1>5 DEF Types, TypeOK, Items
  <2>2. QED
    BY <1>1, <1>2, <1>5, <1>7, <2>1 DEF Types, IsBuffer
<1>9. Unused' /\ NoEvents' /\ FileInv' /\ ReadsInv'
  <2>1. Unused'
    <3>1. queue # <<>>
      <4>1. Len(<<>>) = 0 /\ 1..0 = {}
        BY EmptySeq
      <4>2. QED
        BY <4>1
    <3>2. QED
      BY <1>1, <1>2, <3>1 DEF Unused
  <2>2. NoEvents' /\ FileInv'
    BY <1>1, <1>2, <1>5 DEF NoEvents, Signals, FileInv
  <2>3. ReadsInv'
    BY <1>1, <1>2, <1>5 DEF ReadsInv, Live
  <2>4. QED
    BY <2>1, <2>2, <2>3
\* An item that was through is through.
<1>10. \A i \in 1..Len(call.items) : Through(i) => Through(i)'
  <2>1. ASSUME NEW i \in 1..Len(call.items), Has(buffer, client, call, i),
               ~SkippedIn(client, call.items, i)
        PROVE  Has(buffer', client, call, i)
    <3>1. CASE ~(Live(queue, k) /\ s = "done")
      <4>1. e.kind = "read"
        BY <1>1, <1>2, ElementOfSeq DEF Types, Entries
      <4>2. buffer' = buffer
        BY <1>6, <3>1, <4>1 DEF Live
      <4>3. QED
        BY <2>1, <4>2
    <3>2. CASE Live(queue, k) /\ s = "done"
      <4>1. /\ e.item \in 1..Len(call.items) /\ ~SkippedIn(client, call.items, e.item)
            /\ e.src = call.path /\ buffer' = PlacedAt(buffer, client, call, e.item, e.src)
        BY <1>1, <1>6, <3>2 DEF ReadsInv, Live
      <4>2. CASE e.item = i
        BY <4>1, <4>2, PlacedHas
      <4>3. CASE e.item # i
        <5>1. Callable(client, call.items)
          BY <1>1, TypeFacts
        <5>2. QED
          BY <2>1, <4>1, <4>3, <5>1, PlacedKeeps
      <4>4. QED
        BY <4>2, <4>3
    <3>3. QED
      BY <3>1, <3>2
  <2>2. QED
    BY <1>2, <1>6, <2>1 DEF Through, Signals
<1>11. ASSUME Sound' PROVE MarksInv' /\ WaitInv' /\ ItemsInv'
  <2>1. Sound /\ MarksInv /\ WaitInv /\ ItemsInv
    BY <1>2, <1>11 DEF Sound, Signals, IInv
  <2>2. MarksInv'
    BY <1>2, <1>5, <2>1 DEF MarksInv, Signals
  <2>3. WaitInv'
    <3>1. Len(<<>>) = 0 /\ 1..0 = {}
      BY EmptySeq
    <3>2. queue # <<>>
      BY <3>1
    <3>3. QED
      BY <1>2, <2>1, <3>2 DEF WaitInv, Signals
  <2>4. ASSUME NEW i \in 1..at, pc \in Busy, InBatch(i), Underway(i)
        PROVE  Through(i)' \/ (InBatch(i)' /\ Underway(i)')
    <3>1. InBatch(i)'
      BY <1>2, <2>4 DEF InBatch
    <3>2. /\ Todo(queue, i) => Todo(queue', i) \/ (Live(queue, k) /\ e.item = i)
          /\ Bad(queue, i) => Bad(queue', i)
          /\ Live(queue, k) /\ s = "bad" => Bad(queue', e.item)
          /\ NoDeadMark(queue) => NoDeadMark(queue')
      BY <1>2, <1>4, ChangeKeeps
    <3>3. CASE Live(queue, k) /\ e.item = i
      <4>1. CASE s = "done"
        <5>1. e.src = call.path /\ buffer' = PlacedAt(buffer, client, call, i, e.src)
          BY <1>1, <1>6, <3>3, <4>1 DEF ReadsInv, Live
        <5>2. Has(buffer', client, call, i)
          BY <5>1, PlacedHas
        <5>3. QED
          BY <1>2, <5>2 DEF Through
      <4>2. CASE s = "bad"
        BY <1>2, <1>6, <3>1, <3>2, <3>3, <4>2 DEF Through, Underway, Doomed, Signals, Live
      <4>3. QED
        BY <4>1, <4>2
    <3>4. CASE ~(Live(queue, k) /\ e.item = i)
      BY <1>2, <2>4, <3>1, <3>2, <3>4 DEF Underway, Doomed, Signals
    <3>5. QED
      BY <3>3, <3>4
  <2>5. at \in Nat /\ Len(call.items) \in Nat /\ at <= Len(call.items)
    BY <1>1, TypeFacts
  <2>6. ItemsInv'
    BY <1>2, <1>10, <2>1, <2>4, <2>5 DEF ItemsInv
  <2>7. QED
    BY <2>2, <2>3, <2>6
<1>12. QED
  BY <1>8, <1>9, <1>11 DEF IInv

LEMMA StutterKeeps == ASSUME IInv, UNCHANGED vars PROVE IInv'
<1>1. Types' /\ Unused' /\ NoEvents' /\ FileInv'
  BY DEF IInv, vars, Types, TypeOK, Items, Unused, NoEvents, Signals, FileInv
<1>2. ReadsInv'
  BY DEF IInv, vars, ReadsInv
<1>3. Sound' => MarksInv' /\ WaitInv'
  BY DEF IInv, vars, Sound, MarksInv, WaitInv, Signals
<1>4. Sound' => ItemsInv'
  BY DEF IInv, vars, Sound, Signals, ItemsInv, Through, InBatch, Underway, Doomed
<1>5. QED
  BY <1>1, <1>2, <1>3, <1>4 DEF IInv

LEMMA NextKeeps == IInv /\ [Next]_vars => IInv'
<1> SUFFICES ASSUME IInv, [Next]_vars PROVE IInv'
  OBVIOUS
<1>1. CASE \E c \in Calls[client] : Start(c) \/ CannotInitialize(c)
  BY <1>1, StartKeeps, CannotInitializeKeeps
<1>2. CASE Quiet
  BY <1>2, QuietTypes, QuietShape, QuietItems DEF IInv
<1>3. CASE EnqueueRequest \/ Submit
  BY <1>3, EnqueueKeeps, SubmitKeeps
<1>4. CASE Device
  BY <1>4, RetireStep, ReadKeeps DEF Device
<1>5. CASE UNCHANGED vars
  BY <1>5, StutterKeeps
<1>6. QED
  BY <1>1, <1>2, <1>3, <1>4, <1>5 DEF Next, Step, Quiet

-----------------------------------------------------------------------------
(***************************************************************************)
(* The theorems.                                                           *)
(***************************************************************************)
LEMMA Invariance == Spec => []IInv
BY InitIInv, NextKeeps, PTL DEF Spec

\* The variables have their types: the entries fit in the ring, and those
\* submitted are a prefix of it (dstorage.h, paf_io_directstorage.cpp).
THEOREM TypeCorrect == Spec => []TypeOK
<1>1. IInv => TypeOK
  BY DEF IInv, Types
<1>2. QED
  BY <1>1, Invariance, PTL

\* What is through, of a call that was reported as done.
LEMMA ThroughIs ==
    ASSUME IInv, Sound, pc = "idle", ret = "ok", NEW i \in Positions, ~Skipped(i)
    PROVE  i \in ioFailed \/ IsRead(i) \/ (Signals /\ i \in lost)
<1>1. Through(i) /\ ~SkippedIn(client, call.items, i)
  BY SkippedIs DEF IInv, ItemsInv, Positions, Items
<1>2. ASSUME Has(buffer, client, call, i) PROVE IsRead(i)
  <2>1. IsBuffer(buffer)
    BY DEF IInv, Types, IsBuffer
  <2>2. PlacedAt(buffer, client, call, i, call.path) = buffer
    BY <1>2, <2>1, HasIsPlaced
  <2>3. QED
    BY <2>2, PlacedIs DEF IsRead
<1>3. QED
  BY <1>1, <1>2 DEF Through

\* What the loader reports as loaded is in the buffer, but for the items it
\* flags and for reads that failed before an event.
THEOREM LoadedOrFlaggedAlways == Spec => []LoadedOrFlagged
<1>1. IInv => LoadedOrFlagged
  <2> SUFFICES ASSUME IInv, client = "loader", pc = "idle", ret = "ok",
                      NEW i \in Positions \ ioFailed
               PROVE  IsRead(i) \/ (events /\ i \in lost)
    BY DEF LoadedOrFlagged
  <2>1. Sound
    BY DEF IInv, Types, Sound
  <2>2. CASE Skipped(i)
    <3>1. i \in 1..Len(call.items) /\ call.items \in Seq(Region)
      BY TypeFacts DEF IInv, Positions, Callable
    <3>2. call.items[i].size = 0 /\ Place(client, call.items, i) \in Nat
      <4>1. call.items[i] \in Region
        BY <3>1, ElementOfSeq
      <4>2. QED
        BY <2>2, <4>1, SkippedIs, RegionIs DEF SkippedIn, Place
    <3>3. Has(buffer, client, call, i)
      <4> DEFINE p == Place(client, call.items, i)
      <4>1. p..(p + 0 - 1) = {}
        BY <3>2
      <4> HIDE DEF p
      <4>2. p..(p + call.items[i].size - 1) = {}
        BY <3>2, <4>1
      <4>3. QED
        BY <4>2 DEF Has, p
    <3>4. IsBuffer(buffer)
      BY DEF IInv, Types, IsBuffer
    <3>5. PlacedAt(buffer, client, call, i, call.path) = buffer
      BY <3>3, <3>4, HasIsPlaced
    <3>6. QED
      BY <3>5, PlacedIs DEF IsRead
  <2>3. CASE ~Skipped(i)
    BY <2>1, <2>3, ThroughIs DEF Signals
  <2>4. QED
    BY <2>2, <2>3
<1>2. QED
  BY <1>1, Invariance, PTL

\* When a delta is reported as delivered, or a load into a resource, the bytes
\* that the requests name are in the buffer, and the engine's total is none or
\* the delta's (paf_patch_dstorage.cpp:54-138).
THEOREM PatchDeliveredAlways == Spec => []PatchDelivered
<1>1. IInv => PatchDelivered
  <2> SUFFICES ASSUME IInv, client # "loader", pc = "idle", ret = "ok"
               PROVE  /\ timeouts = 0 \/ (client = "engine" /\ ~events) =>
                            \A i \in Positions : ~Skipped(i) =>
                                IsRead(i) \/ ((events \/ client = "d3d12") /\ i \in lost)
                      /\ total \in {0, Sum}
    BY DEF PatchDelivered
  <2>1. total \in {0, Sum}
    BY TypeFacts DEF IInv, Types
  <2>2. ASSUME timeouts = 0 \/ (client = "engine" /\ ~events), NEW i \in Positions, ~Skipped(i)
        PROVE  IsRead(i) \/ ((events \/ client = "d3d12") /\ i \in lost)
    <3>1. Sound /\ ioFailed = {}
      BY <2>2 DEF IInv, Types, Sound, Signals
    <3>2. QED
      BY <2>2, <3>1, ThroughIs DEF Signals
  <2>3. QED
    BY <2>1, <2>2
<1>2. QED
  BY <1>1, Invariance, PTL
=============================================================================
