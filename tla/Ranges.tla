------------------------------- MODULE Ranges -------------------------------
(***************************************************************************)
(* How libpaf shares n entries among m threads (libpaf_core.c:409-410,     *)
(* paf_extractor_gpu.c:119-120 and 336-337): thread t takes the entries    *)
(* from t*n/m up to and without (t+1)*n/m.  For every n and m the ranges   *)
(* are disjoint, stay inside, and leave no entry out.                      *)
(*   Behind them is what several proofs need: the least of a set of        *)
(* numbers and induction over a set, how sizes are added up, and where     *)
(* the parts of joined sequences lie.                                      *)
(***************************************************************************)
EXTENDS Integers, SequenceTheorems, WellFoundedInduction, TLAPS

\* C's division of non-negative numbers.
LEMMA DivBounds ==
    ASSUME NEW a \in Nat, NEW c \in Nat \ {0}
    PROVE  a \div c \in Nat /\ c * (a \div c) <= a /\ a < c * (a \div c) + c
BY SMT

\* A quotient is at least q exactly when the number is at least q times c.
LEMMA DivAtLeast ==
    ASSUME NEW a \in Nat, NEW c \in Nat \ {0}, NEW q \in Nat
    PROVE  (q <= a \div c) <=> (q * c <= a)
BY SMT

LEMMA ProductMono ==
    ASSUME NEW a \in Nat, NEW b \in Nat, NEW c \in Nat, a <= b
    PROVE  a * c \in Nat /\ b * c \in Nat /\ a * c <= b * c
BY SMT

\* The first entry of range t, counted from 0; that of range t + 1 is the end.
Cut(t, n, m) == (t * n) \div m

\* The cuts are numbers, go up with t, and the last is n.
LEMMA CutsInOrder ==
    ASSUME NEW n \in Nat, NEW m \in Nat \ {0}, NEW t \in Nat, NEW u \in Nat, t <= u
    PROVE  /\ Cut(t, n, m) \in Nat /\ Cut(t, n, m) <= Cut(u, n, m)
           /\ Cut(m, n, m) = n
<1>1. t * n \in Nat /\ u * n \in Nat /\ t * n <= u * n
  BY ProductMono
<1>2. Cut(t, n, m) \in Nat /\ Cut(t, n, m) * m <= t * n /\ Cut(u, n, m) \in Nat
  <2>1. (t * n) \div m \in Nat /\ (u * n) \div m \in Nat
    BY <1>1, DivBounds
  <2>2. QED
    BY <1>1, <2>1, DivAtLeast DEF Cut
<1>3. Cut(t, n, m) <= Cut(u, n, m)
  <2>1. Cut(t, n, m) * m \in Nat
    BY <1>2, ProductMono
  <2>2. Cut(t, n, m) * m <= u * n
    BY <1>1, <1>2, <2>1
  <2>3. QED
    BY <1>1, <1>2, <2>2, DivAtLeast DEF Cut
<1>4. Cut(m, n, m) = n
  BY SMT DEF Cut
<1>5. QED
  BY <1>2, <1>3, <1>4

\* No entry is in two ranges: each ends before the next begins.
LEMMA RangesDisjoint ==
    ASSUME NEW n \in Nat, NEW m \in Nat \ {0}, NEW t \in Nat, NEW u \in Nat, t < u
    PROVE  Cut(t + 1, n, m) <= Cut(u, n, m)
BY CutsInOrder

\* No range reaches beyond the last entry.
LEMMA RangesInside ==
    ASSUME NEW n \in Nat, NEW m \in Nat \ {0}, NEW t \in 0..m - 1
    PROVE  Cut(t, n, m) \in Nat /\ Cut(t + 1, n, m) \in Nat /\ Cut(t + 1, n, m) <= n
<1>1. t \in Nat /\ t + 1 \in Nat /\ m \in Nat /\ t + 1 <= m
  OBVIOUS
<1>2. QED
  BY <1>1, CutsInOrder

\* Every entry is in a range.
LEMMA RangesCover ==
    ASSUME NEW n \in Nat, NEW m \in Nat \ {0}, NEW k \in 0..n - 1
    PROVE  \E t \in 0..m - 1 : Cut(t, n, m) <= k /\ k < Cut(t + 1, n, m)
<1> DEFINE a == (k + 1) * m - 1
           t == a \div n
<1>1. n \in Nat \ {0} /\ k + 1 \in Nat /\ k + 1 <= n /\ m \in Nat /\ m >= 1
  OBVIOUS
<1>2. (k + 1) * m \in Nat /\ n * m \in Nat /\ (k + 1) * m <= n * m
  BY <1>1, ProductMono
<1>3. 1 * m \in Nat /\ 1 * m <= (k + 1) * m
  BY <1>1, ProductMono
<1>4. a \in Nat /\ a < (k + 1) * m
  BY <1>1, <1>2, <1>3
<1>5. t \in Nat /\ n * t <= a /\ a < n * t + n
  BY <1>1, <1>4, DivBounds
<1> HIDE DEF t
<1>6. t * n \in Nat /\ t * n = n * t /\ (t + 1) * n = n * t + n /\ (t + 1) * n \in Nat
  BY <1>1, <1>5, SMT
<1>7. t * n < (k + 1) * m /\ (k + 1) * m <= (t + 1) * n
  BY <1>2, <1>4, <1>5, <1>6
<1>8. Cut(t, n, m) <= k
  <2>1. (t * n) \div m \in Nat
    BY <1>6, DivBounds
  <2>2. k + 1 <= (t * n) \div m <=> (k + 1) * m <= t * n
    BY <1>1, <1>6, DivAtLeast
  <2>3. ~((k + 1) * m <= t * n)
    BY <1>2, <1>6, <1>7
  <2>4. QED
    BY <1>1, <2>1, <2>2, <2>3 DEF Cut
<1>9. k < Cut(t + 1, n, m)
  <2>1. ((t + 1) * n) \div m \in Nat
    BY <1>6, DivBounds
  <2>2. k + 1 <= ((t + 1) * n) \div m
    BY <1>1, <1>6, <1>7, DivAtLeast
  <2>3. QED
    BY <2>1, <2>2 DEF Cut
<1>10. t <= m - 1
  <2>1. SUFFICES ASSUME ~(t <= m - 1) PROVE FALSE
    OBVIOUS
  <2>2. m <= t
    BY <1>1, <1>5, <2>1
  <2>3. m * n <= t * n
    BY <1>1, <1>5, <2>2, ProductMono
  <2>4. m * n = n * m
    BY <1>1, SMT
  <2>5. QED
    BY <1>2, <1>6, <1>7, <2>3, <2>4
<1>11. QED
  BY <1>5, <1>8, <1>9, <1>10

-----------------------------------------------------------------------------
\* Every set of numbers has a smallest one.
LEMMA SmallestOf ==
    ASSUME NEW T, T \subseteq Nat, T # {}
    PROVE  \E m \in T : \A k \in T : m <= k
<1> DEFINE R == OpToRel(<, Nat)
<1>1. IsWellFoundedOn(R, Nat)
  BY NatLessThanWellFounded, Zenon
<1>2. \A x, y \in Nat : x < y => <<x, y>> \in R
  BY DEF OpToRel
<1> HIDE DEF R
<1>3. \E x \in T : \A y \in T : ~ (<<y, x>> \in R)
  BY <1>1, WFMin
<1>4. PICK m \in T : \A k \in T : ~ (<<k, m>> \in R)
  BY <1>3
<1>5. ASSUME NEW k \in T PROVE m <= k
  <2>1. m \in Nat /\ k \in Nat /\ ~ (k < m)
    BY <1>2, <1>4
  <2>2. QED
    BY <2>1
<1>6. QED
  BY <1>5

\* Induction over the numbers, for a set of them.
LEMMA NatInductionOn ==
    ASSUME NEW S, 0 \in S, \A k \in Nat : k \in S => k + 1 \in S
    PROVE  \A k \in Nat : k \in S
<1>1. SUFFICES ASSUME Nat \ S # {} PROVE FALSE
  OBVIOUS
<1>2. PICK m \in Nat \ S : \A k \in Nat \ S : m <= k
  BY <1>1, SmallestOf
<1>3. m # 0 /\ m - 1 \in Nat
  BY <1>2
<1>4. m - 1 \in S
  <2>1. m - 1 \in Nat \ S => m <= m - 1
    BY <1>2
  <2>2. QED
    BY <1>2, <1>3, <2>1
<1>5. QED
  BY <1>2, <1>3, <1>4

\* The recursive sum over an interval is the function its equation describes.
Sums(f, a, first, last) ==
    f = [k \in first - 1 .. last |-> IF k < first THEN 0 ELSE f[k - 1] + a[k].size]

LEMMA SumExists ==
    ASSUME NEW a, NEW first \in Nat \ {0}
    PROVE  \A m \in Nat : \E f : Sums(f, a, first, first - 1 + m)
<1> DEFINE S == {m \in Nat : \E f : Sums(f, a, first, first - 1 + m)}
<1>1. 0 \in S
  <2> DEFINE g == [k \in first - 1 .. first - 1 |-> 0]
  <2>1. Sums(g, a, first, first - 1 + 0)
    BY DEF Sums
  <2>2. QED
    BY <2>1
<1>2. ASSUME NEW m \in Nat, m \in S PROVE m + 1 \in S
  <2>1. PICK f : Sums(f, a, first, first - 1 + m)
    BY <1>2
  <2> DEFINE g == [k \in first - 1 .. first + m |->
                      IF k = first + m THEN f[first + m - 1] + a[k].size ELSE f[k]]
  <2>2. ASSUME NEW k \in first - 1 .. first + m
        PROVE  g[k] = IF k < first THEN 0 ELSE g[k - 1] + a[k].size
    <3>1. CASE k = first + m
      BY <3>1
    <3>2. CASE k # first + m
      BY <2>1, <3>2 DEF Sums
    <3>3. QED
      BY <3>1, <3>2
  <2>3. Sums(g, a, first, first + m)
    BY <2>2 DEF Sums
  <2>4. first - 1 + (m + 1) = first + m
    OBVIOUS
  <2> HIDE DEF g
  <2>5. Sums(g, a, first, first - 1 + (m + 1))
    BY <2>3, <2>4
  <2>6. QED
    BY <2>5
<1> HIDE DEF S
<1>3. \A m \in Nat : m \in S
  BY <1>1, <1>2, NatInductionOn
<1>4. QED
  BY <1>3 DEF S

\* Sums of numbers are numbers.
LEMMA SumIsNat ==
    ASSUME NEW a, NEW first \in Nat \ {0}, NEW last \in Nat,
           \A k \in first .. last : a[k].size \in Nat,
           NEW f, Sums(f, a, first, last)
    PROVE  \A k \in first - 1 .. last : f[k] \in Nat
<1> DEFINE S == {m \in Nat : first - 1 + m <= last => f[first - 1 + m] \in Nat}
<1>1. 0 \in S
  BY DEF Sums
<1>2. ASSUME NEW m \in Nat, m \in S PROVE m + 1 \in S
  <2>1. SUFFICES ASSUME first + m <= last PROVE f[first + m] \in Nat
    OBVIOUS
  <2>2. f[first + m] = f[first + m - 1] + a[first + m].size
    BY <2>1 DEF Sums
  <2>3. f[first - 1 + m] \in Nat /\ first - 1 + m = first + m - 1
    BY <1>2, <2>1
  <2>4. a[first + m].size \in Nat
    BY <2>1
  <2>5. QED
    BY <2>2, <2>3, <2>4
<1>3. \A m \in Nat : m \in S
  <2> HIDE DEF S
  <2>1. QED
    BY <1>1, <1>2, NatInductionOn
<1>4. ASSUME NEW k \in first - 1 .. last PROVE f[k] \in Nat
  <2>1. k - (first - 1) \in Nat /\ first - 1 + (k - (first - 1)) = k
    OBVIOUS
  <2>2. k - (first - 1) \in S
    BY <1>3, <2>1
  <2>3. QED
    BY <2>1, <2>2
<1>5. QED
  BY <1>4

-----------------------------------------------------------------------------
(***************************************************************************)
(* Sequences put together from parts, and what is read at a place of them. *)
(***************************************************************************)
\* The elements of s are those of f behind the first o.
Sits(f, o, s) == o + Len(s) <= Len(f) /\ \A i \in 1..Len(s) : f[o + i] = s[i]

\* What is at a place is what is read there.
LEMMA AtIsRead ==
    ASSUME NEW S, NEW f, NEW s \in Seq(S), NEW o \in Nat, \A i \in 1..Len(s) : f[o + i] = s[i]
    PROVE  SubSeq(f, o + 1, o + Len(s)) = s
<1>1. Len(s) \in Nat /\ \A i \in 1..Len(s) : s[i] \in S
  OBVIOUS
<1>2. \A i \in 1..Len(s) : f[o + i] = s[i]
  OBVIOUS
<1>3. \A i \in (o + 1)..(o + Len(s)) : f[i] \in S
  <2>1. SUFFICES ASSUME NEW i \in (o + 1)..(o + Len(s)) PROVE f[i] \in S
    OBVIOUS
  <2>2. i - o \in 1..Len(s) /\ o + (i - o) = i
    BY <1>1
  <2>3. f[o + (i - o)] = s[i - o]
    BY <1>2, <2>2
  <2>4. QED
    BY <1>1, <2>2, <2>3
<1> DEFINE t == SubSeq(f, o + 1, o + Len(s))
<1>4. /\ t \in Seq(S)
      /\ Len(t) = IF o + 1 <= o + Len(s) THEN o + Len(s) - (o + 1) + 1 ELSE 0
      /\ \A i \in 1..(o + Len(s) - (o + 1) + 1) : t[i] = f[o + 1 + i - 1]
  BY <1>1, <1>3, SubSeqProperties
<1> HIDE DEF t
<1>5. Len(t) = Len(s)
  BY <1>1, <1>4
<1>6. \A i \in 1..Len(s) : t[i] = s[i]
  <2>1. SUFFICES ASSUME NEW i \in 1..Len(s) PROVE t[i] = s[i]
    OBVIOUS
  <2>2. i \in 1..(o + Len(s) - (o + 1) + 1) /\ o + 1 + i - 1 = o + i
    BY <1>1
  <2>3. QED
    BY <1>2, <1>4, <2>2
<1>7. QED
  BY <1>4, <1>5, <1>6, SeqEqual DEF t

\* What is at a place of a sequence is there in a longer one, and what is
\* put behind a sequence is behind it.
LEMMA AtStays ==
    ASSUME NEW S, NEW f \in Seq(S), NEW g \in Seq(S), NEW s, Len(s) \in Nat, NEW o \in Nat,
           Sits(f, o, s)
    PROVE  Sits(f \o g, o, s)
<1>1. Len(f) \in Nat /\ Len(g) \in Nat /\ o + Len(s) <= Len(f)
  BY DEF Sits
<1>2. Len(f \o g) = Len(f) + Len(g)
      /\ \A i \in 1..Len(f) + Len(g) : (f \o g)[i] = IF i <= Len(f) THEN f[i] ELSE g[i - Len(f)]
  BY ConcatProperties
<1>3. ASSUME NEW i \in 1..Len(s) PROVE (f \o g)[o + i] = s[i]
  <2>1. o + i \in 1..Len(f) + Len(g) /\ o + i <= Len(f)
    BY <1>1
  <2>2. f[o + i] = s[i]
    BY DEF Sits
  <2>3. QED
    BY <1>2, <2>1, <2>2
<1>4. QED
  BY <1>1, <1>2, <1>3 DEF Sits

LEMMA AtEnd ==
    ASSUME NEW S, NEW f \in Seq(S), NEW s \in Seq(S)
    PROVE  Sits(f \o s, Len(f), s)
<1>1. Len(f) \in Nat /\ Len(s) \in Nat
  OBVIOUS
<1>2. Len(f \o s) = Len(f) + Len(s)
      /\ \A i \in 1..Len(f) + Len(s) : (f \o s)[i] = IF i <= Len(f) THEN f[i] ELSE s[i - Len(f)]
  BY ConcatProperties
<1>3. ASSUME NEW i \in 1..Len(s) PROVE (f \o s)[Len(f) + i] = s[i]
  <2>1. Len(f) + i \in 1..Len(f) + Len(s) /\ ~(Len(f) + i <= Len(f)) /\ Len(f) + i - Len(f) = i
    BY <1>1
  <2>2. QED
    BY <1>2, <2>1
<1>4. QED
  BY <1>1, <1>2, <1>3 DEF Sits

\* A place in the second part of a sequence.
LEMMA AtBehind ==
    ASSUME NEW S, NEW f \in Seq(S), NEW g \in Seq(S), NEW s, Len(s) \in Nat, NEW o \in Nat,
           Sits(g, o, s)
    PROVE  Sits(f \o g, Len(f) + o, s)
<1>1. Len(f) \in Nat /\ Len(g) \in Nat /\ o + Len(s) <= Len(g)
  BY DEF Sits
<1>2. Len(f \o g) = Len(f) + Len(g)
      /\ \A i \in 1..Len(f) + Len(g) : (f \o g)[i] = IF i <= Len(f) THEN f[i] ELSE g[i - Len(f)]
  BY ConcatProperties
<1>3. ASSUME NEW i \in 1..Len(s) PROVE (f \o g)[Len(f) + o + i] = s[i]
  <2>1. /\ Len(f) + o + i \in 1..Len(f) + Len(g) /\ ~(Len(f) + o + i <= Len(f))
        /\ Len(f) + o + i - Len(f) = o + i
    BY <1>1
  <2>2. g[o + i] = s[i]
    BY DEF Sits
  <2>3. QED
    BY <1>2, <2>1, <2>2
<1>4. QED
  BY <1>1, <1>2, <1>3, SMTT(20) DEF Sits

\* A reader that asks for as many elements as were put at a place, or for
\* fewer at the end of the sequence, gets what was put there.
LEMMA AtIsGot ==
    ASSUME NEW S, NEW T, NEW f \in Seq(T), NEW s \in Seq(S), NEW o \in Nat, Sits(f, o, s)
    PROVE  SubSeq(f, o + 1, IF o + Len(s) < Len(f) THEN o + Len(s) ELSE Len(f)) = s
<1>1. Len(f) \in Nat /\ Len(s) \in Nat /\ o + Len(s) <= Len(f)
  BY LenProperties DEF Sits
<1>2. \A i \in 1..Len(s) : f[o + i] = s[i]
  BY DEF Sits
<1>3. SubSeq(f, o + 1, o + Len(s)) = s
  BY <1>2, AtIsRead
<1>4. (IF o + Len(s) < Len(f) THEN o + Len(s) ELSE Len(f)) = o + Len(s)
  BY <1>1
<1>5. QED
  BY <1>3, <1>4

\* The layout of an archive: header, data, index and paths, each at a place
\* given by the lengths of the parts before it.
LaidOut(A, H, D, I, P) ==
    /\ Len(A) > 0 /\ A[1] = H
    /\ Len(A) = 1 + Len(D) + Len(I) + Len(P)
    /\ Sits(A, 1 + Len(D), I)
    /\ \A o \in Nat : \A s : Len(s) \in Nat /\ Sits(P, o, s) =>
           Sits(A, 1 + Len(D) + Len(I) + o, s)
    /\ \A o \in Nat : \A s : Len(s) \in Nat /\ Sits(D, o, s) => Sits(A, 1 + o, s)

LEMMA Layout ==
    ASSUME NEW T, NEW H \in T, NEW D \in Seq(T), NEW I \in Seq(T), NEW P \in Seq(T),
           NEW A, A = <<H>> \o D \o I \o P
    PROVE  A \in Seq(T) /\ LaidOut(A, H, D, I, P)
<1> DEFINE d == Len(D)
           n == Len(I)
           h == <<H>>
           X == h \o D
           Y == X \o I
<1>1. h \in Seq(T) /\ Len(h) = 1 /\ h[1] = H
  OBVIOUS
<1>2. d \in Nat /\ n \in Nat /\ Len(P) \in Nat
  BY LenProperties
<1> HIDE DEF h
<1>3. X \in Seq(T) /\ Len(X) = 1 + d
  BY <1>1, ConcatProperties, ZenonT(30)
<1>4. Sits(X, 0, h)
  <2>1. Sits(h, 0, h)
    BY <1>1 DEF Sits
  <2>2. QED
    BY <1>1, <2>1, AtStays
<1> HIDE DEF X, d, n
<1>5. Y \in Seq(T) /\ Len(Y) = 1 + d + n
  <2>1. Y \in Seq(T) /\ Len(Y) = Len(X) + Len(I)
    BY <1>1, <1>3, ConcatProperties
  <2>2. QED
    BY <1>3, <2>1 DEF n
<1>6. Sits(Y, 0, h)
  BY <1>1, <1>3, <1>4, AtStays
<1>7. Sits(Y, 1 + d, I)
  BY <1>1, <1>3, AtEnd
<1>a. A = Y \o P
  BY DEF h, X
<1> HIDE DEF Y
<1>8. A \in Seq(T) /\ Sits(A, 0, h) /\ Len(A) = Len(Y) + Len(P) /\ Len(A) \in Nat
  <2>1. A \in Seq(T) /\ Len(A) = Len(Y) + Len(P)
    BY <1>5, <1>a, ConcatProperties
  <2>2. Len(A) \in Nat
    BY <2>1, LenProperties
  <2>3. Sits(A, 0, h)
    <3>1. Len(h) \in Nat /\ 0 \in Nat
      BY <1>1
    <3>2. Sits(Y \o P, 0, h)
      BY <1>5, <1>6, <3>1, AtStays
    <3>3. QED
      BY <1>a, <3>2
  <2>4. QED
    BY <2>1, <2>2, <2>3
<1>9. Sits(A, 1 + d, I)
  <2>1. 1 + d \in Nat /\ Len(I) \in Nat
    BY <1>2 DEF n
  <2>2. QED
    BY <1>1, <1>5, <1>7, <1>a, <2>1, AtStays
<1>10. ASSUME NEW o \in Nat, NEW s, Len(s) \in Nat, Sits(P, o, s) PROVE Sits(A, 1 + d + n + o, s)
  <2>1. Len(s) \in Nat
    BY <1>10
  <2>2. Sits(A, Len(Y) + o, s)
    BY <1>1, <1>5, <1>10, <1>a, <2>1, AtBehind
  <2>3. QED
    BY <1>5, <2>2
<1>11. ASSUME NEW o \in Nat, NEW s, Len(s) \in Nat, Sits(D, o, s) PROVE Sits(A, 1 + o, s)
  <2>1. Len(s) \in Nat /\ 1 + o \in Nat
    BY <1>11
  <2>2. Sits(X, Len(h) + o, s)
    BY <1>1, <1>11, <2>1, AtBehind DEF X
  <2>3. Sits(X, 1 + o, s)
    BY <1>1, <2>2
  <2>4. Sits(Y, 1 + o, s)
    BY <1>1, <1>3, <2>1, <2>3, AtStays DEF Y
  <2>5. QED
    BY <1>1, <1>5, <1>a, <2>1, <2>4, AtStays
<1>12. Len(A) > 0 /\ A[1] = H
  <2>1. 0 + Len(h) <= Len(A) /\ \A i \in 1..Len(h) : A[0 + i] = h[i]
    BY <1>8 DEF Sits
  <2>2. 1 \in 1..Len(h) /\ 0 + 1 = 1
    BY <1>1
  <2>3. A[0 + 1] = h[1]
    BY <2>1, <2>2
  <2>4. QED
    BY <1>1, <1>8, <2>1, <2>2, <2>3
<1>13. Len(A) = 1 + d + n + Len(P)
  BY <1>2, <1>5, <1>8
<1>14. QED
  BY <1>8, <1>9, <1>10, <1>11, <1>12, <1>13 DEF d, n, LaidOut
=============================================================================
