-------------------------- MODULE RangedReadProofs --------------------------
(***************************************************************************)
(* Proofs about byte ranges and the reads over them, for any offsets,      *)
(* sizes and chunks.                                                       *)
(***************************************************************************)
EXTENDS RangedRead, WellFoundedInduction, TLAPS

(* Induction, as a statement about sets of numbers.                        *)

LEMMA LeastNumber ==
  ASSUME NEW T \in SUBSET Nat, T # {}
  PROVE  \E x \in T : \A y \in T : x <= y
<1> DEFINE R == {p \in Nat \X Nat : p[1] < p[2]}
<1>1. IsWellFoundedOn(R, Nat)
  BY NatLessThanWellFounded DEF OpToRel
<1>2. PICK x \in T : \A y \in T : <<y, x>> \notin R
  <2> HIDE DEF R
  <2> QED
    BY <1>1, WFMin
<1>3. ASSUME NEW y \in T PROVE x <= y
  <2>1. <<y, x>> \in Nat \X Nat /\ <<y, x>>[1] = y /\ <<y, x>>[2] = x
    OBVIOUS
  <2>2. ~(y < x)
    BY <1>2, <2>1
  <2> QED
    BY <2>2
<1> QED
  BY <1>3

LEMMA Induction ==
  ASSUME NEW T \in SUBSET Nat, 0 \in T, \A n \in T : n + 1 \in T
  PROVE  T = Nat
<1> SUFFICES ASSUME Nat \ T # {} PROVE FALSE
  OBVIOUS
<1>1. PICK x \in Nat \ T : \A y \in Nat \ T : x <= y
  BY LeastNumber
<1>2. x # 0 /\ x - 1 \in Nat /\ x - 1 \in T
  BY <1>1
<1> QED
  BY <1>1, <1>2

(* As above, up to a bound. *)
LEMMA InductionTo ==
  ASSUME NEW n \in Nat, NEW T, 0 \in T, \A k \in 0 .. n - 1 : k \in T => k + 1 \in T
  PROVE  0 .. n \subseteq T
<1> DEFINE U == {k \in Nat : k <= n => k \in T}
<1>1. \A k \in U : k + 1 \in U
  OBVIOUS
<1>2. U = Nat
  <2>1. U \in SUBSET Nat /\ 0 \in U
    OBVIOUS
  <2> HIDE DEF U
  <2> QED
    BY <1>1, <2>1, Induction
<1> QED
  BY <1>2

LEMMA MaxIs ==
  ASSUME NEW S \in SUBSET Nat, NEW m \in S, \A x \in S : x <= m
  PROVE  Max(S) = m
<1>1. \A x \in S : x >= m => x = m
  OBVIOUS
<1>2. Max(S) \in S /\ \A y \in S : Max(S) >= y
  BY DEF Max
<1> QED
  BY <1>1, <1>2

LEMMA MaxIn ==
  ASSUME NEW n \in Nat, NEW S \in SUBSET (1 .. n), S # {}
  PROVE  Max(S) \in S
<1> DEFINE T == {m \in Nat : \A x \in S : x <= m}
<1>1. PICK m \in T : \A y \in T : m <= y
  <2>1. T # {} /\ T \in SUBSET Nat
    BY n \in T
  <2> HIDE DEF T
  <2> QED
    BY <2>1, LeastNumber
<1>2. m \in S
  <2> SUFFICES ASSUME m \notin S PROVE FALSE
    OBVIOUS
  <2>0. \A x \in S : x \in 1 .. n /\ x <= m /\ x # m
    OBVIOUS
  <2>1. m \in Nat /\ m # 0 /\ \A x \in S : x <= m - 1
    <3>1. m \in Nat /\ \E x \in S : TRUE
      OBVIOUS
    <3> HIDE DEF T
    <3> QED
      BY <2>0, <3>1
  <2>2. m - 1 \in T
    BY <1>1, <2>1
  <2> QED
    BY <1>1, <2>2
<1>3. S \in SUBSET Nat
  OBVIOUS
<1> QED
  BY <1>1, <1>2, <1>3, MaxIs

LEMMA MinIs ==
  ASSUME NEW S \in SUBSET Nat, NEW m \in S, \A x \in S : m <= x
  PROVE  Min(S) = m
<1>1. \A x \in S : x <= m => x = m
  OBVIOUS
<1>2. Min(S) \in S /\ \A y \in S : Min(S) <= y
  BY DEF Min
<1> QED
  BY <1>1, <1>2

LEMMA OfTwo ==
  ASSUME NEW a \in Nat, NEW b \in Nat
  PROVE  /\ Max({a, b}) = IF a >= b THEN a ELSE b
         /\ Min({a, b}) = IF a <= b THEN a ELSE b
<1>1. CASE a <= b
  BY <1>1, MaxIs, MinIs
<1>2. CASE b <= a
  BY <1>2, MaxIs, MinIs
<1> QED
  BY <1>1, <1>2
-----------------------------------------------------------------------------
(* Folds.                                                                  *)

(* The recursive function by which a fold is defined.                      *)
Folds(it, n, Acc, base, step) ==
  /\ it \in [SUBSET (1 .. n) -> Acc]
  /\ \A s \in SUBSET (1 .. n) :
       it[s] = IF s = {} THEN base ELSE step[<<Max(s), it[s \ {Max(s)}]>>]

LEMMA FoldExists ==
  ASSUME NEW Acc, NEW n \in Nat, NEW base \in Acc, NEW step \in [(1 .. n) \X Acc -> Acc]
  PROVE  \E it : Folds(it, n, Acc, base, step)
<1> DEFINE Is(it, k) == Folds(it, k, Acc, base, step)
           T == {k \in 0 .. n : \E it : Is(it, k)}
<1>1. 0 \in T
  <2> DEFINE it == [s \in SUBSET (1 .. 0) |-> base]
  <2>0. \A s \in SUBSET (1 .. 0) : s = {} /\ it[s] = base
    OBVIOUS
  <2>1. Is(it, 0)
    BY <2>0 DEF Folds
  <2> HIDE DEF Is, it
  <2> QED
    BY <2>1
<1>2. ASSUME NEW k \in 0 .. n - 1, k \in T PROVE k + 1 \in T
  <2>1. PICK it : Is(it, k)
    BY <1>2
  <2> DEFINE next == [s \in SUBSET (1 .. k + 1) |->
                        IF k + 1 \in s THEN step[<<k + 1, it[s \ {k + 1}]>>] ELSE it[s]]
  <2>2. ASSUME NEW s \in SUBSET (1 .. k + 1), k + 1 \in s
        PROVE  /\ s \ {k + 1} \in SUBSET (1 .. k) /\ s \ {k + 1} \in SUBSET (1 .. k + 1)
               /\ k + 1 \notin s \ {k + 1}
               /\ Max(s) = k + 1 /\ it[s \ {k + 1}] \in Acc
    <3>1. s \in SUBSET Nat /\ \A x \in s : x <= k + 1
      OBVIOUS
    <3>2. Max(s) = k + 1
      BY <2>2, <3>1, MaxIs
    <3>3. s \ {k + 1} \in SUBSET (1 .. k)
      BY <1>2
    <3> QED
      BY <2>1, <3>2, <3>3 DEF Folds
  <2>3. ASSUME NEW s \in SUBSET (1 .. k + 1), k + 1 \notin s
        PROVE  s \in SUBSET (1 .. k) /\ \A x : s \ {x} \in SUBSET (1 .. k)
    <3>1. \A x \in 1 .. k + 1 : x # k + 1 => x \in 1 .. k
      BY <1>2
    <3>2. s \in SUBSET (1 .. k)
      BY <2>3, <3>1
    <3> QED
      BY <3>2
  <2>4. next \in [SUBSET (1 .. k + 1) -> Acc]
    <3>1. ASSUME NEW s \in SUBSET (1 .. k + 1)
          PROVE  (IF k + 1 \in s THEN step[<<k + 1, it[s \ {k + 1}]>>] ELSE it[s]) \in Acc
      BY <1>2, <2>1, <2>2, <2>3 DEF Folds
    <3> HIDE DEF Is
    <3> QED
      BY <3>1
  <2>5. ASSUME NEW s \in SUBSET (1 .. k + 1)
        PROVE  next[s] = IF s = {} THEN base ELSE step[<<Max(s), next[s \ {Max(s)}]>>]
    <3>1. CASE k + 1 \in s
      BY <2>2, <3>1
    <3>2. CASE k + 1 \notin s
      <4>1. next[s] = it[s] /\ next[s \ {Max(s)}] = it[s \ {Max(s)}]
        BY <2>3, <3>2
      <4>2. it[s] = IF s = {} THEN base ELSE step[<<Max(s), it[s \ {Max(s)}]>>]
        BY <2>1, <2>3, <3>2 DEF Folds
      <4> QED
        BY <4>1, <4>2
    <3> QED
      BY <3>1, <3>2
  <2> HIDE DEF next
  <2>6. Is(next, k + 1)
    BY <2>4, <2>5 DEF Folds
  <2> HIDE DEF Is
  <2> QED
    BY <2>6
<1>3. n \in T
  <2> HIDE DEF T
  <2>1. 0 .. n \subseteq T
    BY <1>1, <1>2, InductionTo
  <2> QED
    BY <2>1
<1> QED
  BY <1>3

LEMMA PrefixFacts ==
  ASSUME NEW n \in Nat, NEW k \in 1 .. n
  PROVE  /\ 1 .. k \in SUBSET (1 .. n) /\ 1 .. k # {} /\ Max(1 .. k) = k
         /\ (1 .. k) \ {k} = 1 .. k - 1
<1>1. 1 .. k \in SUBSET Nat /\ k \in 1 .. k /\ \A x \in 1 .. k : x <= k
  OBVIOUS
<1>2. Max(1 .. k) = k
  BY <1>1, MaxIs
<1> QED
  BY <1>1, <1>2

Ranges == [start : Nat, end : Nat]

Merging == [start : Nat, end : Nat, kept : Seq(Ranges)]

Scanning == [cursor : Nat, done : BOOLEAN, out : Seq(Ranges)]

LEMMA AbsorbTyped ==
  ASSUME NEW acc \in Merging, NEW r \in Ranges
  PROVE  Absorb(acc, r) \in Merging
<1>1. /\ acc.start \in Nat /\ acc.end \in Nat /\ acc.kept \in Seq(Ranges)
      /\ r.start \in Nat /\ r.end \in Nat
  BY DEF Merging, Ranges
<1>2. Append(acc.kept, r) \in Seq(Ranges)
  BY <1>1
<1>3. Min({acc.start, r.start}) \in Nat /\ Max({acc.end, r.end}) \in Nat
  BY <1>1, OfTwo
<1>4. [acc EXCEPT !.kept = Append(acc.kept, r)] \in Merging
  BY <1>2 DEF Merging
<1>5. [acc EXCEPT !.start = Min({acc.start, r.start}), !.end = Max({acc.end, r.end})] \in Merging
  BY <1>3 DEF Merging
<1> QED
  BY <1>4, <1>5 DEF Absorb

(* insert's loop, turn by turn. *)
MergeRun(a, ranges, new) ==
  /\ a[0] = [start |-> new.start, end |-> new.end, kept |-> <<>>]
  /\ \A k \in 1 .. Len(ranges) : a[k] = Absorb(a[k - 1], ranges[k])
  /\ a[Len(ranges)] = Merge(ranges, new)

LEMMA MergeRuns ==
  ASSUME NEW ranges \in Seq(Ranges), NEW new \in Ranges
  PROVE  \E a : MergeRun(a, ranges, new)
<1> DEFINE n == Len(ranges)
           base == [start |-> new.start, end |-> new.end, kept |-> <<>>]
           step == [p \in (1 .. n) \X Merging |-> Absorb(p[2], ranges[p[1]])]
           Is(it) == it = [s \in SUBSET (DOMAIN ranges) |->
                             IF s = {} THEN base
                             ELSE LET x == Max(s) IN Absorb(it[s \ {x}], ranges[x])]
           it == CHOOSE f : Is(f)
<1>1. n \in Nat /\ DOMAIN ranges = 1 .. n /\ \A k \in 1 .. n : ranges[k] \in Ranges
  OBVIOUS
<1>2. base \in Merging
  BY DEF Merging, Ranges
<1>3. step \in [(1 .. n) \X Merging -> Merging]
  BY <1>1, AbsorbTyped
<1>4. \E f : Is(f)
  <2>1. PICK f : Folds(f, n, Merging, base, step)
    <3> HIDE DEF n, base, step
    <3> QED
      BY <1>1, <1>2, <1>3, FoldExists
  <2>2. ASSUME NEW s \in SUBSET (1 .. n), s # {}
        PROVE  step[<<Max(s), f[s \ {Max(s)}]>>] = Absorb(f[s \ {Max(s)}], ranges[Max(s)])
    <3>1. Max(s) \in 1 .. n /\ s \ {Max(s)} \in SUBSET (1 .. n)
      BY <1>1, <2>2, MaxIn
    <3>2. <<Max(s), f[s \ {Max(s)}]>> \in (1 .. n) \X Merging
      BY <2>1, <3>1 DEF Folds
    <3> QED
      BY <3>2
  <2>3. Is(f)
    <3> HIDE DEF n, base, step
    <3> QED
      BY <1>1, <2>1, <2>2 DEF Folds
  <2> HIDE DEF Is
  <2> QED
    BY <2>3
<1>5. Is(it)
  <2> HIDE DEF Is
  <2> QED
    BY <1>4
<1>6. Merge(ranges, new) = it[DOMAIN ranges]
  BY DEF Merge, FoldLeft, MapThenFoldSet
<1> DEFINE a == [k \in 0 .. n |-> it[1 .. k]]
<1>7. a[0] = base /\ a[n] = Merge(ranges, new)
  <2>1. 1 .. 0 = {} /\ {} \in SUBSET (1 .. n) /\ it[{}] = base
    <3> HIDE DEF it
    <3> QED
      BY <1>1, <1>5
  <2> HIDE DEF it, base
  <2> QED
    BY <1>1, <1>6, <2>1
<1>8. ASSUME NEW k \in 1 .. n PROVE a[k] = Absorb(a[k - 1], ranges[k])
  <2>1. it[1 .. k] = Absorb(it[(1 .. k) \ {k}], ranges[k])
    <3>1. 1 .. k \in SUBSET (DOMAIN ranges) /\ 1 .. k # {} /\ Max(1 .. k) = k
      BY <1>1, PrefixFacts
    <3> HIDE DEF it
    <3> QED
      BY <1>5, <3>1
  <2>2. (1 .. k) \ {k} = 1 .. k - 1 /\ k - 1 \in 0 .. n
    BY <1>1, PrefixFacts
  <2>3. a[k] = it[1 .. k] /\ a[k - 1] = it[1 .. k - 1]
    <3> HIDE DEF it
    <3> QED
      BY <1>1, <2>2
  <2> QED
    BY <2>1, <2>2, <2>3
<1>9. MergeRun(a, ranges, new)
  <2> HIDE DEF a, n, base
  <2> QED
    BY <1>7, <1>8 DEF n, base, MergeRun
<1> QED
  BY <1>9

LEMMA ScanTyped ==
  ASSUME NEW acc \in Scanning, NEW r \in Ranges, NEW end \in Nat
  PROVE  Scan(acc, r, end) \in Scanning
<1>1. /\ acc.cursor \in Nat /\ acc.done \in BOOLEAN /\ acc.out \in Seq(Ranges)
      /\ r.start \in Nat /\ r.end \in Nat
  BY DEF Scanning, Ranges
<1>2. Append(acc.out, Span(acc.cursor, Min({r.start, end}))) \in Seq(Ranges)
  <2>1. Min({r.start, end}) \in Nat
    BY <1>1, OfTwo
  <2>2. Span(acc.cursor, Min({r.start, end})) \in Ranges
    BY <1>1, <2>1 DEF Span, Ranges
  <2> QED
    BY <1>1, <2>2
<1>3. [acc EXCEPT !.done = TRUE] \in Scanning
  BY DEF Scanning
<1>4. ASSUME NEW out \in Seq(Ranges)
      PROVE  [cursor |-> r.end, done |-> r.end >= end, out |-> out] \in Scanning
  BY <1>1 DEF Scanning
<1> QED
  BY <1>1, <1>2, <1>3, <1>4 DEF Scan

(* missing's loop, turn by turn. *)
GapsRun(a, ranges, offset, end) ==
  /\ a[0] = [cursor |-> offset, done |-> FALSE, out |-> <<>>]
  /\ \A k \in 1 .. Len(ranges) : a[k] = Scan(a[k - 1], ranges[k], end)
  /\ a[Len(ranges)] = Gaps(ranges, offset, end)

LEMMA GapsRuns ==
  ASSUME NEW ranges \in Seq(Ranges), NEW offset \in Nat, NEW end \in Nat
  PROVE  \E a : GapsRun(a, ranges, offset, end)
<1> DEFINE n == Len(ranges)
           base == [cursor |-> offset, done |-> FALSE, out |-> <<>>]
           step == [p \in (1 .. n) \X Scanning |-> Scan(p[2], ranges[p[1]], end)]
           Is(it) == it = [s \in SUBSET (DOMAIN ranges) |->
                             IF s = {} THEN base
                             ELSE LET x == Max(s) IN Scan(it[s \ {x}], ranges[x], end)]
           it == CHOOSE f : Is(f)
<1>1. n \in Nat /\ DOMAIN ranges = 1 .. n /\ \A k \in 1 .. n : ranges[k] \in Ranges
  OBVIOUS
<1>2. base \in Scanning
  BY DEF Scanning
<1>3. step \in [(1 .. n) \X Scanning -> Scanning]
  BY <1>1, ScanTyped
<1>4. \E f : Is(f)
  <2>1. PICK f : Folds(f, n, Scanning, base, step)
    <3> HIDE DEF n, base, step
    <3> QED
      BY <1>1, <1>2, <1>3, FoldExists
  <2>2. ASSUME NEW s \in SUBSET (1 .. n), s # {}
        PROVE  step[<<Max(s), f[s \ {Max(s)}]>>] = Scan(f[s \ {Max(s)}], ranges[Max(s)], end)
    <3>1. Max(s) \in 1 .. n /\ s \ {Max(s)} \in SUBSET (1 .. n)
      BY <1>1, <2>2, MaxIn
    <3>2. <<Max(s), f[s \ {Max(s)}]>> \in (1 .. n) \X Scanning
      BY <2>1, <3>1 DEF Folds
    <3> QED
      BY <3>2
  <2>3. Is(f)
    <3> HIDE DEF n, base, step
    <3> QED
      BY <1>1, <2>1, <2>2 DEF Folds
  <2> HIDE DEF Is
  <2> QED
    BY <2>3
<1>5. Is(it)
  <2> HIDE DEF Is
  <2> QED
    BY <1>4
<1>6. Gaps(ranges, offset, end) = it[DOMAIN ranges]
  BY DEF Gaps, FoldLeft, MapThenFoldSet
<1> DEFINE a == [k \in 0 .. n |-> it[1 .. k]]
<1>7. a[0] = base /\ a[n] = Gaps(ranges, offset, end)
  <2>1. 1 .. 0 = {} /\ {} \in SUBSET (1 .. n) /\ it[{}] = base
    <3> HIDE DEF it
    <3> QED
      BY <1>1, <1>5
  <2> HIDE DEF it, base
  <2> QED
    BY <1>1, <1>6, <2>1
<1>8. ASSUME NEW k \in 1 .. n PROVE a[k] = Scan(a[k - 1], ranges[k], end)
  <2>1. it[1 .. k] = Scan(it[(1 .. k) \ {k}], ranges[k], end)
    <3>1. 1 .. k \in SUBSET (DOMAIN ranges) /\ 1 .. k # {} /\ Max(1 .. k) = k
      BY <1>1, PrefixFacts
    <3> HIDE DEF it
    <3> QED
      BY <1>5, <3>1
  <2>2. (1 .. k) \ {k} = 1 .. k - 1 /\ k - 1 \in 0 .. n
    BY <1>1, PrefixFacts
  <2>3. a[k] = it[1 .. k] /\ a[k - 1] = it[1 .. k - 1]
    <3> HIDE DEF it
    <3> QED
      BY <1>1, <2>2
  <2> QED
    BY <2>1, <2>2, <2>3
<1>9. GapsRun(a, ranges, offset, end)
  <2> HIDE DEF a, n, base
  <2> QED
    BY <1>7, <1>8 DEF n, base, GapsRun
<1> QED
  BY <1>9
-----------------------------------------------------------------------------
(* Ranges.                                                                 *)

LEMMA RangeFacts ==
  ASSUME NEW rs \in Seq(Ranges)
  PROVE  /\ Len(rs) \in Nat /\ DOMAIN rs = 1 .. Len(rs)
         /\ \A i \in DOMAIN rs : /\ rs[i] \in Ranges /\ i \in Nat
                               /\ rs[i].start \in Nat /\ rs[i].end \in Nat
<1>1. \A i \in DOMAIN rs : rs[i] \in Ranges /\ i \in Nat
  OBVIOUS
<1>2. \A r \in Ranges : r.start \in Nat /\ r.end \in Nat
  BY DEF Ranges
<1>3. Len(rs) \in Nat /\ DOMAIN rs = 1 .. Len(rs)
  OBVIOUS
<1> QED
  BY <1>1, <1>2, <1>3

LEMMA CoveredIs ==
  ASSUME NEW rs \in Seq(Ranges), NEW o
  PROVE  o \in Covered(rs) <=>
           o \in Nat /\ \E i \in DOMAIN rs : rs[i].start <= o /\ o < rs[i].end
<1>1. \A i \in DOMAIN rs : rs[i].start \in Nat /\ rs[i].end \in Nat
  BY RangeFacts
<1>2. \A i \in DOMAIN rs : o \in Bytes(rs[i]) <=> o \in Nat /\ rs[i].start <= o /\ o < rs[i].end
  BY <1>1 DEF Bytes
<1> QED
  BY <1>2 DEF Covered

(* Normal, between any two ranges. *)
Ordered(rs) ==
  /\ \A i \in DOMAIN rs : rs[i].start < rs[i].end
  /\ \A i, j \in DOMAIN rs : i < j => rs[i].end < rs[j].start

LEMMA NormalIsOrdered ==
  ASSUME NEW rs \in Seq(Ranges) PROVE Normal(rs) <=> Ordered(rs)
<1> DEFINE n == Len(rs)
<1>1. /\ n \in Nat /\ DOMAIN rs = 1 .. n
      /\ \A i \in 1 .. n : rs[i].start \in Nat /\ rs[i].end \in Nat
  BY RangeFacts
<1> HIDE DEF n
<1>2. ASSUME Normal(rs) PROVE Ordered(rs)
  <2> DEFINE T == {j \in 0 .. n : \A i \in 1 .. j - 1 : rs[i].end < rs[j].start}
  <2>1. ASSUME NEW j \in 0 .. n - 1, j \in T PROVE j + 1 \in T
    <3>1. ASSUME NEW i \in 1 .. j PROVE rs[i].end < rs[j + 1].start
      <4>1. j \in 1 .. n /\ j + 1 \in 1 .. n
        BY <1>1
      <4>2. rs[j].end < rs[j + 1].start /\ rs[j].start < rs[j].end
        BY <1>1, <1>2, <4>1 DEF Normal
      <4>3. i = j \/ rs[i].end < rs[j].start
        BY <2>1
      <4>4. i \in 1 .. n
        BY <1>1
      <4> QED
        BY <1>1, <4>1, <4>2, <4>3, <4>4
    <3> QED
      BY <1>1, <3>1
  <2>2. 0 \in T
    BY <1>1
  <2>3. 0 .. n \subseteq T
    <3> HIDE DEF T
    <3> QED
      BY <1>1, <2>1, <2>2, InductionTo
  <2>4. \A i, j \in 1 .. n : i < j => rs[i].end < rs[j].start
    BY <1>1, <2>3
  <2> QED
    BY <1>1, <1>2, <2>4 DEF Ordered, Normal
<1>3. ASSUME Ordered(rs) PROVE Normal(rs)
  BY <1>1, <1>3 DEF Ordered, Normal
<1> QED
  BY <1>2, <1>3

LEMMA BytesOf ==
  ASSUME NEW r \in Ranges, NEW o
  PROVE  o \in Bytes(r) <=> o \in Nat /\ r.start <= o /\ o < r.end
BY DEF Ranges, Bytes

LEMMA Appends ==
  ASSUME NEW rs \in Seq(Ranges), NEW r \in Ranges
  PROVE  /\ Append(rs, r) \in Seq(Ranges)
         /\ DOMAIN Append(rs, r) = 1 .. Len(rs) + 1
         /\ Append(rs, r)[Len(rs) + 1] = r
         /\ \A i \in DOMAIN rs : Append(rs, r)[i] = rs[i]
         /\ \A o : o \in Covered(Append(rs, r)) <=> o \in Covered(rs) \/ o \in Bytes(r)
<1>1. /\ Append(rs, r) \in Seq(Ranges)
      /\ DOMAIN Append(rs, r) = 1 .. Len(rs) + 1
      /\ Append(rs, r)[Len(rs) + 1] = r
      /\ Len(rs) \in Nat /\ DOMAIN rs = 1 .. Len(rs)
      /\ \A i \in DOMAIN rs : Append(rs, r)[i] = rs[i]
  OBVIOUS
<1>2. ASSUME NEW o
      PROVE  o \in Covered(Append(rs, r)) <=> o \in Covered(rs) \/ o \in Bytes(r)
  <2> DEFINE q == Append(rs, r)
  <2>1. \A i : i \in DOMAIN q <=> i \in DOMAIN rs \/ i = Len(rs) + 1
    BY <1>1
  <2> HIDE DEF q
  <2>2. o \in Covered(q) <=> \E i \in DOMAIN q : o \in Bytes(q[i])
    BY DEF Covered
  <2>3. o \in Covered(rs) <=> \E i \in DOMAIN rs : o \in Bytes(rs[i])
    BY DEF Covered
  <2>4. q[Len(rs) + 1] = r /\ \A i \in DOMAIN rs : q[i] = rs[i]
    BY <1>1 DEF q
  <2> QED
    BY <2>1, <2>2, <2>3, <2>4 DEF q
<1> QED
  BY <1>1, <1>2

LEMMA OrderedAppend ==
  ASSUME NEW rs \in Seq(Ranges), NEW r \in Ranges, Ordered(rs), r.start < r.end,
         \A i \in DOMAIN rs : rs[i].end < r.start
  PROVE  Ordered(Append(rs, r))
<1> DEFINE q == Append(rs, r)
<1>1. /\ Len(rs) \in Nat /\ DOMAIN rs = 1 .. Len(rs) /\ DOMAIN q = 1 .. Len(rs) + 1
      /\ q[Len(rs) + 1] = r /\ \A i \in DOMAIN rs : q[i] = rs[i]
  BY Appends, RangeFacts
<1> HIDE DEF q
<1>2. \A i \in DOMAIN q : q[i].start < q[i].end
  <2>1. \A i \in DOMAIN q : i \in DOMAIN rs \/ i = Len(rs) + 1
    BY <1>1
  <2> QED
    BY <1>1, <2>1 DEF Ordered
<1>3. ASSUME NEW i \in DOMAIN q, NEW j \in DOMAIN q, i < j PROVE q[i].end < q[j].start
  <2>1. i \in DOMAIN rs
    BY <1>1, <1>3
  <2>2. CASE j \in DOMAIN rs
    BY <1>1, <1>3, <2>1, <2>2 DEF Ordered
  <2>3. CASE j = Len(rs) + 1
    BY <1>1, <2>1, <2>3
  <2> QED
    BY <1>1, <2>2, <2>3
<1> QED
  BY <1>2, <1>3 DEF Ordered, q

(* insert's loop after k turns: what was kept lies apart from the merged   *)
(* range, and with it makes up the first k ranges and the new one.         *)
Merged(acc, ranges, new, k) ==
  /\ acc \in Merging /\ acc.start < acc.end
  /\ Ordered(acc.kept)
  /\ \A i \in DOMAIN acc.kept : \E j \in 1 .. k : acc.kept[i] = ranges[j]
  /\ \A i \in DOMAIN acc.kept : Apart(acc.kept[i], acc.start, acc.end)
  /\ \A o : o \in Covered(acc.kept) \/ o \in acc.start .. acc.end - 1
             <=> (\E j \in 1 .. k : o \in Bytes(ranges[j])) \/ o \in Bytes(new)

LEMMA AbsorbStep ==
  ASSUME NEW ranges \in Seq(Ranges), Ordered(ranges), NEW new \in Ranges,
         NEW k \in 0 .. Len(ranges) - 1, NEW acc, Merged(acc, ranges, new, k)
  PROVE  Merged(Absorb(acc, ranges[k + 1]), ranges, new, k + 1)
<1> DEFINE r == ranges[k + 1]
           kept == acc.kept
<1>1. /\ Len(ranges) \in Nat /\ k + 1 \in DOMAIN ranges /\ r \in Ranges
      /\ r.start \in Nat /\ r.end \in Nat /\ r.start < r.end
      /\ \A j \in 1 .. k : /\ j \in DOMAIN ranges /\ ranges[j] \in Ranges
                          /\ ranges[j].end < r.start /\ ranges[j].start < ranges[j].end
                          /\ ranges[j].start \in Nat /\ ranges[j].end \in Nat
  BY RangeFacts DEF Ordered
<1>2. /\ acc \in Merging /\ acc.start \in Nat /\ acc.end \in Nat /\ kept \in Seq(Ranges)
      /\ acc.start < acc.end
  BY DEF Merged, Merging
<1>3. \A i \in DOMAIN kept : /\ \E j \in 1 .. k : kept[i] = ranges[j]
                            /\ Apart(kept[i], acc.start, acc.end)
                            /\ kept[i].end < r.start /\ kept[i].start < kept[i].end
                            /\ kept[i].start \in Nat /\ kept[i].end \in Nat
  BY <1>1 DEF Merged
<1>4. \A o : (\E j \in 1 .. k + 1 : o \in Bytes(ranges[j]))
             <=> (\E j \in 1 .. k : o \in Bytes(ranges[j])) \/ o \in Bytes(r)
  <2>1. \A j : j \in 1 .. k + 1 <=> j \in 1 .. k \/ j = k + 1
    OBVIOUS
  <2> QED
    BY <2>1
<1>5. \A o : o \in Covered(kept) \/ o \in acc.start .. acc.end - 1
             <=> (\E j \in 1 .. k : o \in Bytes(ranges[j])) \/ o \in Bytes(new)
  BY DEF Merged
<1>6. Absorb(acc, r) \in Merging
  BY <1>1, <1>2, AbsorbTyped
<1> DEFINE next == Absorb(acc, r)
<1>7. CASE Apart(r, acc.start, acc.end)
  <2>1. next.start = acc.start /\ next.end = acc.end /\ next.kept = Append(kept, r)
    BY <1>2, <1>7 DEF Absorb, Merging
  <2> HIDE DEF next
  <2>2. Ordered(next.kept)
    BY <1>1, <1>2, <1>3, <2>1, OrderedAppend DEF Merged
  <2>3. \A i \in DOMAIN next.kept : (i \in DOMAIN kept /\ next.kept[i] = kept[i]) \/ next.kept[i] = r
    BY <1>1, <1>2, <2>1, Appends, RangeFacts
  <2>4. \A i \in DOMAIN next.kept : \E j \in 1 .. k + 1 : next.kept[i] = ranges[j]
    BY <1>3, <2>3
  <2>5. \A i \in DOMAIN next.kept : Apart(next.kept[i], next.start, next.end)
    BY <1>3, <1>7, <2>1, <2>3
  <2>6. \A o : o \in Covered(next.kept) <=> o \in Covered(kept) \/ o \in Bytes(r)
    BY <1>1, <1>2, <2>1, Appends
  <2> QED
    BY <1>2, <1>4, <1>5, <1>6, <2>1, <2>2, <2>4, <2>5, <2>6 DEF Merged, next
<1>8. CASE ~Apart(r, acc.start, acc.end)
  <2>1. /\ next.start = Min({acc.start, r.start}) /\ next.end = Max({acc.end, r.end})
        /\ next.kept = kept
    BY <1>2, <1>8 DEF Absorb, Merging
  <2> HIDE DEF next
  <2>2. /\ next.start = IF acc.start <= r.start THEN acc.start ELSE r.start
        /\ next.end = IF acc.end >= r.end THEN acc.end ELSE r.end
    BY <1>1, <1>2, <2>1, OfTwo
  <2>3. r.end >= acc.start /\ r.start <= acc.end
    BY <1>1, <1>2, <1>8 DEF Apart
  <2>4. ASSUME NEW i \in DOMAIN kept PROVE Apart(kept[i], next.start, next.end)
    BY <1>1, <1>2, <1>3, <2>2, <2>3 DEF Apart
  <2>5. \A o : o \in next.start .. next.end - 1
               <=> o \in acc.start .. acc.end - 1 \/ o \in Bytes(r)
    BY <1>1, <1>2, <2>2, <2>3 DEF Bytes
  <2>6. \A i \in DOMAIN kept : \E j \in 1 .. k + 1 : kept[i] = ranges[j]
    BY <1>3
  <2>7. next.start < next.end
    BY <1>1, <1>2, <2>2, <2>3
  <2>8. Ordered(kept)
    BY DEF Merged
  <2> QED
    BY <1>4, <1>5, <1>6, <2>1, <2>4, <2>5, <2>6, <2>7, <2>8 DEF Merged, next
<1> QED
  BY <1>7, <1>8

LEMMA MergeExact ==
  ASSUME NEW ranges \in Seq(Ranges), Ordered(ranges), NEW new \in Ranges, new.start < new.end
  PROVE  Merged(Merge(ranges, new), ranges, new, Len(ranges))
<1>0. PICK a : MergeRun(a, ranges, new)
  BY MergeRuns
<1>1. /\ a[0] = [start |-> new.start, end |-> new.end, kept |-> <<>>]
      /\ \A k \in 1 .. Len(ranges) : a[k] = Absorb(a[k - 1], ranges[k])
      /\ a[Len(ranges)] = Merge(ranges, new)
  BY <1>0 DEF MergeRun
<1> DEFINE T == {k \in 0 .. Len(ranges) : Merged(a[k], ranges, new, k)}
<1>2. 0 \in T
  <2>1. Merged(a[0], ranges, new, 0)
    <3>1. /\ a[0].start = new.start /\ a[0].end = new.end /\ a[0].kept = <<>>
          /\ a[0] \in Merging
      BY <1>1 DEF Merging, Ranges
    <3>2. Covered(<<>>) = {} /\ Ordered(<<>>) /\ DOMAIN <<>> = {}
      BY DEF Covered, Ordered
    <3> QED
      BY <3>1, <3>2 DEF Merged, Bytes
  <2> QED
    BY <2>1
<1>3. ASSUME NEW k \in 0 .. Len(ranges) - 1, k \in T PROVE k + 1 \in T
  <2>1. a[k + 1] = Absorb(a[k], ranges[k + 1]) /\ Merged(a[k], ranges, new, k)
    BY <1>1, <1>3
  <2>2. Merged(a[k + 1], ranges, new, k + 1)
    BY <2>1, AbsorbStep
  <2> QED
    BY <2>2
<1>4. Len(ranges) \in T
  <2> HIDE DEF T
  <2>1. Len(ranges) \in Nat
    OBVIOUS
  <2>2. 0 .. Len(ranges) \subseteq T
    BY <1>2, <1>3, <2>1, InductionTo
  <2> QED
    BY <2>1, <2>2
<1> QED
  BY <1>1, <1>4

LEMMA Inserted ==
  ASSUME NEW rs \in Seq(Ranges), NEW r \in Ranges, NEW p \in 1 .. Len(rs) + 1
  PROVE  /\ InsertAt(rs, p, r) \in Seq(Ranges)
         /\ DOMAIN InsertAt(rs, p, r) = 1 .. Len(rs) + 1
         /\ \A i \in 1 .. Len(rs) + 1 :
              InsertAt(rs, p, r)[i] = IF i < p THEN rs[i] ELSE IF i = p THEN r ELSE rs[i - 1]
<1> DEFINE front == SubSeq(rs, 1, p - 1)
           back == SubSeq(rs, p, Len(rs))
           q == front \o <<r>>
<1>1. Len(rs) \in Nat /\ p \in Nat
  OBVIOUS
<1>2. /\ front \in Seq(Ranges) /\ Len(front) = p - 1
      /\ \A i \in 1 .. p - 1 : front[i] = rs[i]
  BY <1>1
<1>3. /\ back \in Seq(Ranges) /\ Len(back) = Len(rs) + 1 - p
      /\ \A i \in 1 .. Len(rs) + 1 - p : back[i] = rs[p + i - 1]
  BY <1>1
<1> HIDE DEF front, back
<1>4. <<r>> \in Seq(Ranges) /\ Len(<<r>>) = 1 /\ <<r>>[1] = r
  OBVIOUS
<1>5. /\ q \in Seq(Ranges) /\ Len(q) = p
      /\ \A i \in 1 .. p : q[i] = IF i < p THEN rs[i] ELSE r
  <2>1. q \in Seq(Ranges) /\ Len(q) = p
    BY <1>1, <1>2, <1>4
  <2>2. \A i \in 1 .. p - 1 : q[i] = front[i]
    BY <1>1, <1>2, <1>4
  <2>3. q[p] = r
    BY <1>1, <1>2, <1>4
  <2> HIDE DEF q
  <2> QED
    BY <1>1, <1>2, <2>1, <2>2, <2>3
<1> HIDE DEF q
<1>6. InsertAt(rs, p, r) = q \o back
  BY DEF InsertAt, q, front, back
<1>7. q \o back \in Seq(Ranges) /\ Len(q \o back) = Len(rs) + 1
  BY <1>1, <1>3, <1>5
<1>8. \A i \in 1 .. p : (q \o back)[i] = q[i]
  BY <1>1, <1>3, <1>5
<1>9. \A i \in p + 1 .. Len(rs) + 1 : (q \o back)[i] = rs[i - 1]
  <2> TAKE i \in p + 1 .. Len(rs) + 1
  <2>1. (q \o back)[i] = back[i - p] /\ i - p \in 1 .. Len(rs) + 1 - p
    BY <1>1, <1>3, <1>5
  <2>2. back[i - p] = rs[p + (i - p) - 1] /\ p + (i - p) - 1 = i - 1
    BY <1>1, <1>3, <2>1
  <2> QED
    BY <2>1, <2>2
<1> QED
  BY <1>1, <1>5, <1>6, <1>7, <1>8, <1>9

LEMMA PlaceIs ==
  ASSUME NEW rs \in Seq(Ranges), NEW start \in Nat
  PROVE  /\ Place(rs, start) \in 1 .. Len(rs) + 1
         /\ Place(rs, start) \in DOMAIN rs => rs[Place(rs, start)].start >= start
         /\ \A i \in 1 .. Place(rs, start) - 1 : i \in DOMAIN rs /\ rs[i].start < start
<1> DEFINE P == {i \in 1 .. Len(rs) + 1 : i \in DOMAIN rs => rs[i].start >= start}
<1>1. /\ Len(rs) \in Nat /\ DOMAIN rs = 1 .. Len(rs)
      /\ \A i \in DOMAIN rs : rs[i].start \in Nat
  BY RangeFacts
<1>2. P \in SUBSET Nat /\ P # {}
  <2>1. Len(rs) + 1 \in P
    BY <1>1
  <2> QED
    BY <1>1, <2>1
<1>3. PICK p \in P : \A i \in P : p <= i
  <2> HIDE DEF P
  <2> QED
    BY <1>2, LeastNumber
<1>4. Place(rs, start) = p
  <2>1. Min(P) = p
    <3> HIDE DEF P
    <3> QED
      BY <1>2, <1>3, MinIs
  <2> QED
    BY <2>1 DEF Place
<1>5. p \in 1 .. Len(rs) + 1 /\ (p \in DOMAIN rs => rs[p].start >= start)
  OBVIOUS
<1>6. ASSUME NEW i \in 1 .. p - 1 PROVE i \in DOMAIN rs /\ rs[i].start < start
  <2>1. i \in DOMAIN rs /\ i \in 1 .. Len(rs) + 1 /\ ~(p <= i)
    BY <1>1, <1>5
  <2>2. i \notin P
    BY <1>3, <2>1
  <2> QED
    BY <1>1, <2>1, <2>2
<1> HIDE DEF P
<1> QED
  BY <1>4, <1>5, <1>6

(* insert adds the new range's bytes and keeps the ranges in normal form.  *)
LEMMA InsertExact ==
  ASSUME NEW ranges \in Seq(Ranges), Normal(ranges), NEW new \in Ranges
  PROVE  /\ Insert(ranges, new) \in Seq(Ranges)
         /\ Normal(Insert(ranges, new))
         /\ Covered(Insert(ranges, new)) = Covered(ranges) \cup Bytes(new)
<1>0. new.start \in Nat /\ new.end \in Nat
  BY DEF Ranges
<1>1. CASE new.start >= new.end
  <2>1. Bytes(new) = {}
    BY <1>0, <1>1 DEF Bytes
  <2> QED
    BY <1>1, <2>1 DEF Insert
<1>2. CASE ~(new.start >= new.end)
  <2> DEFINE m == Merge(ranges, new)
             kept == m.kept
             p == Place(kept, m.start)
             span == Span(m.start, m.end)
             q == InsertAt(kept, p, span)
             n == Len(kept)
  <2>1. Merged(m, ranges, new, Len(ranges))
    BY <1>0, <1>2, MergeExact, NormalIsOrdered
  <2>2. Insert(ranges, new) = q
    BY <1>2 DEF Insert
  <2> HIDE DEF m
  <2>3. /\ m.start \in Nat /\ m.end \in Nat /\ kept \in Seq(Ranges) /\ m.start < m.end
        /\ Ordered(kept) /\ \A i \in DOMAIN kept : Apart(kept[i], m.start, m.end)
    BY <2>1 DEF Merged, Merging
  <2>4. span \in Ranges /\ span.start = m.start /\ span.end = m.end
    BY <2>3 DEF Span, Ranges
  <2>5. /\ p \in 1 .. n + 1
        /\ p \in DOMAIN kept => kept[p].start >= m.start
        /\ \A i \in 1 .. p - 1 : i \in DOMAIN kept /\ kept[i].start < m.start
    BY <2>3, PlaceIs
  <2>6. /\ n \in Nat /\ DOMAIN kept = 1 .. n
        /\ \A i \in DOMAIN kept : /\ kept[i].start \in Nat /\ kept[i].end \in Nat
                                /\ kept[i].start < kept[i].end
    BY <2>3, RangeFacts DEF Ordered
  <2>7. /\ q \in Seq(Ranges) /\ DOMAIN q = 1 .. n + 1
        /\ \A i \in 1 .. n + 1 : q[i] = IF i < p THEN kept[i] ELSE IF i = p THEN span ELSE kept[i - 1]
    <3> HIDE DEF kept, p, span
    <3> QED
      BY <2>3, <2>4, <2>5, Inserted
  <2> HIDE DEF kept, p, span, q, n
  <2>70. ASSUME NEW i \in 1 .. n + 1
        PROVE  \/ i < p /\ i \in DOMAIN kept /\ q[i] = kept[i]
               \/ i = p /\ q[i] = span
               \/ i > p /\ i - 1 \in DOMAIN kept /\ i - 1 \in p .. n /\ q[i] = kept[i - 1]
    <3>1. CASE i < p
      BY <2>5, <2>6, <2>7, <3>1
    <3>2. CASE i = p
      BY <2>5, <2>7, <3>2
    <3>3. CASE i > p
      BY <2>5, <2>6, <2>7, <3>3
    <3> QED
      BY <2>5, <3>1, <3>2, <3>3
  <2>8. \A i \in 1 .. p - 1 : i \in DOMAIN kept /\ kept[i].end < m.start
    BY <2>3, <2>5, <2>6 DEF Apart
  <2>9. \A i \in p .. n : i \in DOMAIN kept /\ kept[i].start > m.end
    <3> TAKE i \in p .. n
    <3>1. i \in DOMAIN kept /\ p \in DOMAIN kept
      BY <2>5, <2>6
    <3>2. kept[i].start >= m.start
      <4>1. i = p \/ kept[p].end < kept[i].start
        BY <2>3, <2>5, <3>1 DEF Ordered
      <4> QED
        BY <2>3, <2>5, <2>6, <3>1, <4>1
    <3> QED
      BY <2>3, <2>6, <3>1, <3>2 DEF Apart
  <2>10. Ordered(q)
    <3>1. ASSUME NEW i \in 1 .. n + 1 PROVE q[i].start < q[i].end
      BY <2>3, <2>4, <2>6, <2>70
    <3>2. ASSUME NEW i \in 1 .. n + 1, NEW j \in 1 .. n + 1, i < j
          PROVE  q[i].end < q[j].start
      <4>1. CASE i < p /\ i \in DOMAIN kept /\ q[i] = kept[i]
        <5>1. q[i].end < m.start /\ q[i].end \in Nat
          <6>1. i \in 1 .. p - 1
            BY <2>5, <2>6, <4>1
          <6> QED
            BY <2>6, <2>8, <4>1, <6>1
        <5>2. CASE j < p /\ j \in DOMAIN kept /\ q[j] = kept[j]
          BY <2>3, <3>2, <4>1, <5>2 DEF Ordered
        <5>3. CASE j = p /\ q[j] = span
          BY <2>4, <5>1, <5>3
        <5>4. CASE j > p /\ j - 1 \in DOMAIN kept /\ j - 1 \in p .. n /\ q[j] = kept[j - 1]
          <6>1. q[j].start > m.end /\ q[j].start \in Nat
            BY <2>6, <2>9, <5>4
          <6> QED
            BY <2>3, <5>1, <6>1
        <5> QED
          BY <2>70, <5>2, <5>3, <5>4
      <4>2. CASE i = p /\ q[i] = span
        <5>1. j > p /\ j - 1 \in DOMAIN kept /\ j - 1 \in p .. n /\ q[j] = kept[j - 1]
          BY <2>5, <2>70, <3>2, <4>2
        <5>2. q[j].start > m.end /\ q[j].start \in Nat
          BY <2>6, <2>9, <5>1
        <5> QED
          BY <2>3, <2>4, <4>2, <5>2
      <4>3. CASE i > p /\ i - 1 \in DOMAIN kept /\ i - 1 \in p .. n /\ q[i] = kept[i - 1]
        <5>1. j > p /\ j - 1 \in DOMAIN kept /\ q[j] = kept[j - 1] /\ i - 1 < j - 1
          BY <2>5, <2>70, <3>2, <4>3
        <5> QED
          BY <2>3, <4>3, <5>1 DEF Ordered
      <4> QED
        BY <2>70, <4>1, <4>2, <4>3
    <3> QED
      BY <2>7, <3>1, <3>2 DEF Ordered
  <2>11. ASSUME NEW o PROVE o \in Covered(q) <=> o \in Covered(kept) \/ o \in Bytes(span)
    <3>1. o \in Covered(q) <=> \E i \in 1 .. n + 1 : o \in Bytes(q[i])
      BY <2>7 DEF Covered
    <3>2. o \in Covered(kept) <=> \E i \in 1 .. n : o \in Bytes(kept[i])
      BY <2>6 DEF Covered
    <3>3. ASSUME NEW i \in 1 .. n + 1
          PROVE  q[i] = span \/ \E j \in 1 .. n : q[i] = kept[j]
      BY <2>6, <2>70
    <3>4. ASSUME NEW j \in 1 .. n PROVE \E i \in 1 .. n + 1 : q[i] = kept[j]
      <4>1. CASE j < p
        BY <2>6, <2>7, <4>1
      <4>2. CASE j >= p
        <5>1. j + 1 \in 1 .. n + 1 /\ q[j + 1] = kept[j]
          BY <2>5, <2>6, <2>7, <4>2
        <5> QED
          BY <5>1
      <4> QED
        BY <2>5, <4>1, <4>2
    <3>5. p \in 1 .. n + 1 /\ q[p] = span
      BY <2>5, <2>7
    <3> QED
      BY <3>1, <3>2, <3>3, <3>4, <3>5
  <2>12. ASSUME NEW o PROVE o \in Covered(q) <=> o \in Covered(ranges) \/ o \in Bytes(new)
    <3>1. Bytes(span) = m.start .. m.end - 1
      BY <2>4 DEF Bytes
    <3>2. o \in Covered(ranges) <=> \E j \in 1 .. Len(ranges) : o \in Bytes(ranges[j])
      BY RangeFacts DEF Covered
    <3>3. o \in Covered(kept) \/ o \in m.start .. m.end - 1
            <=> (\E j \in 1 .. Len(ranges) : o \in Bytes(ranges[j])) \/ o \in Bytes(new)
      BY <2>1 DEF Merged, kept
    <3> QED
      BY <2>11, <3>1, <3>2, <3>3
  <2>13. Normal(q)
    BY <2>7, <2>10, NormalIsOrdered
  <2> QED
    BY <2>2, <2>7, <2>12, <2>13 DEF q
<1> QED
  BY <1>1, <1>2

-----------------------------------------------------------------------------
(* missing.                                                                *)

InNone(o, ranges) == \A j \in 1 .. Len(ranges) : o \notin Bytes(ranges[j])

(* missing's loop after k turns: the gaps found are those below the        *)
(* cursor, and once it has stopped no range begins between the cursor and  *)
(* the end.                                                                *)
Scanned(acc, ranges, offset, end, k) ==
  /\ acc \in Scanning /\ offset <= acc.cursor
  /\ Ordered(acc.out)
  /\ \A i \in DOMAIN acc.out : acc.out[i].end < acc.cursor
  /\ ~acc.done => acc.cursor < end /\ \A j \in 1 .. k : ranges[j].end <= acc.cursor
  /\ acc.done /\ acc.cursor < end =>
       \A j \in 1 .. Len(ranges) : ranges[j].end <= acc.cursor \/ ranges[j].start >= end
  /\ \A o \in Nat : o \in Covered(acc.out)
       <=> offset <= o /\ o < acc.cursor /\ o < end /\ InNone(o, ranges)

LEMMA CoveredInNat ==
  ASSUME NEW rs \in Seq(Ranges) PROVE Covered(rs) \subseteq Nat
BY CoveredIs

LEMMA ScanStep ==
  ASSUME NEW ranges \in Seq(Ranges), Ordered(ranges),
         NEW offset \in Nat, NEW end \in Nat, offset < end,
         NEW k \in 0 .. Len(ranges) - 1, NEW acc, Scanned(acc, ranges, offset, end, k)
  PROVE  Scanned(Scan(acc, ranges[k + 1], end), ranges, offset, end, k + 1)
<1> DEFINE r == ranges[k + 1]
           next == Scan(acc, r, end)
<1>1. /\ Len(ranges) \in Nat /\ DOMAIN ranges = 1 .. Len(ranges)
      /\ k + 1 \in 1 .. Len(ranges) /\ r \in Ranges
      /\ r.start \in Nat /\ r.end \in Nat /\ r.start < r.end
      /\ \A j \in 1 .. Len(ranges) :
           /\ ranges[j] \in Ranges /\ ranges[j].start \in Nat /\ ranges[j].end \in Nat
           /\ ranges[j].start < ranges[j].end
  BY RangeFacts DEF Ordered
<1>2. \A j \in 1 .. Len(ranges) : j \in 1 .. k \/ ranges[j].start >= r.start
  <2> TAKE j \in 1 .. Len(ranges)
  <2>1. CASE j = k + 1
    BY <1>1, <2>1
  <2>2. CASE j > k + 1
    <3>1. r.end < ranges[j].start
      BY <1>1, <2>2 DEF Ordered
    <3> QED
      BY <1>1, <3>1
  <2> QED
    BY <1>1, <2>1, <2>2
<1>3. \A j : j \in 1 .. k + 1 <=> j \in 1 .. k \/ j = k + 1
  OBVIOUS
<1>4. /\ acc.cursor \in Nat /\ acc.done \in BOOLEAN /\ acc.out \in Seq(Ranges)
      /\ offset <= acc.cursor /\ Ordered(acc.out)
      /\ \A i \in DOMAIN acc.out : acc.out[i].end < acc.cursor
      /\ ~acc.done => acc.cursor < end /\ \A j \in 1 .. k : ranges[j].end <= acc.cursor
      /\ acc.done /\ acc.cursor < end =>
           \A j \in 1 .. Len(ranges) : ranges[j].end <= acc.cursor \/ ranges[j].start >= end
      /\ \A o \in Nat : o \in Covered(acc.out)
           <=> offset <= o /\ o < acc.cursor /\ o < end /\ InNone(o, ranges)
  BY DEF Scanned, Scanning
<1>5. next \in Scanning
  BY <1>1, ScanTyped DEF Scanned
<1>6. CASE acc.done \/ r.end <= acc.cursor
  <2>1. next = acc
    BY <1>6 DEF Scan
  <2>2. ~acc.done => \A j \in 1 .. k + 1 : ranges[j].end <= acc.cursor
    BY <1>3, <1>4, <1>6
  <2> HIDE DEF next
  <2>3. Scanned(next, ranges, offset, end, k + 1)
    BY <1>4, <1>5, <2>1, <2>2 DEF Scanned
  <2> QED
    BY <2>3 DEF next
<1>7. CASE ~(acc.done \/ r.end <= acc.cursor) /\ r.start >= end
  <2>1. next.cursor = acc.cursor /\ next.done = TRUE /\ next.out = acc.out
    BY <1>7 DEF Scan, Scanned, Scanning
  <2>2. \A j \in 1 .. Len(ranges) : ranges[j].end <= acc.cursor \/ ranges[j].start >= end
    <3> TAKE j \in 1 .. Len(ranges)
    <3>1. CASE j \in 1 .. k
      BY <1>4, <1>7, <3>1
    <3>2. CASE ranges[j].start >= r.start
      BY <1>1, <1>7, <3>2
    <3> QED
      BY <1>2, <3>1, <3>2
  <2> HIDE DEF next
  <2>3. Scanned(next, ranges, offset, end, k + 1)
    BY <1>4, <1>5, <2>1, <2>2 DEF Scanned
  <2> QED
    BY <2>3 DEF next
<1>8. CASE ~(acc.done \/ r.end <= acc.cursor) /\ ~(r.start >= end)
  <2> DEFINE gap == Span(acc.cursor, r.start)
  <2>1. /\ acc.cursor < r.end /\ r.start < end /\ acc.cursor < end /\ ~acc.done
        /\ \A j \in 1 .. k : ranges[j].end <= acc.cursor
    BY <1>1, <1>4, <1>8
  <2>2. /\ next.cursor = r.end /\ next.done = (r.end >= end)
        /\ next.out = IF r.start > acc.cursor THEN Append(acc.out, gap) ELSE acc.out
    <3>1. Min({r.start, end}) = r.start
      <4>1. r.start <= end /\ r.start \in Nat
        BY <1>1, <2>1
      <4> HIDE DEF r
      <4> QED
        BY <4>1, OfTwo
    <3> QED
      BY <1>8, <3>1 DEF Scan
  <2>3. gap \in Ranges /\ gap.start = acc.cursor /\ gap.end = r.start
    BY <1>1, <1>4 DEF Span, Ranges
  <2> SUFFICES Scanned(next, ranges, offset, end, k + 1)
    OBVIOUS
  <2> HIDE DEF next, gap
  <2>4. ASSUME NEW o \in Nat
        PROVE  /\ o < acc.cursor => (o < r.end /\ o < end)
               /\ acc.cursor <= o /\ o < r.start => InNone(o, ranges) /\ o < end /\ o < r.end
               /\ r.start <= o /\ o < r.end => ~InNone(o, ranges)
    <3>1. o < acc.cursor => (o < r.end /\ o < end)
      BY <1>1, <1>4, <2>1
    <3>2. ASSUME acc.cursor <= o, o < r.start PROVE InNone(o, ranges) /\ o < end /\ o < r.end
      <4>1. ASSUME NEW j \in 1 .. Len(ranges) PROVE o \notin Bytes(ranges[j])
        <5>1. ranges[j].end <= acc.cursor \/ ranges[j].start >= r.start
          BY <1>2, <2>1
        <5> QED
          BY <1>1, <1>4, <3>2, <5>1, BytesOf
      <4> QED
        BY <1>1, <2>1, <3>2, <4>1 DEF InNone
    <3>3. ASSUME r.start <= o, o < r.end PROVE ~InNone(o, ranges)
      BY <1>1, <3>3, BytesOf DEF InNone
    <3> QED
      BY <3>1, <3>2, <3>3
  <2>50. /\ next \in Scanning /\ offset <= next.cursor
         /\ ~next.done => next.cursor < end /\ \A j \in 1 .. k + 1 : ranges[j].end <= next.cursor
         /\ ~(next.done /\ next.cursor < end)
    <3>1. next.done <=> r.end >= end
      BY <2>2
    <3>2. \A j \in 1 .. k + 1 : ranges[j].end <= r.end
      BY <1>1, <1>3, <1>4, <2>1
    <3>3. offset <= r.end
      BY <1>1, <1>4, <2>1
    <3>4. next \in Scanning
      BY <1>5 DEF next
    <3> HIDE DEF r
    <3> QED
      BY <1>1, <2>2, <3>1, <3>2, <3>3, <3>4
  <2>5. CASE r.start > acc.cursor
    <3>1. next.out = Append(acc.out, gap)
      BY <2>2, <2>5
    <3>2. Ordered(next.out)
      BY <1>1, <1>4, <2>3, <2>5, <3>1, OrderedAppend
    <3>3. /\ Len(acc.out) \in Nat /\ DOMAIN acc.out = 1 .. Len(acc.out)
          /\ \A i \in DOMAIN acc.out : acc.out[i].end \in Nat
      BY <1>4, RangeFacts
    <3>4. ASSUME NEW i \in DOMAIN next.out PROVE next.out[i].end < r.end
      <4>1. (i \in DOMAIN acc.out /\ next.out[i] = acc.out[i]) \/ next.out[i] = gap
        BY <1>4, <2>3, <3>1, <3>3, Appends
      <4> QED
        BY <1>1, <1>4, <2>1, <2>3, <3>3, <4>1
    <3>5. ASSUME NEW o \in Nat
          PROVE  o \in Covered(next.out)
                   <=> offset <= o /\ o < r.end /\ o < end /\ InNone(o, ranges)
      <4>1. o \in Covered(next.out) <=> o \in Covered(acc.out) \/ (acc.cursor <= o /\ o < r.start)
        <5>1. o \in Covered(next.out) <=> o \in Covered(acc.out) \/ o \in Bytes(gap)
          BY <1>4, <2>3, <3>1, Appends
        <5>2. o \in Bytes(gap) <=> acc.cursor <= o /\ o < r.start
          BY <2>3, BytesOf
        <5> QED
          BY <5>1, <5>2
      <4>2. offset <= acc.cursor
        BY <1>4
      <4>3. \/ o < acc.cursor \/ r.end <= o
            \/ acc.cursor <= o /\ o < r.start
            \/ r.start <= o /\ o < r.end
        BY <1>1, <1>4
      <4>4. CASE o < acc.cursor
        BY <1>1, <1>4, <2>1, <2>4, <4>1, <4>4
      <4>5. CASE acc.cursor <= o /\ o < r.start
        BY <1>1, <1>4, <2>4, <4>1, <4>5
      <4>6. CASE r.start <= o /\ o < r.end
        BY <1>1, <1>4, <2>4, <2>5, <4>1, <4>6
      <4>7. CASE r.end <= o
        BY <1>1, <1>4, <2>1, <4>1, <4>7
      <4> QED
        BY <4>3, <4>4, <4>5, <4>6, <4>7
    <3> QED
      BY <2>2, <2>50, <3>2, <3>4, <3>5 DEF Scanned
  <2>6. CASE ~(r.start > acc.cursor)
    <3>1. next.out = acc.out
      BY <2>2, <2>6
    <3>2. ASSUME NEW i \in DOMAIN next.out PROVE next.out[i].end < r.end
      BY <1>1, <1>4, <2>1, <3>1, RangeFacts
    <3>3. ASSUME NEW o \in Nat
          PROVE  o \in Covered(next.out)
                   <=> offset <= o /\ o < r.end /\ o < end /\ InNone(o, ranges)
      <4>1. CASE o < acc.cursor
        BY <1>1, <1>4, <2>1, <2>4, <3>1, <4>1
      <4>2. CASE acc.cursor <= o
        BY <1>1, <1>4, <2>4, <2>6, <3>1, <4>2
      <4> QED
        BY <1>4, <4>1, <4>2
    <3> QED
      BY <1>4, <2>2, <2>50, <3>1, <3>2, <3>3 DEF Scanned
  <2> QED
    BY <2>5, <2>6
<1> QED
  BY <1>6, <1>7, <1>8

LEMMA GapsExact ==
  ASSUME NEW ranges \in Seq(Ranges), Ordered(ranges),
         NEW offset \in Nat, NEW end \in Nat, offset < end
  PROVE  Scanned(Gaps(ranges, offset, end), ranges, offset, end, Len(ranges))
<1>0. PICK a : GapsRun(a, ranges, offset, end)
  BY GapsRuns
<1>1. /\ a[0] = [cursor |-> offset, done |-> FALSE, out |-> <<>>]
      /\ \A k \in 1 .. Len(ranges) : a[k] = Scan(a[k - 1], ranges[k], end)
      /\ a[Len(ranges)] = Gaps(ranges, offset, end)
  BY <1>0 DEF GapsRun
<1> DEFINE T == {k \in 0 .. Len(ranges) : Scanned(a[k], ranges, offset, end, k)}
<1>2. 0 \in T
  <2>1. /\ a[0].cursor = offset /\ a[0].done = FALSE /\ a[0].out = <<>>
        /\ a[0] \in Scanning
    BY <1>1 DEF Scanning
  <2>2. Covered(<<>>) = {} /\ Ordered(<<>>) /\ DOMAIN <<>> = {}
    BY DEF Covered, Ordered
  <2>3. Scanned(a[0], ranges, offset, end, 0)
    BY <2>1, <2>2 DEF Scanned
  <2> QED
    BY <2>3
<1>3. ASSUME NEW k \in 0 .. Len(ranges) - 1, k \in T PROVE k + 1 \in T
  <2>1. a[k + 1] = Scan(a[k], ranges[k + 1], end) /\ Scanned(a[k], ranges, offset, end, k)
    BY <1>1, <1>3
  <2>2. Scanned(a[k + 1], ranges, offset, end, k + 1)
    BY <2>1, ScanStep
  <2> QED
    BY <2>2
<1>4. Len(ranges) \in T
  <2> HIDE DEF T
  <2>1. Len(ranges) \in Nat
    OBVIOUS
  <2>2. 0 .. Len(ranges) \subseteq T
    BY <1>2, <1>3, <2>1, InductionTo
  <2> QED
    BY <2>1, <2>2
<1> QED
  BY <1>1, <1>4

(* missing returns the asked-for offsets that no range has.                *)
LEMMA MissingExact ==
  ASSUME NEW ranges \in Seq(Ranges), Normal(ranges),
         NEW offset \in Nat, NEW len \in Nat, NEW limit \in Nat
  PROVE  /\ Missing(ranges, offset, len, limit) \in Seq(Ranges)
         /\ Normal(Missing(ranges, offset, len, limit))
         /\ \A o : o \in Covered(Missing(ranges, offset, len, limit))
              <=> /\ o \in Nat /\ offset <= o /\ o < offset + len /\ o < U64Max /\ o < limit
                  /\ o \notin Covered(ranges)
<1> DEFINE end == Min({SaturatingAdd(offset, len), limit})
           g == Gaps(ranges, offset, end)
           gaps == Missing(ranges, offset, len, limit)
<1>1. end \in Nat /\ \A o \in Nat : o < end <=> o < offset + len /\ o < U64Max /\ o < limit
  <2>1. U64Max \in Nat
    BY RangeSetAssumption
  <2>20. offset + len \in Nat
    OBVIOUS
  <2>2. SaturatingAdd(offset, len) = IF offset + len <= U64Max THEN offset + len ELSE U64Max
    BY <2>1, <2>20, OfTwo DEF SaturatingAdd
  <2>3. SaturatingAdd(offset, len) \in Nat
    BY <2>1, <2>2
  <2> HIDE DEF end
  <2>4. end = IF SaturatingAdd(offset, len) <= limit THEN SaturatingAdd(offset, len) ELSE limit
    BY <2>3, OfTwo DEF end
  <2> QED
    BY <2>1, <2>2, <2>4
<1>2. gaps = IF offset >= end THEN <<>>
             ELSE IF g.cursor < end THEN Append(g.out, Span(g.cursor, end)) ELSE g.out
  BY DEF Missing
<1> HIDE DEF end, gaps
<1>3. \A o : InNone(o, ranges) <=> o \notin Covered(ranges)
  BY RangeFacts DEF InNone, Covered
<1>4. /\ gaps \in Seq(Ranges) /\ Ordered(gaps)
      /\ \A o \in Nat : o \in Covered(gaps) <=> offset <= o /\ o < end /\ InNone(o, ranges)
  <2>1. CASE offset >= end
    <3>1. gaps = <<>> /\ Covered(<<>>) = {} /\ Ordered(<<>>) /\ <<>> \in Seq(Ranges)
      BY <1>2, <2>1 DEF Covered, Ordered
    <3> QED
      BY <1>1, <2>1, <3>1
  <2>2. CASE ~(offset >= end)
    <3> HIDE DEF g
    <3>1. Scanned(g, ranges, offset, end, Len(ranges))
      BY <1>1, <2>2, GapsExact, NormalIsOrdered DEF g
    <3>2. /\ g.cursor \in Nat /\ g.done \in BOOLEAN /\ g.out \in Seq(Ranges)
          /\ offset <= g.cursor /\ Ordered(g.out)
          /\ \A i \in DOMAIN g.out : g.out[i].end < g.cursor
          /\ \A o \in Nat : o \in Covered(g.out)
               <=> offset <= o /\ o < g.cursor /\ o < end /\ InNone(o, ranges)
      BY <3>1 DEF Scanned, Scanning
    <3>3. CASE ~(g.cursor < end)
      <4>1. gaps = g.out
        BY <1>2, <2>2, <3>3
      <4> QED
        BY <1>1, <3>2, <3>3, <4>1
    <3>4. CASE g.cursor < end
      <4> DEFINE last == Span(g.cursor, end)
      <4>1. last \in Ranges /\ last.start = g.cursor /\ last.end = end
        BY <1>1, <3>2 DEF Span, Ranges
      <4>2. gaps = Append(g.out, last)
        BY <1>2, <2>2, <3>4
      <4> HIDE DEF last
      <4>3. Ordered(gaps) /\ gaps \in Seq(Ranges)
        BY <3>2, <3>4, <4>1, <4>2, OrderedAppend, Appends
      <4>4. \A j \in 1 .. Len(ranges) : ranges[j].end <= g.cursor \/ ranges[j].start >= end
        BY <3>1, <3>2, <3>4 DEF Scanned
      <4>5. ASSUME NEW o \in Nat, g.cursor <= o, o < end PROVE InNone(o, ranges)
        <5>1. ASSUME NEW j \in 1 .. Len(ranges) PROVE o \notin Bytes(ranges[j])
          <6>1. ranges[j] \in Ranges /\ ranges[j].start \in Nat /\ ranges[j].end \in Nat
            BY RangeFacts
          <6>2. ranges[j].end <= g.cursor \/ ranges[j].start >= end
            BY <4>4
          <6> QED
            BY <1>1, <3>2, <4>5, <6>1, <6>2, BytesOf
        <5> QED
          BY <5>1 DEF InNone
      <4>6. ASSUME NEW o \in Nat
            PROVE  o \in Covered(gaps) <=> offset <= o /\ o < end /\ InNone(o, ranges)
        <5>1. o \in Covered(gaps) <=> o \in Covered(g.out) \/ (g.cursor <= o /\ o < end)
          BY <3>2, <4>1, <4>2, Appends, BytesOf
        <5>2. CASE o < g.cursor
          BY <1>1, <3>2, <3>4, <5>1, <5>2
        <5>3. CASE g.cursor <= o
          BY <1>1, <3>2, <4>5, <5>1, <5>3
        <5> QED
          BY <3>2, <5>2, <5>3
      <4> QED
        BY <4>3, <4>6
    <3> QED
      BY <3>3, <3>4
  <2> QED
    BY <2>1, <2>2
<1>5. Normal(gaps) /\ Covered(gaps) \subseteq Nat
  BY <1>4, NormalIsOrdered, CoveredInNat
<1>6. ASSUME NEW o
      PROVE  o \in Covered(gaps)
               <=> /\ o \in Nat /\ offset <= o /\ o < offset + len /\ o < U64Max /\ o < limit
                   /\ o \notin Covered(ranges)
  <2>1. CASE o \in Nat
    BY <1>1, <1>3, <1>4, <2>1
  <2>2. CASE o \notin Nat
    BY <1>5, <2>2
  <2> QED
    BY <2>1, <2>2
<1> QED
  BY <1>4, <1>5, <1>6 DEF gaps
-----------------------------------------------------------------------------
(* The reads.                                                              *)

Typed ==
  /\ size \in 0 .. MaxSize /\ actual \in 0 .. MaxSize
  /\ cache \in [present : BOOLEAN, total : 0 .. MaxSize, ranges : Seq(Ranges)]
  /\ rd \in [pc : {"idle", "fetch"}, offset : Nat, len : Nat, size : Nat,
             todo : Seq(Ranges), cursor : Nat]

Inv == Typed /\ CacheExact

LEMMA NoRanges ==
  <<>> \in Seq(Ranges) /\ Normal(<<>>) /\ Covered(<<>>) = {}
BY DEF Normal, Covered

LEMMA Constants ==
  /\ MaxSize \in Nat /\ Chunk \in Nat /\ Overshoot \in Nat /\ U64Max \in Nat
  /\ MaxSize <= U64Max
BY RangedReadAssumption, RangeSetAssumption

LEMMA InitInv ==
  Init => Inv
<1> SUFFICES ASSUME Init PROVE Inv
  OBVIOUS
<1>1. Typed
  BY NoRanges, Constants DEF Init, Typed, NoCache, NoRead
<1>2. CacheExact
  BY NoRanges DEF Init, CacheExact, NoCache
<1> QED
  BY <1>1, <1>2 DEF Inv

LEMMA ReadBeginInv ==
  ASSUME Inv, NEW offset \in 0 .. MaxSize, NEW len \in 0 .. MaxSize, ReadBegin(offset, len)
  PROVE  Inv'
<1>1. CASE len = 0 \/ offset >= size
  <2>1. rd' = NoRead /\ UNCHANGED <<size, actual, cache, held>>
    BY <1>1 DEF ReadBegin, Replies
  <2>2. NoRead \in [pc : {"idle", "fetch"}, offset : Nat, len : Nat, size : Nat,
                    todo : Seq(Ranges), cursor : Nat]
    BY NoRanges DEF NoRead
  <2> QED
    BY <2>1, <2>2 DEF Inv, Typed, CacheExact
<1>2. CASE ~(len = 0 \/ offset >= size)
  <2>1. /\ cache' = IF cache.present THEN cache
                    ELSE [present |-> TRUE, total |-> size, ranges |-> <<>>]
        /\ held' = IF cache.present THEN held ELSE {}
        /\ UNCHANGED <<size, actual>>
    BY <1>2 DEF ReadBegin
  <2>2. cache' \in [present : BOOLEAN, total : 0 .. MaxSize, ranges : Seq(Ranges)]
    BY <2>1, NoRanges DEF Inv, Typed
  <2>3. CacheExact'
    BY <2>1, NoRanges DEF Inv, CacheExact
  <2> DEFINE todo == Missing(cache'.ranges, offset, len, cache'.total)
  <2>4. todo \in Seq(Ranges)
    <3>1. /\ cache'.ranges \in Seq(Ranges) /\ Normal(cache'.ranges) /\ cache'.total \in Nat
          /\ offset \in Nat /\ len \in Nat
      BY <2>2, <2>3, Constants DEF CacheExact
    <3> QED
      BY <3>1, MissingExact
  <2>5. rd' = [pc |-> "fetch", offset |-> offset, len |-> len, size |-> size, todo |-> todo,
               cursor |-> IF todo = <<>> THEN 0 ELSE todo[1].start]
    BY <1>2 DEF ReadBegin
  <2> HIDE DEF todo
  <2>6. (IF todo = <<>> THEN 0 ELSE todo[1].start) \in Nat
    <3>1. todo # <<>> => 1 \in DOMAIN todo
      BY <2>4
    <3> QED
      BY <2>4, <3>1, RangeFacts
  <2>7. Typed'
    BY <2>1, <2>2, <2>4, <2>5, <2>6, Constants DEF Inv, Typed
  <2> QED
    BY <2>3, <2>7 DEF Inv
<1> QED
  BY <1>1, <1>2

LEMMA FetchInv ==
  ASSUME Inv, NEW n \in 0 .. Chunk + Overshoot, Fetch(n)
  PROVE  Inv'
<1> DEFINE end == rd.cursor + Writable(n)
           span == Span(rd.cursor, end)
<1>0. /\ rd.pc = "fetch" /\ rd.todo # <<>> /\ UNCHANGED <<size, actual>>
      /\ rd.cursor \in Nat /\ rd.size \in Nat /\ rd.todo \in Seq(Ranges) /\ n \in Nat
      /\ cache.ranges \in Seq(Ranges) /\ cache.total \in Nat
      /\ rd \in [pc : {"idle", "fetch"}, offset : Nat, len : Nat, size : Nat,
                 todo : Seq(Ranges), cursor : Nat]
      /\ cache \in [present : BOOLEAN, total : 0 .. MaxSize, ranges : Seq(Ranges)]
  BY Constants DEF Fetch, Inv, Typed
<1>1. Writable(n) \in Nat
  <2>1. (IF rd.size > rd.cursor THEN rd.size - rd.cursor ELSE 0) \in Nat
    BY <1>0
  <2> QED
    BY <1>0, <2>1, OfTwo DEF Writable
<1>2. CASE Writable(n) > 0 /\ PastEnd(end)
  <2>1. rd' = NoRead /\ UNCHANGED <<cache, held>>
    BY <1>2 DEF Fetch, Replies
  <2>2. NoRead \in [pc : {"idle", "fetch"}, offset : Nat, len : Nat, size : Nat,
                    todo : Seq(Ranges), cursor : Nat]
    BY NoRanges DEF NoRead
  <2> QED
    BY <1>0, <2>1, <2>2 DEF Inv, Typed, CacheExact
<1>3. CASE ~(Writable(n) > 0 /\ PastEnd(end))
  <2>1. /\ cache' = [cache EXCEPT !.ranges = Insert(cache.ranges, span)]
        /\ held' = held \cup (rd.cursor .. end - 1)
        /\ rd' = IF Breaks(n) \/ rd.cursor + n >= rd.todo[1].end
                 THEN NextRange ELSE [rd EXCEPT !.cursor = rd.cursor + n]
    BY <1>3 DEF Fetch
  <2>2. end \in Nat /\ span \in Ranges /\ span.start = rd.cursor /\ span.end = end
    BY <1>0, <1>1 DEF Span, Ranges
  <2> HIDE DEF span
  <2>3. /\ Insert(cache.ranges, span) \in Seq(Ranges)
        /\ Normal(Insert(cache.ranges, span))
        /\ Covered(Insert(cache.ranges, span)) = Covered(cache.ranges) \cup Bytes(span)
    BY <1>0, <2>2, InsertExact DEF Inv, CacheExact
  <2>4. /\ cache'.ranges = Insert(cache.ranges, span) /\ cache'.total = cache.total
        /\ cache' \in [present : BOOLEAN, total : 0 .. MaxSize, ranges : Seq(Ranges)]
    <3> DEFINE ranges == Insert(cache.ranges, span)
    <3>1. cache' = [cache EXCEPT !.ranges = ranges] /\ ranges \in Seq(Ranges)
      BY <2>1, <2>3
    <3> HIDE DEF ranges
    <3>2. /\ cache'.ranges = ranges /\ cache'.total = cache.total
          /\ cache' \in [present : BOOLEAN, total : 0 .. MaxSize, ranges : Seq(Ranges)]
      BY <1>0, <3>1
    <3> QED
      BY <3>2 DEF ranges
  <2>5. Bytes(span) = rd.cursor .. end - 1
    BY <2>2 DEF Bytes
  <2>6. ASSUME NEW o \in rd.cursor .. end - 1 PROVE o < cache.total
    <3>1. Writable(n) > 0
      BY <1>0, <1>1
    <3>2. end <= cache.total
      BY <1>0, <1>3, <2>2, <3>1 DEF PastEnd
    <3> QED
      BY <1>0, <2>2, <3>2
  <2>7. CacheExact'
    BY <2>1, <2>3, <2>4, <2>5, <2>6 DEF Inv, CacheExact
  <2>8. rd' \in [pc : {"idle", "fetch"}, offset : Nat, len : Nat, size : Nat,
                 todo : Seq(Ranges), cursor : Nat]
    <3>1. Tail(rd.todo) \in Seq(Ranges)
      BY <1>0
    <3>2. (IF Len(rd.todo) > 1 THEN rd.todo[2].start ELSE 0) \in Nat
      <4>1. Len(rd.todo) > 1 => 2 \in DOMAIN rd.todo
        BY <1>0
      <4> QED
        BY <1>0, <4>1, RangeFacts
    <3>3. NextRange \in [pc : {"idle", "fetch"}, offset : Nat, len : Nat, size : Nat,
                         todo : Seq(Ranges), cursor : Nat]
      BY <1>0, <3>1, <3>2 DEF NextRange
    <3>4. rd.cursor + n \in Nat
      BY <1>0
    <3>5. [rd EXCEPT !.cursor = rd.cursor + n]
            \in [pc : {"idle", "fetch"}, offset : Nat, len : Nat, size : Nat,
                 todo : Seq(Ranges), cursor : Nat]
      BY <1>0, <3>4
    <3> QED
      BY <2>1, <3>3, <3>5
  <2> QED
    BY <1>0, <2>4, <2>7, <2>8 DEF Inv, Typed
<1> QED
  BY <1>2, <1>3

LEMMA NextInv ==
  Inv /\ [Next]_vars => Inv'
<1> SUFFICES ASSUME Inv, [Next]_vars PROVE Inv'
  OBVIOUS
<1>0. NoRead \in [pc : {"idle", "fetch"}, offset : Nat, len : Nat, size : Nat,
                  todo : Seq(Ranges), cursor : Nat]
  BY NoRanges DEF NoRead
<1>1. CASE \E offset, len \in 0 .. MaxSize : ReadBegin(offset, len)
  BY <1>1, ReadBeginInv
<1>2. CASE \E n \in 0 .. Chunk + Overshoot : Fetch(n)
  BY <1>2, FetchInv
<1>3. CASE Serve
  <2>1. rd' = NoRead /\ UNCHANGED <<size, actual, cache, held>>
    BY <1>3 DEF Serve, Replies
  <2> QED
    BY <1>0, <2>1 DEF Inv, Typed, CacheExact
<1>4. CASE FetchFails
  <2>1. rd' = NoRead /\ UNCHANGED <<size, actual, cache, held>>
    BY <1>4 DEF FetchFails, Replies
  <2> QED
    BY <1>0, <2>1 DEF Inv, Typed, CacheExact
<1>5. CASE \E s \in 0 .. MaxSize : Changes(s)
  BY <1>5 DEF Changes, Inv, Typed, CacheExact
<1>6. CASE Relist
  BY <1>6 DEF Relist, Inv, Typed, CacheExact
<1>7. CASE DropCache
  <2>1. cache' = NoCache /\ held' = {} /\ UNCHANGED <<size, actual, rd>>
    BY <1>7 DEF DropCache
  <2>2. /\ NoCache \in [present : BOOLEAN, total : 0 .. MaxSize, ranges : Seq(Ranges)]
        /\ NoCache.ranges = <<>>
    BY NoRanges, Constants DEF NoCache
  <2>3. Typed'
    BY <2>1, <2>2 DEF Inv, Typed
  <2>4. CacheExact'
    BY <2>1, <2>2, NoRanges DEF CacheExact
  <2> QED
    BY <2>3, <2>4 DEF Inv
<1>8. CASE UNCHANGED vars
  BY <1>8 DEF vars, Inv, Typed, CacheExact
<1> QED
  BY <1>1, <1>2, <1>3, <1>4, <1>5, <1>6, <1>7, <1>8 DEF Next, Step

LEMMA Invariance ==
  Spec => []Inv
<1>1. Inv /\ [Next]_vars => Inv'
  BY NextInv
<1> QED
  BY <1>1, InitInv, PTL DEF Spec

(* The variables have their types: sizes within the bound, ranges and      *)
(* missing ranges sequences of ranges (read, fs.rs; RangeSet).             *)
THEOREM TypeCorrect ==
  Spec => []Typed
<1>1. Inv => Typed
  BY DEF Inv
<1> QED
  BY <1>1, Invariance, PTL

(* The sparse cache's ranges are exactly the offsets written to its spool  *)
(* file, whatever sizes, chunks and responses there are: write_at inserts  *)
(* what it has written, and refuses what lies past total_size.             *)
THEOREM CacheIsExact ==
  Spec => []CacheExact
<1>1. Inv => CacheExact
  BY DEF Inv
<1> QED
  BY <1>1, Invariance, PTL

(* RangeSet's insert and missing are exact on every set of ranges a cache  *)
(* comes to hold, up to the largest offset.                                *)
THEOREM RangesAreExact ==
  Spec => []RangesExact
<1>1. Inv => RangesExact
  <2> SUFFICES ASSUME Inv PROVE RangesExact
    OBVIOUS
  <2>1. /\ cache.ranges \in Seq(Ranges) /\ Normal(cache.ranges)
        /\ Covered(cache.ranges) = held
    BY DEF Inv, Typed, CacheExact
  <2>2. Offsets \subseteq Nat /\ \A o \in Offsets : o <= U64Max
    BY Constants DEF Offsets
  <2>3. ASSUME NEW s \in Offsets, NEW e \in Offsets
        PROVE  /\ Normal(Insert(cache.ranges, Span(s, e)))
               /\ Covered(Insert(cache.ranges, Span(s, e))) = held \cup (s .. e - 1)
    <3>1. Span(s, e) \in Ranges /\ Bytes(Span(s, e)) = s .. e - 1
      BY <2>2 DEF Span, Ranges, Bytes
    <3> QED
      BY <2>1, <3>1, InsertExact
  <2>4. ASSUME NEW offset \in Offsets, NEW len \in Offsets, NEW limit \in Offsets
        PROVE  LET gaps == Missing(cache.ranges, offset, len, limit)
                   asked == {o \in Offsets : offset <= o /\ o < offset + len /\ o < limit}
               IN Normal(gaps) /\ Covered(gaps) = asked \ held
    <3> DEFINE gaps == Missing(cache.ranges, offset, len, limit)
               asked == {o \in Offsets : offset <= o /\ o < offset + len /\ o < limit}
    <3>0. offset \in Nat /\ len \in Nat /\ limit \in Nat /\ limit <= U64Max
      BY <2>2
    <3>1. /\ Normal(gaps)
          /\ \A o : o \in Covered(gaps)
               <=> /\ o \in Nat /\ offset <= o /\ o < offset + len /\ o < U64Max /\ o < limit
                   /\ o \notin held
      BY <2>1, <3>0, MissingExact
    <3>2. \A o : o \in asked <=> o \in Nat /\ offset <= o /\ o < offset + len /\ o < limit
      BY <3>0, Constants DEF Offsets
    <3>3. \A o \in Nat : o < limit => o < U64Max
      BY <3>0, Constants
    <3> HIDE DEF gaps, asked
    <3>4. Covered(gaps) = asked \ held
      BY <3>1, <3>2, <3>3
    <3> QED
      BY <3>1, <3>4 DEF gaps, asked
  <2> QED
    BY <2>3, <2>4 DEF RangesExact
<1> QED
  BY <1>1, Invariance, PTL

(* A reply with data holds only bytes the device has sent: read_at runs    *)
(* only when missing finds nothing, and then every offset it sends is one  *)
(* that was written (read, fs.rs).                                         *)
THEOREM ServedBytesAreReal ==
  Spec => ServedIsReal
<1>1. ASSUME Inv, [Next]_vars, reply' # reply, reply'.kind = "data"
      PROVE  reply'.sent \subseteq held
  <2>1. CASE \E offset, len \in 0 .. MaxSize : ReadBegin(offset, len)
    <3>1. reply' = reply \/ reply' = [kind |-> "data", sent |-> {}]
      BY <2>1 DEF ReadBegin, Replies
    <3> QED
      BY <1>1, <3>1
  <2>2. CASE \E n \in 0 .. Chunk + Overshoot : Fetch(n)
    <3>1. reply' = reply \/ reply' = [kind |-> "eio", sent |-> {}]
      BY <2>2 DEF Fetch, Replies
    <3> QED
      BY <1>1, <3>1
  <2>3. CASE Serve
    <3>1. AllArrived /\ reply'.sent = rd.offset .. Min({rd.offset + rd.len, cache.total}) - 1
      BY <1>1, <2>3 DEF Serve, Replies
    <3>2. /\ cache.ranges \in Seq(Ranges) /\ Normal(cache.ranges)
          /\ Covered(cache.ranges) = held
          /\ cache.total \in Nat /\ cache.total <= U64Max
          /\ rd.offset \in Nat /\ rd.len \in Nat /\ rd.offset + rd.len \in Nat
      BY <1>1, Constants DEF Inv, Typed, CacheExact
    <3>3. Covered(Missing(cache.ranges, rd.offset, rd.len, cache.total)) = {}
      BY <3>1, NoRanges DEF AllArrived
    <3>4. ASSUME NEW o \in reply'.sent PROVE o \in held
      <4>1. Min({rd.offset + rd.len, cache.total})
              = IF rd.offset + rd.len <= cache.total THEN rd.offset + rd.len ELSE cache.total
        BY <3>2, OfTwo
      <4>2. /\ o \in Nat /\ rd.offset <= o /\ o < rd.offset + rd.len
            /\ o < cache.total /\ o < U64Max
        BY <3>1, <3>2, <4>1, Constants
      <4>3. \A x : x \in Covered(Missing(cache.ranges, rd.offset, rd.len, cache.total))
              <=> /\ x \in Nat /\ rd.offset <= x /\ x < rd.offset + rd.len
                  /\ x < U64Max /\ x < cache.total /\ x \notin Covered(cache.ranges)
        BY <3>2, MissingExact
      <4> QED
        BY <3>2, <3>3, <4>2, <4>3
    <3> QED
      BY <3>4
  <2>4. CASE FetchFails
    BY <1>1, <2>4 DEF FetchFails, Replies
  <2>5. CASE \E s \in 0 .. MaxSize : Changes(s)
    BY <1>1, <2>5 DEF Changes
  <2>6. CASE Relist \/ DropCache
    BY <1>1, <2>6 DEF Relist, DropCache
  <2>7. CASE UNCHANGED vars
    BY <1>1, <2>7 DEF vars
  <2> QED
    BY <1>1, <2>1, <2>2, <2>3, <2>4, <2>5, <2>6, <2>7 DEF Next, Step
<1>2. Inv /\ [Next]_vars
        => [reply' # reply /\ reply'.kind = "data" => reply'.sent \subseteq held]_vars
  BY <1>1
<1> QED
  BY <1>2, Invariance, PTL DEF Spec, ServedIsReal
=============================================================================
