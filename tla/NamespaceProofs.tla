-------------------------- MODULE NamespaceProofs ---------------------------
(***************************************************************************)
(* What Namespace's runs check of small directories, proved for any        *)
(* directories, names and budgets, any number of objects and turns.        *)
(***************************************************************************)
EXTENDS Namespace, FiniteSetTheorems, TLAPS

(* Sequences of entries.                                                   *)

(* No name is listed twice. *)
Unique(ks) == \A i, j \in DOMAIN ks : ks[i].name = ks[j].name => i = j

(* An injection between sets of the same size misses nothing. *)
LEMMA Onto ==
  ASSUME NEW S, NEW T, IsFiniteSet(T), IsFiniteSet(S), Cardinality(S) = Cardinality(T),
         NEW f \in [S -> T], \A x, y \in S : f[x] = f[y] => x = y
  PROVE  \A t \in T : \E x \in S : f[x] = t
<1>1. f \in Injection(S, T)
  BY DEF Injection, IsInjective
<1>2. f \in Surjection(S, T)
  BY <1>1, FS_Injection
<1> QED
  BY <1>2 DEF Surjection

(* The elements of a finite set of numbers have the ranks 1, 2, 3, ... *)
LEMMA Ranks ==
  ASSUME NEW at, IsFiniteSet(at), \A k \in at : k \in Nat
  PROVE  LET rank(k) == Cardinality({j \in at : j <= k})
         IN /\ Cardinality(at) \in Nat
            /\ \A i \in 1 .. Cardinality(at) : \E k \in at : rank(k) = i
            /\ \A k \in at : rank(k) \in 1 .. Cardinality(at)
            /\ \A k, l \in at : rank(k) = rank(l) => k = l
<1> DEFINE upto == [k \in at |-> {j \in at : j <= k}]
           rank == [k \in at |-> Cardinality(upto[k])]
           N == Cardinality(at)
<1>1. N \in Nat
  BY FS_CardinalityType
<1>2. /\ \A k \in at : upto[k] \in SUBSET at /\ k \in upto[k]
      /\ \A k, l \in at : k < l => upto[k] \cup {l} \in SUBSET upto[l] /\ l \notin upto[k]
  <2>2. \A k, j \in at : j \in upto[k] <=> j <= k
    OBVIOUS
  <2>3. \A k \in at : upto[k] \subseteq at
    OBVIOUS
  <2> HIDE DEF upto
  <2>4. ASSUME NEW k \in at, NEW l \in at, k < l
        PROVE  l \notin upto[k] /\ \A j \in upto[k] : j \in upto[l]
    BY <2>2, <2>3, <2>4
  <2>5. \A k \in at : k <= k
    OBVIOUS
  <2> QED
    BY <2>2, <2>3, <2>4, <2>5
<1>3. \A k \in at : rank[k] = Cardinality(upto[k])
  OBVIOUS
<1>4. \A k \in at : rank[k] = Cardinality({j \in at : j <= k})
  OBVIOUS
<1> HIDE DEF upto, rank
<1>5. \A k \in at : IsFiniteSet(upto[k]) /\ Cardinality(upto[k]) \in Nat
                   /\ Cardinality(upto[k]) <= N /\ Cardinality(upto[k]) # 0
  BY <1>1, <1>2, FS_Subset, FS_CardinalityType, FS_EmptySet
<1> HIDE DEF N
<1>6. \A k \in at : rank[k] \in 1 .. N
  BY <1>1, <1>3, <1>5
<1>7. ASSUME NEW k \in at, NEW l \in at, k < l PROVE rank[k] < rank[l]
  <2>1. Cardinality(upto[k] \cup {l}) = Cardinality(upto[k]) + 1
    BY <1>2, <1>5, <1>7, FS_AddElement
  <2>2. Cardinality(upto[k] \cup {l}) <= Cardinality(upto[l])
    BY <1>2, <1>5, <1>7, FS_Subset
  <2> DEFINE a == Cardinality(upto[k])
             b == Cardinality(upto[l])
             c == Cardinality(upto[k] \cup {l})
  <2>3. a \in Nat /\ b \in Nat /\ c = a + 1 /\ c <= b /\ rank[k] = a /\ rank[l] = b
    BY <1>3, <1>5, <2>1, <2>2
  <2> HIDE DEF a, b, c
  <2> QED
    BY <2>3
<1>8. \A k, l \in at : rank[k] = rank[l] => k = l
  <2>1. \A k, l \in at : k < l \/ l < k \/ k = l
    OBVIOUS
  <2>2. \A k \in at : rank[k] \in Nat
    BY <1>3, <1>5
  <2> QED
    BY <1>7, <2>1, <2>2
<1>9. \A i \in 1 .. N : \E k \in at : rank[k] = i
  <2> DEFINE T == 1 .. N
  <2>1. IsFiniteSet(T) /\ Cardinality(T) = N
    BY <1>1, FS_Interval
  <2>2. rank \in [at -> T]
    BY <1>6 DEF rank
  <2>3. Cardinality(at) = Cardinality(T)
    BY <2>1 DEF N
  <2> HIDE DEF T
  <2>4. \A t \in T : \E k \in at : rank[k] = t
    BY <1>8, <2>1, <2>2, <2>3, Onto
  <2> QED
    BY <2>4 DEF T
<1>10. \A i \in 1 .. N : \E k \in at : Cardinality({j \in at : j <= k}) = i
  BY <1>4, <1>9
<1>11. \A k \in at : Cardinality({j \in at : j <= k}) \in 1 .. N
  BY <1>4, <1>6
<1>12. \A k, l \in at : Cardinality({j \in at : j <= k}) = Cardinality({j \in at : j <= l}) => k = l
  BY <1>4, <1>8
<1> QED
  BY <1>1, <1>10, <1>11, <1>12, Zenon DEF N

(* What Retain keeps: the entries with a name in ns, each once, and the    *)
(* whole sequence where all have one.                                      *)
LEMMA RetainExact ==
  ASSUME NEW ks \in Seq(Entries), Unique(ks), NEW ns
  PROVE  /\ Retain(ks, ns) \in Seq(Entries)
         /\ Unique(Retain(ks, ns))
         /\ \A e : e \in Range(Retain(ks, ns)) <=> e \in Range(ks) /\ e.name \in ns
         /\ (\A e \in Range(ks) : e.name \in ns) => Retain(ks, ns) = ks
<1> DEFINE n == Len(ks)
           at == {i \in 1 .. n : ks[i].name \in ns}
           N == Cardinality(at)
           R(k) == Cardinality({j \in at : j <= k})
           inv == [i \in 1 .. N |-> CHOOSE k \in at : R(k) = i]
           r == [i \in 1 .. N |-> ks[inv[i]]]
<1>1. n \in Nat /\ DOMAIN ks = 1 .. n /\ \A i \in 1 .. n : ks[i] \in Entries
  OBVIOUS
<1>2. Retain(ks, ns) = r
  BY <1>1 DEF Retain
<1>3. IsFiniteSet(at) /\ \A k \in at : k \in Nat /\ k \in 1 .. n
  <2>1. at \in SUBSET (1 .. n) /\ \A k \in 1 .. n : k \in Nat
    BY <1>1
  <2>2. IsFiniteSet(1 .. n)
    BY <1>1, FS_Interval
  <2> HIDE DEF at
  <2> QED
    BY <2>1, <2>2, FS_Subset
<1>4. /\ N \in Nat
      /\ \A i \in 1 .. N : \E k \in at : R(k) = i
      /\ \A k \in at : R(k) \in 1 .. N
      /\ \A k, l \in at : R(k) = R(l) => k = l
  <2> HIDE DEF at
  <2> QED
    BY <1>3, Ranks
<1>5. \A i \in 1 .. N : inv[i] \in at /\ R(inv[i]) = i
  <2> HIDE DEF at, R, N
  <2> QED
    BY <1>4
<1>6. \A i \in 1 .. N : r[i] = ks[inv[i]] /\ inv[i] \in 1 .. n /\ r[i] \in Entries
                       /\ r[i].name \in ns
  <2>1. \A k \in at : k \in 1 .. n /\ ks[k] \in Entries /\ ks[k].name \in ns
    BY <1>1
  <2> HIDE DEF at, R, N, inv
  <2> QED
    BY <1>5, <2>1
<1>7. \A k \in 1 .. n : ks[k].name \in ns => \E i \in 1 .. N : inv[i] = k
  <2>1. \A k \in 1 .. n : ks[k].name \in ns => k \in at
    OBVIOUS
  <2> HIDE DEF at, R, N, inv, n
  <2> QED
    BY <1>4, <1>5, <2>1
<1>8. \A i, j \in 1 .. N : inv[i] = inv[j] => i = j
  <2> HIDE DEF at, R, N, inv
  <2> QED
    BY <1>5
<1>9. r \in Seq(Entries) /\ DOMAIN r = 1 .. N
  <2> HIDE DEF N, inv
  <2>1. r \in [1 .. N -> Entries]
    BY <1>6
  <2> QED
    BY <1>4, <2>1
<1>10. ASSUME \A e \in Range(ks) : e.name \in ns PROVE r = ks
  <2>1. \A k \in 1 .. n : ks[k].name \in ns
    BY <1>1, <1>10 DEF Range
  <2>2. at = 1 .. n
    BY <2>1
  <2>3. N = n
    <3>1. Cardinality(1 .. n) = n
      <4>1. n \in Nat
        BY <1>1
      <4> HIDE DEF n
      <4> QED
        BY <4>1, FS_Interval
    <3>2. \A S : S = 1 .. n => Cardinality(S) = n
      BY <3>1
    <3> HIDE DEF at, n
    <3> QED
      BY <2>2, <3>2 DEF N
  <2>4. \A k \in 1 .. n : R(k) = k
    <3> TAKE k \in 1 .. n
    <3>1. {j \in at : j <= k} = 1 .. k
      BY <1>1, <2>2
    <3>2. Cardinality(1 .. k) = k
      BY <1>1, FS_Interval
    <3> QED
      BY <3>1, <3>2
  <2>5. \A i \in 1 .. n : inv[i] = i
    <3> HIDE DEF at, R, N, inv, n
    <3> QED
      BY <1>5, <2>2, <2>3, <2>4
  <2> HIDE DEF at, R, N, inv, n
  <2>6. \A i \in 1 .. n : r[i] = ks[i]
    BY <1>6, <2>3, <2>5
  <2>7. r = [i \in 1 .. n |-> ks[i]]
    BY <2>3, <2>6
  <2>8. ks = [i \in 1 .. n |-> ks[i]]
    BY <1>1
  <2> QED
    BY <2>7, <2>8
<1> HIDE DEF at, R, N, inv, n, r
<1>11. Unique(r)
  BY <1>1, <1>6, <1>8, <1>9 DEF Unique
<1>12. \A e : e \in Range(r) <=> e \in Range(ks) /\ e.name \in ns
  BY <1>1, <1>6, <1>7, <1>9 DEF Range
<1> QED
  BY <1>2, <1>9, <1>10, <1>11, <1>12

(* Every object is in every order of a finite set, once. *)
LEMMA OrdersExact ==
  ASSUME NEW S, IsFiniteSet(S), NEW s \in SetToSeqs(S)
  PROVE  /\ s \in Seq(S)
         /\ \A o : o \in Range(s) <=> o \in S
         /\ \A i, j \in DOMAIN s : s[i] = s[j] => i = j
<1> DEFINE N == Cardinality(S)
           D == 1 .. N
<1>1. N \in Nat /\ IsFiniteSet(D) /\ Cardinality(D) = N
  BY FS_CardinalityType, FS_Interval
<1>2. s \in [D -> S] /\ \A i, j \in D : s[i] = s[j] => i = j
  BY DEF SetToSeqs
<1>3. \A o \in S : \E i \in D : s[i] = o
  <2> HIDE DEF D
  <2> QED
    BY <1>1, <1>2, Onto
<1>4. s \in Seq(S)
  <2> HIDE DEF N
  <2> QED
    BY <1>1, <1>2
<1> HIDE DEF D
<1> QED
  BY <1>2, <1>3, <1>4 DEF Range

(* The entries and names of a listing. *)
LEMMA Elements ==
  ASSUME NEW T, NEW s \in Seq(T)
  PROVE  /\ \A x \in Range(s) : x \in T
         /\ \A i \in DOMAIN s : s[i] \in Range(s) /\ s[i] \in T
         /\ \A x \in Range(s) : \E i \in DOMAIN s : s[i] = x
  BY DEF Range

LEMMA AppendExact ==
  ASSUME NEW ks \in Seq(Entries), Unique(ks), NEW e \in Entries,
         \A f \in Range(ks) : f.name # e.name
  PROVE  /\ Append(ks, e) \in Seq(Entries)
         /\ Unique(Append(ks, e))
         /\ \A f : f \in Range(Append(ks, e)) <=> f \in Range(ks) \/ f = e
         /\ Len(ks) <= Len(Append(ks, e))
         /\ \A i \in DOMAIN ks : Append(ks, e)[i] = ks[i]
<1> DEFINE n == Len(ks)
           r == Append(ks, e)
<1>1. n \in Nat /\ DOMAIN ks = 1 .. n
  OBVIOUS
<1>2. r \in Seq(Entries) /\ DOMAIN r = 1 .. n + 1 /\ Len(r) = n + 1
  OBVIOUS
<1>3. r[n + 1] = e /\ \A i \in 1 .. n : r[i] = ks[i]
  OBVIOUS
<1> HIDE DEF n, r
<1>4. \A i \in 1 .. n + 1 : i \in 1 .. n \/ i = n + 1
  BY <1>1
<1>5. \A i \in 1 .. n : i \in 1 .. n + 1 /\ ks[i].name # e.name
  BY <1>1 DEF Range
<1>6. n + 1 \in 1 .. n + 1
  BY <1>1
<1>7. Unique(r)
  BY <1>1, <1>2, <1>3, <1>4, <1>5 DEF Unique
<1>8. \A f : f \in Range(r) <=> f \in Range(ks) \/ f = e
  BY <1>1, <1>2, <1>3, <1>4, <1>5, <1>6 DEF Range
<1>9. n <= n + 1
  BY <1>1
<1> QED
  BY <1>1, <1>2, <1>3, <1>7, <1>8, <1>9 DEF r, n

LEMMA ListedNames ==
  ASSUME NEW d \in Dirs
  PROVE  /\ \A e \in Range(kids[d]) : e.name \in Listed(d)
         /\ \A n \in Listed(d) : \E e \in Range(kids[d]) : e.name = n
  BY DEF Listed, Range

LEMMA EntryExact ==
  ASSUME kids \in [Dirs -> Seq(Entries)], NEW d \in Dirs, Unique(kids[d]), NEW n \in Listed(d)
  PROVE  /\ Entry(d, n) \in Range(kids[d]) /\ Entry(d, n) \in Entries
         /\ Entry(d, n).name = n
         /\ \A e \in Range(kids[d]) : e.name = n => e = Entry(d, n)
<1>1. Entry(d, n) \in Range(kids[d]) /\ Entry(d, n).name = n
  BY ListedNames DEF Entry
<1>2. \A e, f \in Range(kids[d]) : e.name = f.name => e = f
  BY DEF Unique, Range
<1>3. kids[d] \in Seq(Entries)
  OBVIOUS
<1> QED
  BY <1>1, <1>2, <1>3, Elements

(* Two listings without a name in common, one after the other. *)
LEMMA ConcatExact ==
  ASSUME NEW a \in Seq(Entries), NEW b \in Seq(Entries), Unique(a), Unique(b),
         \A e \in Range(a), f \in Range(b) : e.name # f.name
  PROVE  /\ a \o b \in Seq(Entries)
         /\ Unique(a \o b)
         /\ \A e : e \in Range(a \o b) <=> e \in Range(a) \/ e \in Range(b)
         /\ Len(a) <= Len(a \o b)
         /\ \A i \in DOMAIN a : (a \o b)[i] = a[i]
<1> DEFINE m == Len(a)
           n == Len(b)
           r == a \o b
<1>1. m \in Nat /\ n \in Nat /\ DOMAIN a = 1 .. m /\ DOMAIN b = 1 .. n
  OBVIOUS
<1>2. r \in Seq(Entries) /\ DOMAIN r = 1 .. m + n /\ Len(r) = m + n
  OBVIOUS
<1>3. /\ \A i \in 1 .. m : r[i] = a[i] /\ i \in 1 .. m + n
      /\ \A i \in 1 .. n : r[m + i] = b[i] /\ m + i \in 1 .. m + n
  OBVIOUS
<1> HIDE DEF m, n, r
<1>4. \A i \in 1 .. m + n : i \in 1 .. m \/ \E j \in 1 .. n : i = m + j
  <2>1. ASSUME NEW i \in 1 .. m + n, i \notin 1 .. m PROVE i - m \in 1 .. n /\ i = m + (i - m)
    BY <1>1, <2>1
  <2> QED
    BY <2>1
<1>5. ASSUME NEW i \in 1 .. m + n, NEW j \in 1 .. m + n, r[i].name = r[j].name PROVE i = j
  <2>0. /\ \A k, l \in 1 .. m : a[k].name = a[l].name => k = l
        /\ \A k, l \in 1 .. n : b[k].name = b[l].name => k = l
        /\ \A k \in 1 .. m, l \in 1 .. n : a[k].name # b[l].name
    BY <1>1 DEF Unique, Range
  <2>1. CASE i \in 1 .. m
    BY <1>3, <1>4, <1>5, <2>0, <2>1
  <2>2. CASE \E k \in 1 .. n : i = m + k
    <3>1. PICK k \in 1 .. n : i = m + k
      BY <2>2
    <3>2. r[i] = b[k]
      BY <1>3, <3>1
    <3>3. j \notin 1 .. m
      BY <1>3, <1>5, <2>0, <3>2
    <3>4. PICK l \in 1 .. n : j = m + l
      BY <1>4, <3>3
    <3>5. r[j] = b[l]
      BY <1>3, <3>4
    <3> QED
      BY <1>5, <2>0, <3>1, <3>2, <3>4, <3>5
  <2> QED
    BY <1>4, <2>1, <2>2
<1>6. \A e : e \in Range(r) <=> e \in Range(a) \/ e \in Range(b)
  <2>1. (\A i \in 1 .. m : a[i] \in Range(r)) /\ \A i \in 1 .. n : b[i] \in Range(r)
    BY <1>2, <1>3 DEF Range
  <2>2. ASSUME NEW i \in 1 .. m + n PROVE r[i] \in Range(a) \/ r[i] \in Range(b)
    <3>1. CASE i \in 1 .. m
      BY <1>1, <1>3, <3>1 DEF Range
    <3>2. ASSUME NEW j \in 1 .. n, i = m + j PROVE r[i] \in Range(b)
      <4>1. r[i] = b[j]
        BY <1>3, <3>2
      <4> QED
        BY <1>1, <4>1 DEF Range
    <3> QED
      BY <1>4, <3>1, <3>2
  <2>3. \A e \in Range(r) : e \in Range(a) \/ e \in Range(b)
    BY <1>2, <2>2 DEF Range
  <2>4. (\A e \in Range(a) : e \in Range(r)) /\ \A e \in Range(b) : e \in Range(r)
    BY <1>1, <2>1 DEF Range
  <2> QED
    BY <2>3, <2>4
<1>7. m <= m + n
  BY <1>1
<1>8. Unique(r)
  BY <1>2, <1>5 DEF Unique
<1> QED
  BY <1>1, <1>2, <1>3, <1>6, <1>7, <1>8 DEF r, m, n

(* Paths name objects. *)
UniquePaths == \A o, p \in device : o.dir = p.dir /\ o.name = p.name => o = p

(* What list_into_table leaves: an entry for each object of the directory, *)
(* and the entries that stay, where all do, in their places.               *)
LEMMA SyncedExact ==
  ASSUME kids \in [Dirs -> Seq(Entries)], NEW d \in Dirs, Unique(kids[d]),
         device \subseteq Objects, IsFiniteSet(device), UniquePaths,
         NEW order \in Orders(d)
  PROVE  /\ Synced(d, order) \in Seq(Entries)
         /\ Unique(Synced(d, order))
         /\ \A e : e \in Range(Synced(d, order)) <=>
                     \E o \in device : o.dir = d /\ e = FreshEntry(o)
         /\ Listed(d) \subseteq NamesIn(device, d) =>
              /\ Len(kids[d]) <= Len(Synced(d, order))
              /\ \A i \in DOMAIN kids[d] : Synced(d, order)[i].name = kids[d][i].name
<1> DEFINE ns == NamesIn(device, d)
           kept == Retain(kids[d], ns)
           a == [i \in DOMAIN kept |-> FreshEntry(ListedObject(d, kept[i].name))]
           b == [i \in DOMAIN order |-> FreshEntry(order[i])]
           new == {o \in device : o.dir = d /\ o.name \notin Listed(d)}
<1>1. kids[d] \in Seq(Entries)
  OBVIOUS
<1>2. /\ kept \in Seq(Entries) /\ Unique(kept)
      /\ \A e : e \in Range(kept) <=> e \in Range(kids[d]) /\ e.name \in ns
      /\ (\A e \in Range(kids[d]) : e.name \in ns) => kept = kids[d]
  <2> HIDE DEF ns
  <2> QED
    BY <1>1, RetainExact
<1>3. new \in SUBSET device /\ order \in SetToSeqs(new)
  BY DEF Orders
<1>4. IsFiniteSet(new)
  <2> HIDE DEF new
  <2> QED
    BY <1>3, FS_Subset
<1>5. /\ order \in Seq(new)
      /\ \A o : o \in Range(order) <=> o \in new
      /\ \A i, j \in DOMAIN order : order[i] = order[j] => i = j
  <2> HIDE DEF new
  <2> QED
    BY <1>3, <1>4, OrdersExact
<1>6. /\ \A n \in ns : /\ ListedObject(d, n) \in device
                       /\ ListedObject(d, n).dir = d /\ ListedObject(d, n).name = n
      /\ \A o \in device : o.dir = d => o.name \in ns /\ o = ListedObject(d, o.name)
  BY DEF NamesIn, ListedObject, UniquePaths
<1>7. \A o \in device : FreshEntry(o) \in Entries /\ FreshEntry(o).name = o.name
  BY DEF FreshEntry, Entries, Objects
<1>8. Synced(d, order) = a \o b
  BY DEF Synced
<1> HIDE DEF ns, kept
<1>9. \A i \in DOMAIN kept : kept[i] \in Range(kept) /\ kept[i].name \in ns /\ kept[i] \in Range(kids[d])
  BY <1>2, Elements
<1>10. /\ a \in Seq(Entries) /\ DOMAIN a = DOMAIN kept /\ Len(a) = Len(kept)
       /\ \A i \in DOMAIN kept : a[i] = FreshEntry(ListedObject(d, kept[i].name))
  <2> DEFINE m == Len(kept)
  <2>1. m \in Nat /\ DOMAIN kept = 1 .. m
    BY <1>2
  <2> HIDE DEF m
  <2>2. a \in [1 .. m -> Entries]
    BY <1>6, <1>7, <1>9, <2>1
  <2>3. a \in Seq(Entries) /\ DOMAIN a = 1 .. m /\ Len(a) = m
    BY <2>1, <2>2
  <2> QED
    BY <2>1, <2>3 DEF m
<1>11. \A i \in DOMAIN kept : a[i].name = kept[i].name
  BY <1>6, <1>7, <1>9, <1>10
<1>12. /\ b \in Seq(Entries) /\ DOMAIN b = DOMAIN order
       /\ \A i \in DOMAIN order : b[i] = FreshEntry(order[i])
  <2> DEFINE m == Len(order)
  <2>1. m \in Nat /\ DOMAIN order = 1 .. m /\ \A i \in 1 .. m : order[i] \in device
    BY <1>3, <1>5
  <2> HIDE DEF m
  <2>2. b \in [1 .. m -> Entries]
    BY <1>7, <2>1
  <2> QED
    BY <2>1, <2>2
<1>13. \A i \in DOMAIN order : order[i] \in new /\ order[i] \in device /\ order[i].dir = d
                              /\ b[i].name = order[i].name /\ order[i].name \notin Listed(d)
  BY <1>5, <1>7, <1>12
<1> HIDE DEF a, b, new
<1>14. Unique(a)
  BY <1>2, <1>10, <1>11 DEF Unique
<1>15. Unique(b)
  BY <1>5, <1>12, <1>13 DEF Unique, UniquePaths
<1>16. \A e \in Range(a), f \in Range(b) : e.name # f.name
  <2>1. \A i \in DOMAIN a : a[i].name \in Listed(d)
    BY <1>9, <1>10, <1>11, ListedNames
  <2>2. \A i \in DOMAIN b : b[i].name \notin Listed(d)
    BY <1>12, <1>13
  <2> QED
    BY <2>1, <2>2 DEF Range
<1> DEFINE r == a \o b
<1>17. /\ r \in Seq(Entries) /\ Unique(r)
       /\ \A e : e \in Range(r) <=> e \in Range(a) \/ e \in Range(b)
       /\ Len(a) <= Len(r) /\ \A i \in DOMAIN a : r[i] = a[i]
  BY <1>10, <1>12, <1>14, <1>15, <1>16, ConcatExact
<1> HIDE DEF r
<1>18. ASSUME NEW e PROVE e \in Range(r) <=> \E o \in device : o.dir = d /\ e = FreshEntry(o)
  <2>1. ASSUME e \in Range(a) PROVE \E o \in device : o.dir = d /\ e = FreshEntry(o)
    BY <1>6, <1>9, <1>10, <2>1 DEF Range
  <2>2. ASSUME e \in Range(b) PROVE \E o \in device : o.dir = d /\ e = FreshEntry(o)
    BY <1>12, <1>13, <2>2 DEF Range
  <2>3. ASSUME NEW o \in device, o.dir = d, e = FreshEntry(o) PROVE e \in Range(r)
    <3>1. CASE o.name \in Listed(d)
      <4>1. PICK f \in Range(kept) : f.name = o.name
        BY <1>2, <1>6, <2>3, <3>1, ListedNames
      <4>2. PICK i \in DOMAIN kept : kept[i] = f
        BY <1>2, Elements
      <4>3. a[i] = e
        BY <1>6, <1>10, <2>3, <4>1, <4>2
      <4> QED
        BY <1>10, <1>17, <4>2, <4>3 DEF Range
    <3>2. CASE o.name \notin Listed(d)
      <4>1. o \in Range(order)
        BY <1>5, <2>3, <3>2 DEF new
      <4> QED
        BY <1>12, <1>17, <2>3, <4>1 DEF Range
    <3> QED
      BY <3>1, <3>2
  <2> QED
    BY <1>17, <2>1, <2>2, <2>3
<1>19. ASSUME Listed(d) \subseteq ns
       PROVE  Len(kids[d]) <= Len(r) /\ \A i \in DOMAIN kids[d] : r[i].name = kids[d][i].name
  <2>1. kept = kids[d]
    BY <1>2, <1>19, ListedNames
  <2> QED
    BY <1>10, <1>11, <1>17, <2>1
<1> QED
  BY <1>8, <1>17, <1>18, <1>19 DEF r, ns

(* The table. *)
Tabled == /\ kids \in [Dirs -> Seq(Entries)]
          /\ \A d \in Dirs : Unique(kids[d])

(* Entries may be added at the end, and get handles, but keep their places. *)
Extends(ks, ls) == Len(ks) <= Len(ls) /\ \A i \in DOMAIN ks : ls[i].name = ks[i].name

(* A listing whose entries are replaced in place by ones of their name. *)
LEMMA Replaced ==
  ASSUME NEW ks \in Seq(Entries), Unique(ks), NEW ls,
         ls = [i \in DOMAIN ks |-> ls[i]],
         \A i \in DOMAIN ks : ls[i] \in Entries /\ ls[i].name = ks[i].name
  PROVE  /\ ls \in Seq(Entries) /\ Unique(ls)
         /\ DOMAIN ls = DOMAIN ks /\ Extends(ks, ls)
<1> DEFINE m == Len(ks)
<1>1. m \in Nat /\ DOMAIN ks = 1 .. m
  OBVIOUS
<1> HIDE DEF m
<1>2. ls \in [1 .. m -> Entries]
  BY <1>1
<1>3. ls \in Seq(Entries) /\ DOMAIN ls = 1 .. m /\ Len(ls) = m
  BY <1>1, <1>2
<1>4. Unique(ls)
  BY <1>1, <1>3 DEF Unique
<1> QED
  BY <1>1, <1>3, <1>4 DEF Extends, m

LEMMA StalesExact ==
  ASSUME Tabled
  PROVE  /\ Stales(kids) \in [Dirs -> Seq(Entries)]
         /\ \A d \in Dirs : /\ Unique(Stales(kids)[d]) /\ Extends(kids[d], Stales(kids)[d])
                            /\ \A e \in Range(Stales(kids)[d]) :
                                 ~e.fresh /\ \E f \in Range(kids[d]) : e.name = f.name
                            /\ \A f \in Range(kids[d]) :
                                 \E e \in Range(Stales(kids)[d]) : e.name = f.name
<1> DEFINE S == [d \in Dirs |-> [i \in DOMAIN kids[d] |-> [kids[d][i] EXCEPT !.fresh = FALSE]]]
<1>0. Stales(kids) = S
  BY DEF Stales
<1>1. ASSUME NEW d \in Dirs
      PROVE  /\ S[d] \in Seq(Entries) /\ Unique(S[d]) /\ Extends(kids[d], S[d])
             /\ \A e \in Range(S[d]) : ~e.fresh /\ \E f \in Range(kids[d]) : e.name = f.name
             /\ \A f \in Range(kids[d]) : \E e \in Range(S[d]) : e.name = f.name
  <2> DEFINE ks == kids[d]
             ls == S[d]
  <2>1. ks \in Seq(Entries) /\ Unique(ks)
    BY DEF Tabled
  <2>2. ls = [i \in DOMAIN ks |-> [ks[i] EXCEPT !.fresh = FALSE]]
    OBVIOUS
  <2> HIDE DEF ks, ls
  <2>3. \A i \in DOMAIN ks : ks[i] \in Entries
    BY <2>1, Elements
  <2>4. \A e \in Entries : LET f == [e EXCEPT !.fresh = FALSE]
                           IN f \in Entries /\ f.name = e.name /\ ~f.fresh
    BY DEF Entries
  <2>5. \A i \in DOMAIN ks : ls[i] \in Entries /\ ls[i].name = ks[i].name /\ ~ls[i].fresh
    BY <2>2, <2>3, <2>4
  <2>6. ls = [i \in DOMAIN ks |-> ls[i]]
    BY <2>2
  <2>7. ls \in Seq(Entries) /\ Unique(ls) /\ DOMAIN ls = DOMAIN ks /\ Extends(ks, ls)
    BY <2>1, <2>5, <2>6, Replaced
  <2>8. /\ \A e \in Range(ls) : ~e.fresh /\ \E f \in Range(ks) : e.name = f.name
        /\ \A f \in Range(ks) : \E e \in Range(ls) : e.name = f.name
    BY <2>5, <2>7 DEF Range
  <2> QED
    BY <2>7, <2>8 DEF ks, ls
<1>2. S = [d \in Dirs |-> S[d]]
  OBVIOUS
<1> HIDE DEF S
<1>3. S \in [Dirs -> Seq(Entries)]
  BY <1>1, <1>2
<1> QED
  BY <1>0, <1>1, <1>3

LEMMA SetHandleExact ==
  ASSUME Tabled, NEW d \in Dirs, NEW n \in Listed(d), NEW h \in Nat \ {0}
  PROVE  LET K == SetHandle(d, n, h)
         IN /\ K \in [Dirs -> Seq(Entries)]
            /\ \A f \in Dirs : Unique(K[f]) /\ Extends(kids[f], K[f])
            /\ \A f \in Dirs : f # d => K[f] = kids[f]
            /\ \A e : e \in Range(K[d]) <=>
                 \/ e = [name |-> n, handle |-> h, fresh |-> TRUE]
                 \/ e \in Range(kids[d]) /\ e.name # n
<1> DEFINE K == SetHandle(d, n, h)
           ks == kids[d]
           new == [name |-> n, handle |-> h, fresh |-> TRUE]
           ls == [i \in DOMAIN ks |-> IF ks[i].name = n THEN new ELSE ks[i]]
<1>1. ks \in Seq(Entries) /\ Unique(ks)
  BY DEF Tabled
<1>2. K = [kids EXCEPT ![d] = ls] /\ kids \in [Dirs -> Seq(Entries)]
  BY DEF SetHandle, Tabled
<1>3. /\ \A i \in DOMAIN ks : ls[i] = IF ks[i].name = n THEN new ELSE ks[i]
      /\ ls = [i \in DOMAIN ks |-> ls[i]]
  OBVIOUS
<1>4. new \in Entries /\ new.name = n
  <2>1. n \in Names
    <3>1. PICK e \in Range(ks) : e.name = n
      BY ListedNames
    <3>2. e \in Entries
      BY <1>1, Elements
    <3> QED
      BY <3>1, <3>2 DEF Entries
  <2> QED
    BY <2>1 DEF Entries
<1>5. \E i \in DOMAIN ks : ks[i].name = n
  BY DEF Listed
<1> HIDE DEF K, ks, ls, new
<1>6. \A i \in DOMAIN ks : ks[i] \in Entries
  BY <1>1, Elements
<1>7. \A i \in DOMAIN ks : ls[i] \in Entries /\ ls[i].name = ks[i].name
  BY <1>3, <1>4, <1>6
<1>8. ls \in Seq(Entries) /\ Unique(ls) /\ DOMAIN ls = DOMAIN ks /\ Extends(ks, ls)
  BY <1>1, <1>3, <1>7, Replaced
<1>9. \A e : e \in Range(ls) <=> e = new \/ (e \in Range(ks) /\ e.name # n)
  <2>1. \A i \in DOMAIN ks : ks[i].name = n => ls[i] = new
    BY <1>3
  <2>2. \A i \in DOMAIN ks : ks[i].name # n => ls[i] = ks[i]
    BY <1>3
  <2> QED
    BY <1>5, <1>8, <2>1, <2>2 DEF Range
<1>10. K \in [Dirs -> Seq(Entries)] /\ K[d] = ls /\ \A f \in Dirs : f # d => K[f] = kids[f]
  BY <1>2, <1>8
<1>11. \A f \in Dirs : Extends(kids[f], kids[f])
  <2>1. \A f \in Dirs : Len(kids[f]) \in Nat
    BY <1>2
  <2> QED
    BY <2>1 DEF Extends
<1>12. \A f \in Dirs : Unique(K[f]) /\ Extends(kids[f], K[f])
  BY <1>8, <1>10, <1>11 DEF Tabled, ks
<1> QED
  BY <1>9, <1>10, <1>12 DEF K, ks, new

LEMMA WithoutExact ==
  ASSUME NEW ks \in Seq(Entries), Unique(ks), NEW n
  PROVE  /\ Without(ks, n) \in Seq(Entries)
         /\ Unique(Without(ks, n))
         /\ \A e : e \in Range(Without(ks, n)) <=> e \in Range(ks) /\ e.name # n
         /\ (\A e \in Range(ks) : e.name # n) => Without(ks, n) = ks
<1> DEFINE ns == Names \ {n}
<1>1. \A e \in Range(ks) : e.name \in ns <=> e.name # n
  <2>1. \A e \in Range(ks) : e \in Entries
    BY Elements
  <2>2. \A e \in Entries : e.name \in Names
    BY DEF Entries
  <2> QED
    BY <2>1, <2>2
<1>2. Without(ks, n) = Retain(ks, ns)
  BY DEF Without
<1> HIDE DEF ns
<1> QED
  BY <1>1, <1>2, RetainExact

LEMMA Updated ==
  ASSUME Tabled, NEW d \in Dirs, NEW ls \in Seq(Entries), Unique(ls)
  PROVE  LET K == [kids EXCEPT ![d] = ls]
         IN /\ K \in [Dirs -> Seq(Entries)] /\ \A f \in Dirs : Unique(K[f])
            /\ K[d] = ls /\ \A f \in Dirs : f # d => K[f] = kids[f]
  BY DEF Tabled

(* InodeTable::rename takes the entry from its place, evicts the one it    *)
(* replaces and comes last in the listing it ends up in.                   *)
LEMMA TableRenameExact ==
  ASSUME Tabled, op.dir \in Dirs, op.todir \in Dirs, op.name \in Listed(op.dir),
         op.toname \in Names, op.dir # op.todir \/ op.name # op.toname, TableRename
  PROVE  /\ kids' \in [Dirs -> Seq(Entries)]
         /\ \A d \in Dirs : Unique(kids'[d])
         /\ \A d \in Dirs : d \notin {op.dir, op.todir} => kids'[d] = kids[d]
         /\ \A d \in Dirs : \A f : f \in Range(kids'[d]) <=>
              \/ /\ f \in Range(kids[d])
                 /\ ~(d = op.dir /\ f.name = op.name) /\ ~(d = op.todir /\ f.name = op.toname)
              \/ /\ d = op.todir
                 /\ f = [name |-> op.toname, handle |-> Entry(op.dir, op.name).handle,
                         fresh |-> Entry(op.dir, op.name).fresh]
         /\ op.dir # op.todir /\ op.toname \notin Listed(op.todir)
              => Extends(kids[op.todir], kids'[op.todir])
<1> DEFINE a == op.dir
           b == op.todir
           n == op.name
           m == op.toname
           e == [Entry(a, n) EXCEPT !.name = m]
           new == [name |-> m, handle |-> Entry(a, n).handle, fresh |-> Entry(a, n).fresh]
           E == [kids EXCEPT ![b] = Without(@, m)]
           U == [E EXCEPT ![a] = Without(@, n)]
           K == [U EXCEPT ![b] = Append(@, e)]
<1>1. kids' = K
  BY DEF TableRename
<1>2. Entry(a, n) \in Entries /\ Entry(a, n) \in Range(kids[a])
  BY EntryExact DEF Tabled
<1>3. e = new /\ new \in Entries /\ new.name = m
  BY <1>2 DEF Entries
<1>4. a \in Dirs /\ b \in Dirs /\ m \in Names /\ (a # b \/ n # m) /\ n \in Listed(a)
  OBVIOUS
<1>5. /\ kids \in [Dirs -> Seq(Entries)] /\ \A d \in Dirs : Unique(kids[d])
      /\ \A d \in Dirs : kids[d] \in Seq(Entries)
  BY DEF Tabled
<1> HIDE DEF a, b, n, m, new
<1> DEFINE eb == Without(kids[b], m)
<1>6. /\ eb \in Seq(Entries) /\ Unique(eb)
      /\ \A f : f \in Range(eb) <=> f \in Range(kids[b]) /\ f.name # m
      /\ m \notin Listed(b) => eb = kids[b]
  <2>1. /\ eb \in Seq(Entries) /\ Unique(eb)
        /\ \A f : f \in Range(eb) <=> f \in Range(kids[b]) /\ f.name # m
        /\ (\A f \in Range(kids[b]) : f.name # m) => eb = kids[b]
    BY <1>4, <1>5, WithoutExact
  <2> QED
    BY <1>4, <2>1, ListedNames
<1>7. /\ E \in [Dirs -> Seq(Entries)] /\ E[b] = eb
      /\ \A d \in Dirs : d # b => E[d] = kids[d]
  BY <1>4, <1>5, <1>6
<1> HIDE DEF eb, E
<1>8. \A d \in Dirs : Unique(E[d]) /\ E[d] \in Seq(Entries)
  BY <1>5, <1>6, <1>7
<1> DEFINE ua == Without(E[a], n)
<1>9. /\ ua \in Seq(Entries) /\ Unique(ua)
      /\ \A f : f \in Range(ua) <=> f \in Range(E[a]) /\ f.name # n
  BY <1>4, <1>8, WithoutExact
<1>10. /\ U \in [Dirs -> Seq(Entries)] /\ U[a] = ua
       /\ \A d \in Dirs : d # a => U[d] = E[d]
  BY <1>4, <1>7, <1>9
<1> HIDE DEF ua, U
<1>11. \A d \in Dirs : Unique(U[d]) /\ U[d] \in Seq(Entries)
  BY <1>8, <1>9, <1>10
<1>12. \A d \in Dirs : \A f : f \in Range(U[d]) <=>
          f \in Range(kids[d]) /\ ~(d = a /\ f.name = n) /\ ~(d = b /\ f.name = m)
  <2> SUFFICES ASSUME NEW d \in Dirs
               PROVE  \A f : f \in Range(U[d]) <=>
                 f \in Range(kids[d]) /\ ~(d = a /\ f.name = n) /\ ~(d = b /\ f.name = m)
    OBVIOUS
  <2>1. \A f : f \in Range(E[d]) <=> f \in Range(kids[d]) /\ ~(d = b /\ f.name = m)
    BY <1>6, <1>7
  <2>2. \A f : f \in Range(U[d]) <=> f \in Range(E[d]) /\ ~(d = a /\ f.name = n)
    BY <1>9, <1>10
  <2> QED
    BY <2>1, <2>2
<1> DEFINE kb == Append(U[b], new)
<1>13. /\ kb \in Seq(Entries) /\ Unique(kb)
       /\ \A f : f \in Range(kb) <=> f \in Range(U[b]) \/ f = new
       /\ Len(U[b]) <= Len(kb) /\ \A i \in DOMAIN U[b] : kb[i] = U[b][i]
  <2>1. \A f \in Range(U[b]) : f.name # new.name
    BY <1>3, <1>4, <1>12
  <2> QED
    BY <1>3, <1>4, <1>11, <2>1, AppendExact
<1>14. /\ K \in [Dirs -> Seq(Entries)] /\ K[b] = kb
       /\ \A d \in Dirs : d # b => K[d] = U[d]
  <2>1. K = [U EXCEPT ![b] = kb]
    BY <1>3
  <2> HIDE DEF kb, K
  <2> QED
    BY <1>4, <1>10, <1>13, <2>1
<1> HIDE DEF kb, K, e
<1>15. \A d \in Dirs : Unique(K[d])
  BY <1>11, <1>13, <1>14
<1>16. \A d \in Dirs : d \notin {a, b} => K[d] = kids[d]
  BY <1>7, <1>10, <1>14
<1>17. ASSUME NEW d \in Dirs, NEW f
       PROVE  f \in Range(K[d]) <=>
                \/ f \in Range(kids[d]) /\ ~(d = a /\ f.name = n) /\ ~(d = b /\ f.name = m)
                \/ d = b /\ f = new
  <2>1. CASE d = b
    BY <1>12, <1>13, <1>14, <2>1
  <2>2. CASE d # b
    BY <1>12, <1>14, <2>2
  <2> QED
    BY <2>1, <2>2
<1>18. ASSUME a # b, m \notin Listed(b) PROVE Extends(kids[b], K[b])
  <2>1. U[b] = kids[b]
    BY <1>4, <1>6, <1>7, <1>10, <1>18
  <2> QED
    BY <1>13, <1>14, <2>1 DEF Extends
<1> QED
  BY <1>1, <1>14, <1>15, <1>16, <1>17, <1>18 DEF a, b, n, m, new

(* The call under way.                                                     *)

(* The call, and what it is called with, stay. *)
SameCall(a, b) == /\ a.call = b.call /\ a.dir = b.dir /\ a.name = b.name
                  /\ a.todir = b.todir /\ a.toname = b.toname

(* How a call goes on: with_recovery waits, its request is made, a stale   *)
(* handle is looked up again, and a pause of the wait is taken.            *)
Waits(o) == [o EXCEPT !.pc = "wait", !.wait = Schedule(Timeout), !.slept = 0]

Requests(o) == [o EXCEPT !.pc = "call"]

LooksAgain(o) == [o EXCEPT !.pc = "resolve", !.stale = @ - 1]

Sleeps(o) == [o EXCEPT !.wait = After(@), !.slept = @ + Delay(o.wait),
                       !.total = @ + Delay(o.wait)]

TriesAgain(o) == [o EXCEPT !.pc = "resolve", !.tries = @ + 1, !.stale = MAX_STALE_RETRIES]

GoesOn(o) == [o EXCEPT !.call = "move", !.pc = "resolve", !.tries = 1,
                       !.stale = MAX_STALE_RETRIES]

LEMMA DelayExact ==
  ASSUME NEW b \in [remaining : Nat, next : Nat]
  PROVE  /\ Delay(b) \in Nat /\ Delay(b) <= b.remaining
         /\ After(b) \in [remaining : Nat, next : Nat]
         /\ After(b).remaining + Delay(b) = b.remaining
<1> DEFINE r == b.remaining
           n == b.next
<1>1. r \in Nat /\ n \in Nat
  OBVIOUS
<1>2. Delay(b) = IF n < r THEN n ELSE r
  BY DEF Delay, Lesser
<1>3. After(b) = [remaining |-> r - Delay(b), next |-> IF 2 * n < 8 THEN 2 * n ELSE 8]
  BY DEF After, Lesser, MAX_DELAY
<1> HIDE DEF r, n
<1>4. Delay(b) \in Nat /\ Delay(b) <= r /\ r - Delay(b) \in Nat /\ (r - Delay(b)) + Delay(b) = r
  BY <1>1, <1>2
<1>5. (IF 2 * n < 8 THEN 2 * n ELSE 8) \in Nat
  BY <1>1
<1> QED
  BY <1>3, <1>4, <1>5 DEF r

LEMMA WaitsTo ==
  ASSUME NEW o \in Ops
  PROVE  LET p == Waits(o)
         IN /\ p \in Ops /\ SameCall(p, o)
            /\ p.tries = o.tries /\ p.stale = o.stale
            /\ p.pc = "wait" /\ p.wait = Schedule(Timeout) /\ p.slept = 0
<1>1. Schedule(Timeout) \in [remaining : Nat, next : Nat]
  BY NamespaceAssumption DEF Schedule, FIRST_DELAY
<1> QED
  BY <1>1 DEF Waits, SameCall, Ops

LEMMA RequestsTo ==
  ASSUME NEW o \in Ops
  PROVE  LET p == Requests(o)
         IN /\ p \in Ops /\ SameCall(p, o)
            /\ p.tries = o.tries /\ p.stale = o.stale
            /\ p.pc = "call" /\ p.slept = o.slept
  BY DEF Requests, SameCall, Ops

LEMMA LooksAgainTo ==
  ASSUME NEW o \in Ops, o.stale # 0
  PROVE  LET p == LooksAgain(o)
         IN /\ p \in Ops /\ SameCall(p, o)
            /\ p.tries = o.tries /\ p.stale < MAX_STALE_RETRIES
            /\ p.pc = "resolve" /\ p.slept = o.slept
<1>1. o.stale - 1 \in 0 .. MAX_STALE_RETRIES /\ o.stale - 1 < MAX_STALE_RETRIES
  BY NamespaceAssumption DEF Ops
<1> QED
  BY <1>1 DEF LooksAgain, SameCall, Ops

LEMMA SleepsTo ==
  ASSUME NEW o \in Ops
  PROVE  LET p == Sleeps(o)
         IN /\ p \in Ops /\ SameCall(p, o)
            /\ p.tries = o.tries /\ p.stale = o.stale
            /\ p.pc = o.pc /\ p.wait = After(o.wait) /\ p.slept = o.slept + Delay(o.wait)
<1>1. o.wait \in [remaining : Nat, next : Nat]
  BY DEF Ops
<1>2. After(o.wait) \in [remaining : Nat, next : Nat] /\ Delay(o.wait) \in Nat
  BY <1>1, DelayExact
<1>3. o.slept + Delay(o.wait) \in Nat /\ o.total + Delay(o.wait) \in Nat
  BY <1>2 DEF Ops
<1> QED
  BY <1>1, <1>2, <1>3 DEF Sleeps, SameCall, Ops

LEMMA TriesAgainTo ==
  ASSUME NEW o \in Ops, o.tries # MAX_ATTEMPTS
  PROVE  LET p == TriesAgain(o)
         IN /\ p \in Ops /\ SameCall(p, o)
            /\ p.tries = o.tries + 1
            /\ p.pc = "resolve" /\ p.slept = o.slept
<1>1. o.tries + 1 \in 0 .. MAX_ATTEMPTS
  BY NamespaceAssumption DEF Ops
<1>2. MAX_STALE_RETRIES \in 0 .. MAX_STALE_RETRIES
  BY NamespaceAssumption
<1> QED
  BY <1>1, <1>2 DEF TriesAgain, SameCall, Ops

LEMMA GoesOnTo ==
  ASSUME NEW o \in Ops
  PROVE  LET p == GoesOn(o)
         IN /\ p \in Ops /\ p.call = "move" /\ p.dir = o.dir /\ p.name = o.name
            /\ p.todir = o.todir /\ p.toname = o.toname /\ p.tries = 1
            /\ p.stale = MAX_STALE_RETRIES /\ p.pc = "resolve" /\ p.slept = o.slept
<1>1. MAX_STALE_RETRIES \in 0 .. MAX_STALE_RETRIES /\ 1 \in 0 .. MAX_ATTEMPTS
  BY NamespaceAssumption
<1> QED
  BY <1>1 DEF GoesOn, Ops, Calls

(* The invariants that the types rest on.                                  *)

(* Handles and paths name objects, and handles are given out once. *)
Stored ==
  /\ \A o \in device : o.handle < next
  /\ \A o, p \in device : o.handle = p.handle => o = p
  /\ UniquePaths

Existing == op.call \in {"remove", "rename", "move"}

EntryFresh == \A e \in Range(kids[op.dir]) : e.name = op.name => e.fresh

(* The first request of a rename to another directory has been answered:   *)
(* the object has its new name, the entry still the old one.               *)
HalfMoved == op.call = "move" /\ op.name # op.toname /\ ~StrayMove

(* What a call carries: it was checked when the call began, and the table  *)
(* keeps it while the call holds the lock.                                 *)
Shaped ==
  /\ op.pc = "none" <=> op.call = "none"
  /\ op.call # "none" => op.dir \in Dirs /\ op.tries >= 1
  /\ op.call = "create" => op.name \in Names /\ op.name \notin Listed(op.dir)
  /\ Existing => op.name \in Listed(op.dir)
  /\ op.call \in {"rename", "move"} =>
       /\ op.todir \in Dirs /\ op.toname \in Names
       /\ op.dir # op.todir \/ op.name # op.toname
  /\ op.call = "move" => op.dir # op.todir
  /\ op.call = "readdir" => op.dir = stream.dir /\ ~stream.ended
  /\ Existing /\ op.pc = "call" => EntryFresh
  /\ HalfMoved => EntryFresh
  /\ stream.dir = None => stream = NoStream

Sound == TypeOK /\ Tabled /\ Stored /\ Shaped

(* How the device changes. *)
LEMMA FiniteImage ==
  ASSUME NEW S, IsFiniteSet(S), NEW T, NEW m, T = {m[o] : o \in S}
  PROVE  IsFiniteSet(T)
<1> DEFINE f == [o \in S |-> m[o]]
<1>1. f \in Surjection(S, T)
  BY DEF Surjection
<1> QED
  BY <1>1, FS_Surjection

Kept(dev, n) ==
  /\ dev \subseteq Objects /\ IsFiniteSet(dev)
  /\ \A o \in dev : o.handle < n
  /\ \A o, p \in dev : o.handle = p.handle => o = p
  /\ \A o, p \in dev : o.dir = p.dir /\ o.name = p.name => o = p

LEMMA DeviceGrows ==
  ASSUME Sound, NEW d \in Dirs, NEW n \in Names, At(d, n) = {}
  PROVE  Kept(device \cup {[dir |-> d, name |-> n, handle |-> next]}, next + 1)
<1> DEFINE new == [dir |-> d, name |-> n, handle |-> next]
           dev == device \cup {new}
<1>1. new \in Objects /\ new.handle = next /\ new.dir = d /\ new.name = n
  BY DEF Sound, TypeOK, Objects
<1>2. \A o \in device : ~(o.dir = d /\ o.name = n)
  BY DEF At
<1>3. /\ device \subseteq Objects /\ IsFiniteSet(device) /\ next \in Nat
      /\ \A o \in device : o.handle < next /\ o.handle \in Nat
      /\ \A o, p \in device : o.handle = p.handle => o = p
      /\ \A o, p \in device : o.dir = p.dir /\ o.name = p.name => o = p
  BY DEF Sound, TypeOK, Stored, UniquePaths, Objects
<1> HIDE DEF new
<1>4. IsFiniteSet(dev)
  BY <1>3, FS_AddElement
<1>5. \A o \in device : o.handle < next + 1 /\ o.handle # next
  BY <1>3
<1>6. next < next + 1
  BY <1>3
<1>7. \A o \in dev : o \in device \/ o = new
  OBVIOUS
<1>8. dev \subseteq Objects
  BY <1>1, <1>3
<1> HIDE DEF dev
<1>9. \A o \in dev : o.handle < next + 1
  BY <1>1, <1>5, <1>6, <1>7
<1>10. \A o, p \in dev : o.handle = p.handle => o = p
  BY <1>1, <1>3, <1>5, <1>7
<1>11. \A o, p \in dev : o.dir = p.dir /\ o.name = p.name => o = p
  BY <1>1, <1>2, <1>3, <1>7
<1> QED
  BY <1>4, <1>8, <1>9, <1>10, <1>11 DEF Kept, dev, new

LEMMA DeviceShrinks ==
  ASSUME Sound, NEW dev \in SUBSET device
  PROVE  Kept(dev, next)
<1>1. IsFiniteSet(dev)
  BY FS_Subset DEF Sound, TypeOK
<1> QED
  BY <1>1 DEF Sound, TypeOK, Stored, UniquePaths, Kept

(* One object, or none, gets a path that is free. *)
LEMMA DeviceRelabels ==
  ASSUME Sound, NEW h, NEW r \in [device -> Objects],
         \A o \in WithHandle(h) : r[o].handle = o.handle /\ At(r[o].dir, r[o].name) = {}
  PROVE  Kept((device \ WithHandle(h)) \cup {r[o] : o \in WithHandle(h)}, next)
<1> DEFINE W == WithHandle(h)
           new == {r[o] : o \in W}
           dev == (device \ W) \cup new
<1>1. /\ W \in SUBSET device /\ \A o, p \in W : o = p
      /\ \A o \in device : o \in W <=> o.handle = h
  BY DEF WithHandle, Sound, Stored
<1>2. \A o \in W : ~\E p \in device : p.dir = r[o].dir /\ p.name = r[o].name
  BY <1>1 DEF At
<1>3. /\ device \subseteq Objects /\ IsFiniteSet(device)
      /\ \A o \in device : o.handle < next
      /\ \A o, p \in device : o.handle = p.handle => o = p
      /\ \A o, p \in device : o.dir = p.dir /\ o.name = p.name => o = p
  BY DEF Sound, TypeOK, Stored, UniquePaths
<1>4. \A o \in new : \E p \in W : o = r[p]
  OBVIOUS
<1>5. IsFiniteSet(W) /\ IsFiniteSet(device \ W)
  <2> HIDE DEF W
  <2> QED
    BY <1>1, <1>3, FS_Subset, FS_Difference
<1>6. IsFiniteSet(new)
  BY <1>5, FiniteImage
<1> HIDE DEF W, new
<1>7. IsFiniteSet(dev)
  BY <1>5, <1>6, FS_Union
<1>8. \A o \in dev : (o \in device /\ o \notin W) \/ \E p \in W : o = r[p]
  BY <1>4
<1>9. dev \subseteq Objects
  BY <1>1, <1>3, <1>8
<1> HIDE DEF dev
<1>10. \A o \in dev : o.handle < next
  BY <1>1, <1>3, <1>8 DEF W
<1>11. \A o, p \in dev : o.handle = p.handle => o = p
  BY <1>1, <1>3, <1>8 DEF W
<1>12. \A o, p \in dev : o.dir = p.dir /\ o.name = p.name => o = p
  BY <1>1, <1>2, <1>3, <1>8
<1> QED
  BY <1>7, <1>9, <1>10, <1>11, <1>12 DEF Kept, dev, new, W

(* A new session renumbers the objects; none gets another path. *)
LEMMA DeviceRenumbers ==
  ASSUME Sound, NEW num \in Injection(device, 1 .. Cardinality(device))
  PROVE  /\ Kept({[o EXCEPT !.handle = num[o]] : o \in device}, Cardinality(device) + 1)
         /\ Cardinality(device) + 1 \in Nat \ {0}
<1> DEFINE N == Cardinality(device)
           r == [o \in device |-> [o EXCEPT !.handle = num[o]]]
           dev == {r[o] : o \in device}
<1>1. /\ device \subseteq Objects /\ IsFiniteSet(device)
      /\ \A o, p \in device : o.dir = p.dir /\ o.name = p.name => o = p
  BY DEF Sound, TypeOK, Stored, UniquePaths
<1>2. N \in Nat
  BY <1>1, FS_CardinalityType
<1>3. (\A o \in device : num[o] \in 1 .. N) /\ \A o, p \in device : num[o] = num[p] => o = p
  BY DEF Injection, IsInjective
<1> HIDE DEF N
<1>4. \A o \in device : num[o] \in Nat \ {0} /\ num[o] < N + 1
  BY <1>2, <1>3
<1>5. \A o \in device : /\ r[o] \in Objects /\ r[o].handle = num[o]
                        /\ r[o].dir = o.dir /\ r[o].name = o.name
  BY <1>1, <1>4 DEF Objects
<1>6. dev = {[o EXCEPT !.handle = num[o]] : o \in device}
  OBVIOUS
<1> HIDE DEF r
<1>7. IsFiniteSet(dev)
  BY <1>1, FiniteImage
<1>8. \A o \in dev : \E p \in device : o = r[p]
  OBVIOUS
<1> HIDE DEF dev
<1>9. dev \subseteq Objects /\ \A o \in dev : o.handle < N + 1
  BY <1>4, <1>5, <1>8
<1>10. \A o, p \in dev : o.handle = p.handle => o = p
  BY <1>3, <1>5, <1>8
<1>11. \A o, p \in dev : o.dir = p.dir /\ o.name = p.name => o = p
  BY <1>1, <1>5, <1>8
<1>12. Kept(dev, N + 1)
  BY <1>7, <1>9, <1>10, <1>11 DEF Kept
<1>13. N + 1 \in Nat \ {0}
  BY <1>2
<1> QED
  BY <1>6, <1>12, <1>13 DEF N

(* Parts of the steps. *)
LEMMA HistoryTyped ==
  ASSUME TypeOK, device' \subseteq Objects, History
  PROVE  there' \subseteq Names /\ calm' \in BOOLEAN
<1>1. /\ \A d : NamesIn(device, d) \subseteq Names
      /\ \A d : NamesIn(device', d) \subseteq Names
  BY DEF NamesIn, TypeOK, Objects
<1>2. there' \subseteq Names
  BY <1>1 DEF History
<1>3. calm' \in BOOLEAN
  BY DEF History
<1> QED
  BY <1>2, <1>3

LEMMA TurnTyped ==
  ASSUME TypeOK, Turn \/ turns' = turns
  PROVE  turns' \in 0 .. MaxTurns
  BY NamespaceAssumption DEF Turn, TypeOK

LEMMA Concatenated ==
  ASSUME NEW T, NEW v \in Seq(T), NEW u \in Seq(T)
  PROVE  /\ v \o u \in Seq(T) /\ Len(v \o u) = Len(v) + Len(u)
         /\ Len(v) \in Nat /\ Len(u) \in Nat
         /\ \A i \in 1 .. Len(v) : (v \o u)[i] = v[i]
         /\ \A i \in 1 .. Len(u) : (v \o u)[Len(v) + i] = u[i]
  OBVIOUS

LEMMA ShownTyped ==
  ASSUME NEW ks \in Seq(Entries)
  PROVE  /\ Shown(ks) \in Seq(Names \cup {".", ".."}) /\ Len(Shown(ks)) = Len(ks) + 2
         /\ Shown(ks)[1] = "." /\ Shown(ks)[2] = ".."
         /\ \A i \in DOMAIN ks : Shown(ks)[i + 2] = ks[i].name
<1> DEFINE T == Names \cup {".", ".."}
           n == Len(ks)
           u == [i \in 1 .. n |-> ks[i].name]
           v == <<".", "..">>
<1>1. n \in Nat /\ DOMAIN ks = 1 .. n /\ \A i \in 1 .. n : ks[i].name \in T
  <2>1. \A e \in Entries : e.name \in T
    BY DEF Entries
  <2> QED
    BY <2>1
<1>2. v \in Seq(T) /\ Len(v) = 2 /\ v[1] = "." /\ v[2] = ".."
  OBVIOUS
<1>3. Shown(ks) = v \o u
  BY <1>1 DEF Shown
<1> HIDE DEF n, T, v
<1>4. u \in Seq(T) /\ Len(u) = n /\ \A i \in 1 .. n : u[i] = ks[i].name
  <2>1. u \in [1 .. n -> T]
    BY <1>1
  <2> QED
    BY <1>1, <2>1
<1> HIDE DEF u
<1> DEFINE w == v \o u
<1>5. /\ w \in Seq(T) /\ Len(w) = Len(v) + Len(u)
      /\ \A i \in 1 .. Len(v) : w[i] = v[i]
      /\ \A i \in 1 .. Len(u) : w[Len(v) + i] = u[i]
  <2>1. v \in Seq(T)
    BY <1>2
  <2>2. u \in Seq(T)
    BY <1>4
  <2> QED
    BY <2>1, <2>2, Concatenated
<1>6. /\ Len(w) = n + 2 /\ w[1] = v[1] /\ w[2] = v[2]
      /\ \A i \in 1 .. n : w[i + 2] = u[i]
  <2> HIDE DEF w
  <2>1. 1 \in 1 .. 2 /\ 2 \in 1 .. 2 /\ \A i \in 1 .. n : i + 2 = 2 + i
    BY <1>1
  <2> QED
    BY <1>1, <1>2, <1>4, <1>5, <2>1
<1> HIDE DEF w
<1> QED
  <2>1. Shown(ks) = w
    BY <1>3 DEF w
  <2> QED
    BY <1>1, <1>2, <1>4, <1>5, <1>6, <2>1 DEF T, n

LEMMA PageTyped ==
  ASSUME stream \in Streams, NEW ks \in Seq(Entries), NEW ok \in BOOLEAN, Page(ks, ok)
  PROVE  stream' \in Streams /\ stream'.dir = stream.dir
<1> DEFINE T == Names \cup {".", ".."}
           off == stream.offset
           sh == Shown(ks)
           rest == SubSeq(sh, off + 1, Len(sh))
           m == Lesser(Capacity, Len(rest))
           page == SubSeq(rest, 1, m)
<1>1. sh \in Seq(T)
  BY ShownTyped
<1>2. off \in Nat /\ stream.seen \in Seq(T) /\ stream.ok \in BOOLEAN /\ stream.dir \in Dirs \cup {None}
  BY DEF Streams
<1>3. stream' = [dir |-> stream.dir, offset |-> off + Len(page), seen |-> stream.seen \o page,
                 ok |-> stream.ok /\ ok, ended |-> page = <<>>]
  BY DEF Page, From
<1> HIDE DEF T, sh, off
<1>4. rest \in Seq(T)
  BY <1>1, <1>2
<1> HIDE DEF rest
<1>5. m \in Nat /\ m <= Len(rest)
  BY <1>4, NamespaceAssumption DEF Lesser
<1> HIDE DEF m
<1>6. page \in Seq(T)
  BY <1>4, <1>5
<1> HIDE DEF page
<1>7. off + Len(page) \in Nat /\ stream.seen \o page \in Seq(T)
  BY <1>2, <1>6
<1>8. (stream.ok /\ ok) \in BOOLEAN /\ (page = <<>>) \in BOOLEAN
  OBVIOUS
<1> QED
  BY <1>2, <1>3, <1>7, <1>8 DEF Streams, T

(* The call is over. *)
LEMMA FailsInTyped ==
  ASSUME Sound, op.call # "none", NEW ds \in SUBSET Dirs, FailsIn(ds)
  PROVE  /\ op' = NoOp /\ suspect' \subseteq Dirs /\ suspect \subseteq suspect'
         /\ ds \subseteq suspect' /\ Torn \subseteq suspect'
         /\ stream' \in Streams /\ (stream'.dir = None => stream' = NoStream)
         /\ op.call # "readdir" => stream' = stream
<1>1. op.dir \in Dirs
  BY DEF Sound, Shaped
<1>2. /\ suspect' \subseteq Dirs /\ suspect \subseteq suspect' /\ op' = NoOp
      /\ ds \subseteq suspect' /\ Torn \subseteq suspect'
  BY <1>1 DEF FailsIn, Torn, Sound, TypeOK
<1>3. CASE op.call = "readdir"
  <2>1. kids[op.dir] \in Seq(Entries) /\ stream \in Streams
    BY <1>1 DEF Sound, TypeOK
  <2>2. stream' \in Streams /\ stream'.dir = stream.dir
    BY <1>3, <2>1, PageTyped DEF FailsIn
  <2>3. stream.dir # None
    BY <1>1, <1>3, NamespaceAssumption DEF Sound, Shaped
  <2> QED
    BY <1>2, <1>3, <2>2, <2>3
<1>4. CASE op.call # "readdir"
  BY <1>2, <1>4 DEF FailsIn, Sound, TypeOK, Shaped
<1> QED
  BY <1>2, <1>3, <1>4

LEMMA FailsTyped ==
  ASSUME Sound, op.call # "none", Fails
  PROVE  /\ op' = NoOp /\ suspect' \subseteq Dirs /\ suspect \subseteq suspect'
         /\ stream' \in Streams /\ (stream'.dir = None => stream' = NoStream)
         /\ op.call # "readdir" => stream' = stream
<1>1. FailsIn({}) /\ {} \in SUBSET Dirs
  BY DEF Fails
<1> QED
  BY <1>1, FailsInTyped

LEMMA NoOpTyped ==
  NoOp \in Ops /\ NoOp.call = "none" /\ NoOp.pc = "none" /\ NoOp.slept = 0
<1>1. Schedule(0) \in [remaining : Nat, next : Nat]
  BY DEF Schedule, FIRST_DELAY
<1>2. 0 \in 0 .. MAX_ATTEMPTS /\ 0 \in 0 .. MAX_STALE_RETRIES
  BY NamespaceAssumption
<1> QED
  BY <1>1, <1>2 DEF NoOp, Ops, Calls

LEMMA Answers ==
  ASSUME op' = NoOp, stream'.dir = None => stream' = NoStream
  PROVE  op' \in Ops /\ Shaped'
  BY NoOpTyped DEF Shaped, Existing, HalfMoved

(* The call goes on as it is. *)
LEMMA Continues ==
  ASSUME Sound, op.call # "none", op' \in Ops, SameCall(op', op), op'.pc # "none", op'.tries >= 1,
         stream' = stream, \A d \in Dirs : Listed(d)' = Listed(d),
         Existing' /\ op'.pc = "call" => EntryFresh', HalfMoved' => EntryFresh'
  PROVE  Shaped'
<1>1. op.dir \in Dirs
  BY DEF Sound, Shaped
<1>2. Listed(op.dir)' = Listed(op.dir) /\ op'.dir = op.dir
  BY <1>1 DEF SameCall, Listed
<1> QED
  BY <1>1, <1>2 DEF Sound, Shaped, SameCall, Existing

LEMMA BeginsTyped ==
  ASSUME NEW call \in Calls, NEW d \in Dirs, NEW n \in Names \cup {None},
         NEW e \in Dirs \cup {None}, NEW m \in Names \cup {None}, Begin(call, d, n, e, m)
  PROVE  /\ op' \in Ops /\ op'.call = call /\ op'.dir = d /\ op'.name = n /\ op'.todir = e
         /\ op'.toname = m /\ op'.pc = "resolve" /\ op'.tries = 1 /\ op'.slept = 0
         /\ op'.stale = MAX_STALE_RETRIES
<1>1. Schedule(0) \in [remaining : Nat, next : Nat]
  BY DEF Schedule, FIRST_DELAY
<1>2. 1 \in 0 .. MAX_ATTEMPTS /\ MAX_STALE_RETRIES \in 0 .. MAX_STALE_RETRIES
  BY NamespaceAssumption
<1> QED
  BY <1>1, <1>2 DEF Begin, Ops

(* The invariant holds first, and at every step. *)
LEMMA SoundInit == Init => Sound
<1> SUFFICES ASSUME Init PROVE Sound
  OBVIOUS
<1>0. PICK paths \in SUBSET (Dirs \X Names) :
        /\ IsFiniteSet(paths)
        /\ \E num \in Injection(paths, 1 .. Cardinality(paths)) :
             device = {[dir |-> p[1], name |-> p[2], handle |-> num[p]] : p \in paths}
  BY DEF Init
<1>1. PICK num \in Injection(paths, 1 .. Cardinality(paths)) :
        device = {[dir |-> p[1], name |-> p[2], handle |-> num[p]] : p \in paths}
  BY <1>0
<1> DEFINE N == Cardinality(paths)
           m == [p \in paths |-> [dir |-> p[1], name |-> p[2], handle |-> num[p]]]
<1>2. N \in Nat
  BY <1>0, FS_CardinalityType
<1>3. (\A p \in paths : num[p] \in 1 .. N) /\ \A p, q \in paths : num[p] = num[q] => p = q
  BY DEF Injection, IsInjective
<1>4. \A p \in paths : p[1] \in Dirs /\ p[2] \in Names /\ p = <<p[1], p[2]>>
  OBVIOUS
<1> HIDE DEF N
<1>5. \A p \in paths : num[p] \in Nat \ {0} /\ num[p] < N + 1
  BY <1>2, <1>3
<1>6. \A p \in paths : /\ m[p] \in Objects /\ m[p].handle = num[p]
                      /\ m[p].dir = p[1] /\ m[p].name = p[2]
  BY <1>4, <1>5 DEF Objects
<1>7. device = {m[p] : p \in paths}
  BY <1>1
<1>8. m = [p \in paths |-> m[p]]
  OBVIOUS
<1> HIDE DEF m
<1>9. m \in Surjection(paths, device) /\ m \in Injection(paths, device)
  BY <1>3, <1>6, <1>7, <1>8 DEF Surjection, Injection, IsInjective
<1>10. IsFiniteSet(device) /\ Cardinality(device) = N
  BY <1>0, <1>9, FS_Surjection DEF N
<1>11. Kept(device, next) /\ next \in Nat \ {0}
  <2>1. next = N + 1
    BY <1>10 DEF Init
  <2>2. \A o \in device : \E p \in paths : o = m[p]
    BY <1>7
  <2>3. device \subseteq Objects /\ \A o \in device : o.handle < N + 1
    BY <1>5, <1>6, <2>2
  <2>4. \A o, p \in device : o.handle = p.handle => o = p
    BY <1>3, <1>6, <2>2
  <2>5. \A o, p \in device : o.dir = p.dir /\ o.name = p.name => o = p
    <3>1. \A p, q \in paths : p[1] = q[1] /\ p[2] = q[2] => p = q
      BY <1>4
    <3> QED
      BY <1>6, <2>2, <3>1
  <2>6. N + 1 \in Nat \ {0}
    BY <1>2
  <2> QED
    BY <1>10, <2>1, <2>3, <2>4, <2>5, <2>6 DEF Kept
<1>12. Tabled
  <2>1. <<>> \in Seq(Entries) /\ Unique(<<>>)
    BY DEF Unique
  <2> QED
    BY <2>1 DEF Tabled, Init
<1>13. stream \in Streams /\ stream = NoStream
  <2>1. <<>> \in Seq(Names \cup {".", ".."})
    OBVIOUS
  <2> QED
    BY <2>1 DEF Init, NoStream, Streams
<1>14. op \in Ops /\ op = NoOp
  BY NoOpTyped DEF Init
<1>15. Shaped
  BY <1>13, <1>14, NoOpTyped DEF Shaped, Existing, HalfMoved
<1>16. Polling \in [pc : {"polling", "blocked", "ended"}, event : Nat]
  BY DEF Polling, StoreEvent
<1>17. /\ device \subseteq Objects /\ IsFiniteSet(device) /\ Stored
  BY <1>11 DEF Kept, Stored, UniquePaths
<1>18. TypeOK
  <2>1. link \in BOOLEAN /\ mounted \in BOOLEAN /\ calm \in BOOLEAN
    BY DEF Init
  <2>2. turns \in 0 .. MaxTurns /\ events \in Seq(Nat)
    BY NamespaceAssumption DEF Init
  <2>3. loaded \subseteq Dirs /\ suspect \subseteq Dirs /\ there \subseteq Names /\ late \subseteq Nat
    BY DEF Init
  <2>4. loop \in [pc : {"polling", "blocked", "ended"}, event : Nat]
    BY <1>16 DEF Init
  <2>5. kids \in [Dirs -> Seq(Entries)]
    BY <1>12 DEF Tabled
  <2> QED
    BY <1>11, <1>13, <1>14, <1>17, <2>1, <2>2, <2>3, <2>4, <2>5 DEF TypeOK
<1> QED
  BY <1>12, <1>15, <1>17, <1>18 DEF Sound

LEMMA SoundStep ==
  ASSUME Sound, Kept(device', next'), next' \in Nat \ {0}, Turn \/ turns' = turns,
         link' \in BOOLEAN, mounted' \in BOOLEAN, events' \in Seq(Nat), late' \subseteq Nat,
         loop' \in [pc : {"polling", "blocked", "ended"}, event : Nat],
         kids' \in [Dirs -> Seq(Entries)], \A d \in Dirs : Unique(kids'[d]),
         loaded' \subseteq Dirs, suspect' \subseteq Dirs, op' \in Ops, stream' \in Streams,
         Shaped', History
  PROVE  Sound'
<1>1. device' \subseteq Objects /\ IsFiniteSet(device') /\ Stored'
  BY DEF Kept, Stored, UniquePaths
<1>2. there' \subseteq Names /\ calm' \in BOOLEAN
  BY <1>1, HistoryTyped DEF Sound
<1>3. turns' \in 0 .. MaxTurns
  BY TurnTyped DEF Sound
<1>4. Tabled'
  BY DEF Tabled
<1>5. TypeOK'
  BY <1>1, <1>2, <1>3 DEF TypeOK
<1> QED
  BY <1>1, <1>4, <1>5 DEF Sound

(* What the rest of a step leaves alone. *)
LEMMA Unmoved ==
  ASSUME Sound
  PROVE  /\ UNCHANGED <<device, next>> => Kept(device', next') /\ next' \in Nat \ {0}
         /\ UNCHANGED kids => /\ kids' \in [Dirs -> Seq(Entries)]
                              /\ \A d \in Dirs : Unique(kids'[d])
         /\ UNCHANGED <<op, kids, stream>> => Shaped'
         /\ UNCHANGED <<link, mounted>> => link' \in BOOLEAN /\ mounted' \in BOOLEAN
         /\ UNCHANGED mounted => mounted' \in BOOLEAN
         /\ UNCHANGED events => events' \in Seq(Nat)
         /\ UNCHANGED late => late' \subseteq Nat
         /\ UNCHANGED loop => loop' \in [pc : {"polling", "blocked", "ended"}, event : Nat]
         /\ UNCHANGED loaded => loaded' \subseteq Dirs
         /\ UNCHANGED suspect => suspect' \subseteq Dirs
         /\ UNCHANGED op => op' \in Ops
         /\ UNCHANGED stream => stream' \in Streams
<1>1. UNCHANGED <<device, next>> => Kept(device', next') /\ next' \in Nat \ {0}
  BY DEF Sound, TypeOK, Stored, UniquePaths, Kept
<1>2. ASSUME UNCHANGED <<op, kids, stream>> PROVE Shaped'
  BY <1>2 DEF Sound, Shaped, Existing, EntryFresh, HalfMoved, StrayMove, Listed
<1> QED
  BY <1>1, <1>2 DEF Sound, TypeOK, Tabled

(* The device's own steps, and the event loops'. *)
LEMMA SoundDevice ==
  ASSUME Sound
  PROVE  /\ LinkLoss => Sound'
         /\ \A d \in Dirs, n \in Names : DeviceAdds(d, n) => Sound'
         /\ \A o \in device : DeviceRemoves(o) => Sound'
         /\ StoreChanges => Sound'
<1>1. next \in Nat \ {0} /\ next + 1 \in Nat \ {0} /\ events \in Seq(Nat)
  BY DEF Sound, TypeOK
<1>2. \A h \in Nat : Announce(h) => events' \in Seq(Nat)
  BY <1>1 DEF Announce
<1>3. ASSUME LinkLoss PROVE Sound'
  <2>1. link' \in BOOLEAN /\ Turn /\ History
    BY <1>3 DEF LinkLoss, LosesLink
  <2>2. UNCHANGED <<device, next>> /\ UNCHANGED <<op, kids, stream>> /\ UNCHANGED kids
        /\ UNCHANGED mounted /\ UNCHANGED events /\ UNCHANGED late /\ UNCHANGED loop
        /\ UNCHANGED loaded /\ UNCHANGED suspect /\ UNCHANGED op /\ UNCHANGED stream
    BY <1>3 DEF LinkLoss
  <2> QED
    BY <2>1, <2>2, Unmoved, SoundStep
<1>4. ASSUME NEW d \in Dirs, NEW n \in Names, DeviceAdds(d, n) PROVE Sound'
  <2>1. Turn /\ History /\ events' \in Seq(Nat)
    BY <1>1, <1>2, <1>4 DEF DeviceAdds
  <2>2. Kept(device', next') /\ next' \in Nat \ {0}
    BY <1>1, <1>4, DeviceGrows DEF DeviceAdds
  <2>3. UNCHANGED <<link, mounted>> /\ UNCHANGED <<op, kids, stream>> /\ UNCHANGED kids
        /\ UNCHANGED late /\ UNCHANGED loop
        /\ UNCHANGED loaded /\ UNCHANGED suspect /\ UNCHANGED op /\ UNCHANGED stream
    BY <1>4 DEF DeviceAdds
  <2> QED
    BY <2>1, <2>2, <2>3, Unmoved, SoundStep
<1>5. ASSUME NEW o \in device, DeviceRemoves(o) PROVE Sound'
  <2>0. o.handle \in Nat
    BY DEF Sound, TypeOK, Objects
  <2>1. Turn /\ History /\ events' \in Seq(Nat)
    BY <1>2, <1>5, <2>0 DEF DeviceRemoves
  <2>2. Kept(device', next') /\ next' \in Nat \ {0}
    BY <1>1, <1>5, DeviceShrinks DEF DeviceRemoves
  <2>3. UNCHANGED <<link, mounted>> /\ UNCHANGED <<op, kids, stream>> /\ UNCHANGED kids
        /\ UNCHANGED late /\ UNCHANGED loop
        /\ UNCHANGED loaded /\ UNCHANGED suspect /\ UNCHANGED op /\ UNCHANGED stream
    BY <1>5 DEF DeviceRemoves
  <2> QED
    BY <2>1, <2>2, <2>3, Unmoved, SoundStep
<1>6. ASSUME StoreChanges PROVE Sound'
  <2>1. Turn /\ History /\ events' \in Seq(Nat)
    BY <1>2, <1>6 DEF StoreChanges, StoreEvent
  <2>2. UNCHANGED <<device, next>> /\ UNCHANGED <<op, kids, stream>> /\ UNCHANGED kids
        /\ UNCHANGED <<link, mounted>> /\ UNCHANGED late /\ UNCHANGED loop
        /\ UNCHANGED loaded /\ UNCHANGED suspect /\ UNCHANGED op /\ UNCHANGED stream
    BY <1>6 DEF StoreChanges
  <2> QED
    BY <2>1, <2>2, Unmoved, SoundStep
<1> QED
  BY <1>3, <1>4, <1>5, <1>6

LEMMA HandlesTyped ==
  ASSUME Sound, NEW h, HandleEvent(h)
  PROVE  loaded' \subseteq loaded /\ loaded' \subseteq Dirs /\ suspect' \subseteq Dirs
         /\ suspect \subseteq suspect'
  BY DEF HandleEvent, Sound, TypeOK

LEMMA SoundLoops ==
  ASSUME Sound, LoopTakes \/ LoopEnds \/ LoopHandles \/ \E h \in late : LateLoopHandles(h)
  PROVE  Sound'
<1> DEFINE Loops == [pc : {"polling", "blocked", "ended"}, event : Nat]
<1>1. events \in Seq(Nat) /\ loop \in Loops /\ late \subseteq Nat /\ link \in BOOLEAN
  BY DEF Sound, TypeOK
<1>2. Polling \in Loops /\ [Polling EXCEPT !.pc = "ended"] \in Loops
  BY DEF Polling, StoreEvent
<1>3. CASE LoopTakes
  <2>1. events # <<>> /\ loop' = [pc |-> "blocked", event |-> Head(events)] /\ events' = Tail(events)
    BY <1>3 DEF LoopTakes
  <2>2. Head(events) \in Nat /\ Tail(events) \in Seq(Nat)
    BY <1>1, <2>1
  <2>3. loop' \in Loops /\ events' \in Seq(Nat) /\ turns' = turns /\ History
    BY <1>3, <2>1, <2>2 DEF LoopTakes
  <2>4. UNCHANGED <<device, next>> /\ UNCHANGED <<op, kids, stream>> /\ UNCHANGED kids
        /\ UNCHANGED <<link, mounted>> /\ UNCHANGED late
        /\ UNCHANGED loaded /\ UNCHANGED suspect /\ UNCHANGED op /\ UNCHANGED stream
    BY <1>3 DEF LoopTakes
  <2> QED
    BY <2>3, <2>4, Unmoved, SoundStep
<1>4. CASE LoopEnds
  <2>1. loop' \in Loops /\ History /\ (Turn \/ turns' = turns)
    BY <1>2, <1>4 DEF LoopEnds
  <2>2. UNCHANGED <<device, next>> /\ UNCHANGED <<op, kids, stream>> /\ UNCHANGED kids
        /\ UNCHANGED <<link, mounted>> /\ UNCHANGED late /\ UNCHANGED events
        /\ UNCHANGED loaded /\ UNCHANGED suspect /\ UNCHANGED op /\ UNCHANGED stream
    BY <1>4 DEF LoopEnds
  <2> QED
    BY <2>1, <2>2, Unmoved, SoundStep
<1>5. CASE LoopHandles
  <2>1. loop' \in Loops /\ History /\ turns' = turns
    BY <1>2, <1>5 DEF LoopHandles
  <2>2. loaded' \subseteq Dirs /\ suspect' \subseteq Dirs
    BY <1>5, HandlesTyped DEF LoopHandles
  <2>3. UNCHANGED <<device, next>> /\ UNCHANGED <<op, kids, stream>> /\ UNCHANGED kids
        /\ UNCHANGED <<link, mounted>> /\ UNCHANGED late /\ UNCHANGED events
        /\ UNCHANGED op /\ UNCHANGED stream
    BY <1>5 DEF LoopHandles
  <2> QED
    BY <2>1, <2>2, <2>3, Unmoved, SoundStep
<1>6. ASSUME NEW h \in late, LateLoopHandles(h) PROVE Sound'
  <2>1. History /\ turns' = turns /\ late' \subseteq Nat
    BY <1>1, <1>6 DEF LateLoopHandles
  <2>2. loaded' \subseteq Dirs /\ suspect' \subseteq Dirs
    BY <1>6, HandlesTyped DEF LateLoopHandles
  <2>3. UNCHANGED <<device, next>> /\ UNCHANGED <<op, kids, stream>> /\ UNCHANGED kids
        /\ UNCHANGED <<link, mounted>> /\ UNCHANGED loop /\ UNCHANGED events
        /\ UNCHANGED op /\ UNCHANGED stream
    BY <1>6 DEF LateLoopHandles
  <2> QED
    BY <2>1, <2>2, <2>3, Unmoved, SoundStep
<1> QED
  BY <1>3, <1>4, <1>5, <1>6

(* A process at a directory. *)
LEMMA NoStreamTyped ==
  /\ NoStream \in Streams /\ NoStream.dir = None
  /\ \A d \in Dirs : LET s == [NoStream EXCEPT !.dir = d]
                     IN s \in Streams /\ s.dir = d /\ s.offset = 0 /\ s.seen = <<>>
                        /\ s.ok = TRUE /\ s.ended = FALSE
<1>1. <<>> \in Seq(Names \cup {".", ".."})
  OBVIOUS
<1> QED
  BY <1>1 DEF NoStream, Streams

LEMMA SoundOpenClose ==
  ASSUME Sound, CloseDir \/ \E d \in Dirs : OpenDir(d)
  PROVE  Sound'
<1>1. CASE CloseDir
  <2>1. stream' = NoStream /\ UNCHANGED <<op, kids>> /\ Idle /\ History
    BY <1>1 DEF CloseDir
  <2>2. stream' \in Streams /\ Shaped'
    BY <2>1, NoStreamTyped DEF Sound, Shaped, Idle, Existing, HalfMoved
  <2>3. UNCHANGED <<device, next>> /\ UNCHANGED kids /\ UNCHANGED <<link, mounted>>
        /\ UNCHANGED loop /\ UNCHANGED events /\ UNCHANGED late /\ UNCHANGED loaded
        /\ UNCHANGED suspect /\ UNCHANGED op /\ turns' = turns
    BY <1>1 DEF CloseDir
  <2> QED
    BY <2>1, <2>2, <2>3, Unmoved, SoundStep
<1>2. ASSUME NEW d \in Dirs, OpenDir(d) PROVE Sound'
  <2>1. stream' = [NoStream EXCEPT !.dir = d] /\ UNCHANGED <<op, kids>> /\ Idle /\ History /\ Turn
    BY <1>2 DEF OpenDir
  <2>2. stream' \in Streams /\ stream'.dir # None
    BY <2>1, NoStreamTyped, NamespaceAssumption
  <2>3. Shaped'
    BY <2>1, <2>2 DEF Sound, Shaped, Idle, Existing, HalfMoved
  <2>4. UNCHANGED <<device, next>> /\ UNCHANGED kids /\ UNCHANGED <<link, mounted>>
        /\ UNCHANGED loop /\ UNCHANGED events /\ UNCHANGED late
        /\ UNCHANGED suspect /\ UNCHANGED op
    BY <1>2 DEF OpenDir
  <2>5. loaded' \subseteq Dirs
    BY <1>2 DEF OpenDir, Sound, TypeOK
  <2> QED
    BY <2>1, <2>2, <2>3, <2>4, <2>5, Unmoved, SoundStep
<1> QED
  BY <1>1, <1>2

(* The calls begin. *)
LEMMA SoundBegins ==
  ASSUME Sound, UNCHANGED <<device, next, link, events, loop, late, kids, loaded, mounted, stream, suspect>>,
         op' \in Ops, Shaped', Turn \/ turns' = turns, History
  PROVE  Sound'
<1>1. UNCHANGED <<device, next>> /\ UNCHANGED kids /\ UNCHANGED <<link, mounted>>
      /\ UNCHANGED loop /\ UNCHANGED events /\ UNCHANGED late /\ UNCHANGED loaded
      /\ UNCHANGED suspect /\ UNCHANGED stream
  OBVIOUS
<1> QED
  BY <1>1, Unmoved, SoundStep

LEMMA SoundCalls ==
  ASSUME Sound
  PROVE  /\ \A d \in Dirs, n \in Names : CallCreate(d, n) \/ CallRemove(d, n) => Sound'
         /\ \A d \in Dirs, n \in Names, e \in Dirs, m \in Names : CallRename(d, n, e, m) => Sound'
         /\ \A d \in Dirs : CallLookup(d) => Sound'
         /\ CallReadDir => Sound'
<1>1. ASSUME NEW d \in Dirs, NEW n \in Names, CallCreate(d, n) PROVE Sound'
  <2>1. /\ UNCHANGED <<device, next, link, events, loop, late, kids, loaded, mounted, stream, suspect>>
        /\ Turn /\ History /\ n \notin Listed(d) /\ Begin("create", d, n, None, None)
    BY <1>1 DEF CallCreate
  <2>2. /\ op' \in Ops /\ op'.call = "create" /\ op'.dir = d /\ op'.name = n
        /\ op'.pc = "resolve" /\ op'.tries = 1
    BY <2>1, BeginsTyped DEF Calls
  <2>3. Shaped'
    BY <2>1, <2>2 DEF Sound, Shaped, Existing, HalfMoved, Listed
  <2> QED
    BY <2>1, <2>2, <2>3, SoundBegins
<1>2. ASSUME NEW d \in Dirs, NEW n \in Names, CallRemove(d, n) PROVE Sound'
  <2>1. /\ UNCHANGED <<device, next, link, events, loop, late, kids, loaded, mounted, stream, suspect>>
        /\ Turn /\ History /\ n \in Listed(d) /\ Begin("remove", d, n, None, None)
    BY <1>2 DEF CallRemove
  <2>2. /\ op' \in Ops /\ op'.call = "remove" /\ op'.dir = d /\ op'.name = n
        /\ op'.pc = "resolve" /\ op'.tries = 1
    BY <2>1, BeginsTyped DEF Calls
  <2>3. Shaped'
    BY <2>1, <2>2 DEF Sound, Shaped, Existing, HalfMoved, Listed
  <2> QED
    BY <2>1, <2>2, <2>3, SoundBegins
<1>3. ASSUME NEW d \in Dirs, NEW n \in Names, NEW e \in Dirs, NEW m \in Names, CallRename(d, n, e, m)
      PROVE  Sound'
  <2> DEFINE c == IF n # m THEN "rename" ELSE "move"
  <2>1. /\ UNCHANGED <<device, next, link, events, loop, late, kids, loaded, mounted, stream, suspect>>
        /\ Turn /\ History /\ n \in Listed(d) /\ <<d, n>> # <<e, m>> /\ Begin(c, d, n, e, m)
    BY <1>3 DEF CallRename
  <2>2. /\ n # m => c = "rename"
        /\ n = m => c = "move"
    OBVIOUS
  <2> HIDE DEF c
  <2>3. c \in Calls
    BY <2>2 DEF Calls
  <2>4. /\ op' \in Ops /\ op'.call = c /\ op'.dir = d /\ op'.name = n /\ op'.todir = e /\ op'.toname = m
        /\ op'.pc = "resolve" /\ op'.tries = 1
    BY <2>1, <2>3, BeginsTyped
  <2>5. d # e \/ n # m
    BY <2>1
  <2>6. Shaped'
    BY <2>1, <2>2, <2>4, <2>5 DEF Sound, Shaped, Existing, HalfMoved, Listed
  <2> QED
    BY <2>1, <2>4, <2>6, SoundBegins
<1>4. ASSUME NEW d \in Dirs, CallLookup(d) PROVE Sound'
  <2>1. /\ UNCHANGED <<device, next, link, events, loop, late, kids, loaded, mounted, stream, suspect>>
        /\ turns' = turns /\ History /\ Begin("lookup", d, None, None, None)
    BY <1>4 DEF CallLookup
  <2>2. /\ op' \in Ops /\ op'.call = "lookup" /\ op'.dir = d /\ op'.pc = "resolve" /\ op'.tries = 1
    BY <2>1, BeginsTyped DEF Calls
  <2>3. Shaped'
    BY <2>1, <2>2 DEF Sound, Shaped, Existing, HalfMoved
  <2> QED
    BY <2>1, <2>2, <2>3, SoundBegins
<1>5. ASSUME CallReadDir PROVE Sound'
  <2>1. /\ UNCHANGED <<device, next, link, events, loop, late, kids, loaded, mounted, suspect>>
        /\ turns' = turns /\ History /\ stream.dir # None /\ ~stream.ended /\ Idle
    BY <1>5 DEF CallReadDir, Starts
  <2>2. stream.dir \in Dirs /\ stream \in Streams /\ kids[stream.dir] \in Seq(Entries)
    BY <2>1 DEF Sound, TypeOK, Streams
  <2>3. CASE stream.dir \in loaded
    <3>1. Page(kids[stream.dir], TRUE) /\ UNCHANGED op
      BY <1>5, <2>3 DEF CallReadDir
    <3>2. stream' \in Streams /\ stream'.dir # None
      BY <2>1, <2>2, <3>1, PageTyped
    <3>3. Shaped'
      BY <2>1, <3>1, <3>2 DEF Sound, Shaped, Idle, Existing, HalfMoved
    <3>4. UNCHANGED <<device, next>> /\ UNCHANGED kids /\ UNCHANGED <<link, mounted>>
          /\ UNCHANGED loop /\ UNCHANGED events /\ UNCHANGED late /\ UNCHANGED loaded
          /\ UNCHANGED suspect
      BY <2>1
    <3> QED
      BY <2>1, <3>1, <3>2, <3>3, <3>4, Unmoved, SoundStep
  <2>4. CASE stream.dir \notin loaded
    <3>1. Begin("readdir", stream.dir, None, None, None) /\ UNCHANGED stream
      BY <1>5, <2>4 DEF CallReadDir
    <3>2. op' \in Ops /\ op'.call = "readdir" /\ op'.dir = stream.dir /\ op'.pc = "resolve" /\ op'.tries = 1
      BY <2>2, <3>1, BeginsTyped DEF Calls
    <3>3. Shaped'
      BY <2>1, <2>2, <3>1, <3>2 DEF Sound, Shaped, Existing, HalfMoved
    <3> QED
      BY <2>1, <3>1, <3>2, <3>3, SoundBegins
  <2> QED
    BY <2>3, <2>4
<1> QED
  BY <1>1, <1>2, <1>3, <1>4, <1>5

(* A FUSE call under way.                                                  *)

(* A second time around, the second request of a rename is stray. *)
LEMMA StrayAgain ==
  ASSUME NEW o \in Ops, op' = o, o.tries > 1 \/ o.stale < MAX_STALE_RETRIES
  PROVE  ~HalfMoved'
  BY DEF HalfMoved, StrayMove

LEMMA StillHalfMoved ==
  ASSUME SameCall(op', op), op'.tries = op.tries, op'.stale = op.stale
  PROVE  HalfMoved' <=> HalfMoved
  BY DEF HalfMoved, StrayMove, SameCall

LEMMA Reconnects ==
  ASSUME Sound, op.call # "none", Reconnect, UNCHANGED kids
  PROVE  /\ op' \in Ops /\ Shaped' /\ suspect' \subseteq Dirs /\ suspect \subseteq suspect'
         /\ stream' \in Streams /\ mounted' \in BOOLEAN
         /\ \/ op' = NoOp /\ Fails
            \/ op' = Waits(op) /\ UNCHANGED <<stream, suspect>>
<1>1. CASE Timeout = 0
  <2>1. Fails /\ mounted' = FALSE
    BY <1>1 DEF Reconnect, GivesUp
  <2>2. /\ op' = NoOp /\ suspect' \subseteq Dirs /\ suspect \subseteq suspect'
        /\ stream' \in Streams /\ (stream'.dir = None => stream' = NoStream)
    BY <2>1, FailsTyped
  <2>3. op' \in Ops /\ Shaped'
    BY <2>2, Answers
  <2> QED
    BY <2>1, <2>2, <2>3
<1>2. CASE Timeout # 0
  <2>1. op' = Waits(op) /\ UNCHANGED <<stream, mounted, suspect>>
    BY <1>2 DEF Reconnect, Waits
  <2>2. /\ op' \in Ops /\ SameCall(op', op) /\ op'.tries = op.tries /\ op'.stale = op.stale
        /\ op'.pc = "wait"
    BY <2>1, WaitsTo DEF Sound, TypeOK
  <2>3. HalfMoved' => EntryFresh'
    BY <2>2, StillHalfMoved DEF Sound, Shaped, EntryFresh, SameCall
  <2>4. \A d \in Dirs : Listed(d)' = Listed(d)
    BY DEF Listed
  <2>5. op'.tries >= 1 /\ stream' = stream
    BY <2>1, <2>2 DEF Sound, Shaped
  <2>6. Shaped'
    BY <2>2, <2>3, <2>4, <2>5, Continues
  <2>7. suspect' \subseteq Dirs /\ suspect \subseteq suspect' /\ stream' \in Streams /\ mounted' \in BOOLEAN
    BY <2>1 DEF Sound, TypeOK
  <2> QED
    BY <2>1, <2>2, <2>6, <2>7
<1> QED
  BY <1>1, <1>2

LEMMA ListedSame ==
  ASSUME NEW d \in Dirs,
         \A e \in Range(kids'[d]) : \E f \in Range(kids[d]) : e.name = f.name,
         \A f \in Range(kids[d]) : \E e \in Range(kids'[d]) : e.name = f.name
  PROVE  Listed(d)' = Listed(d)
<1>1. \A n : n \in Listed(d)' <=> \E e \in Range(kids'[d]) : e.name = n
  BY DEF Listed, Range
<1>2. \A n : n \in Listed(d) <=> \E e \in Range(kids[d]) : e.name = n
  BY DEF Listed, Range
<1>3. \A n : n \in Listed(d)' <=> n \in Listed(d)
  BY <1>1, <1>2
<1> QED
  BY <1>3, Zenon DEF Listed

LEMMA StaleTyped ==
  ASSUME Sound, op.call # "none", Stale
  PROVE  /\ op' \in Ops /\ Shaped' /\ suspect' \subseteq Dirs /\ suspect \subseteq suspect'
         /\ stream' \in Streams /\ loaded' \subseteq Dirs
         /\ kids' \in [Dirs -> Seq(Entries)] /\ \A d \in Dirs : Unique(kids'[d])
         /\ \/ op' = NoOp /\ Fails /\ UNCHANGED <<kids, loaded>>
            \/ /\ op.stale # 0 /\ op' = LooksAgain(op) /\ kids' = Stales(kids) /\ loaded' = {}
               /\ UNCHANGED <<stream, suspect>>
<1>1. CASE op.stale = 0
  <2>1. Fails /\ UNCHANGED <<kids, loaded>>
    BY <1>1 DEF Stale
  <2>2. /\ op' = NoOp /\ suspect' \subseteq Dirs /\ suspect \subseteq suspect'
        /\ stream' \in Streams /\ (stream'.dir = None => stream' = NoStream)
    BY <2>1, FailsTyped
  <2>3. op' \in Ops /\ Shaped'
    BY <2>2, Answers
  <2> QED
    BY <2>1, <2>2, <2>3 DEF Sound, Tabled, TypeOK
<1>2. CASE op.stale # 0
  <2>1. op' = LooksAgain(op) /\ kids' = Stales(kids) /\ loaded' = {} /\ UNCHANGED <<stream, suspect>>
    BY <1>2 DEF Stale, LooksAgain
  <2>2. /\ op' \in Ops /\ SameCall(op', op) /\ op'.tries = op.tries /\ op'.stale < MAX_STALE_RETRIES
        /\ op'.pc = "resolve"
    BY <1>2, <2>1, LooksAgainTo DEF Sound, TypeOK
  <2>3. ~HalfMoved'
    BY <2>2, StrayAgain
  <2>4. kids' \in [Dirs -> Seq(Entries)] /\ \A d \in Dirs : Unique(kids'[d])
    BY <2>1, StalesExact DEF Sound
  <2>5. \A d \in Dirs : /\ \A e \in Range(kids'[d]) : \E f \in Range(kids[d]) : e.name = f.name
                        /\ \A f \in Range(kids[d]) : \E e \in Range(kids'[d]) : e.name = f.name
    BY <2>1, StalesExact DEF Sound
  <2>6. \A d \in Dirs : Listed(d)' = Listed(d)
    BY <2>5, ListedSame
  <2>7. op'.tries >= 1 /\ stream' = stream
    BY <2>1, <2>2 DEF Sound, Shaped
  <2>8. Shaped'
    BY <2>2, <2>3, <2>6, <2>7, Continues
  <2>9. suspect' \subseteq Dirs /\ suspect \subseteq suspect' /\ stream' \in Streams /\ loaded' \subseteq Dirs
    BY <2>1 DEF Sound, TypeOK
  <2> QED
    BY <1>2, <2>1, <2>2, <2>4, <2>8, <2>9
<1> QED
  BY <1>1, <1>2

LEMMA SoundBreaks ==
  ASSUME Sound, op.call # "none", NEW done, Kept(done[1], done[2]), done[2] \in Nat \ {0},
         Breaks(done), UNCHANGED <<events, loop, late>>, History
  PROVE  Sound'
<1>1. Kept(device, next) /\ next \in Nat \ {0}
  BY DEF Sound, TypeOK, Stored, UniquePaths, Kept
<1>2. Kept(device', next') /\ next' \in Nat \ {0}
  BY <1>1 DEF Breaks, Perhaps
<1>3. link' \in BOOLEAN /\ (Turn \/ turns' = turns)
  BY DEF Breaks, LosesLink, KeepsLink, Sound, TypeOK
<1>4. Reconnect /\ UNCHANGED kids /\ UNCHANGED loaded
  BY DEF Breaks
<1>5. /\ op' \in Ops /\ Shaped' /\ suspect' \subseteq Dirs
      /\ stream' \in Streams /\ mounted' \in BOOLEAN
  BY <1>4, Reconnects
<1>6. UNCHANGED events /\ UNCHANGED loop /\ UNCHANGED late
  OBVIOUS
<1> QED
  BY <1>2, <1>3, <1>4, <1>5, <1>6, Unmoved, SoundStep

LEMMA SoundRefuses ==
  ASSUME Sound, op.call # "none", NEW possible, NEW done, Kept(done[1], done[2]),
         done[2] \in Nat \ {0}, Refuses(possible, done), UNCHANGED <<events, loop, late>>, History
  PROVE  Sound'
<1>1. FailsIn(Altered) /\ UNCHANGED kids /\ UNCHANGED loaded /\ UNCHANGED <<link, mounted>>
      /\ (Turn \/ turns' = turns)
  BY DEF Refuses
<1>2. Kept(device, next) /\ next \in Nat \ {0}
  BY DEF Sound, TypeOK, Stored, UniquePaths, Kept
<1>3. Kept(device', next') /\ next' \in Nat \ {0}
  BY <1>2 DEF Refuses, Perhaps
<1>4. Altered \in SUBSET Dirs
  BY <1>2, <1>3 DEF Altered, Kept, Objects
<1>5. /\ op' = NoOp /\ suspect' \subseteq Dirs
      /\ stream' \in Streams /\ (stream'.dir = None => stream' = NoStream)
  BY <1>1, <1>4, FailsInTyped
<1>6. op' \in Ops /\ Shaped'
  BY <1>5, Answers
<1>7. UNCHANGED events /\ UNCHANGED loop /\ UNCHANGED late
  OBVIOUS
<1> QED
  BY <1>1, <1>3, <1>5, <1>6, <1>7, Unmoved, SoundStep

(* ensure_fresh looks an entry up again, in place. *)
LEMMA SetsHandle ==
  ASSUME Sound, Existing, NEW o \in At(op.dir, op.name), kids' = SetHandle(op.dir, op.name, o.handle)
  PROVE  /\ kids' \in [Dirs -> Seq(Entries)]
         /\ \A d \in Dirs : Unique(kids'[d]) /\ Extends(kids[d], kids'[d]) /\ Listed(d)' = Listed(d)
         /\ \A d \in Dirs : d # op.dir => kids'[d] = kids[d]
         /\ \A e : e \in Range(kids'[op.dir]) <=>
              \/ e = [name |-> op.name, handle |-> o.handle, fresh |-> TRUE]
              \/ e \in Range(kids[op.dir]) /\ e.name # op.name
<1> DEFINE d == op.dir
           n == op.name
           h == o.handle
           new == [name |-> n, handle |-> h, fresh |-> TRUE]
<1>1. d \in Dirs /\ n \in Listed(d) /\ h \in Nat \ {0}
  BY DEF Sound, Shaped, TypeOK, Objects, At, Existing
<1>2. kids' = SetHandle(d, n, h)
  OBVIOUS
<1> HIDE DEF d, n, h
<1>3. /\ kids' \in [Dirs -> Seq(Entries)]
      /\ \A f \in Dirs : Unique(kids'[f]) /\ Extends(kids[f], kids'[f])
      /\ \A f \in Dirs : f # d => kids'[f] = kids[f]
      /\ \A e : e \in Range(kids'[d]) <=> e = new \/ (e \in Range(kids[d]) /\ e.name # n)
  BY <1>1, <1>2, SetHandleExact DEF Sound
<1>4. ASSUME NEW f \in Dirs PROVE Listed(f)' = Listed(f)
  <2>1. CASE f # d
    BY <1>3, <2>1 DEF Listed
  <2>2. CASE f = d
    <3>1. PICK g \in Range(kids[d]) : g.name = n
      BY <1>1, ListedNames
    <3>2. new.name = n
      OBVIOUS
    <3> HIDE DEF new
    <3>3. \A e \in Range(kids'[d]) : \E k \in Range(kids[d]) : e.name = k.name
      BY <1>3, <3>1, <3>2
    <3>4. \A k \in Range(kids[d]) : \E e \in Range(kids'[d]) : e.name = k.name
      BY <1>3, <3>2
    <3> QED
      BY <1>1, <2>2, <3>3, <3>4, ListedSame
  <2> QED
    BY <2>1, <2>2
<1> QED
  BY <1>3, <1>4 DEF d, n, h

LEMMA SoundResolve == ASSUME Sound, Resolve PROVE Sound'
<1>1. op.call # "none" /\ op.dir \in Dirs
  BY DEF Resolve, Sound, Shaped
<1>2. UNCHANGED <<device, next>> /\ UNCHANGED link /\ UNCHANGED events /\ UNCHANGED loop
      /\ UNCHANGED late /\ UNCHANGED loaded /\ History /\ link' \in BOOLEAN
  BY DEF Resolve, Sound, TypeOK
<1>3. ASSUME op' = [op EXCEPT !.pc = "call"], stream' = stream, EntryFresh' \/ ~Existing,
             \A d \in Dirs : Listed(d)' = Listed(d)
      PROVE  op' \in Ops /\ Shaped'
  <2>1. op' = Requests(op)
    BY <1>3 DEF Requests
  <2>2. /\ op' \in Ops /\ SameCall(op', op) /\ op'.tries = op.tries /\ op'.stale = op.stale
        /\ op'.pc = "call"
    BY <2>1, RequestsTo DEF Sound, TypeOK
  <2>3. Existing' <=> Existing
    BY <2>2 DEF Existing, SameCall
  <2>4. HalfMoved' => Existing'
    BY DEF HalfMoved, Existing
  <2>5. op'.tries >= 1
    BY <1>1, <2>2 DEF Sound, Shaped
  <2> QED
    BY <1>1, <1>3, <2>2, <2>3, <2>4, <2>5, Continues
<1>4. CASE Resolved /\ op' = [op EXCEPT !.pc = "call"] /\ UNCHANGED <<kids, stream, mounted, suspect, turns>>
  <2>1. ASSUME Existing PROVE EntryFresh'
    <3>1. op.name \in Listed(op.dir) /\ Tabled /\ kids \in [Dirs -> Seq(Entries)]
      BY <2>1 DEF Sound, Shaped, Tabled
    <3>2. \A e \in Range(kids[op.dir]) : e.name = op.name => e = Entry(op.dir, op.name)
      BY <1>1, <3>1, EntryExact DEF Tabled
    <3>3. Entry(op.dir, op.name).fresh
      BY <1>4, <2>1 DEF Resolved, Existing
    <3>4. op'.dir = op.dir /\ op'.name = op.name
      BY <1>4 DEF Sound, TypeOK, Ops
    <3> QED
      BY <1>4, <3>2, <3>3, <3>4 DEF EntryFresh
  <2>2. \A d \in Dirs : Listed(d)' = Listed(d)
    BY <1>4 DEF Listed
  <2>3. op' \in Ops /\ Shaped'
    BY <1>3, <1>4, <2>1, <2>2
  <2>4. UNCHANGED kids /\ UNCHANGED stream /\ UNCHANGED mounted /\ UNCHANGED suspect /\ turns' = turns
    BY <1>4
  <2> QED
    BY <1>2, <2>3, <2>4, Unmoved, SoundStep
<1>5. ASSUME NEW o \in At(op.dir, op.name), kids' = SetHandle(op.dir, op.name, o.handle),
             op' = [op EXCEPT !.pc = "call"], ~Resolved,
             UNCHANGED <<stream, mounted, suspect, turns>>
      PROVE  Sound'
  <2>0. Existing
    BY <1>5 DEF Resolved, Existing
  <2>1. /\ kids' \in [Dirs -> Seq(Entries)]
        /\ \A d \in Dirs : Unique(kids'[d]) /\ Listed(d)' = Listed(d)
        /\ \A e : e \in Range(kids'[op.dir]) <=>
             \/ e = [name |-> op.name, handle |-> o.handle, fresh |-> TRUE]
             \/ e \in Range(kids[op.dir]) /\ e.name # op.name
    BY <1>5, <2>0, SetsHandle
  <2>2. op'.dir = op.dir /\ op'.name = op.name
    BY <1>5 DEF Sound, TypeOK, Ops
  <2>3. EntryFresh'
    BY <2>1, <2>2 DEF EntryFresh
  <2>4. op' \in Ops /\ Shaped'
    BY <1>3, <1>5, <2>1, <2>3
  <2>5. UNCHANGED stream /\ UNCHANGED mounted /\ UNCHANGED suspect /\ turns' = turns
    BY <1>5
  <2> QED
    BY <1>2, <2>1, <2>4, <2>5, Unmoved, SoundStep
<1>6. CASE Fails /\ (Turn \/ turns' = turns) /\ UNCHANGED <<kids, mounted>>
  <2>1. /\ op' = NoOp /\ suspect' \subseteq Dirs
        /\ stream' \in Streams /\ (stream'.dir = None => stream' = NoStream)
    BY <1>1, <1>6, FailsTyped
  <2>2. op' \in Ops /\ Shaped'
    BY <2>1, Answers
  <2>3. UNCHANGED kids /\ UNCHANGED mounted
    BY <1>6
  <2> QED
    BY <1>2, <1>6, <2>1, <2>2, <2>3, Unmoved, SoundStep
<1>7. CASE Reconnect /\ UNCHANGED <<kids, turns>>
  <2>1. UNCHANGED kids /\ turns' = turns
    BY <1>7
  <2>2. /\ op' \in Ops /\ Shaped' /\ suspect' \subseteq Dirs
        /\ stream' \in Streams /\ mounted' \in BOOLEAN
    BY <1>1, <1>7, <2>1, Reconnects
  <2> QED
    BY <1>2, <2>1, <2>2, Unmoved, SoundStep
<1> QED
  BY <1>4, <1>5, <1>6, <1>7 DEF Resolve

LEMMA SoundList == ASSUME Sound, List PROVE Sound'
<1>1. op.call \in {"lookup", "readdir"} /\ op.call # "none" /\ op.dir \in Dirs
  BY DEF List, Calling, Sound, Shaped
<1>2. UNCHANGED <<events, loop, late>> /\ History
  BY DEF List
<1>3. ASSUME link, KeepsLink, NEW order \in Orders(op.dir),
             kids' = [kids EXCEPT ![op.dir] = Synced(op.dir, order)],
             IF op.call = "readdir" THEN Page(Synced(op.dir, order), TRUE) ELSE UNCHANGED stream,
             loaded' = loaded \cup {op.dir}, suspect' = suspect \ {op.dir}, op' = NoOp,
             UNCHANGED <<device, next, mounted>>
      PROVE  Sound'
  <2> DEFINE d == op.dir
             ks == Synced(d, order)
  <2>1. /\ kids \in [Dirs -> Seq(Entries)] /\ Unique(kids[d]) /\ device \subseteq Objects
        /\ IsFiniteSet(device) /\ UniquePaths /\ d \in Dirs
    BY <1>1 DEF Sound, TypeOK, Tabled, Stored
  <2>2. ks \in Seq(Entries) /\ Unique(ks)
    BY <1>3, <2>1, SyncedExact
  <2>3. kids' = [kids EXCEPT ![d] = ks]
    BY <1>3
  <2>4. kids' \in [Dirs -> Seq(Entries)] /\ \A f \in Dirs : Unique(kids'[f])
    <3> HIDE DEF d, ks
    <3> QED
      BY <2>1, <2>2, <2>3, Updated DEF Sound
  <2>5. stream' \in Streams /\ (stream'.dir = None => stream' = NoStream)
    <3>1. CASE op.call = "readdir"
      <4>1. Page(ks, TRUE) /\ stream \in Streams /\ stream.dir # None
        BY <1>1, <1>3, <3>1, NamespaceAssumption DEF Sound, TypeOK, Shaped
      <4> HIDE DEF ks
      <4>2. stream' \in Streams /\ stream'.dir = stream.dir
        BY <2>2, <4>1, PageTyped
      <4> QED
        BY <4>1, <4>2
    <3>2. CASE op.call # "readdir"
      BY <1>3, <3>2 DEF Sound, TypeOK, Shaped
    <3> QED
      BY <3>1, <3>2
  <2>6. op' \in Ops /\ Shaped'
    BY <1>3, <2>5, Answers
  <2>7. /\ UNCHANGED <<device, next>> /\ UNCHANGED mounted /\ UNCHANGED <<link, mounted>>
        /\ turns' = turns /\ UNCHANGED events /\ UNCHANGED loop /\ UNCHANGED late
    BY <1>2, <1>3 DEF KeepsLink
  <2>8. loaded' \subseteq Dirs /\ suspect' \subseteq Dirs
    BY <1>1, <1>3 DEF Sound, TypeOK
  <2> QED
    BY <1>2, <2>4, <2>5, <2>6, <2>7, <2>8, Unmoved, SoundStep
<1>4. CASE Refuses(TRUE, <<device, next>>) \/ Breaks(<<device, next>>)
  <2> DEFINE done == <<device, next>>
  <2>1. Kept(done[1], done[2]) /\ done[2] \in Nat \ {0}
    BY DEF Sound, TypeOK, Stored, UniquePaths, Kept
  <2> HIDE DEF done
  <2>2. Refuses(TRUE, done) \/ Breaks(done)
    BY <1>4 DEF done
  <2> QED
    BY <1>1, <1>2, <2>1, <2>2, SoundBreaks, SoundRefuses
<1> QED
  BY <1>3, <1>4 DEF List

(* A new entry: no other has its name. *)
LEMMA Adds ==
  ASSUME Sound, op.call = "create", NEW e \in Entries, e.name = op.name,
         kids' = [kids EXCEPT ![op.dir] = Append(Without(@, op.name), e)]
  PROVE  /\ kids' \in [Dirs -> Seq(Entries)]
         /\ \A d \in Dirs : Unique(kids'[d]) /\ Extends(kids[d], kids'[d])
         /\ \A d \in Dirs : d # op.dir => kids'[d] = kids[d]
         /\ \A f : f \in Range(kids'[op.dir]) <=> f \in Range(kids[op.dir]) \/ f = e
<1> DEFINE d == op.dir
           n == op.name
           ks == kids[d]
           ls == Append(ks, e)
<1>1. d \in Dirs /\ n \notin Listed(d)
  BY DEF Sound, Shaped
<1>2. ks \in Seq(Entries) /\ Unique(ks) /\ kids \in [Dirs -> Seq(Entries)]
  BY <1>1 DEF Sound, Tabled
<1>3. \A f \in Range(ks) : f.name # n
  BY <1>1, ListedNames
<1>4. Without(ks, n) = ks
  BY <1>2, <1>3, WithoutExact
<1>5. kids' = [kids EXCEPT ![d] = ls]
  <2>1. kids' = [kids EXCEPT ![d] = Append(Without(kids[d], n), e)]
    OBVIOUS
  <2> HIDE DEF d, n
  <2> QED
    BY <1>4, <2>1
<1>6. /\ ls \in Seq(Entries) /\ Unique(ls)
      /\ \A f : f \in Range(ls) <=> f \in Range(ks) \/ f = e
      /\ Len(ks) <= Len(ls) /\ \A i \in DOMAIN ks : ls[i] = ks[i]
  <2> HIDE DEF ks
  <2> QED
    BY <1>2, <1>3, AppendExact
<1>7. Extends(ks, ls)
  BY <1>6 DEF Extends
<1> HIDE DEF ls, d
<1>8. /\ kids' \in [Dirs -> Seq(Entries)] /\ \A f \in Dirs : Unique(kids'[f])
      /\ kids'[d] = ls /\ \A f \in Dirs : f # d => kids'[f] = kids[f]
  <2>1. Tabled /\ d \in Dirs
    BY <1>1 DEF Sound
  <2>2. ls \in Seq(Entries) /\ Unique(ls)
    BY <1>6
  <2> QED
    BY ONLY <1>5, <2>1, <2>2, Updated
<1>9. \A f \in Dirs : Extends(kids[f], kids[f])
  <2>1. \A f \in Dirs : Len(kids[f]) \in Nat
    BY <1>2
  <2> QED
    BY <2>1 DEF Extends
<1> QED
  BY <1>6, <1>7, <1>8, <1>9 DEF d

LEMMA SoundCreate == ASSUME Sound, Create PROVE Sound'
<1> DEFINE new == [dir |-> op.dir, name |-> op.name, handle |-> next]
           free == At(op.dir, op.name) = {}
           done == IF free THEN <<device \cup {new}, next + 1>> ELSE <<device, next>>
<1>1. op.call = "create" /\ op.dir \in Dirs /\ op.name \in Names /\ op.call # "none"
  BY DEF Create, Calling, Sound, Shaped
<1>2. UNCHANGED <<events, loop, late>> /\ History
  BY DEF Create
<1>3. next \in Nat \ {0} /\ next + 1 \in Nat \ {0}
  BY DEF Sound, TypeOK
<1>4. free => Kept(device \cup {new}, next + 1)
  BY <1>1, DeviceGrows
<1>5. CASE /\ link /\ KeepsLink /\ free
           /\ device' = done[1] /\ next' = done[2]
           /\ kids' = [kids EXCEPT ![op.dir] = Append(Without(@, op.name), FreshEntry(new))]
           /\ op' = NoOp
           /\ UNCHANGED <<loaded, stream, mounted, suspect>>
  <2>1. Kept(device', next') /\ next' \in Nat \ {0}
    BY <1>3, <1>4, <1>5
  <2> DEFINE e == FreshEntry(new)
  <2>2. e \in Entries /\ e.name = op.name
    BY <1>1, <1>3 DEF FreshEntry, Entries
  <2>3. kids' = [kids EXCEPT ![op.dir] = Append(Without(@, op.name), e)]
    BY <1>5
  <2> HIDE DEF e
  <2>4. kids' \in [Dirs -> Seq(Entries)] /\ \A d \in Dirs : Unique(kids'[d])
    BY <1>1, <2>2, <2>3, Adds
  <2>5. stream'.dir = None => stream' = NoStream
    BY <1>5 DEF Sound, Shaped
  <2>6. op' \in Ops /\ Shaped'
    BY <1>5, <2>5, Answers
  <2>7. /\ UNCHANGED <<link, mounted>> /\ turns' = turns /\ UNCHANGED loaded /\ UNCHANGED stream
        /\ UNCHANGED suspect /\ UNCHANGED events /\ UNCHANGED loop /\ UNCHANGED late
    BY <1>2, <1>5 DEF KeepsLink
  <2> QED
    BY <1>2, <2>1, <2>4, <2>6, <2>7, Unmoved, SoundStep
<1>6. CASE Refuses(free, done) \/ Breaks(done)
  <2>1. Kept(device, next)
    BY DEF Sound, TypeOK, Stored, UniquePaths, Kept
  <2>2. Kept(done[1], done[2]) /\ done[2] \in Nat \ {0}
    BY <1>3, <1>4, <2>1
  <2> HIDE DEF done
  <2> QED
    BY <1>1, <1>2, <1>6, <2>2, SoundBreaks, SoundRefuses
<1> QED
  BY <1>5, <1>6 DEF Create

(* What OnHandle comes to when the request is not carried out, or nobody   *)
(* hears that it was.                                                      *)
Unheard(done, allowed) ==
  \/ /\ link /\ KeepsLink /\ WithHandle(Handle) = {}
     /\ Stale
     /\ UNCHANGED <<device, next, mounted>>
  \/ Refuses(allowed, IF allowed THEN <<done, next>> ELSE <<device, next>>)
  \/ Breaks(IF allowed THEN <<done, next>> ELSE <<device, next>>)

LEMMA SoundUnheard ==
  ASSUME Sound, op.call # "none", NEW done, NEW allowed \in BOOLEAN, allowed => Kept(done, next),
         Unheard(done, allowed), UNCHANGED <<events, loop, late>>, History
  PROVE  Sound'
<1>1. UNCHANGED events /\ UNCHANGED loop /\ UNCHANGED late
  OBVIOUS
<1>2. CASE link /\ KeepsLink /\ Stale /\ UNCHANGED <<device, next, mounted>>
  <2>1. /\ op' \in Ops /\ Shaped' /\ suspect' \subseteq Dirs
        /\ stream' \in Streams /\ loaded' \subseteq Dirs
        /\ kids' \in [Dirs -> Seq(Entries)] /\ \A d \in Dirs : Unique(kids'[d])
    BY <1>2, StaleTyped
  <2>2. UNCHANGED <<device, next>> /\ UNCHANGED <<link, mounted>> /\ turns' = turns
    BY <1>2 DEF KeepsLink
  <2> QED
    BY <1>1, <2>1, <2>2, Unmoved, SoundStep
<1>3. CASE \/ Refuses(allowed, IF allowed THEN <<done, next>> ELSE <<device, next>>)
           \/ Breaks(IF allowed THEN <<done, next>> ELSE <<device, next>>)
  <2> DEFINE outcome == IF allowed THEN <<done, next>> ELSE <<device, next>>
  <2>1. Kept(device, next) /\ next \in Nat \ {0}
    BY DEF Sound, TypeOK, Stored, UniquePaths, Kept
  <2>2. Kept(outcome[1], outcome[2]) /\ outcome[2] \in Nat \ {0}
    BY <2>1
  <2> HIDE DEF outcome
  <2>3. Refuses(allowed, outcome) \/ Breaks(outcome)
    BY <1>3 DEF outcome
  <2> QED
    BY <2>2, <2>3, SoundBreaks, SoundRefuses
<1> QED
  BY <1>2, <1>3 DEF Unheard

LEMMA Frees ==
  ASSUME Sound, op.call = "remove", kids' = [kids EXCEPT ![op.dir] = Without(@, op.name)]
  PROVE  /\ kids' \in [Dirs -> Seq(Entries)]
         /\ \A d \in Dirs : Unique(kids'[d])
         /\ \A d \in Dirs : d # op.dir => kids'[d] = kids[d]
         /\ \A f : f \in Range(kids'[op.dir]) <=> f \in Range(kids[op.dir]) /\ f.name # op.name
<1> DEFINE d == op.dir
           n == op.name
           ks == kids[d]
           ls == Without(ks, n)
<1>1. d \in Dirs /\ Tabled
  BY DEF Sound, Shaped
<1>2. ks \in Seq(Entries) /\ Unique(ks)
  BY <1>1 DEF Tabled
<1>3. kids' = [kids EXCEPT ![d] = ls]
  OBVIOUS
<1>4. /\ ls \in Seq(Entries) /\ Unique(ls)
      /\ \A f : f \in Range(ls) <=> f \in Range(ks) /\ f.name # n
  <2> HIDE DEF ks
  <2> QED
    BY <1>2, WithoutExact
<1> HIDE DEF ls, d
<1>5. /\ kids' \in [Dirs -> Seq(Entries)] /\ \A f \in Dirs : Unique(kids'[f])
      /\ kids'[d] = ls /\ \A f \in Dirs : f # d => kids'[f] = kids[f]
  <2>1. ls \in Seq(Entries) /\ Unique(ls)
    BY <1>4
  <2> QED
    BY ONLY <1>1, <1>3, <2>1, Updated
<1> QED
  BY <1>4, <1>5 DEF d

(* A request about an object, carried out and answered. *)
LEMMA SoundHeard ==
  ASSUME Sound, Existing, KeepsLink, Kept(device', next), op' \in Ops, Shaped',
         kids' \in [Dirs -> Seq(Entries)], \A d \in Dirs : Unique(kids'[d]),
         suspect' = suspect \cup Spoiled, UNCHANGED <<next, loaded, stream, mounted>>,
         UNCHANGED <<events, loop, late>>, History
  PROVE  Sound'
<1>1. UNCHANGED events /\ UNCHANGED loop /\ UNCHANGED late /\ UNCHANGED loaded /\ UNCHANGED stream
      /\ UNCHANGED <<link, mounted>> /\ turns' = turns
  BY DEF KeepsLink
<1>2. Kept(device', next') /\ next' \in Nat \ {0}
  BY DEF Sound, TypeOK
<1>3. suspect' \subseteq Dirs
  BY DEF Spoiled, WithHandle, Sound, TypeOK, Objects
<1> QED
  BY <1>1, <1>2, <1>3, Unmoved, SoundStep

LEMMA SoundDelete == ASSUME Sound, Delete PROVE Sound'
<1> DEFINE done == device \ WithHandle(Handle)
<1>1. op.call = "remove" /\ op.call # "none" /\ Existing
  BY DEF Delete, Calling, Existing
<1>2. UNCHANGED <<events, loop, late>> /\ History
  BY DEF Delete, OnHandle
<1>3. Kept(done, next)
  BY DeviceShrinks
<1>4. CASE Unheard(done, TRUE)
  BY <1>1, <1>2, <1>3, <1>4, SoundUnheard
<1>5. CASE /\ KeepsLink /\ device' = done /\ op' = NoOp
           /\ kids' = [kids EXCEPT ![op.dir] = Without(@, op.name)]
           /\ suspect' = suspect \cup Spoiled
           /\ UNCHANGED <<next, loaded, stream, mounted>>
  <2>1. kids' \in [Dirs -> Seq(Entries)] /\ \A d \in Dirs : Unique(kids'[d])
    BY <1>1, <1>5, Frees
  <2>2. op' \in Ops /\ Shaped'
    <3>1. stream'.dir = None => stream' = NoStream
      BY <1>5 DEF Sound, Shaped
    <3> QED
      BY <1>5, <3>1, Answers
  <2>3. Kept(device', next)
    BY <1>3, <1>5
  <2> QED
    BY <1>1, <1>2, <1>5, <2>1, <2>2, <2>3, SoundHeard
<1> QED
  BY <1>4, <1>5 DEF Delete, OnHandle, Unheard

LEMMA SoundTableRename ==
  ASSUME Sound, op.call \in {"rename", "move"}, TableRename, op' = NoOp, UNCHANGED stream
  PROVE  /\ kids' \in [Dirs -> Seq(Entries)] /\ \A d \in Dirs : Unique(kids'[d])
         /\ op' \in Ops /\ Shaped'
<1>1. /\ Tabled /\ op.dir \in Dirs /\ op.todir \in Dirs /\ op.name \in Listed(op.dir)
      /\ op.toname \in Names /\ (op.dir # op.todir \/ op.name # op.toname)
  BY DEF Sound, Shaped, Existing
<1>2. kids' \in [Dirs -> Seq(Entries)] /\ \A d \in Dirs : Unique(kids'[d])
  BY <1>1, TableRenameExact
<1>3. stream'.dir = None => stream' = NoStream
  BY DEF Sound, Shaped
<1> QED
  BY <1>2, <1>3, Answers

(* The first request has been answered. *)
LEMMA Seconds ==
  ASSUME Sound, op.call = "rename", op.pc = "call", op.todir # op.dir, Second("move"),
         UNCHANGED <<kids, stream>>
  PROVE  op' = GoesOn(op) /\ op' \in Ops /\ Shaped'
<1>1. op' = GoesOn(op)
  BY DEF Second, GoesOn
<1>2. /\ op' \in Ops /\ op'.call = "move" /\ op'.dir = op.dir /\ op'.name = op.name
      /\ op'.todir = op.todir /\ op'.toname = op.toname /\ op'.tries = 1 /\ op'.pc = "resolve"
  BY <1>1, GoesOnTo DEF Sound, TypeOK
<1>3. /\ op.dir \in Dirs /\ op.todir \in Dirs /\ op.toname \in Names /\ op.name \in Listed(op.dir)
      /\ EntryFresh /\ (stream.dir = None => stream = NoStream)
  BY DEF Sound, Shaped, Existing
<1>4. Listed(op.dir)' = Listed(op.dir)
  BY <1>2 DEF Listed
<1>5. EntryFresh'
  BY <1>2, <1>3 DEF EntryFresh
<1>6. Shaped'
  BY <1>2, <1>3, <1>4, <1>5 DEF Shaped, Existing
<1> QED
  BY <1>1, <1>2, <1>6

LEMMA RenamedKept ==
  ASSUME Sound, op.call \in {"rename", "move"}
  PROVE  /\ (\A o \in Renamed : At(o.dir, o.name) = {})
              => Kept((device \ WithHandle(Handle)) \cup Renamed, next)
         /\ (\A o \in Moved : At(o.dir, o.name) = {})
              => Kept((device \ WithHandle(Handle)) \cup Moved, next)
<1> DEFINE h == Handle
           r == [o \in device |-> [o EXCEPT !.name = op.toname]]
           m == [o \in device |-> [o EXCEPT !.dir = op.todir]]
<1>1. op.todir \in Dirs /\ op.toname \in Names /\ device \subseteq Objects
  BY DEF Sound, Shaped, TypeOK
<1>2. WithHandle(h) \in SUBSET device
  BY DEF WithHandle
<1>3. r \in [device -> Objects] /\ \A o \in device : r[o].handle = o.handle
  BY <1>1 DEF Objects
<1>4. m \in [device -> Objects] /\ \A o \in device : m[o].handle = o.handle
  BY <1>1 DEF Objects
<1> HIDE DEF h
<1>5. Renamed = {r[o] : o \in WithHandle(h)}
  BY <1>2 DEF Renamed, h
<1>6. Moved = {m[o] : o \in WithHandle(h)}
  BY <1>2 DEF Moved, h
<1> HIDE DEF r, m
<1>7. ASSUME \A o \in Renamed : At(o.dir, o.name) = {}
      PROVE  Kept((device \ WithHandle(h)) \cup Renamed, next)
  <2>1. \A o \in WithHandle(h) : r[o].handle = o.handle /\ At(r[o].dir, r[o].name) = {}
    BY <1>2, <1>3, <1>5, <1>7
  <2> QED
    BY <1>3, <1>5, <2>1, DeviceRelabels
<1>8. ASSUME \A o \in Moved : At(o.dir, o.name) = {}
      PROVE  Kept((device \ WithHandle(h)) \cup Moved, next)
  <2>1. \A o \in WithHandle(h) : m[o].handle = o.handle /\ At(m[o].dir, m[o].name) = {}
    BY <1>2, <1>4, <1>6, <1>8
  <2> QED
    BY <1>4, <1>6, <2>1, DeviceRelabels
<1> QED
  BY <1>7, <1>8 DEF h

LEMMA SoundRename == ASSUME Sound, Rename PROVE Sound'
<1> DEFINE done == (device \ WithHandle(Handle)) \cup Renamed
           allowed == \A o \in Renamed : At(o.dir, o.name) = {}
<1>1. op.call = "rename" /\ op.pc = "call" /\ op.call # "none" /\ Existing
  BY DEF Rename, Calling, Existing
<1>2. UNCHANGED <<events, loop, late>> /\ History
  BY DEF Rename, OnHandle
<1>3. allowed => Kept(done, next)
  BY <1>1, RenamedKept
<1>4. CASE Unheard(done, allowed)
  <2>1. allowed \in BOOLEAN
    OBVIOUS
  <2> HIDE DEF done, allowed
  <2> QED
    BY <1>1, <1>2, <1>3, <1>4, <2>1, SoundUnheard
<1>5. CASE /\ KeepsLink /\ device' = done /\ allowed
           /\ IF op.todir = op.dir THEN TableRename /\ op' = NoOp
              ELSE Second("move") /\ UNCHANGED kids
           /\ suspect' = suspect \cup Spoiled
           /\ UNCHANGED <<next, loaded, stream, mounted>>
  <2>1. Kept(device', next)
    BY <1>3, <1>5
  <2>2. /\ kids' \in [Dirs -> Seq(Entries)] /\ \A d \in Dirs : Unique(kids'[d])
        /\ op' \in Ops /\ Shaped'
    <3>1. CASE op.todir = op.dir
      BY <1>1, <1>5, <3>1, SoundTableRename
    <3>2. CASE op.todir # op.dir
      <4>1. Second("move") /\ UNCHANGED <<kids, stream>>
        BY <1>5, <3>2
      <4>2. op' \in Ops /\ Shaped'
        BY <1>1, <3>2, <4>1, Seconds
      <4> QED
        BY <4>1, <4>2 DEF Sound, Tabled
    <3> QED
      BY <3>1, <3>2
  <2> QED
    BY <1>1, <1>2, <1>5, <2>1, <2>2, SoundHeard
<1> QED
  BY <1>4, <1>5 DEF Rename, OnHandle, Unheard

LEMMA SoundMove == ASSUME Sound, Move PROVE Sound'
<1> DEFINE done == (device \ WithHandle(Handle)) \cup Moved
           allowed == \A o \in Moved : At(o.dir, o.name) = {}
<1>1. op.call = "move" /\ op.call # "none" /\ Existing
  BY DEF Move, Calling, Existing
<1>2. UNCHANGED <<events, loop, late>> /\ History
  BY DEF Move, OnHandle
<1>3. allowed => Kept(done, next)
  BY <1>1, RenamedKept
<1>4. CASE Unheard(done, allowed)
  <2>1. allowed \in BOOLEAN
    OBVIOUS
  <2> HIDE DEF done, allowed
  <2> QED
    BY <1>1, <1>2, <1>3, <1>4, <2>1, SoundUnheard
<1>5. CASE /\ KeepsLink /\ device' = done /\ allowed
           /\ TableRename /\ op' = NoOp
           /\ suspect' = suspect \cup Spoiled
           /\ UNCHANGED <<next, loaded, stream, mounted>>
  <2>1. Kept(device', next)
    BY <1>3, <1>5
  <2>2. /\ kids' \in [Dirs -> Seq(Entries)] /\ \A d \in Dirs : Unique(kids'[d])
        /\ op' \in Ops /\ Shaped'
    BY <1>1, <1>5, SoundTableRename
  <2> QED
    BY <1>1, <1>2, <1>5, <2>1, <2>2, SoundHeard
<1> QED
  BY <1>4, <1>5 DEF Move, OnHandle, Unheard

(* The device is back: a new session. *)
LEMMA AdoptTyped ==
  ASSUME Sound, Adopt
  PROVE  /\ Kept(device', next') /\ next' \in Nat \ {0}
         /\ link' \in BOOLEAN /\ events' \in Seq(Nat) /\ late' \subseteq Nat
         /\ loop' \in [pc : {"polling", "blocked", "ended"}, event : Nat]
         /\ kids' = Stales(kids) /\ loaded' = {}
         /\ kids' \in [Dirs -> Seq(Entries)]
         /\ \A d \in Dirs : Unique(kids'[d]) /\ Listed(d)' = Listed(d)
<1>1. Kept(device', next') /\ next' \in Nat \ {0}
  <2>1. CASE Renumbers
    <3>1. PICK num \in Injection(device, 1 .. Cardinality(device)) :
            device' = {[o EXCEPT !.handle = num[o]] : o \in device}
      BY <2>1 DEF Adopt
    <3>2. next' = Cardinality(device) + 1
      BY <2>1 DEF Adopt
    <3> QED
      BY <3>1, <3>2, DeviceRenumbers
  <2>2. CASE ~Renumbers
    BY <2>2, Unmoved DEF Adopt
  <2> QED
    BY <2>1, <2>2
<1>2. link' \in BOOLEAN /\ events' \in Seq(Nat) /\ kids' = Stales(kids) /\ loaded' = {}
  BY DEF Adopt, AdoptedKids, AdoptedListings
<1>3. late' \subseteq Nat
  BY DEF Adopt, Sound, TypeOK
<1>4. loop' \in [pc : {"polling", "blocked", "ended"}, event : Nat]
  BY DEF Adopt, Polling, StoreEvent
<1>5. /\ kids' \in [Dirs -> Seq(Entries)]
      /\ \A d \in Dirs : /\ Unique(kids'[d])
                         /\ \A e \in Range(kids'[d]) : \E f \in Range(kids[d]) : e.name = f.name
                         /\ \A f \in Range(kids[d]) : \E e \in Range(kids'[d]) : e.name = f.name
  BY <1>2, StalesExact DEF Sound
<1>6. \A d \in Dirs : Listed(d)' = Listed(d)
  BY <1>5, ListedSame
<1> QED
  BY <1>1, <1>2, <1>3, <1>4, <1>5, <1>6

(* What a pause of the wait comes to. *)
LEMMA WaitSteps ==
  ASSUME Sound, WaitStep
  PROVE  \/ /\ op' = Sleeps(op)
            /\ UNCHANGED <<device, next, link, events, loop, late, kids, loaded, suspect, stream>>
         \/ Adopt /\ Fails
         \/ /\ Adopt /\ op.tries # MAX_ATTEMPTS
            /\ op' = TriesAgain(Sleeps(op)) /\ UNCHANGED <<stream, suspect>>
  BY DEF WaitStep, Sleeps, TriesAgain, Exhausted

LEMMA SoundWait == ASSUME Sound, WaitStep \/ WaitEnds PROVE Sound'
<1>1. op.pc = "wait" /\ op.call # "none" /\ op \in Ops /\ op.tries >= 1
  BY DEF WaitStep, WaitEnds, Sound, Shaped, TypeOK
<1>2. /\ Sleeps(op) \in Ops /\ SameCall(Sleeps(op), op) /\ Sleeps(op).tries = op.tries
      /\ Sleeps(op).stale = op.stale /\ Sleeps(op).pc = "wait"
  BY <1>1, SleepsTo
<1>3. CASE WaitEnds
  <2>1. GivesUp /\ Fails /\ mounted' \in BOOLEAN /\ turns' = turns /\ History
    BY <1>3 DEF WaitEnds, GivesUp
  <2>2. /\ op' = NoOp /\ suspect' \subseteq Dirs
        /\ stream' \in Streams /\ (stream'.dir = None => stream' = NoStream)
    BY <1>1, <2>1, FailsTyped
  <2>3. op' \in Ops /\ Shaped'
    BY <2>2, Answers
  <2>4. /\ UNCHANGED <<device, next>> /\ UNCHANGED kids /\ UNCHANGED events /\ UNCHANGED loop
        /\ UNCHANGED late /\ UNCHANGED loaded /\ link' \in BOOLEAN
    BY <1>3 DEF WaitEnds, Sound, TypeOK
  <2> QED
    BY <2>1, <2>2, <2>3, <2>4, Unmoved, SoundStep
<1>4. CASE WaitStep
  <2>0. UNCHANGED mounted /\ turns' = turns /\ History
    BY <1>4 DEF WaitStep
  <2>1. CASE /\ op' = Sleeps(op)
             /\ UNCHANGED <<device, next, link, events, loop, late, kids, loaded, suspect, stream>>
    <3>1. /\ UNCHANGED <<device, next>> /\ UNCHANGED kids /\ UNCHANGED events /\ UNCHANGED loop
          /\ UNCHANGED late /\ UNCHANGED loaded /\ UNCHANGED suspect /\ UNCHANGED stream
          /\ link' \in BOOLEAN
      BY <2>1 DEF Sound, TypeOK
    <3>2. op' \in Ops /\ SameCall(op', op) /\ op'.tries = op.tries /\ op'.stale = op.stale /\ op'.pc = "wait"
      BY <1>2, <2>1
    <3>3. HalfMoved' => EntryFresh'
      BY <3>1, <3>2, StillHalfMoved DEF Sound, Shaped, EntryFresh, SameCall
    <3>4. \A d \in Dirs : Listed(d)' = Listed(d)
      BY <3>1 DEF Listed
    <3>5. Shaped'
      BY <1>1, <3>1, <3>2, <3>3, <3>4, Continues
    <3> QED
      BY <2>0, <3>1, <3>2, <3>5, Unmoved, SoundStep
  <2>2. CASE Adopt /\ Fails
    <3>1. /\ op' = NoOp /\ suspect' \subseteq Dirs
          /\ stream' \in Streams /\ (stream'.dir = None => stream' = NoStream)
      BY <1>1, <2>2, FailsTyped
    <3>2. op' \in Ops /\ Shaped'
      BY <3>1, Answers
    <3>3. loaded' \subseteq Dirs
      BY <2>2, AdoptTyped
    <3> QED
      BY <2>0, <2>2, <3>1, <3>2, <3>3, AdoptTyped, Unmoved, SoundStep
  <2>3. CASE /\ Adopt /\ op.tries # MAX_ATTEMPTS
             /\ op' = TriesAgain(Sleeps(op)) /\ UNCHANGED <<stream, suspect>>
    <3>1. /\ op' \in Ops /\ SameCall(op', Sleeps(op)) /\ op'.tries = op.tries + 1 /\ op'.pc = "resolve"
      BY <1>2, <2>3, TriesAgainTo
    <3>2. SameCall(op', op)
      BY <1>2, <3>1 DEF SameCall
    <3>3. op'.tries > 1 /\ op'.tries >= 1
      BY <1>1, <3>1 DEF Ops
    <3>4. ~HalfMoved'
      BY <3>1, <3>3, StrayAgain
    <3>5. \A d \in Dirs : Listed(d)' = Listed(d)
      BY <2>3, AdoptTyped
    <3>6. stream' = stream /\ UNCHANGED stream /\ UNCHANGED suspect
      BY <2>3
    <3>7. Shaped'
      BY <1>1, <3>1, <3>2, <3>3, <3>4, <3>5, <3>6, Continues
    <3>8. loaded' \subseteq Dirs
      BY <2>3, AdoptTyped
    <3> QED
      BY <2>0, <2>3, <3>1, <3>6, <3>7, <3>8, AdoptTyped, Unmoved, SoundStep
  <2> QED
    BY <1>4, <2>1, <2>2, <2>3, WaitSteps
<1> QED
  BY <1>3, <1>4

LEMMA SoundNext == Sound /\ [Next]_vars => Sound'
<1>1. ASSUME Sound, UNCHANGED vars PROVE Sound'
  BY <1>1 DEF vars, Sound, TypeOK, Tabled, Stored, UniquePaths, Shaped, Existing, EntryFresh,
              HalfMoved, StrayMove, Listed
<1>2. ASSUME Sound, FuseStep PROVE Sound'
  BY <1>2, SoundResolve, SoundList, SoundCreate, SoundDelete, SoundRename, SoundMove, SoundWait
     DEF FuseStep
<1>3. ASSUME Sound, Next PROVE Sound'
  BY <1>2, <1>3, SoundDevice, SoundLoops, SoundOpenClose, SoundCalls DEF Next
<1> QED
  BY <1>1, <1>3

LEMMA Soundness == Spec => []Sound
  BY SoundInit, SoundNext, PTL DEF Spec

(* Every variable keeps to its type, and no call overdraws its budgets of  *)
(* attempts and of stale handles.                                          *)
THEOREM TypeCorrect == Spec => []TypeOK
<1>1. Sound => TypeOK
  BY DEF Sound
<1> QED
  BY <1>1, Soundness, PTL

(* The reconnect window.                                                   *)

(* How the call under way changes. *)
LEMMA CallChanges ==
  ASSUME Sound, [Next]_vars
  PROVE  \/ op' = op \/ op' = NoOp \/ op' = Waits(op) \/ op' = Requests(op) \/ op' = GoesOn(op)
         \/ op' \in Ops /\ op'.pc = "resolve" /\ op'.slept = 0
         \/ op.stale # 0 /\ op' = LooksAgain(op)
         \/ op.pc = "wait" /\ op' = Sleeps(op)
         \/ op.pc = "wait" /\ op.tries # MAX_ATTEMPTS /\ op' = TriesAgain(Sleeps(op))
<1> DEFINE Goal ==
         \/ op' = op \/ op' = NoOp \/ op' = Waits(op) \/ op' = Requests(op) \/ op' = GoesOn(op)
         \/ op' \in Ops /\ op'.pc = "resolve" /\ op'.slept = 0
         \/ op.stale # 0 /\ op' = LooksAgain(op)
         \/ op.pc = "wait" /\ op' = Sleeps(op)
         \/ op.pc = "wait" /\ op.tries # MAX_ATTEMPTS /\ op' = TriesAgain(Sleeps(op))
<1> SUFFICES Goal
  OBVIOUS
<1>0. \A ds : FailsIn(ds) => Goal
  BY DEF FailsIn
<1>1. Fails => Goal
  BY <1>0 DEF Fails
<1>2. Reconnect => Goal
  BY <1>1 DEF Reconnect, GivesUp, Waits
<1>3. Stale => Goal
  BY <1>1 DEF Stale, LooksAgain
<1>4. \A done : Breaks(done) => Goal
  BY <1>2 DEF Breaks
<1>5. \A possible, done : Refuses(possible, done) => Goal
  BY <1>0 DEF Refuses
<1>6. Resolve => Goal
  BY <1>1, <1>2 DEF Resolve, Requests
<1>7. List \/ Create => Goal
  BY <1>4, <1>5 DEF List, Create
<1>8. Delete \/ Rename \/ Move => Goal
  <2>1. Second("move") => Goal
    BY DEF Second, GoesOn
  <2> QED
    BY <1>3, <1>4, <1>5, <2>1 DEF Delete, Rename, Move, OnHandle
<1>9. WaitStep => Goal
  <2>1. WaitStep => op.pc = "wait"
    BY DEF WaitStep
  <2> QED
    BY <1>1, <2>1, WaitSteps
<1>10. WaitEnds => Goal
  BY <1>1 DEF WaitEnds, GivesUp
<1>11. ASSUME NEW d \in Dirs, NEW n \in Names, CallCreate(d, n) \/ CallRemove(d, n) PROVE Goal
  <2>1. Begin("create", d, n, None, None) \/ Begin("remove", d, n, None, None)
    BY <1>11 DEF CallCreate, CallRemove
  <2> QED
    BY <2>1, BeginsTyped DEF Calls
<1>12. ASSUME NEW d \in Dirs, NEW n \in Names, NEW e \in Dirs, NEW m \in Names, CallRename(d, n, e, m)
       PROVE  Goal
  <2>1. Begin("rename", d, n, e, m) \/ Begin("move", d, n, e, m)
    BY <1>12 DEF CallRename
  <2> QED
    BY <2>1, BeginsTyped DEF Calls
<1>13. ASSUME NEW d \in Dirs, CallLookup(d) PROVE Goal
  <2>1. Begin("lookup", d, None, None, None)
    BY <1>13 DEF CallLookup
  <2> QED
    BY <2>1, BeginsTyped DEF Calls
<1>14. ASSUME CallReadDir PROVE Goal
  <2>1. op' = op \/ Begin("readdir", stream.dir, None, None, None)
    BY <1>14 DEF CallReadDir
  <2>2. stream.dir \in Dirs
    BY <1>14 DEF CallReadDir, Sound, TypeOK, Streams
  <2> QED
    BY <2>1, <2>2, BeginsTyped DEF Calls
<1>15. ASSUME \/ UNCHANGED vars \/ LinkLoss \/ StoreChanges \/ CloseDir
              \/ LoopTakes \/ LoopEnds \/ LoopHandles
              \/ \E d \in Dirs, n \in Names : DeviceAdds(d, n)
              \/ \E o \in device : DeviceRemoves(o)
              \/ \E d \in Dirs : OpenDir(d)
              \/ \E h \in late : LateLoopHandles(h)
       PROVE  op' = op
  BY <1>15 DEF vars, LinkLoss, StoreChanges, CloseDir, LoopTakes, LoopEnds, LoopHandles,
               DeviceAdds, DeviceRemoves, OpenDir, LateLoopHandles
<1> HIDE DEF Goal
<1>16. FuseStep => Goal
  BY <1>6, <1>7, <1>8, <1>9, <1>10 DEF FuseStep
<1>17. op' = op => Goal
  BY DEF Goal
<1> QED
  BY <1>11, <1>12, <1>13, <1>14, <1>15, <1>16, <1>17 DEF Next

(* The pauses taken and the pauses left make up the window. *)
Window ==
  /\ op.slept <= Timeout
  /\ op.pc = "wait" => op.wait.remaining + op.slept = Timeout

LEMMA WindowStep ==
  ASSUME Sound, Window, [Next]_vars
  PROVE  Window'
<1>0. op \in Ops /\ op.slept \in Nat /\ op.wait \in [remaining : Nat, next : Nat] /\ Timeout \in Nat
  BY NamespaceAssumption DEF Sound, TypeOK, Ops
<1>1. CASE op' = op
  BY <1>1 DEF Window
<1>2. CASE op' = NoOp
  BY <1>0, <1>2, NoOpTyped DEF Window
<1>3. CASE op' = Waits(op)
  <2>1. op'.slept = 0 /\ op'.wait.remaining = Timeout
    BY <1>0, <1>3, WaitsTo DEF Schedule
  <2> QED
    BY <1>0, <2>1 DEF Window
<1>4. CASE op' = Requests(op)
  BY <1>0, <1>4, RequestsTo DEF Window
<1>5. CASE op' = GoesOn(op)
  BY <1>0, <1>5, GoesOnTo DEF Window
<1>6. CASE op' \in Ops /\ op'.pc = "resolve" /\ op'.slept = 0
  BY <1>0, <1>6 DEF Window
<1>7. CASE op.stale # 0 /\ op' = LooksAgain(op)
  BY <1>0, <1>7, LooksAgainTo DEF Window
<1>8. ASSUME op.pc = "wait"
      PROVE  LET s == Sleeps(op)
             IN /\ s \in Ops /\ s.pc = "wait" /\ s.tries = op.tries /\ s.slept <= Timeout
                /\ s.wait.remaining + s.slept = Timeout
  <2> DEFINE s == Sleeps(op)
             q == Delay(op.wait)
             r == op.wait.remaining
             t == After(op.wait).remaining
  <2>1. /\ s \in Ops /\ s.pc = "wait" /\ s.tries = op.tries
        /\ s.wait = After(op.wait) /\ s.slept = op.slept + q
    BY <1>0, <1>8, SleepsTo
  <2>2. q \in Nat /\ q <= r /\ t + q = r /\ t \in Nat
    BY <1>0, DelayExact
  <2>3. r + op.slept = Timeout /\ r \in Nat
    BY <1>0, <1>8 DEF Window
  <2> HIDE DEF s, q, r
  <2>4. s.slept <= Timeout /\ t + s.slept = Timeout
    <3> HIDE DEF t
    <3> QED
      BY <1>0, <2>1, <2>2, <2>3
  <2> QED
    BY <2>1, <2>4 DEF s
<1>9. CASE op.pc = "wait" /\ op' = Sleeps(op)
  BY <1>8, <1>9 DEF Window
<1>10. CASE op.pc = "wait" /\ op.tries # MAX_ATTEMPTS /\ op' = TriesAgain(Sleeps(op))
  <2>1. op'.pc = "resolve" /\ op'.slept = Sleeps(op).slept
    BY <1>8, <1>10, TriesAgainTo
  <2> QED
    BY <1>8, <1>10, <2>1 DEF Window
<1> QED
  BY <1>1, <1>2, <1>3, <1>4, <1>5, <1>6, <1>7, <1>9, <1>10, CallChanges

(* A reconnect never sleeps past its window, and gives up only when all of *)
(* it has been slept: Backoff's clipped delays add up to the timeout,      *)
(* whatever it is.                                                         *)
THEOREM WindowIsKept == Spec => []WindowKept
<1>1. Init => Window
  BY NoOpTyped, NamespaceAssumption DEF Init, Window
<1>2. Sound /\ Window /\ [Next]_vars => Window'
  BY WindowStep
<1>3. Sound /\ Window => WindowKept
  <2> SUFFICES ASSUME Sound, Window PROVE WindowKept
    OBVIOUS
  <2>1. op.slept \in Nat /\ op.wait.remaining \in Nat
    BY DEF Sound, TypeOK, Ops
  <2> QED
    BY <2>1 DEF Window, WindowKept, Spent
<1> QED
  BY <1>1, <1>2, <1>3, Soundness, PTL DEF Spec

(* Handles and what they reach.                                            *)

(* The name that the object of an entry has on the device. *)
Expected(d, n) == IF HalfMoved /\ d = op.dir /\ n = op.name THEN op.toname ELSE n

(* A handle that is trusted reaches the entry's own object or none: the    *)
(* device has given it out, no two entries share one, and on a live link   *)
(* no other object has it.  All of it but the first in directories that    *)
(* are not suspect.                                                        *)
Given ==
  \A d \in Dirs : \A e \in Range(kids[d]) : e.fresh => e.handle < next

OneEach ==
  \A d, f \in Dirs \ suspect : \A e \in Range(kids[d]), g \in Range(kids[f]) :
    e.fresh /\ g.fresh /\ e.handle = g.handle => d = f /\ e.name = g.name

Reaches ==
  link => \A d \in Dirs \ suspect : \A e \in Range(kids[d]) : \A o \in device :
            e.fresh /\ o.handle = e.handle => o.dir = d /\ o.name = Expected(d, e.name)

ListedFresh == \A d \in loaded : \A e \in Range(kids[d]) : e.fresh

Aimed == Given /\ OneEach /\ Reaches /\ ListedFresh

LEMMA AimedInit == Init => Aimed
<1> SUFFICES ASSUME Init PROVE Aimed
  OBVIOUS
<1>1. \A d \in Dirs : kids[d] = <<>>
  BY DEF Init
<1>2. \A e : e \notin Range(<<>>)
  BY DEF Range
<1>3. loaded = {}
  BY DEF Init
<1> QED
  BY <1>1, <1>2, <1>3 DEF Aimed, Given, OneEach, Reaches, ListedFresh

(* The table stays, the device only loses objects or adds some with new    *)
(* handles, or the link is lost.                                           *)
LEMMA AimedQuiet ==
  ASSUME Sound, Sound', Aimed, kids' = kids, next' >= next,
         link' => link /\ \A o \in device' : o \in device \/ o.handle >= next,
         suspect \subseteq suspect', loaded' \subseteq loaded,
         \A d \in Dirs \ suspect' : \A e \in Range(kids[d]) : Expected(d, e.name)' = Expected(d, e.name)
  PROVE  Aimed'
<1>1. /\ next \in Nat /\ next' \in Nat
      /\ \A d \in Dirs : \A e \in Range(kids[d]) : e.handle \in Nat
  <2>1. \A d \in Dirs : kids[d] \in Seq(Entries)
    BY DEF Sound, TypeOK
  <2>2. \A e \in Entries : e.handle \in Nat
    BY DEF Entries
  <2>3. next \in Nat /\ next' \in Nat
    BY DEF Sound, TypeOK
  <2> QED
    BY <2>1, <2>2, <2>3, Elements
<1>2. Given'
  BY <1>1 DEF Aimed, Given
<1>3. OneEach'
  BY DEF Aimed, OneEach
<1>4. ListedFresh'
  BY DEF Aimed, ListedFresh
<1>5. ASSUME link', NEW d \in Dirs \ suspect', NEW e \in Range(kids[d]), NEW o \in device',
             e.fresh, o.handle = e.handle
      PROVE  o.dir = d /\ o.name = Expected(d, e.name)'
  <2>1. e.handle < next
    BY <1>5 DEF Aimed, Given
  <2>2. ~(o.handle >= next)
    BY <1>1, <1>5, <2>1
  <2>3. o \in device /\ link
    BY <1>5, <2>2
  <2> QED
    BY <1>5, <2>3 DEF Aimed, Reaches
<1>6. Reaches'
  BY <1>5 DEF Reaches
<1> QED
  BY <1>2, <1>3, <1>4, <1>6 DEF Aimed

(* No handle is trusted. *)
LEMMA AimedForgotten ==
  ASSUME Sound, kids' = Stales(kids), loaded' = {}
  PROVE  Aimed'
<1>1. \A d \in Dirs : \A e \in Range(kids'[d]) : ~e.fresh
  BY StalesExact DEF Sound
<1> QED
  BY <1>1 DEF Aimed, Given, OneEach, Reaches, ListedFresh

(* A call that is not between the two requests of a rename. *)
LEMMA ExpectedPlain ==
  /\ ~HalfMoved => \A d, n : Expected(d, n) = n
  /\ \A d, n : d # op.dir => Expected(d, n) = n
  BY DEF Expected

LEMMA ExpectedSame ==
  ASSUME SameCall(op', op), HalfMoved' <=> HalfMoved
  PROVE  \A d, n : Expected(d, n)' = Expected(d, n)
  BY DEF Expected, SameCall

(* A call that ends with an error. *)
LEMMA AimedFailsIn ==
  ASSUME Sound, op.call # "none", NEW ds \in SUBSET Dirs, FailsIn(ds)
  PROVE  /\ suspect \subseteq suspect' /\ ds \subseteq suspect'
         /\ \A d \in Dirs \ suspect' : \A n : Expected(d, n)' = Expected(d, n)
<1>1. op' = NoOp /\ suspect \subseteq suspect' /\ Torn \subseteq suspect' /\ ds \subseteq suspect'
  BY FailsInTyped
<1>2. ~HalfMoved'
  BY <1>1, NoOpTyped DEF HalfMoved
<1>3. \A d, n : Expected(d, n)' = n
  BY <1>2 DEF Expected
<1>4. HalfMoved => op.dir \in suspect'
  BY <1>1 DEF HalfMoved, Torn
<1>5. ASSUME NEW d \in Dirs \ suspect', NEW n PROVE Expected(d, n) = n
  BY <1>4 DEF Expected
<1> QED
  BY <1>1, <1>3, <1>5

LEMMA AimedFails ==
  ASSUME Sound, op.call # "none", Fails
  PROVE  /\ suspect \subseteq suspect'
         /\ \A d \in Dirs \ suspect' : \A n : Expected(d, n)' = Expected(d, n)
<1>1. FailsIn({}) /\ {} \in SUBSET Dirs
  BY DEF Fails
<1> QED
  BY <1>1, AimedFailsIn

LEMMA AimedReconnects ==
  ASSUME Sound, op.call # "none", Reconnect, UNCHANGED kids
  PROVE  /\ suspect \subseteq suspect'
         /\ \A d \in Dirs \ suspect' : \A n : Expected(d, n)' = Expected(d, n)
<1>1. (op' = NoOp /\ Fails) \/ (op' = Waits(op) /\ UNCHANGED <<stream, suspect>>)
  BY Reconnects
<1>2. CASE Fails
  BY <1>2, AimedFails
<1>3. CASE op' = Waits(op) /\ UNCHANGED <<stream, suspect>>
  <2>1. SameCall(op', op) /\ op'.tries = op.tries /\ op'.stale = op.stale
    BY <1>3, WaitsTo DEF Sound, TypeOK
  <2>2. \A d, n : Expected(d, n)' = Expected(d, n)
    BY <2>1, StillHalfMoved, ExpectedSame
  <2> QED
    BY <1>3, <2>2
<1> QED
  BY <1>1, <1>2, <1>3

LEMMA AimedBreaks ==
  ASSUME Sound, Sound', Aimed, op.call # "none", NEW done, Breaks(done), done[2] >= next
  PROVE  Aimed'
<1>1. Reconnect /\ UNCHANGED kids /\ UNCHANGED loaded
  BY DEF Breaks
<1>2. /\ suspect \subseteq suspect'
      /\ \A d \in Dirs \ suspect' : \A n : Expected(d, n)' = Expected(d, n)
  BY <1>1, AimedReconnects
<1>3. next \in Nat
  BY DEF Sound, TypeOK
<1>4. (next' = next \/ next' = done[2]) /\ ~link'
  BY DEF Breaks, Perhaps, LosesLink, KeepsLink
<1>5. next' >= next
  BY <1>3, <1>4
<1> QED
  BY <1>1, <1>2, <1>4, <1>5, AimedQuiet

(* A request gives out no handle twice. *)
NoOldHandle(done) ==
  /\ done[2] >= next
  /\ \A o \in done[1] : o.handle >= next \/ \E p \in device : p.handle = o.handle

(* An error after a request that took effect: a directory that the request *)
(* did not touch is as it was.                                             *)
LEMMA AimedRefuses ==
  ASSUME Sound, Sound', Aimed, op.call # "none", NEW possible, NEW done, NoOldHandle(done),
         Refuses(possible, done)
  PROVE  Aimed'
<1>1. FailsIn(Altered) /\ UNCHANGED <<kids, loaded, link>>
  BY DEF Refuses
<1>2. Altered \in SUBSET Dirs
  BY DEF Altered, Sound, TypeOK, Objects
<1>3. /\ suspect \subseteq suspect' /\ Altered \subseteq suspect'
      /\ \A d \in Dirs \ suspect' : \A n : Expected(d, n)' = Expected(d, n)
  BY <1>1, <1>2, AimedFailsIn
<1>4. /\ next \in Nat /\ next' >= next
      /\ \A o \in device' : o.handle >= next \/ \E p \in device : p.handle = o.handle
  BY DEF Refuses, Perhaps, NoOldHandle, Sound, TypeOK
<1>5. /\ next' \in Nat
      /\ \A d \in Dirs : \A e \in Range(kids[d]) : e.handle \in Nat
  <2>1. \A d \in Dirs : kids[d] \in Seq(Entries)
    BY DEF Sound, TypeOK
  <2>2. \A e \in Entries : e.handle \in Nat
    BY DEF Entries
  <2>3. next' \in Nat
    BY DEF Sound, TypeOK
  <2> QED
    BY <2>1, <2>2, <2>3, Elements
<1>6. Given'
  BY <1>1, <1>4, <1>5 DEF Aimed, Given
<1>7. OneEach'
  BY <1>1, <1>3 DEF Aimed, OneEach
<1>8. ListedFresh'
  BY <1>1 DEF Aimed, ListedFresh
<1>9. ASSUME link', NEW d \in Dirs \ suspect', NEW e \in Range(kids[d]), NEW o \in device',
             e.fresh, o.handle = e.handle
      PROVE  o.dir = d /\ o.name = Expected(d, e.name)'
  <2>1. link /\ d \in Dirs \ suspect /\ Expected(d, e.name)' = Expected(d, e.name)
    BY <1>1, <1>3, <1>9
  <2>2. e.handle < next /\ ~(o.handle >= next)
    BY <1>4, <1>5, <1>9 DEF Aimed, Given
  <2>3. PICK p \in device : p.handle = o.handle
    BY <1>4, <2>2
  <2>4. p.dir = d /\ p.name = Expected(d, e.name)
    BY <1>9, <2>1, <2>3 DEF Aimed, Reaches
  <2>5. p \in device'
    <3> SUFFICES ASSUME p \notin device' PROVE d \in suspect'
      BY <1>9
    <3>1. p.dir \in Altered
      BY DEF Altered
    <3> QED
      BY <1>3, <2>4, <3>1
  <2>6. p = o
    BY <1>9, <2>3, <2>5 DEF Sound, Stored
  <2> QED
    BY <2>1, <2>4, <2>6
<1>10. Reaches'
  BY <1>1, <1>9 DEF Reaches
<1> QED
  BY <1>6, <1>7, <1>8, <1>10 DEF Aimed

LEMMA AimedUnheard ==
  ASSUME Sound, Sound', Aimed, op.call # "none", NEW done, NEW allowed, Unheard(done, allowed),
         allowed => \A o \in done : \E p \in device : p.handle = o.handle
  PROVE  Aimed'
<1>1. CASE link /\ KeepsLink /\ Stale /\ UNCHANGED <<device, next, mounted>>
  <2>1. CASE op' = NoOp /\ Fails /\ UNCHANGED <<kids, loaded>>
    <3>1. /\ suspect \subseteq suspect'
          /\ \A d \in Dirs \ suspect' : \A n : Expected(d, n)' = Expected(d, n)
      BY <2>1, AimedFails
    <3>2. next' >= next
      BY <1>1 DEF Sound, TypeOK
    <3> QED
      BY <1>1, <2>1, <3>1, <3>2, AimedQuiet DEF KeepsLink
  <2>2. CASE kids' = Stales(kids) /\ loaded' = {}
    BY <2>2, AimedForgotten
  <2> QED
    BY <1>1, <2>1, <2>2, StaleTyped
<1>2. CASE \/ Refuses(allowed, IF allowed THEN <<done, next>> ELSE <<device, next>>)
           \/ Breaks(IF allowed THEN <<done, next>> ELSE <<device, next>>)
  <2> DEFINE outcome == IF allowed THEN <<done, next>> ELSE <<device, next>>
  <2>1. outcome[2] >= next
    BY DEF Sound, TypeOK
  <2>2. \A o \in outcome[1] : \E p \in device : p.handle = o.handle
    OBVIOUS
  <2> HIDE DEF outcome
  <2>3. Refuses(allowed, outcome) \/ Breaks(outcome)
    BY <1>2 DEF outcome
  <2>4. NoOldHandle(outcome)
    BY <2>1, <2>2 DEF NoOldHandle
  <2> QED
    BY <2>1, <2>3, <2>4, AimedBreaks, AimedRefuses
<1> QED
  BY <1>1, <1>2 DEF Unheard

(* A handle looked up by path. *)
LEMMA AimedSetsHandle ==
  ASSUME Sound, Aimed, Existing, ~Resolved, link, NEW o \in At(op.dir, op.name),
         kids' = SetHandle(op.dir, op.name, o.handle), op' = [op EXCEPT !.pc = "call"],
         UNCHANGED <<device, next, link, loaded, suspect>>
  PROVE  Aimed'
<1> DEFINE new == [name |-> op.name, handle |-> o.handle, fresh |-> TRUE]
<1>0. new.name = op.name /\ new.handle = o.handle /\ new.fresh
  OBVIOUS
<1>1. /\ \A d \in Dirs : d # op.dir => kids'[d] = kids[d]
      /\ \A e : e \in Range(kids'[op.dir]) <=>
           e = new \/ (e \in Range(kids[op.dir]) /\ e.name # op.name)
  BY SetsHandle
<1> HIDE DEF new
<1>2. /\ o \in device /\ o.dir = op.dir /\ o.name = op.name /\ op.dir \in Dirs
      /\ op.name \in Listed(op.dir)
  BY DEF At, Sound, Shaped, Existing
<1>3. ~HalfMoved
  <2>1. kids \in [Dirs -> Seq(Entries)] /\ Unique(kids[op.dir])
    BY <1>2 DEF Sound, Tabled
  <2>2. Entry(op.dir, op.name) \in Range(kids[op.dir]) /\ Entry(op.dir, op.name).name = op.name
    BY <1>2, <2>1, EntryExact
  <2>3. ~EntryFresh
    BY <2>2 DEF Resolved, Existing, EntryFresh
  <2> QED
    BY <2>3 DEF Sound, Shaped
<1>4. ~HalfMoved'
  <2>1. op' = Requests(op)
    BY DEF Requests
  <2>2. SameCall(op', op) /\ op'.tries = op.tries /\ op'.stale = op.stale
    BY <2>1, RequestsTo DEF Sound, TypeOK
  <2> QED
    BY <1>3, <2>2, StillHalfMoved
<1>5. (\A d, n : Expected(d, n) = n) /\ \A d, n : Expected(d, n)' = n
  BY <1>3, <1>4 DEF Expected
<1>6. \A d \in Dirs : \A e \in Range(kids'[d]) : e \in Range(kids[d]) \/ (d = op.dir /\ e = new)
  BY <1>1
<1>7. \A p \in device : p.handle = o.handle => p = o
  BY <1>2 DEF Sound, Stored
<1>8. Given'
  <2>1. o.handle < next
    BY <1>2 DEF Sound, Stored
  <2> QED
    BY <1>0, <1>6, <2>1 DEF Aimed, Given
<1>9. Reaches'
  BY <1>0, <1>2, <1>5, <1>6, <1>7 DEF Aimed, Reaches
<1>10. ListedFresh'
  BY <1>0, <1>6 DEF Aimed, ListedFresh, Sound, TypeOK
<1>11. ASSUME NEW d \in Dirs \ suspect, NEW e \in Range(kids[d]), e.fresh, e.handle = o.handle
       PROVE  d = op.dir /\ e.name = op.name
  BY <1>2, <1>5, <1>11 DEF Aimed, Reaches
<1>12. OneEach'
  <2> SUFFICES ASSUME NEW d \in Dirs \ suspect, NEW f \in Dirs \ suspect,
                      NEW e \in Range(kids'[d]), NEW g \in Range(kids'[f]),
                      e.fresh, g.fresh, e.handle = g.handle
               PROVE  d = f /\ e.name = g.name
    BY DEF OneEach
  <2>1. CASE e \in Range(kids[d]) /\ g \in Range(kids[f])
    BY <2>1 DEF Aimed, OneEach
  <2>2. CASE d = op.dir /\ e = new /\ g \in Range(kids[f])
    BY <1>0, <1>11, <2>2
  <2>3. CASE f = op.dir /\ g = new /\ e \in Range(kids[d])
    BY <1>0, <1>11, <2>3
  <2>4. CASE d = op.dir /\ e = new /\ f = op.dir /\ g = new
    BY <2>4
  <2> QED
    BY <1>6, <2>1, <2>2, <2>3, <2>4
<1> QED
  BY <1>8, <1>9, <1>10, <1>12 DEF Aimed

LEMMA AimedResolve == ASSUME Sound, Sound', Aimed, Resolve PROVE Aimed'
<1>1. op.call # "none" /\ UNCHANGED <<device, next, link, loaded>> /\ next' >= next
  BY DEF Resolve, Sound, Shaped, TypeOK
<1>2. CASE op' = [op EXCEPT !.pc = "call"] /\ UNCHANGED <<kids, suspect>>
  <2>1. op' = Requests(op)
    BY <1>2 DEF Requests
  <2>2. SameCall(op', op) /\ op'.tries = op.tries /\ op'.stale = op.stale
    BY <2>1, RequestsTo DEF Sound, TypeOK
  <2>3. \A d, n : Expected(d, n)' = Expected(d, n)
    BY <2>2, StillHalfMoved, ExpectedSame
  <2> QED
    BY <1>1, <1>2, <2>3, AimedQuiet
<1>3. ASSUME ~Resolved, link, NEW o \in At(op.dir, op.name),
             kids' = SetHandle(op.dir, op.name, o.handle), op' = [op EXCEPT !.pc = "call"],
             UNCHANGED suspect
      PROVE  Aimed'
  <2>1. Existing
    BY <1>3 DEF Resolved, Existing
  <2> QED
    BY <1>1, <1>3, <2>1, AimedSetsHandle
<1>4. CASE Fails /\ UNCHANGED kids
  <2>1. /\ suspect \subseteq suspect'
        /\ \A d \in Dirs \ suspect' : \A n : Expected(d, n)' = Expected(d, n)
    BY <1>1, <1>4, AimedFails
  <2> QED
    BY <1>1, <1>4, <2>1, AimedQuiet
<1>5. CASE Reconnect /\ UNCHANGED kids
  <2>1. /\ suspect \subseteq suspect'
        /\ \A d \in Dirs \ suspect' : \A n : Expected(d, n)' = Expected(d, n)
    BY <1>1, <1>5, AimedReconnects
  <2> QED
    BY <1>1, <1>5, <2>1, AimedQuiet
<1> QED
  BY <1>2, <1>3, <1>4, <1>5 DEF Resolve

LEMMA AimedList == ASSUME Sound, Sound', Aimed, List PROVE Aimed'
<1>1. op.call \in {"lookup", "readdir"} /\ op.call # "none" /\ op.dir \in Dirs
  BY DEF List, Calling, Sound, Shaped
<1>2. ASSUME link, KeepsLink, NEW order \in Orders(op.dir),
             kids' = [kids EXCEPT ![op.dir] = Synced(op.dir, order)],
             loaded' = loaded \cup {op.dir}, suspect' = suspect \ {op.dir}, op' = NoOp,
             UNCHANGED <<device, next>>
      PROVE  Aimed'
  <2> DEFINE d == op.dir
  <2>1. /\ kids \in [Dirs -> Seq(Entries)] /\ Unique(kids[d]) /\ device \subseteq Objects
        /\ IsFiniteSet(device) /\ UniquePaths /\ d \in Dirs
    BY <1>1 DEF Sound, TypeOK, Tabled, Stored
  <2>2. \A e : e \in Range(Synced(d, order)) <=> \E o \in device : o.dir = d /\ e = FreshEntry(o)
    BY <1>2, <2>1, SyncedExact
  <2>3. kids'[d] = Synced(d, order) /\ \A f \in Dirs : f # d => kids'[f] = kids[f]
    BY <1>2, <2>1
  <2>4. \A o : /\ FreshEntry(o).name = o.name /\ FreshEntry(o).handle = o.handle
               /\ FreshEntry(o).fresh
    BY DEF FreshEntry
  <2>5. \A e \in Range(kids'[d]) : \E o \in device : o.dir = d /\ e.name = o.name
                                                   /\ e.handle = o.handle /\ e.fresh
    BY <2>2, <2>3, <2>4
  <2>6. /\ \A o, p \in device : o.handle = p.handle => o = p
        /\ \A o \in device : o.handle < next
    BY DEF Sound, Stored
  <2>7. (\A f, n : Expected(f, n) = n) /\ \A f, n : Expected(f, n)' = n
    BY <1>1, <1>2, NoOpTyped DEF Expected, HalfMoved
  <2>8. link' /\ \A f \in Dirs : f # d /\ f \notin suspect' => f \notin suspect
    BY <1>2 DEF KeepsLink
  <2> HIDE DEF d
  <2>9. Given'
    <3>1. \A f \in Dirs : \A e \in Range(kids'[f]) : e.fresh => e.handle < next
      <4> SUFFICES ASSUME NEW f \in Dirs, NEW e \in Range(kids'[f]), e.fresh PROVE e.handle < next
        OBVIOUS
      <4>1. CASE f = d
        BY <2>5, <2>6, <4>1
      <4>2. CASE f # d
        BY <2>3, <4>2 DEF Aimed, Given
      <4> QED
        BY <4>1, <4>2
    <3> QED
      BY <1>2, <3>1 DEF Given
  <2>10. ASSUME NEW f \in Dirs \ suspect', NEW e \in Range(kids'[f]), NEW o \in device,
                e.fresh, o.handle = e.handle
         PROVE  o.dir = f /\ o.name = e.name
    <3>1. CASE f = d
      BY <2>5, <2>6, <2>10, <3>1
    <3>2. CASE f # d
      BY <1>2, <2>3, <2>7, <2>8, <2>10, <3>2 DEF Aimed, Reaches
    <3> QED
      BY <3>1, <3>2
  <2>11. Reaches'
    BY <1>2, <2>7, <2>10 DEF Reaches
  <2>12. ASSUME NEW f \in Dirs \ suspect', NEW g \in Dirs \ suspect',
                NEW e \in Range(kids'[f]), NEW i \in Range(kids'[g]),
                e.fresh, i.fresh, e.handle = i.handle
         PROVE  f = g /\ e.name = i.name
    <3>1. CASE f = d
      <4>1. PICK o \in device : o.dir = d /\ e.name = o.name /\ e.handle = o.handle
        BY <2>5, <3>1
      <4>2. o.dir = g /\ o.name = i.name
        BY <2>10, <2>12, <4>1
      <4> QED
        BY <3>1, <4>1, <4>2
    <3>2. CASE g = d
      <4>1. PICK o \in device : o.dir = d /\ i.name = o.name /\ i.handle = o.handle
        BY <2>5, <3>2
      <4>2. o.dir = f /\ o.name = e.name
        BY <2>10, <2>12, <4>1
      <4> QED
        BY <3>2, <4>1, <4>2
    <3>3. CASE f # d /\ g # d
      BY <2>3, <2>8, <2>12, <3>3 DEF Aimed, OneEach
    <3> QED
      BY <3>1, <3>2, <3>3
  <2>13. OneEach'
    BY <2>12 DEF OneEach
  <2>14. ListedFresh'
    <3>1. \A f \in loaded' : f = d \/ (f \in loaded /\ f \in Dirs)
      BY <1>2 DEF Sound, TypeOK, d
    <3> QED
      BY <2>3, <2>5, <3>1 DEF Aimed, ListedFresh
  <2> QED
    BY <2>9, <2>11, <2>13, <2>14 DEF Aimed
<1>3. CASE Refuses(TRUE, <<device, next>>) \/ Breaks(<<device, next>>)
  <2> DEFINE done == <<device, next>>
  <2>1. done[2] >= next /\ NoOldHandle(done)
    BY DEF Sound, TypeOK, NoOldHandle
  <2> HIDE DEF done
  <2>2. Refuses(TRUE, done) \/ Breaks(done)
    BY <1>3 DEF done
  <2> QED
    BY <1>1, <2>1, <2>2, AimedBreaks, AimedRefuses
<1> QED
  BY <1>2, <1>3 DEF List

LEMMA AimedCreate == ASSUME Sound, Sound', Aimed, Create PROVE Aimed'
<1> DEFINE new == [dir |-> op.dir, name |-> op.name, handle |-> next]
           free == At(op.dir, op.name) = {}
           done == IF free THEN <<device \cup {new}, next + 1>> ELSE <<device, next>>
<1>1. op.call = "create" /\ op.dir \in Dirs /\ op.name \in Names /\ op.call # "none"
  BY DEF Create, Calling, Sound, Shaped
<1>2. next \in Nat \ {0} /\ next + 1 >= next /\ next >= next /\ next < next + 1
  BY DEF Sound, TypeOK
<1>3. CASE /\ link /\ KeepsLink /\ free /\ device' = done[1] /\ next' = done[2]
           /\ kids' = [kids EXCEPT ![op.dir] = Append(Without(@, op.name), FreshEntry(new))]
           /\ op' = NoOp
           /\ UNCHANGED <<loaded, stream, mounted, suspect>>
  <2> DEFINE e == FreshEntry(new)
  <2>1. e \in Entries /\ e.name = op.name /\ e.handle = next /\ e.fresh
    BY <1>1, <1>2 DEF FreshEntry, Entries
  <2>2. kids' = [kids EXCEPT ![op.dir] = Append(Without(@, op.name), e)]
    BY <1>3
  <2>3. new.dir = op.dir /\ new.name = op.name /\ new.handle = next
    OBVIOUS
  <2>4. device' = device \cup {new} /\ next' = next + 1
    BY <1>3
  <2> HIDE DEF e, new
  <2>5. /\ \A d \in Dirs : d # op.dir => kids'[d] = kids[d]
        /\ \A f : f \in Range(kids'[op.dir]) <=> f \in Range(kids[op.dir]) \/ f = e
    BY <1>1, <2>1, <2>2, Adds
  <2>6. \A d \in Dirs : \A f \in Range(kids'[d]) : f \in Range(kids[d]) \/ (d = op.dir /\ f = e)
    BY <2>5
  <2>7. (\A d, n : Expected(d, n) = n) /\ \A d, n : Expected(d, n)' = n
    BY <1>1, <1>3, NoOpTyped DEF Expected, HalfMoved
  <2>8. \A d \in Dirs : \A f \in Range(kids[d]) : f.handle \in Nat
    <3>1. \A d \in Dirs : kids[d] \in Seq(Entries)
      BY DEF Sound, TypeOK
    <3>2. \A f \in Entries : f.handle \in Nat
      BY DEF Entries
    <3> QED
      BY <3>1, <3>2, Elements
  <2>9. \A d \in Dirs : \A f \in Range(kids[d]) : f.fresh => f.handle < next /\ f.handle # next
                                                            /\ f.handle < next + 1
    BY <1>2, <2>8 DEF Aimed, Given
  <2>10. \A o \in device : o.handle # next
    BY <1>2 DEF Sound, Stored, TypeOK, Objects
  <2>11. Given'
    BY <1>2, <2>1, <2>4, <2>6, <2>9 DEF Given
  <2>12. OneEach'
    <3> SUFFICES ASSUME NEW d \in Dirs \ suspect, NEW f \in Dirs \ suspect,
                        NEW a \in Range(kids'[d]), NEW b \in Range(kids'[f]),
                        a.fresh, b.fresh, a.handle = b.handle
                 PROVE  d = f /\ a.name = b.name
      BY <1>3 DEF OneEach
    <3>1. CASE a \in Range(kids[d]) /\ b \in Range(kids[f])
      BY <3>1 DEF Aimed, OneEach
    <3>2. CASE d = op.dir /\ a = e /\ b \in Range(kids[f])
      BY <2>1, <2>9, <3>2
    <3>3. CASE f = op.dir /\ b = e /\ a \in Range(kids[d])
      BY <2>1, <2>9, <3>3
    <3> QED
      BY <2>6, <3>1, <3>2, <3>3
  <2>13. Reaches'
    <3> SUFFICES ASSUME NEW d \in Dirs \ suspect, NEW f \in Range(kids'[d]), NEW o \in device',
                        f.fresh, o.handle = f.handle
                 PROVE  o.dir = d /\ o.name = f.name
      BY <1>3, <2>7 DEF Reaches
    <3>1. CASE f \in Range(kids[d])
      <4>1. o \in device
        BY <2>3, <2>4, <2>9, <3>1
      <4> QED
        BY <1>3, <2>7, <3>1, <4>1 DEF Aimed, Reaches
    <3>2. CASE d = op.dir /\ f = e
      <4>1. o = new
        BY <2>1, <2>4, <2>10, <3>2
      <4> QED
        BY <2>1, <2>3, <3>2, <4>1
    <3> QED
      BY <2>6, <3>1, <3>2
  <2>14. ListedFresh'
    BY <1>3, <2>1, <2>6 DEF Aimed, ListedFresh, Sound, TypeOK
  <2> QED
    BY <2>11, <2>12, <2>13, <2>14 DEF Aimed
<1>4. CASE Refuses(free, done) \/ Breaks(done)
  <2>1. done[2] >= next
    BY <1>2
  <2>2. \A o \in done[1] : o.handle >= next \/ \E p \in device : p.handle = o.handle
    BY <1>2
  <2> HIDE DEF done
  <2>3. NoOldHandle(done)
    BY <2>1, <2>2 DEF NoOldHandle
  <2> QED
    BY <1>1, <1>4, <2>1, <2>3, AimedBreaks, AimedRefuses
<1> QED
  BY <1>3, <1>4 DEF Create

(* The entry a request is about, and the object its handle reaches. *)
LEMMA Target ==
  ASSUME Sound, Aimed, Existing, op.pc = "call"
  PROVE  /\ op.dir \in Dirs /\ op.name \in Listed(op.dir)
         /\ Entry(op.dir, op.name) \in Range(kids[op.dir])
         /\ Entry(op.dir, op.name).name = op.name /\ Entry(op.dir, op.name).fresh
         /\ \A e \in Range(kids[op.dir]) : e.name = op.name => e = Entry(op.dir, op.name)
         /\ op.dir \notin suspect /\ link =>
              \A o \in WithHandle(Handle) : o.dir = op.dir /\ o.name = Expected(op.dir, op.name)
         /\ op.dir \notin suspect =>
              \A d \in Dirs \ suspect : \A g \in Range(kids[d]) :
                g.fresh /\ g.handle = Handle => d = op.dir /\ g.name = op.name
<1>1. op.dir \in Dirs /\ op.name \in Listed(op.dir) /\ EntryFresh
  BY DEF Sound, Shaped
<1>2. /\ Entry(op.dir, op.name) \in Range(kids[op.dir])
      /\ Entry(op.dir, op.name).name = op.name
      /\ \A e \in Range(kids[op.dir]) : e.name = op.name => e = Entry(op.dir, op.name)
  BY <1>1, EntryExact DEF Sound, Tabled
<1>3. Entry(op.dir, op.name).fresh
  BY <1>1, <1>2 DEF EntryFresh
<1>4. ASSUME op.dir \notin suspect, link, NEW o \in WithHandle(Handle)
      PROVE  o.dir = op.dir /\ o.name = Expected(op.dir, op.name)
  <2>1. o \in device /\ o.handle = Entry(op.dir, op.name).handle
    BY DEF WithHandle, Handle
  <2> QED
    BY <1>1, <1>2, <1>3, <1>4, <2>1 DEF Aimed, Reaches
<1>5. ASSUME op.dir \notin suspect, NEW d \in Dirs \ suspect, NEW g \in Range(kids[d]),
             g.fresh, g.handle = Handle
      PROVE  d = op.dir /\ g.name = op.name
  BY <1>1, <1>2, <1>3, <1>5 DEF Aimed, OneEach, Handle
<1> QED
  BY <1>1, <1>2, <1>3, <1>4, <1>5

(* A request that was aimed at the wrong object spoils the directories it  *)
(* touches and no other.                                                   *)
LEMMA AimedSpoiled ==
  ASSUME Sound, Sound', Aimed, Existing, op.pc = "call", op.dir \in suspect \/ StrayMove,
         suspect' = suspect \cup Spoiled, link, UNCHANGED <<next, link, loaded>>,
         \A o \in device' : o \in device \/ \E p \in WithHandle(Handle) : o.handle = p.handle,
         \A d \in Dirs : d \notin {op.dir, op.todir} => kids'[d] = kids[d],
         op'.dir = op.dir \/ ~HalfMoved',
         \A d \in {op.dir, op.todir} : \A e \in Range(kids'[d]) :
           \/ e \in Range(kids[d])
           \/ e.fresh /\ e.handle = Handle
  PROVE  Aimed'
<1>1. \A d \in Dirs \ suspect' : /\ d # op.dir /\ d # op.todir /\ d \notin suspect
                                /\ kids'[d] = kids[d]
                                /\ \A o \in WithHandle(Handle) : o.dir # d
  BY DEF Spoiled
<1>2. \A d \in Dirs \ suspect' : \A n : Expected(d, n) = n /\ Expected(d, n)' = n
  BY <1>1 DEF Expected
<1>3. /\ Entry(op.dir, op.name) \in Range(kids[op.dir]) /\ Entry(op.dir, op.name).fresh
      /\ op.dir \in Dirs
  BY Target
<1>4. \A d \in Dirs : \A e \in Range(kids'[d]) :
        e \in Range(kids[d]) \/ (e.fresh /\ e.handle = Handle)
  BY <1>3
<1>5. Given'
  BY <1>3, <1>4 DEF Aimed, Given, Handle
<1>6. OneEach'
  BY <1>1 DEF Aimed, OneEach
<1>7. ASSUME NEW d \in Dirs \ suspect', NEW e \in Range(kids'[d]), NEW o \in device',
             e.fresh, o.handle = e.handle
      PROVE  o.dir = d /\ o.name = e.name
  <2>1. e \in Range(kids[d]) /\ d \notin suspect
    BY <1>1
  <2>2. \A p \in device : p.handle = e.handle => p.dir = d /\ p.name = e.name
    BY <1>2, <1>7, <2>1 DEF Aimed, Reaches
  <2>3. ASSUME NEW p \in WithHandle(Handle) PROVE p.handle # e.handle
    BY <1>1, <2>2 DEF WithHandle
  <2> QED
    BY <1>7, <2>2, <2>3
<1>8. Reaches'
  BY <1>2, <1>7 DEF Reaches
<1>9. ListedFresh'
  BY <1>4 DEF Aimed, ListedFresh, Sound, TypeOK
<1> QED
  BY <1>5, <1>6, <1>8, <1>9 DEF Aimed

(* A request that reached its own object. *)
LEMMA AimedTableRename ==
  ASSUME Sound, Aimed, op.call \in {"rename", "move"}, op.pc = "call",
         op.dir \notin suspect, ~StrayMove, TableRename, op' = NoOp,
         suspect' = suspect \cup Spoiled, link, UNCHANGED <<next, link, loaded>>,
         \A o \in device' : \/ o \in device /\ o.handle # Handle
                            \/ o.handle = Handle /\ o.dir = op.todir /\ o.name = op.toname
  PROVE  Aimed'
<1> DEFINE h == Handle
           new == [name |-> op.toname, handle |-> h, fresh |-> Entry(op.dir, op.name).fresh]
<1>0. Existing /\ suspect' = suspect
  BY DEF Existing, Spoiled
<1>1. /\ Tabled /\ op.dir \in Dirs /\ op.todir \in Dirs /\ op.name \in Listed(op.dir)
      /\ op.toname \in Names /\ (op.dir # op.todir \/ op.name # op.toname)
  BY <1>0 DEF Sound, Shaped
<1>2. \A d \in Dirs : \A f : f \in Range(kids'[d]) <=>
        \/ /\ f \in Range(kids[d])
           /\ ~(d = op.dir /\ f.name = op.name) /\ ~(d = op.todir /\ f.name = op.toname)
        \/ d = op.todir /\ f = new
  BY <1>1, TableRenameExact DEF Handle
<1>3. /\ Entry(op.dir, op.name) \in Range(kids[op.dir]) /\ Entry(op.dir, op.name).fresh
      /\ \A d \in Dirs \ suspect : \A g \in Range(kids[d]) :
           g.fresh /\ g.handle = Handle => d = op.dir /\ g.name = op.name
  BY <1>0, Target
<1>4. new.name = op.toname /\ new.handle = h /\ new.fresh
  BY <1>3
<1>5. h < next
  BY <1>1, <1>3 DEF Aimed, Given, Handle
<1>6. \A d, n : Expected(d, n)' = n
  BY NoOpTyped DEF Expected, HalfMoved
<1>7. \A d, n : ~(d = op.dir /\ n = op.name) => Expected(d, n) = n
  BY DEF Expected
<1> HIDE DEF new, h
<1>8. \A d \in Dirs \ suspect : \A f \in Range(kids'[d]) :
        \/ /\ f \in Range(kids[d]) /\ ~(d = op.dir /\ f.name = op.name)
           /\ (f.fresh => f.handle # h)
        \/ d = op.todir /\ f = new
  BY <1>2, <1>3 DEF h
<1>9. Given'
  BY <1>2, <1>4, <1>5 DEF Aimed, Given
<1>10. OneEach'
  BY <1>0, <1>4, <1>8 DEF Aimed, OneEach
<1>11. Reaches'
  <2> SUFFICES ASSUME NEW d \in Dirs \ suspect, NEW f \in Range(kids'[d]), NEW o \in device',
                      f.fresh, o.handle = f.handle
               PROVE  o.dir = d /\ o.name = f.name
    BY <1>0, <1>6 DEF Reaches
  <2>1. CASE /\ f \in Range(kids[d]) /\ ~(d = op.dir /\ f.name = op.name)
             /\ (f.fresh => f.handle # h)
    <3>1. o \in device
      BY <2>1 DEF h
    <3> QED
      BY <1>7, <2>1, <3>1 DEF Aimed, Reaches
  <2>2. CASE d = op.todir /\ f = new
    <3>1. o.handle = h
      BY <1>4, <2>2
    <3> QED
      BY <1>4, <2>2, <3>1 DEF h
  <2> QED
    BY <1>8, <2>1, <2>2
<1>12. ListedFresh'
  BY <1>2, <1>4 DEF Aimed, ListedFresh, Sound, TypeOK
<1> QED
  BY <1>9, <1>10, <1>11, <1>12 DEF Aimed

LEMMA AimedDelete == ASSUME Sound, Sound', Aimed, Delete PROVE Aimed'
<1> DEFINE done == device \ WithHandle(Handle)
<1>1. op.call = "remove" /\ op.call # "none"
  BY DEF Delete, Calling
<1>2. CASE Unheard(done, TRUE)
  <2>1. \A o \in done : \E p \in device : p.handle = o.handle
    OBVIOUS
  <2> HIDE DEF done
  <2> QED
    BY <1>1, <1>2, <2>1, AimedUnheard
<1>3. CASE /\ link /\ KeepsLink /\ device' = done /\ op' = NoOp
           /\ kids' = [kids EXCEPT ![op.dir] = Without(@, op.name)]
           /\ suspect' = suspect \cup Spoiled
           /\ UNCHANGED <<next, loaded, stream, mounted>>
  <2>1. /\ \A d \in Dirs : d # op.dir => kids'[d] = kids[d]
        /\ \A f : f \in Range(kids'[op.dir]) <=> f \in Range(kids[op.dir]) /\ f.name # op.name
    BY <1>1, <1>3, Frees
  <2>2. \A d \in Dirs : \A f \in Range(kids'[d]) : f \in Range(kids[d])
    BY <2>1
  <2>3. (\A d, n : Expected(d, n) = n) /\ \A d, n : Expected(d, n)' = n
    BY <1>1, <1>3, NoOpTyped DEF Expected, HalfMoved
  <2>4. Given' /\ ListedFresh'
    BY <1>3, <2>2 DEF Aimed, Given, ListedFresh, Sound, TypeOK
  <2>5. OneEach'
    BY <1>3, <2>2 DEF Aimed, OneEach
  <2>6. Reaches'
    BY <1>3, <2>2, <2>3 DEF Aimed, Reaches
  <2> QED
    BY <2>4, <2>5, <2>6 DEF Aimed
<1> QED
  BY <1>2, <1>3 DEF Delete, OnHandle, Unheard

(* Between the two requests the object has its new name and the entry the  *)
(* old one.                                                                *)
LEMMA AimedSecond ==
  ASSUME Sound, Aimed, op.call = "rename", op.pc = "call", op.dir \notin suspect,
         op' = GoesOn(op), UNCHANGED kids,
         suspect' = suspect \cup Spoiled, link, UNCHANGED <<next, link, loaded>>,
         \A o \in device' : \/ o \in device /\ o.handle # Handle
                            \/ o.handle = Handle /\ o.dir = op.dir /\ o.name = op.toname
  PROVE  Aimed'
<1>0. Existing /\ ~HalfMoved /\ suspect' = suspect
  BY DEF Existing, HalfMoved, Spoiled, StrayMove
<1>1. /\ op'.call = "move" /\ op'.dir = op.dir /\ op'.name = op.name /\ op'.toname = op.toname
      /\ op'.tries = 1 /\ op'.stale = MAX_STALE_RETRIES
  BY GoesOnTo DEF Sound, TypeOK
<1>2. ~StrayMove'
  BY <1>1, NamespaceAssumption DEF StrayMove
<1>3. \A d, n : Expected(d, n)' = IF d = op.dir /\ n = op.name THEN op.toname ELSE n
  BY <1>1, <1>2 DEF Expected, HalfMoved
<1>4. \A d, n : Expected(d, n) = n
  BY <1>0 DEF Expected
<1>5. /\ \A e \in Range(kids[op.dir]) : e.name = op.name => e = Entry(op.dir, op.name)
      /\ \A d \in Dirs \ suspect : \A g \in Range(kids[d]) :
           g.fresh /\ g.handle = Handle => d = op.dir /\ g.name = op.name
  BY <1>0, Target
<1>6. Given' /\ ListedFresh' /\ OneEach'
  BY <1>0 DEF Aimed, Given, ListedFresh, OneEach
<1>7. Reaches'
  <2> SUFFICES ASSUME NEW d \in Dirs \ suspect, NEW e \in Range(kids[d]), NEW o \in device',
                      e.fresh, o.handle = e.handle
               PROVE  o.dir = d /\ o.name = Expected(d, e.name)'
    BY <1>0 DEF Reaches
  <2>1. CASE d = op.dir /\ e.name = op.name
    <3>1. e.handle = Handle
      BY <1>5, <2>1 DEF Handle
    <3>2. o.dir = op.dir /\ o.name = op.toname
      BY <3>1
    <3> QED
      BY <1>3, <2>1, <3>2
  <2>2. CASE ~(d = op.dir /\ e.name = op.name)
    <3>1. e.handle # Handle
      BY <1>5, <2>2
    <3>2. o \in device
      BY <3>1
    <3> QED
      BY <1>3, <1>4, <2>2, <3>2 DEF Aimed, Reaches
  <2> QED
    BY <2>1, <2>2
<1> QED
  BY <1>6, <1>7 DEF Aimed

(* What is on the device after each request. *)
LEMMA Relabelled ==
  ASSUME Sound, op.call \in {"rename", "move"}
  PROVE  /\ \A o \in (device \ WithHandle(Handle)) \cup Renamed :
              \/ o \in device /\ o.handle # Handle
              \/ \E p \in WithHandle(Handle) :
                   o.handle = p.handle /\ o.handle = Handle /\ o.dir = p.dir /\ o.name = op.toname
         /\ \A o \in (device \ WithHandle(Handle)) \cup Moved :
              \/ o \in device /\ o.handle # Handle
              \/ \E p \in WithHandle(Handle) :
                   o.handle = p.handle /\ o.handle = Handle /\ o.dir = op.todir /\ o.name = p.name
<1> DEFINE h == Handle
<1>1. device \subseteq Objects /\ WithHandle(h) \in SUBSET device
      /\ \A o \in device : o \in WithHandle(h) <=> o.handle = h
  BY DEF Sound, TypeOK, WithHandle
<1> HIDE DEF h
<1>2. \A o \in Renamed : \E p \in WithHandle(h) :
        o.handle = p.handle /\ o.dir = p.dir /\ o.name = op.toname
  <2> DEFINE r == [p \in device |-> [p EXCEPT !.name = op.toname]]
  <2>1. \A p \in device : r[p].handle = p.handle /\ r[p].dir = p.dir /\ r[p].name = op.toname
    BY <1>1 DEF Objects
  <2>2. Renamed = {r[p] : p \in WithHandle(h)}
    BY <1>1 DEF Renamed, h
  <2> HIDE DEF r
  <2> QED
    BY <1>1, <2>1, <2>2
<1>3. \A o \in Moved : \E p \in WithHandle(h) :
        o.handle = p.handle /\ o.dir = op.todir /\ o.name = p.name
  <2> DEFINE r == [p \in device |-> [p EXCEPT !.dir = op.todir]]
  <2>1. \A p \in device : r[p].handle = p.handle /\ r[p].dir = op.todir /\ r[p].name = p.name
    BY <1>1 DEF Objects
  <2>2. Moved = {r[p] : p \in WithHandle(h)}
    BY <1>1 DEF Moved, h
  <2> HIDE DEF r
  <2> QED
    BY <1>1, <2>1, <2>2
<1> QED
  BY <1>1, <1>2, <1>3 DEF h

LEMMA TableRenameWithin ==
  ASSUME Sound, op.call \in {"rename", "move"}, op.pc = "call", Aimed, TableRename
  PROVE  /\ \A d \in Dirs : d \notin {op.dir, op.todir} => kids'[d] = kids[d]
         /\ \A d \in {op.dir, op.todir} : \A e \in Range(kids'[d]) :
              e \in Range(kids[d]) \/ (e.fresh /\ e.handle = Handle)
<1>0. Existing
  BY DEF Existing
<1>1. /\ Tabled /\ op.dir \in Dirs /\ op.todir \in Dirs /\ op.name \in Listed(op.dir)
      /\ op.toname \in Names /\ (op.dir # op.todir \/ op.name # op.toname)
  BY <1>0 DEF Sound, Shaped
<1>2. Entry(op.dir, op.name).fresh
  BY <1>0, Target
<1> QED
  BY <1>1, <1>2, TableRenameExact DEF Handle

LEMMA AimedRename == ASSUME Sound, Sound', Aimed, Rename PROVE Aimed'
<1> DEFINE done == (device \ WithHandle(Handle)) \cup Renamed
           allowed == \A o \in Renamed : At(o.dir, o.name) = {}
<1>1. op.call = "rename" /\ op.pc = "call" /\ op.call # "none" /\ Existing /\ ~StrayMove
  BY DEF Rename, Calling, Existing, StrayMove
<1>2. CASE Unheard(done, allowed)
  <2>1. \A o \in done : \E p \in device : p.handle = o.handle
    BY <1>1, Relabelled DEF WithHandle
  <2> HIDE DEF done, allowed
  <2> QED
    BY <1>1, <1>2, <2>1, AimedUnheard
<1>3. CASE /\ link /\ KeepsLink /\ device' = done
           /\ IF op.todir = op.dir THEN TableRename /\ op' = NoOp
              ELSE Second("move") /\ UNCHANGED kids
           /\ suspect' = suspect \cup Spoiled
           /\ UNCHANGED <<next, loaded, stream, mounted>>
  <2>1. \A o \in device' :
          \/ o \in device /\ o.handle # Handle
          \/ \E p \in WithHandle(Handle) :
               o.handle = p.handle /\ o.handle = Handle /\ o.dir = p.dir /\ o.name = op.toname
    BY <1>1, <1>3, Relabelled
  <2>2. UNCHANGED <<next, link, loaded>>
    BY <1>3 DEF KeepsLink
  <2>3. ASSUME op.todir # op.dir PROVE op' = GoesOn(op) /\ UNCHANGED kids /\ op'.dir = op.dir
    <3>1. Second("move") /\ UNCHANGED <<kids, stream>>
      BY <1>3, <2>3
    <3>2. op' = GoesOn(op)
      BY <1>1, <2>3, <3>1, Seconds
    <3> QED
      BY <3>1, <3>2, GoesOnTo DEF Sound, TypeOK
  <2>4. CASE op.dir \notin suspect
    <3>1. \A p \in WithHandle(Handle) : p.dir = op.dir
      BY <1>1, <1>3, <2>4, Target
    <3>2. \A o \in device' : \/ o \in device /\ o.handle # Handle
                             \/ o.handle = Handle /\ o.dir = op.dir /\ o.name = op.toname
      BY <2>1, <3>1
    <3>3. CASE op.todir = op.dir
      BY <1>1, <1>3, <2>2, <2>4, <3>2, <3>3, AimedTableRename
    <3>4. CASE op.todir # op.dir
      BY <1>1, <1>3, <2>2, <2>3, <2>4, <3>2, <3>4, AimedSecond
    <3> QED
      BY <3>3, <3>4
  <2>5. CASE op.dir \in suspect
    <3>1. \A o \in device' : o \in device \/ \E p \in WithHandle(Handle) : o.handle = p.handle
      BY <2>1
    <3>2. CASE op.todir = op.dir
      <4>1. TableRename /\ op' = NoOp
        BY <1>3, <3>2
      <4>2. ~HalfMoved'
        BY <4>1, NoOpTyped DEF HalfMoved
      <4>3. /\ \A d \in Dirs : d \notin {op.dir, op.todir} => kids'[d] = kids[d]
            /\ \A d \in {op.dir, op.todir} : \A e \in Range(kids'[d]) :
                 e \in Range(kids[d]) \/ (e.fresh /\ e.handle = Handle)
        BY <1>1, <4>1, TableRenameWithin
      <4> QED
        BY <1>1, <1>3, <2>2, <2>5, <3>1, <4>2, <4>3, AimedSpoiled
    <3>3. CASE op.todir # op.dir
      BY <1>1, <1>3, <2>2, <2>3, <2>5, <3>1, <3>3, AimedSpoiled
    <3> QED
      BY <3>2, <3>3
  <2> QED
    BY <2>4, <2>5
<1> QED
  BY <1>2, <1>3 DEF Rename, OnHandle, Unheard

LEMMA AimedMove == ASSUME Sound, Sound', Aimed, Move PROVE Aimed'
<1> DEFINE done == (device \ WithHandle(Handle)) \cup Moved
           allowed == \A o \in Moved : At(o.dir, o.name) = {}
<1>1. op.call = "move" /\ op.pc = "call" /\ op.call # "none" /\ Existing
  BY DEF Move, Calling, Existing
<1>2. CASE Unheard(done, allowed)
  <2>1. \A o \in done : \E p \in device : p.handle = o.handle
    BY <1>1, Relabelled DEF WithHandle
  <2> HIDE DEF done, allowed
  <2> QED
    BY <1>1, <1>2, <2>1, AimedUnheard
<1>3. CASE /\ link /\ KeepsLink /\ device' = done /\ TableRename /\ op' = NoOp
           /\ suspect' = suspect \cup Spoiled
           /\ UNCHANGED <<next, loaded, stream, mounted>>
  <2>1. \A o \in device' :
          \/ o \in device /\ o.handle # Handle
          \/ \E p \in WithHandle(Handle) :
               o.handle = p.handle /\ o.handle = Handle /\ o.dir = op.todir /\ o.name = p.name
    BY <1>1, <1>3, Relabelled
  <2>2. UNCHANGED <<next, link, loaded>>
    BY <1>3 DEF KeepsLink
  <2>3. CASE op.dir \notin suspect /\ ~StrayMove
    <3>1. \A p \in WithHandle(Handle) : p.name = Expected(op.dir, op.name)
      BY <1>1, <1>3, <2>3, Target
    <3>2. Expected(op.dir, op.name) = op.toname
      BY <1>1, <2>3 DEF Expected, HalfMoved
    <3>3. \A o \in device' : \/ o \in device /\ o.handle # Handle
                             \/ o.handle = Handle /\ o.dir = op.todir /\ o.name = op.toname
      BY <2>1, <3>1, <3>2
    <3> QED
      BY <1>1, <1>3, <2>2, <2>3, <3>3, AimedTableRename
  <2>4. CASE op.dir \in suspect \/ StrayMove
    <3>1. \A o \in device' : o \in device \/ \E p \in WithHandle(Handle) : o.handle = p.handle
      BY <2>1
    <3>2. ~HalfMoved'
      BY <1>3, NoOpTyped DEF HalfMoved
    <3>3. /\ \A d \in Dirs : d \notin {op.dir, op.todir} => kids'[d] = kids[d]
          /\ \A d \in {op.dir, op.todir} : \A e \in Range(kids'[d]) :
               e \in Range(kids[d]) \/ (e.fresh /\ e.handle = Handle)
      BY <1>1, <1>3, TableRenameWithin
    <3> QED
      BY <1>1, <1>3, <2>2, <2>4, <3>1, <3>2, <3>3, AimedSpoiled
  <2> QED
    BY <2>3, <2>4
<1> QED
  BY <1>2, <1>3 DEF Move, OnHandle, Unheard

LEMMA AimedWait == ASSUME Sound, Sound', Aimed, WaitStep \/ WaitEnds PROVE Aimed'
<1>1. op.call # "none" /\ op \in Ops /\ next >= next
  BY DEF WaitStep, WaitEnds, Sound, Shaped, TypeOK
<1>2. CASE WaitEnds
  <2>1. Fails /\ UNCHANGED <<device, next, link, kids, loaded>>
    BY <1>2 DEF WaitEnds, GivesUp
  <2>2. /\ suspect \subseteq suspect'
        /\ \A d \in Dirs \ suspect' : \A n : Expected(d, n)' = Expected(d, n)
    BY <1>1, <2>1, AimedFails
  <2> QED
    BY <1>1, <2>1, <2>2, AimedQuiet
<1>3. CASE WaitStep
  <2>1. CASE /\ op' = Sleeps(op)
             /\ UNCHANGED <<device, next, link, events, loop, late, kids, loaded, suspect, stream>>
    <3>1. SameCall(op', op) /\ op'.tries = op.tries /\ op'.stale = op.stale
      BY <1>1, <2>1, SleepsTo
    <3>2. \A d, n : Expected(d, n)' = Expected(d, n)
      BY <3>1, StillHalfMoved, ExpectedSame
    <3> QED
      BY <1>1, <2>1, <3>2, AimedQuiet
  <2>2. CASE Adopt
    BY <2>2, AdoptTyped, AimedForgotten
  <2> QED
    BY <1>3, <2>1, <2>2, WaitSteps
<1> QED
  BY <1>2, <1>3

(* The steps that leave the table, the device's handles and the call, or   *)
(* begin one.                                                              *)
LEMMA AimedOthers ==
  ASSUME Sound, Sound', Aimed, Next, ~FuseStep
  PROVE  Aimed'
<1> DEFINE Goal ==
        /\ kids' = kids /\ next' >= next
        /\ link' => link /\ \A o \in device' : o \in device \/ o.handle >= next
        /\ suspect \subseteq suspect' /\ loaded' \subseteq loaded
        /\ \A d, n : Expected(d, n)' = Expected(d, n)
<1> SUFFICES Goal
  BY AimedQuiet
<1>0. next \in Nat /\ next >= next /\ next + 1 >= next
  BY DEF Sound, TypeOK
<1>1. ASSUME op' = op PROVE \A d, n : Expected(d, n)' = Expected(d, n)
  BY <1>1 DEF Expected, HalfMoved, StrayMove
<1>2. ASSUME NEW c \in Calls, NEW d \in Dirs, NEW n \in Names \cup {None},
             NEW e \in Dirs \cup {None}, NEW m \in Names \cup {None},
             Begin(c, d, n, e, m), Idle, c = "move" => n = m
      PROVE  \A f, k : Expected(f, k)' = Expected(f, k)
  <2>1. ~HalfMoved
    BY <1>2 DEF Idle, HalfMoved
  <2>2. op'.call = c /\ op'.name = n /\ op'.toname = m
    BY <1>2, BeginsTyped
  <2>3. ~HalfMoved'
    BY <1>2, <2>2 DEF HalfMoved
  <2> QED
    BY <2>1, <2>3 DEF Expected
<1>3. ASSUME \/ LinkLoss \/ StoreChanges \/ CloseDir \/ LoopTakes \/ LoopEnds
             \/ \E d \in Dirs : OpenDir(d)
      PROVE  Goal
  <2>1. UNCHANGED <<kids, next, suspect, op, device>> /\ loaded' \subseteq loaded /\ (link' => link)
    BY <1>3 DEF LinkLoss, LosesLink, StoreChanges, CloseDir, LoopTakes, LoopEnds, OpenDir
  <2> QED
    BY <1>0, <1>1, <2>1
<1>4. ASSUME LoopHandles \/ \E h \in late : LateLoopHandles(h) PROVE Goal
  <2>1. UNCHANGED <<kids, next, op, device, link>>
    BY <1>4 DEF LoopHandles, LateLoopHandles
  <2>2. suspect \subseteq suspect' /\ loaded' \subseteq loaded
    BY <1>4, HandlesTyped DEF LoopHandles, LateLoopHandles
  <2> QED
    BY <1>0, <1>1, <2>1, <2>2
<1>5. ASSUME NEW d \in Dirs, NEW n \in Names, DeviceAdds(d, n) PROVE Goal
  <2>1. UNCHANGED <<kids, suspect, op, link, loaded>> /\ next' = next + 1
    BY <1>5 DEF DeviceAdds
  <2>2. \A o \in device' : o \in device \/ o.handle >= next
    BY <1>0, <1>5 DEF DeviceAdds
  <2> QED
    BY <1>0, <1>1, <2>1, <2>2
<1>6. ASSUME NEW o \in device, DeviceRemoves(o) PROVE Goal
  <2>1. UNCHANGED <<kids, suspect, op, link, loaded, next>> /\ device' \subseteq device
    BY <1>6 DEF DeviceRemoves
  <2> QED
    BY <1>0, <1>1, <2>1
<1>7. ASSUME NEW d \in Dirs, NEW n \in Names, CallCreate(d, n) \/ CallRemove(d, n) PROVE Goal
  <2>1. (Begin("create", d, n, None, None) \/ Begin("remove", d, n, None, None)) /\ Idle
    BY <1>7 DEF CallCreate, CallRemove, Starts
  <2>2. \A f, k : Expected(f, k)' = Expected(f, k)
    BY <1>2, <2>1 DEF Calls
  <2>3. UNCHANGED <<kids, suspect, device, link, loaded, next>>
    BY <1>7 DEF CallCreate, CallRemove
  <2> QED
    BY <1>0, <2>2, <2>3
<1>8. ASSUME NEW d \in Dirs, NEW n \in Names, NEW e \in Dirs, NEW m \in Names, CallRename(d, n, e, m)
      PROVE  Goal
  <2>1. ((n # m /\ Begin("rename", d, n, e, m)) \/ (n = m /\ Begin("move", d, n, e, m))) /\ Idle
    BY <1>8 DEF CallRename, Starts
  <2>2. \A f, k : Expected(f, k)' = Expected(f, k)
    BY <1>2, <2>1 DEF Calls
  <2>3. UNCHANGED <<kids, suspect, device, link, loaded, next>>
    BY <1>8 DEF CallRename
  <2> QED
    BY <1>0, <2>2, <2>3
<1>9. ASSUME NEW d \in Dirs, CallLookup(d) PROVE Goal
  <2>1. Begin("lookup", d, None, None, None) /\ Idle
    BY <1>9 DEF CallLookup, Starts
  <2>2. \A f, k : Expected(f, k)' = Expected(f, k)
    BY <1>2, <2>1 DEF Calls
  <2>3. UNCHANGED <<kids, suspect, device, link, loaded, next>>
    BY <1>9 DEF CallLookup
  <2> QED
    BY <1>0, <2>2, <2>3
<1>10. ASSUME CallReadDir PROVE Goal
  <2>1. (op' = op \/ Begin("readdir", stream.dir, None, None, None)) /\ Idle
    BY <1>10 DEF CallReadDir, Starts
  <2>2. stream.dir \in Dirs
    BY <1>10 DEF CallReadDir, Sound, TypeOK, Streams
  <2>3. \A f, k : Expected(f, k)' = Expected(f, k)
    BY <1>1, <1>2, <2>1, <2>2 DEF Calls
  <2>4. UNCHANGED <<kids, suspect, device, link, loaded, next>>
    BY <1>10 DEF CallReadDir
  <2> QED
    BY <1>0, <2>3, <2>4
<1> HIDE DEF Goal
<1> QED
  BY <1>3, <1>4, <1>5, <1>6, <1>7, <1>8, <1>9, <1>10 DEF Next

LEMMA AimedNext == Sound /\ Sound' /\ Aimed /\ [Next]_vars => Aimed'
<1>1. ASSUME Aimed, UNCHANGED vars PROVE Aimed'
  BY <1>1 DEF vars, Aimed, Given, OneEach, Reaches, ListedFresh, Expected, HalfMoved, StrayMove
<1>2. ASSUME Sound, Sound', Aimed, FuseStep PROVE Aimed'
  BY <1>2, AimedResolve, AimedList, AimedCreate, AimedDelete, AimedRename, AimedMove, AimedWait
     DEF FuseStep
<1>3. ASSUME Sound, Sound', Aimed, Next PROVE Aimed'
  BY <1>2, <1>3, AimedOthers
<1> QED
  BY <1>1, <1>3

LEMMA AimedAlways == Spec => [](Sound /\ Aimed)
  BY AimedInit, AimedNext, Soundness, PTL DEF Spec

(* What a request touches.                                                 *)

(* A request that breaks or is refused takes from the device only what it  *)
(* would have taken, and only if it went out on a live link.               *)
LEMMA UnheardTakes ==
  ASSUME NEW done, NEW allowed, Unheard(done, allowed)
  PROVE  \/ device' = device
         \/ link /\ device' = done
<1>1. CASE \/ Refuses(allowed, IF allowed THEN <<done, next>> ELSE <<device, next>>)
           \/ Breaks(IF allowed THEN <<done, next>> ELSE <<device, next>>)
  BY <1>1 DEF Refuses, Breaks, Perhaps, LosesLink
<1> QED
  BY <1>1 DEF Unheard

LEMMA OnlyItsObject ==
  ASSUME Sound, Aimed, Existing, op.pc = "call", ~StrayMove, op.dir \notin suspect,
         device' = device \/ link, \A o \in device : o \notin WithHandle(Handle) => o \in device'
  PROVE  Touches(op.dir, IF op.call = "move" THEN op.toname ELSE op.name)
<1> SUFFICES ASSUME NEW o \in device, o \notin device'
             PROVE  o.dir = op.dir /\ o.name = IF op.call = "move" THEN op.toname ELSE op.name
  BY DEF Touches
<1>1. o.dir = op.dir /\ o.name = Expected(op.dir, op.name)
  BY Target
<1>2. Expected(op.dir, op.name) = IF op.call = "move" THEN op.toname ELSE op.name
  BY DEF Expected, HalfMoved
<1> QED
  BY <1>1, <1>2

LEMMA RequestTouches ==
  ASSUME Sound, Aimed, Delete \/ Rename \/ Move, ~StrayMove, op.dir \notin suspect
  PROVE  Touches(op.dir, IF op.call = "move" THEN op.toname ELSE op.name)
<1>1. Existing /\ op.pc = "call"
  BY DEF Delete, Rename, Move, Calling, Existing
<1>2. ASSUME NEW done, NEW allowed,
             \/ Unheard(done, allowed)
             \/ link /\ device' = done
      PROVE  device' = device \/ (link /\ device' = done)
  BY <1>2, UnheardTakes
<1>3. \/ device' = device
      \/ link /\ device' = device \ WithHandle(Handle)
      \/ link /\ device' = (device \ WithHandle(Handle)) \cup Renamed
      \/ link /\ device' = (device \ WithHandle(Handle)) \cup Moved
  BY <1>2 DEF Delete, Rename, Move, OnHandle, Unheard
<1>4. (device' = device \/ link) /\ \A o \in device : o \notin WithHandle(Handle) => o \in device'
  BY <1>3
<1> QED
  BY <1>1, <1>4, OnlyItsObject

(* TouchesOnlyItsObject: a removal or rename that is not a StrayMove, in a *)
(* directory that is not suspect, takes away the object of the path it was *)
(* called with and no other, however often the session was replaced and    *)
(* its objects renumbered since the path was looked up.                    *)
THEOREM TouchesItsObject == Spec => TouchesOnlyItsObject
<1> DEFINE A == op.pc = "call" /\ op' # op /\ ~StrayMove /\ op.dir \notin suspect =>
                  Touches(op.dir, IF op.call = "move" THEN op.toname ELSE op.name)
<1>1. Sound /\ Aimed /\ [Next]_vars => [A]_vars
  <2> SUFFICES ASSUME Sound, Aimed, Next, op.pc = "call", op' # op, ~StrayMove, op.dir \notin suspect
               PROVE  Touches(op.dir, IF op.call = "move" THEN op.toname ELSE op.name)
    OBVIOUS
  <2>1. op.call # "none" /\ ~Idle
    BY DEF Sound, Shaped, Idle
  <2>2. FuseStep
    BY <2>1 DEF Next, CallCreate, CallRemove, DeviceAdds, CallRename, CallLookup, OpenDir,
       CallReadDir, CloseDir, DeviceRemoves, StoreChanges, LoopTakes, LoopEnds, LoopHandles,
       LateLoopHandles, LinkLoss, Starts
  <2>3. List \/ Create \/ Delete \/ Rename \/ Move
    BY <2>2 DEF FuseStep, Resolve, WaitStep, WaitEnds
  <2>4. CASE List
    <3>1. Breaks(<<device, next>>) => device' = device
      <4> SUFFICES ASSUME Breaks(<<device, next>>) PROVE device' = device
        OBVIOUS
      <4>1. (device' = device) \/ \E now \in {<<device, next>>} : device' = now[1]
        BY DEF Breaks, Perhaps
      <4> QED
        BY <4>1
    <3>2. Refuses(TRUE, <<device, next>>) => device' = device
      <4> SUFFICES ASSUME Refuses(TRUE, <<device, next>>) PROVE device' = device
        OBVIOUS
      <4>1. \E now \in {<<device, next>>} : device' = now[1]
        BY DEF Refuses, Perhaps
      <4> QED
        BY <4>1
    <3>3. device' = device
      BY <2>4, <3>1, <3>2 DEF List
    <3> QED
      BY <3>3 DEF Touches
  <2>5. CASE Create
    <3>1. device \subseteq device'
      BY <2>5 DEF Create, Refuses, Breaks, Perhaps
    <3> QED
      BY <3>1 DEF Touches
  <2> QED
    BY <2>3, <2>4, <2>5, RequestTouches
<1> HIDE DEF A
<1>2. Spec => [][A]_vars
  BY <1>1, AimedAlways, PTL DEF Spec
<1> QED
  BY <1>2 DEF A, TouchesOnlyItsObject

(* The table follows the device.                                           *)

Follows ==
  \A d \in Dirs \ suspect' :
    /\ \A e \in Range(kids'[d]) : HasName(kids[d], e) \/ OnDevice(device', d, e)
    /\ \A e \in Range(kids[d]) : HasName(kids'[d], e) \/ ~OnDevice(device', d, e)

SameNames ==
  \A d \in Dirs : /\ \A e \in Range(kids'[d]) : \E f \in Range(kids[d]) : f.name = e.name
                  /\ \A e \in Range(kids[d]) : \E f \in Range(kids'[d]) : f.name = e.name

LEMMA SameNamesFollow == SameNames => Follows
  BY DEF SameNames, Follows, HasName

LEMMA SameKidsFollow == kids' = kids => Follows
  BY SameNamesFollow DEF SameNames

LEMMA StalesFollow == ASSUME Sound, kids' = Stales(kids) PROVE Follows
<1>1. Tabled
  BY DEF Sound
<1>2. \A d \in Dirs : /\ \A e \in Range(kids'[d]) : \E f \in Range(kids[d]) : e.name = f.name
                      /\ \A f \in Range(kids[d]) : \E e \in Range(kids'[d]) : e.name = f.name
  BY <1>1, StalesExact
<1>3. SameNames
  BY <1>2 DEF SameNames
<1> QED
  BY <1>3, SameNamesFollow

LEMMA ResolveFollows == ASSUME Sound, Resolve PROVE Follows
<1>1. CASE kids' = kids
  BY <1>1, SameKidsFollow
<1>2. ASSUME NEW o \in At(op.dir, op.name), kids' = SetHandle(op.dir, op.name, o.handle), ~Resolved
      PROVE  Follows
  <2>1. Existing /\ op.name \in Listed(op.dir) /\ op.dir \in Dirs
    BY <1>2 DEF Resolved, Existing, Sound, Shaped
  <2>2. \A d \in Dirs : Listed(d)' = Listed(d)
    BY <1>2, <2>1, SetsHandle
  <2>3. SameNames
    <3>1. \A d \in Dirs : {kids'[d][i].name : i \in DOMAIN kids'[d]} =
                          {kids[d][i].name : i \in DOMAIN kids[d]}
      BY <2>2 DEF Listed
    <3> SUFFICES ASSUME NEW d \in Dirs
                 PROVE  /\ \A e \in Range(kids'[d]) : \E f \in Range(kids[d]) : f.name = e.name
                        /\ \A e \in Range(kids[d]) : \E f \in Range(kids'[d]) : f.name = e.name
      BY DEF SameNames
    <3> QED
      BY <3>1 DEF Range
  <2> QED
    BY <2>3, SameNamesFollow
<1> QED
  BY <1>1, <1>2 DEF Resolve

LEMMA ListFollows == ASSUME Sound, List PROVE Follows
<1>1. CASE kids' = kids
  BY <1>1, SameKidsFollow
<1>2. ASSUME NEW order \in Orders(op.dir), kids' = [kids EXCEPT ![op.dir] = Synced(op.dir, order)],
             device' = device
      PROVE  Follows
  <2> DEFINE d == op.dir
  <2>1. /\ kids \in [Dirs -> Seq(Entries)] /\ Unique(kids[d]) /\ device \subseteq Objects
        /\ IsFiniteSet(device) /\ UniquePaths /\ d \in Dirs
    BY DEF Sound, TypeOK, Tabled, Stored, List, Calling, Shaped
  <2>2. \A e : e \in Range(Synced(d, order)) <=> \E o \in device : o.dir = d /\ e = FreshEntry(o)
    BY <1>2, <2>1, SyncedExact
  <2>3. kids'[d] = Synced(d, order) /\ \A f \in Dirs : f # d => kids'[f] = kids[f]
    BY <1>2, <2>1
  <2>4. \A o : FreshEntry(o).name = o.name /\ FreshEntry(o).handle = o.handle
    BY DEF FreshEntry
  <2> HIDE DEF d
  <2>5. \A e \in Range(kids'[d]) : OnDevice(device', d, e)
    BY <1>2, <2>2, <2>3, <2>4 DEF OnDevice
  <2>6. ASSUME NEW e \in Range(kids[d]), OnDevice(device', d, e) PROVE HasName(kids'[d], e)
    <3>1. PICK o \in device : o.dir = d /\ o.name = e.name
      BY <1>2, <2>6 DEF OnDevice
    <3>2. FreshEntry(o) \in Range(kids'[d])
      BY <2>2, <2>3, <3>1
    <3> QED
      BY <2>4, <3>1, <3>2 DEF HasName
  <2>7. \A f \in Dirs : f # d => \A e \in Range(kids[f]) : HasName(kids[f], e) /\ HasName(kids'[f], e)
    BY <2>3 DEF HasName
  <2> QED
    BY <2>3, <2>5, <2>6, <2>7 DEF Follows
<1> QED
  BY <1>1, <1>2 DEF List, Refuses, Breaks

LEMMA CreateFollows == ASSUME Sound, Create PROVE Follows
<1> DEFINE new == [dir |-> op.dir, name |-> op.name, handle |-> next]
<1>1. op.call = "create" /\ op.dir \in Dirs /\ op.name \in Names /\ next \in Nat \ {0}
  BY DEF Create, Calling, Sound, Shaped, TypeOK
<1>2. CASE kids' = kids
  BY <1>2, SameKidsFollow
<1>3. CASE /\ device' = device \cup {new}
           /\ kids' = [kids EXCEPT ![op.dir] = Append(Without(@, op.name), FreshEntry(new))]
  <2> DEFINE e == FreshEntry(new)
  <2>1. e \in Entries /\ e.name = op.name /\ e.handle = next
    BY <1>1 DEF FreshEntry, Entries
  <2>2. kids' = [kids EXCEPT ![op.dir] = Append(Without(@, op.name), e)]
    BY <1>3
  <2>3. OnDevice(device', op.dir, e)
    BY <1>3, <2>1 DEF OnDevice
  <2> HIDE DEF e, new
  <2>4. /\ \A d \in Dirs : d # op.dir => kids'[d] = kids[d]
        /\ \A f : f \in Range(kids'[op.dir]) <=> f \in Range(kids[op.dir]) \/ f = e
    BY <1>1, <2>1, <2>2, Adds
  <2> QED
    BY <2>3, <2>4 DEF Follows, HasName
<1> QED
  BY <1>2, <1>3 DEF Create, Refuses, Breaks

LEMMA UnheardFollows ==
  ASSUME Sound, NEW done, NEW allowed, Unheard(done, allowed)
  PROVE  Follows
<1>1. kids' = kids \/ kids' = Stales(kids)
  BY DEF Unheard, Refuses, Breaks, Stale
<1> QED
  BY <1>1, SameKidsFollow, StalesFollow

LEMMA DeleteFollows == ASSUME Sound, Delete PROVE Follows
<1>1. op.call = "remove" /\ op.pc = "call" /\ Existing
  BY DEF Delete, Calling, Existing
<1>2. CASE Unheard(device \ WithHandle(Handle), TRUE)
  BY <1>2, UnheardFollows
<1>3. CASE /\ device' = device \ WithHandle(Handle)
           /\ kids' = [kids EXCEPT ![op.dir] = Without(@, op.name)]
  <2>1. /\ \A d \in Dirs : d # op.dir => kids'[d] = kids[d]
        /\ \A f : f \in Range(kids'[op.dir]) <=> f \in Range(kids[op.dir]) /\ f.name # op.name
    BY <1>1, <1>3, Frees
  <2>2. op.dir \in Dirs /\ op.name \in Listed(op.dir)
    BY <1>1 DEF Sound, Shaped
  <2>3. \A e \in Range(kids[op.dir]) : e.name = op.name => e = Entry(op.dir, op.name)
    BY <2>2, EntryExact DEF Sound, Tabled
  <2>4. \A e \in Range(kids[op.dir]) : e.name = op.name => e.handle = Handle
    BY <2>3 DEF Handle
  <2>5. \A o \in device' : o.handle # Handle
    BY <1>3 DEF WithHandle
  <2>6. \A e \in Range(kids[op.dir]) : e.name = op.name => ~OnDevice(device', op.dir, e)
    BY <2>4, <2>5 DEF OnDevice
  <2> QED
    BY <2>1, <2>6 DEF Follows, HasName
<1> QED
  BY <1>2, <1>3 DEF Delete, OnHandle, Unheard

LEMMA TableRenameFollows ==
  ASSUME Sound, Aimed, op.call \in {"rename", "move"}, op.pc = "call", ~StrayMove, link,
         TableRename, suspect' = suspect \cup Spoiled,
         op.dir \notin suspect =>
           /\ \A o \in device' : \/ o \in device /\ o.handle # Handle
                                 \/ o.handle = Handle /\ o.dir = op.todir /\ o.name = op.toname
           /\ \E o \in device' : o.handle = Handle
  PROVE  Follows
<1> DEFINE new == [name |-> op.toname, handle |-> Entry(op.dir, op.name).handle,
                   fresh |-> Entry(op.dir, op.name).fresh]
<1>0. Existing
  BY DEF Existing
<1>1. /\ Tabled /\ op.dir \in Dirs /\ op.todir \in Dirs /\ op.name \in Listed(op.dir)
      /\ op.toname \in Names /\ (op.dir # op.todir \/ op.name # op.toname)
  BY <1>0 DEF Sound, Shaped
<1>2. /\ \A d \in Dirs : d \notin {op.dir, op.todir} => kids'[d] = kids[d]
      /\ \A d \in Dirs : \A f : f \in Range(kids'[d]) <=>
          \/ /\ f \in Range(kids[d])
             /\ ~(d = op.dir /\ f.name = op.name) /\ ~(d = op.todir /\ f.name = op.toname)
          \/ d = op.todir /\ f = new
  BY <1>1, TableRenameExact
<1>3. new.name = op.toname /\ new.handle = Handle
  BY DEF Handle
<1> HIDE DEF new
<1>4. CASE op.dir \in suspect
  <2>1. \A d \in Dirs \ suspect' : kids'[d] = kids[d]
    BY <1>1, <1>2, <1>4 DEF Spoiled
  <2> QED
    BY <2>1 DEF Follows, HasName
<1>5. CASE op.dir \notin suspect
  <2>1. OnDevice(device', op.todir, new)
    BY <1>3, <1>5 DEF OnDevice
  <2>2. \A e \in Range(kids[op.dir]) : e.name = op.name => e.handle = Handle
    BY <1>0, Target DEF Handle
  <2>3. \A e \in Range(kids[op.dir]) : e.name = op.name => ~OnDevice(device', op.dir, e)
    BY <1>1, <1>5, <2>2 DEF OnDevice
  <2>4. new \in Range(kids'[op.todir])
    BY <1>1, <1>2
  <2> SUFFICES ASSUME NEW d \in Dirs
               PROVE  /\ \A e \in Range(kids'[d]) : HasName(kids[d], e) \/ OnDevice(device', d, e)
                      /\ \A e \in Range(kids[d]) : HasName(kids'[d], e) \/ ~OnDevice(device', d, e)
    BY DEF Follows
  <2>5. \A e \in Range(kids'[d]) : HasName(kids[d], e) \/ OnDevice(device', d, e)
    BY <1>2, <2>1 DEF HasName
  <2>6. ASSUME NEW e \in Range(kids[d]) PROVE HasName(kids'[d], e) \/ ~OnDevice(device', d, e)
    <3>1. CASE d = op.dir /\ e.name = op.name
      BY <2>3, <3>1
    <3>2. CASE d = op.todir /\ e.name = op.toname
      BY <1>3, <2>4, <3>2 DEF HasName
    <3>3. CASE ~(d = op.dir /\ e.name = op.name) /\ ~(d = op.todir /\ e.name = op.toname)
      <4>1. e \in Range(kids'[d])
        BY <1>2, <3>3
      <4> QED
        BY <4>1 DEF HasName
    <3> QED
      BY <3>1, <3>2, <3>3
  <2> QED
    BY <2>5, <2>6
<1> QED
  BY <1>4, <1>5

(* The object of a request is still there after it, under the same handle. *)
LEMMA Keeps ==
  ASSUME Sound, op.call \in {"rename", "move"}, WithHandle(Handle) # {}
  PROVE  /\ \E o \in Renamed : o.handle = Handle
         /\ \E o \in Moved : o.handle = Handle
<1>1. PICK p \in WithHandle(Handle) : p \in Objects /\ p.handle = Handle
  BY DEF WithHandle, Sound, TypeOK
<1>2. [p EXCEPT !.name = op.toname] \in Renamed /\ [p EXCEPT !.dir = op.todir] \in Moved
  BY <1>1 DEF Renamed, Moved
<1>3. [p EXCEPT !.name = op.toname].handle = p.handle /\ [p EXCEPT !.dir = op.todir].handle = p.handle
  BY <1>1 DEF Objects
<1> QED
  BY <1>1, <1>2, <1>3

LEMMA RenameFollows == ASSUME Sound, Aimed, Rename PROVE Follows
<1> DEFINE done == (device \ WithHandle(Handle)) \cup Renamed
           allowed == \A o \in Renamed : At(o.dir, o.name) = {}
<1>1. op.call = "rename" /\ op.pc = "call" /\ Existing /\ ~StrayMove
  BY DEF Rename, Calling, Existing, StrayMove
<1>2. CASE Unheard(done, allowed)
  <2> HIDE DEF done, allowed
  <2> QED
    BY <1>2, UnheardFollows
<1>3. CASE kids' = kids
  BY <1>3, SameKidsFollow
<1>4. CASE /\ link /\ device' = done /\ WithHandle(Handle) # {} /\ op.todir = op.dir
           /\ TableRename /\ suspect' = suspect \cup Spoiled
  <2>1. \A o \in device' :
          \/ o \in device /\ o.handle # Handle
          \/ \E p \in WithHandle(Handle) :
               o.handle = p.handle /\ o.handle = Handle /\ o.dir = p.dir /\ o.name = op.toname
    BY <1>1, <1>4, Relabelled
  <2>2. \E o \in device' : o.handle = Handle
    BY <1>1, <1>4, Keeps
  <2>3. op.dir \notin suspect => \A p \in WithHandle(Handle) : p.dir = op.dir
    BY <1>1, <1>4, Target
  <2> QED
    BY <1>1, <1>4, <2>1, <2>2, <2>3, TableRenameFollows
<1> QED
  BY <1>2, <1>3, <1>4 DEF Rename, OnHandle, Unheard

LEMMA MoveFollows == ASSUME Sound, Aimed, Move, ~StrayMove PROVE Follows
<1> DEFINE done == (device \ WithHandle(Handle)) \cup Moved
           allowed == \A o \in Moved : At(o.dir, o.name) = {}
<1>1. op.call = "move" /\ op.pc = "call" /\ Existing
  BY DEF Move, Calling, Existing
<1>2. CASE Unheard(done, allowed)
  <2> HIDE DEF done, allowed
  <2> QED
    BY <1>2, UnheardFollows
<1>3. CASE /\ link /\ device' = done /\ WithHandle(Handle) # {}
           /\ TableRename /\ suspect' = suspect \cup Spoiled
  <2>1. \A o \in device' :
          \/ o \in device /\ o.handle # Handle
          \/ \E p \in WithHandle(Handle) :
               o.handle = p.handle /\ o.handle = Handle /\ o.dir = op.todir /\ o.name = p.name
    BY <1>1, <1>3, Relabelled
  <2>2. \E o \in device' : o.handle = Handle
    BY <1>1, <1>3, Keeps
  <2>3. op.dir \notin suspect => \A p \in WithHandle(Handle) : p.name = Expected(op.dir, op.name)
    BY <1>1, <1>3, Target
  <2>4. Expected(op.dir, op.name) = op.toname
    BY <1>1 DEF Expected, HalfMoved
  <2> QED
    BY <1>1, <1>3, <2>1, <2>2, <2>3, <2>4, TableRenameFollows
<1> QED
  BY <1>2, <1>3 DEF Move, OnHandle, Unheard

(* TableFollowsDevice: in a directory that is not suspect, a step of the   *)
(* mount (no StrayMove) adds no entry whose object is not on the device    *)
(* and drops none whose object is there: an answer that was lost, a handle *)
(* that went stale, a retry or an event never makes the table invent or    *)
(* forget a file.                                                          *)
THEOREM TableFollows == Spec => TableFollowsDevice
<1> DEFINE A == ~StrayMove => \A d \in Dirs \ suspect' :
                  /\ \A e \in Range(kids'[d]) : HasName(kids[d], e) \/ OnDevice(device', d, e)
                  /\ \A e \in Range(kids[d]) : HasName(kids'[d], e) \/ ~OnDevice(device', d, e)
<1>1. Sound /\ Aimed /\ [Next]_vars => [A]_vars
  <2> SUFFICES ASSUME Sound, Aimed, Next, ~StrayMove PROVE Follows
    BY DEF Follows
  <2>1. CASE WaitStep
    <3>1. kids' = kids \/ Adopt
      BY <2>1 DEF WaitStep
    <3> QED
      BY <3>1, AdoptTyped, SameKidsFollow, StalesFollow
  <2>2. CASE WaitEnds
    BY <2>2, SameKidsFollow DEF WaitEnds
  <2>3. CASE ~FuseStep
    <3>1. kids' = kids
      BY <2>3 DEF Next, CallCreate, CallRemove, DeviceAdds, CallRename, CallLookup, OpenDir,
         CallReadDir, CloseDir, DeviceRemoves, StoreChanges, LoopTakes, LoopEnds, LoopHandles,
         LateLoopHandles, LinkLoss
    <3> QED
      BY <3>1, SameKidsFollow
  <2> QED
    BY <2>1, <2>2, <2>3, ResolveFollows, ListFollows, CreateFollows, DeleteFollows, RenameFollows,
       MoveFollows DEF FuseStep
<1> HIDE DEF A
<1>2. Spec => [][A]_vars
  BY <1>1, AimedAlways, PTL DEF Spec
<1> QED
  BY <1>2 DEF A, TableFollowsDevice

(* Listings and the events that are still to be handled.                   *)

Pending == Range(events) \cup (IF loop.pc = "blocked" THEN {loop.event} ELSE {})

(* While the session and its event loop are alive, an object that a loaded *)
(* directory does not show, and an entry whose object is gone, are those   *)
(* of an event to come.                                                    *)
Shows(d) ==
  \A o \in device : o.dir = d =>
    o.handle \in Pending \/ \E e \in Range(kids[d]) : e.handle = o.handle

Backed(d) ==
  \A e \in Range(kids[d]) :
    e.handle \in Pending \/ \E o \in device : o.handle = e.handle

Current ==
  link /\ loop.pc # "ended" => \A d \in loaded \ suspect : Shows(d) /\ Backed(d)

LEMMA CurrentInit == Init => Current
  BY DEF Init, Current

LEMMA CurrentNothing ==
  ASSUME ~link' \/ loop'.pc = "ended" \/ loaded' = {}
  PROVE  Current'
  BY DEF Current

LEMMA CurrentQuiet ==
  ASSUME Current, link' => link, loop'.pc # "ended" => loop.pc # "ended", Pending \subseteq Pending',
         loaded' \ suspect' \subseteq loaded \ suspect,
         \A d \in loaded' \ suspect' : kids'[d] = kids[d], device' = device
  PROVE  Current'
  BY DEF Current, Shows, Backed

LEMMA PendingSame ==
  ASSUME UNCHANGED <<events, loop>> PROVE Pending' = Pending
  BY DEF Pending

LEMMA PendingTyped ==
  ASSUME Sound
  PROVE  /\ \A h : Range(Append(events, h)) = Range(events) \cup {h}
         /\ events # <<>> => Range(events) = Range(Tail(events)) \cup {Head(events)}
<1>1. events \in Seq(Nat)
  BY DEF Sound, TypeOK
<1>2. ASSUME NEW h PROVE Range(Append(events, h)) = Range(events) \cup {h}
  <2> DEFINE s == Append(events, h)
  <2>1. Len(events) \in Nat /\ DOMAIN events = 1 .. Len(events) /\ DOMAIN s = 1 .. Len(events) + 1
        /\ s[Len(events) + 1] = h /\ \A i \in 1 .. Len(events) : s[i] = events[i]
    BY <1>1
  <2> HIDE DEF s
  <2>2. Range(s) = Range(events) \cup {h}
    <3>1. \A x \in Range(events) : x \in Range(s)
      BY <2>1 DEF Range
    <3>2. h \in Range(s)
      BY <2>1 DEF Range
    <3>3. \A i \in 1 .. Len(events) + 1 : i \in 1 .. Len(events) \/ i = Len(events) + 1
      BY <2>1
    <3>4. \A x \in Range(s) : x \in Range(events) \cup {h}
      BY <2>1, <3>3 DEF Range
    <3> QED
      BY <3>1, <3>2, <3>4
  <2> QED
    BY <2>2 DEF s
<1>3. ASSUME events # <<>> PROVE Range(events) = Range(Tail(events)) \cup {Head(events)}
  <2> DEFINE s == Tail(events)
             n == Len(events)
  <2>1. n \in Nat \ {0} /\ DOMAIN events = 1 .. n /\ DOMAIN s = 1 .. n - 1
        /\ Head(events) = events[1] /\ \A i \in 1 .. n - 1 : s[i] = events[i + 1]
    BY <1>1, <1>3
  <2>2. \A i \in 1 .. n : i = 1 \/ (i - 1 \in 1 .. n - 1 /\ (i - 1) + 1 = i)
    BY <2>1
  <2>3. \A i \in 1 .. n - 1 : i + 1 \in 1 .. n
    BY <2>1
  <2>4. 1 \in 1 .. n
    BY <2>1
  <2> HIDE DEF s, n
  <2>5. \A x \in Range(events) : x \in Range(s) \cup {Head(events)}
    <3>1. \A i \in 1 .. n : i = 1 \/ \E j \in 1 .. n - 1 : events[i] = s[j]
      BY <2>1, <2>2
    <3>2. \A i \in 1 .. n : events[i] \in Range(s) \/ events[i] = Head(events)
      BY <2>1, <3>1 DEF Range
    <3>3. \A x \in Range(events) : \E i \in 1 .. n : x = events[i]
      BY <2>1 DEF Range
    <3> QED
      BY <3>2, <3>3
  <2>6. \A x \in Range(s) \cup {Head(events)} : x \in Range(events)
    BY <2>1, <2>3, <2>4 DEF Range
  <2>7. Range(events) = Range(s) \cup {Head(events)}
    BY <2>5, <2>6
  <2> QED
    BY <2>7 DEF s
<1> QED
  BY <1>2, <1>3

LEMMA CurrentDevice ==
  ASSUME Sound, Current,
         \/ \E d \in Dirs, n \in Names : DeviceAdds(d, n)
         \/ \E o \in device : DeviceRemoves(o)
         \/ StoreChanges
  PROVE  Current'
<1>0. UNCHANGED <<link, loop, kids, loaded, suspect>>
  BY DEF DeviceAdds, DeviceRemoves, StoreChanges
<1>1. CASE ~link
  BY <1>0, <1>1, CurrentNothing
<1>2. ASSUME link, NEW h, Announce(h) PROVE Pending' = Pending \cup {h}
  BY <1>0, <1>2, PendingTyped DEF Announce, Pending
<1>3. ASSUME link, NEW d \in Dirs, NEW n \in Names, DeviceAdds(d, n) PROVE Current'
  <2>1. Pending' = Pending \cup {next}
    BY <1>2, <1>3 DEF DeviceAdds
  <2>2. \A o \in device' : o \in device \/ o.handle = next
    BY <1>3 DEF DeviceAdds
  <2>3. device \subseteq device'
    BY <1>3 DEF DeviceAdds
  <2>4. \A f \in loaded \ suspect : Shows(f) => Shows(f)'
    BY <1>0, <2>1, <2>2 DEF Shows
  <2>5. \A f \in loaded \ suspect : Backed(f) => Backed(f)'
    BY <1>0, <2>1, <2>3 DEF Backed
  <2> QED
    BY <1>0, <2>4, <2>5 DEF Current
<1>4. ASSUME link, NEW o \in device, DeviceRemoves(o) PROVE Current'
  <2>1. Pending' = Pending \cup {o.handle}
    BY <1>2, <1>4 DEF DeviceRemoves
  <2>2. device' = device \ {o}
    BY <1>4 DEF DeviceRemoves
  <2>3. \A f \in loaded \ suspect : Shows(f) => Shows(f)'
    BY <1>0, <2>1, <2>2 DEF Shows
  <2>4. \A f \in loaded \ suspect : Backed(f) => Backed(f)'
    BY <1>0, <2>1, <2>2 DEF Backed
  <2> QED
    BY <1>0, <2>3, <2>4 DEF Current
<1>5. ASSUME link, StoreChanges PROVE Current'
  <2>1. Pending' = Pending \cup {StoreEvent} /\ device' = device
    BY <1>2, <1>5 DEF StoreChanges
  <2> QED
    BY <1>0, <2>1, CurrentQuiet
<1> QED
  BY <1>1, <1>3, <1>4, <1>5

(* Handling an event forgets the directory it is about, unless the entry   *)
(* that was found is not to be trusted.                                    *)
LEMMA CurrentHandles == ASSUME Sound, Aimed, Current, LoopHandles PROVE Current'
<1> DEFINE h == loop.event
<1>1. /\ loop.pc = "blocked" /\ loop' = Polling /\ loop'.pc = "polling"
      /\ UNCHANGED <<device, link, events, kids>> /\ HandleEvent(h)
  BY DEF LoopHandles, Polling
<1>2. Pending \ {h} \subseteq Pending'
  BY <1>1 DEF Pending
<1> HIDE DEF h
<1>3. PICK ds \in Invalidated(h) :
        /\ loaded' = loaded \ ds
        /\ suspect' = IF ds # Dirs /\ Misled(h, ds) THEN suspect \cup (loaded \ ds) ELSE suspect
  BY <1>1 DEF HandleEvent
<1>4. CASE ds = Dirs \/ ~link
  <2>1. loaded' = {} \/ ~link'
    BY <1>1, <1>3, <1>4 DEF Sound, TypeOK
  <2> QED
    BY <2>1, CurrentNothing
<1>5. CASE ds # Dirs /\ Misled(h, ds)
  <2>1. \A d \in loaded' : d \in suspect'
    BY <1>3, <1>5
  <2> QED
    BY <2>1 DEF Current
<1>6. CASE ds # Dirs /\ ~Misled(h, ds) /\ link
  <2>1. PICK f \in ParentsOf(h) : ds = {f}
    BY <1>3, <1>6 DEF Invalidated
  <2>2. f \in Dirs /\ f \notin suspect
    BY <1>6, <2>1 DEF Misled, ParentsOf
  <2>3. PICK e \in Range(kids[f]) : e.handle = h /\ e.fresh
    BY <1>6, <2>1, <2>2 DEF Misled
  <2>4. suspect' = suspect /\ loaded' = loaded \ {f}
    BY <1>3, <1>6, <2>1
  <2>5. \A d \in loaded' \ suspect' : d \in Dirs \ suspect /\ d \in loaded /\ d # f
    BY <2>4 DEF Sound, TypeOK
  <2>6. ASSUME NEW d \in loaded' \ suspect', NEW o \in device, o.dir = d PROVE o.handle # h
    BY <1>6, <2>2, <2>3, <2>5, <2>6 DEF Aimed, Reaches
  <2>7. ASSUME NEW d \in loaded' \ suspect', NEW g \in Range(kids[d]) PROVE g.handle # h
    BY <2>2, <2>3, <2>5 DEF Aimed, OneEach, ListedFresh
  <2>8. \A d \in loaded' \ suspect' : Shows(d) /\ Backed(d)
    BY <1>1, <1>6, <2>5 DEF Current
  <2>9. \A d \in loaded' \ suspect' : Shows(d)'
    BY <1>1, <1>2, <2>6, <2>8 DEF Shows
  <2>10. \A d \in loaded' \ suspect' : Backed(d)'
    BY <1>1, <1>2, <2>7, <2>8 DEF Backed
  <2> QED
    BY <2>9, <2>10 DEF Current
<1> QED
  BY <1>4, <1>5, <1>6

LEMMA CurrentLoops ==
  ASSUME Sound, Aimed, Current,
         LoopTakes \/ LoopEnds \/ LoopHandles \/ \E h \in late : LateLoopHandles(h)
  PROVE  Current'
<1>1. CASE LoopTakes
  <2>1. /\ loop = Polling /\ events # <<>> /\ loop' = [pc |-> "blocked", event |-> Head(events)]
        /\ events' = Tail(events) /\ UNCHANGED <<link, loaded, suspect, kids, device>>
    BY <1>1 DEF LoopTakes
  <2>2. loop.pc = "polling" /\ loop'.pc = "blocked" /\ loop'.event = Head(events)
    BY <2>1 DEF Polling
  <2>3. Pending = Range(events) /\ Pending' = Range(Tail(events)) \cup {Head(events)}
    BY <2>1, <2>2 DEF Pending
  <2>4. Pending' = Pending
    BY <2>1, <2>3, PendingTyped
  <2> QED
    BY <2>1, <2>2, <2>4, CurrentQuiet
<1>2. CASE LoopEnds
  <2>1. loop'.pc = "ended"
    BY <1>2 DEF LoopEnds, Polling
  <2> QED
    BY <2>1, CurrentNothing
<1>3. ASSUME NEW h \in late, LateLoopHandles(h) PROVE Current'
  <2>1. UNCHANGED <<link, loop, events, kids, device>> /\ HandleEvent(h)
    BY <1>3 DEF LateLoopHandles
  <2>2. loaded' \subseteq loaded /\ suspect \subseteq suspect'
    BY <2>1, HandlesTyped
  <2>3. Pending' = Pending
    BY <2>1, PendingSame
  <2> QED
    BY <2>1, <2>2, <2>3, CurrentQuiet
<1> QED
  BY <1>1, <1>2, <1>3, CurrentHandles

LEMMA CurrentCalls ==
  ASSUME Sound, Current, UNCHANGED <<device, link, events, loop, kids, suspect>>, loaded' \subseteq loaded
  PROVE  Current'
<1>1. Pending' = Pending
  BY PendingSame
<1> QED
  BY <1>1, CurrentQuiet

LEMMA CurrentFails ==
  ASSUME Sound, Current, op.call # "none", Fails, UNCHANGED <<device, link, events, loop, kids, loaded>>
  PROVE  Current'
<1>1. suspect \subseteq suspect'
  BY FailsTyped
<1>2. Pending' = Pending
  BY PendingSame
<1> QED
  BY <1>1, <1>2, CurrentQuiet

(* Where the failing request changed nothing, listing and device are as    *)
(* they were.                                                              *)
LEMMA CurrentRefuses ==
  ASSUME Sound, Sound', Aimed, Current, op.call # "none", NEW possible, NEW done,
         Refuses(possible, done), UNCHANGED <<events, loop>>
  PROVE  Current'
<1>1. FailsIn(Altered) /\ UNCHANGED <<link, events, loop, kids, loaded>> /\ Pending' = Pending
  BY PendingSame DEF Refuses
<1>2. Altered \in SUBSET Dirs
  BY DEF Altered, Sound, TypeOK, Objects
<1>3. suspect \subseteq suspect' /\ Altered \subseteq suspect'
  BY <1>1, <1>2, FailsInTyped
<1> SUFFICES ASSUME link, loop.pc # "ended", NEW d \in loaded \ suspect, d \notin suspect', d \in Dirs
             PROVE  Shows(d)' /\ Backed(d)'
  BY <1>1, <1>3 DEF Current, Sound, TypeOK
<1>4. Shows(d) /\ Backed(d)
  BY DEF Current
<1>5. \A o : o.dir = d => (o \in device <=> o \in device')
  BY <1>3 DEF Altered
<1>6. Shows(d)'
  BY <1>1, <1>4, <1>5 DEF Shows
<1>7. Backed(d)'
  <2> SUFFICES ASSUME NEW e \in Range(kids[d]), e.handle \notin Pending
               PROVE  \E o \in device' : o.handle = e.handle
    BY <1>1 DEF Backed
  <2>1. PICK o \in device : o.handle = e.handle
    BY <1>4 DEF Backed
  <2>2. o.dir = d
    BY <2>1 DEF Aimed, Reaches, ListedFresh
  <2> QED
    BY <1>5, <2>1, <2>2
<1> QED
  BY <1>6, <1>7

LEMMA CurrentBreaks ==
  ASSUME Sound, NEW done, Breaks(done)
  PROVE  Current'
<1>1. ~link'
  BY DEF Breaks, KeepsLink, LosesLink
<1> QED
  BY <1>1, CurrentNothing

LEMMA CurrentUnheard ==
  ASSUME Sound, Sound', Aimed, Current, op.call # "none", NEW done, NEW allowed,
         Unheard(done, allowed), UNCHANGED <<events, loop>>
  PROVE  Current'
<1>1. CASE KeepsLink /\ Stale /\ UNCHANGED device
  <2>1. (Fails /\ UNCHANGED <<device, link, events, loop, kids, loaded>>) \/ loaded' = {}
    BY <1>1 DEF Stale, KeepsLink
  <2> QED
    BY <2>1, CurrentFails, CurrentNothing
<1> DEFINE outcome == IF allowed THEN <<done, next>> ELSE <<device, next>>
<1> HIDE DEF outcome
<1>2. (KeepsLink /\ Stale /\ UNCHANGED device) \/ Refuses(allowed, outcome) \/ Breaks(outcome)
  BY DEF Unheard, outcome
<1> QED
  BY <1>1, <1>2, CurrentRefuses, CurrentBreaks

LEMMA CurrentResolve == ASSUME Sound, Aimed, Current, Resolve PROVE Current'
<1>1. UNCHANGED <<device, link, events, loop, loaded>> /\ op.call # "none" /\ Pending' = Pending
  BY PendingSame DEF Resolve, Sound, Shaped
<1>2. CASE UNCHANGED <<kids, suspect>>
  BY <1>1, <1>2, CurrentQuiet
<1>3. CASE Fails /\ UNCHANGED kids
  BY <1>1, <1>3, CurrentFails
<1>4. ASSUME NEW o \in At(op.dir, op.name), kids' = SetHandle(op.dir, op.name, o.handle), ~Resolved,
             UNCHANGED suspect
      PROVE  Current'
  <2>1. Existing /\ op.name \in Listed(op.dir) /\ op.dir \in Dirs
    BY <1>4 DEF Resolved, Existing, Sound, Shaped
  <2>2. Entry(op.dir, op.name) \in Range(kids[op.dir])
    BY <2>1, EntryExact DEF Sound, Tabled
  <2>3. op.dir \notin loaded
    BY <1>4, <2>2 DEF Resolved, Aimed, ListedFresh
  <2>4. \A d \in Dirs : d # op.dir => kids'[d] = kids[d]
    BY <1>4, <2>1, SetsHandle
  <2>5. \A d \in loaded : kids'[d] = kids[d]
    BY <2>3, <2>4 DEF Sound, TypeOK
  <2> QED
    BY <1>1, <1>4, <2>5, CurrentQuiet
<1>5. CASE Reconnect /\ UNCHANGED kids
  BY <1>1, <1>2, <1>3, <1>5, Reconnects
<1> QED
  BY <1>2, <1>3, <1>4, <1>5 DEF Resolve

LEMMA CurrentList == ASSUME Sound, Sound', Aimed, Current, List PROVE Current'
<1>1. op.call # "none" /\ op.dir \in Dirs /\ UNCHANGED <<events, loop>>
  BY DEF List, Calling, Sound, Shaped
<1>2. ASSUME NEW order \in Orders(op.dir), kids' = [kids EXCEPT ![op.dir] = Synced(op.dir, order)],
             loaded' = loaded \cup {op.dir}, suspect' = suspect \ {op.dir}, KeepsLink, UNCHANGED device
      PROVE  Current'
  <2>0. PICK d \in Dirs : d = op.dir
    BY <1>1
  <2>1. /\ kids \in [Dirs -> Seq(Entries)] /\ Unique(kids[d]) /\ device \subseteq Objects
        /\ IsFiniteSet(device) /\ UniquePaths /\ d \in Dirs
    BY DEF Sound, TypeOK, Tabled, Stored
  <2>2. \A e : e \in Range(Synced(d, order)) <=> \E o \in device : o.dir = d /\ e = FreshEntry(o)
    BY <1>2, <2>0, <2>1, SyncedExact
  <2>3. kids'[d] = Synced(d, order) /\ \A f \in Dirs : f # d => kids'[f] = kids[f]
    BY <1>2, <2>0, <2>1
  <2>4. \A o : FreshEntry(o).handle = o.handle
    BY DEF FreshEntry
  <2>5. /\ UNCHANGED <<device, link, loop>> /\ Pending' = Pending
        /\ \A f \in loaded' \ suspect' : f = d \/ (f \in loaded \ suspect /\ f \in Dirs /\ f # d)
    BY <1>1, <1>2, <2>0, PendingSame DEF KeepsLink, Sound, TypeOK
  <2>6. Shows(d)'
    <3>1. ASSUME NEW o \in device, o.dir = d PROVE \E e \in Range(kids'[d]) : e.handle = o.handle
      <4>1. FreshEntry(o) \in Range(kids'[d])
        BY <2>2, <2>3, <3>1
      <4> QED
        BY <2>4, <4>1
    <3> QED
      BY <2>5, <3>1 DEF Shows
  <2>7. Backed(d)'
    BY <2>2, <2>3, <2>4, <2>5 DEF Backed
  <2>8. ASSUME link', loop'.pc # "ended", NEW f \in loaded' \ suspect', f # d PROVE Shows(f)' /\ Backed(f)'
    <3>1. f \in loaded \ suspect /\ kids'[f] = kids[f]
      BY <2>3, <2>5, <2>8
    <3>2. Shows(f) /\ Backed(f)
      BY <2>5, <2>8, <3>1 DEF Current
    <3> QED
      BY <2>5, <3>1, <3>2 DEF Shows, Backed
  <2> QED
    BY <2>6, <2>7, <2>8 DEF Current
<1>3. CASE Refuses(TRUE, <<device, next>>) \/ Breaks(<<device, next>>)
  <2> DEFINE done == <<device, next>>
  <2> HIDE DEF done
  <2>1. Refuses(TRUE, done) \/ Breaks(done)
    BY <1>3 DEF done
  <2> QED
    BY <1>1, <2>1, CurrentBreaks, CurrentRefuses
<1> QED
  BY <1>2, <1>3 DEF List

LEMMA CurrentCreate == ASSUME Sound, Sound', Aimed, Current, Create PROVE Current'
<1> DEFINE new == [dir |-> op.dir, name |-> op.name, handle |-> next]
           free == At(op.dir, op.name) = {}
           done == IF free THEN <<device \cup {new}, next + 1>> ELSE <<device, next>>
<1>1. /\ op.call = "create" /\ op.call # "none" /\ op.dir \in Dirs /\ op.name \in Names
      /\ next \in Nat \ {0} /\ UNCHANGED <<events, loop>>
  BY DEF Create, Calling, Sound, Shaped, TypeOK
<1>2. CASE /\ KeepsLink /\ device' = device \cup {new}
           /\ kids' = [kids EXCEPT ![op.dir] = Append(Without(@, op.name), FreshEntry(new))]
           /\ UNCHANGED <<loaded, suspect>>
  <2> DEFINE e == FreshEntry(new)
  <2>1. e \in Entries /\ e.name = op.name /\ e.handle = next
    BY <1>1 DEF FreshEntry, Entries
  <2>2. kids' = [kids EXCEPT ![op.dir] = Append(Without(@, op.name), e)]
    BY <1>2
  <2>3. new.dir = op.dir /\ new.handle = next
    OBVIOUS
  <2> HIDE DEF e, new
  <2>4. /\ \A d \in Dirs : d # op.dir => kids'[d] = kids[d]
        /\ \A f : f \in Range(kids'[op.dir]) <=> f \in Range(kids[op.dir]) \/ f = e
    BY <1>1, <2>1, <2>2, Adds
  <2>5. UNCHANGED <<link, loop, loaded, suspect>> /\ Pending' = Pending
    BY <1>1, <1>2, PendingSame DEF KeepsLink
  <2>6. \A d \in Dirs : \A f \in Range(kids[d]) : f \in Range(kids'[d])
    BY <2>4
  <2>7. \A d \in Dirs : \A f \in Range(kids'[d]) : f \in Range(kids[d]) \/ f = e
    BY <2>4
  <2>8. ASSUME NEW d \in Dirs, Shows(d) PROVE Shows(d)'
    <3> SUFFICES ASSUME NEW o \in device', o.dir = d
                 PROVE  o.handle \in Pending' \/ \E f \in Range(kids'[d]) : f.handle = o.handle
      BY DEF Shows
    <3>1. CASE o = new
      BY <2>1, <2>3, <2>4, <3>1
    <3>2. CASE o \in device
      BY <2>5, <2>6, <2>8, <3>2 DEF Shows
    <3> QED
      BY <1>2, <3>1, <3>2
  <2>9. ASSUME NEW d \in Dirs, Backed(d) PROVE Backed(d)'
    BY <1>2, <2>1, <2>3, <2>5, <2>7, <2>9 DEF Backed
  <2> QED
    BY <2>5, <2>8, <2>9 DEF Current, Sound, TypeOK
<1>3. CASE Refuses(free, done) \/ Breaks(done)
  <2> HIDE DEF done
  <2> QED
    BY <1>1, <1>3, CurrentBreaks, CurrentRefuses
<1> QED
  BY <1>2, <1>3 DEF Create

LEMMA CurrentDelete == ASSUME Sound, Sound', Aimed, Current, Delete PROVE Current'
<1>1. op.call = "remove" /\ op.call # "none" /\ op.pc = "call" /\ Existing /\ UNCHANGED <<events, loop>>
  BY DEF Delete, Calling, Existing, OnHandle
<1>2. CASE Unheard(device \ WithHandle(Handle), TRUE)
  BY <1>1, <1>2, CurrentUnheard
<1>3. CASE /\ link /\ KeepsLink /\ device' = device \ WithHandle(Handle)
           /\ kids' = [kids EXCEPT ![op.dir] = Without(@, op.name)]
           /\ suspect' = suspect \cup Spoiled /\ UNCHANGED loaded
  <2>1. /\ \A d \in Dirs : d # op.dir => kids'[d] = kids[d]
        /\ \A f : f \in Range(kids'[op.dir]) <=> f \in Range(kids[op.dir]) /\ f.name # op.name
    BY <1>1, <1>3, Frees
  <2>2. /\ op.dir \in Dirs /\ Entry(op.dir, op.name) \in Range(kids[op.dir])
        /\ Entry(op.dir, op.name).fresh /\ Entry(op.dir, op.name).name = op.name
        /\ \A e \in Range(kids[op.dir]) : e.name = op.name => e = Entry(op.dir, op.name)
        /\ op.dir \notin suspect =>
             \A d \in Dirs \ suspect : \A g \in Range(kids[d]) :
               g.fresh /\ g.handle = Handle => d = op.dir /\ g.name = op.name
    BY <1>1, Target
  <2>3. UNCHANGED <<link, loop>> /\ Pending' = Pending /\ \A d, n : Expected(d, n) = n
    BY <1>1, <1>3, PendingSame DEF KeepsLink, Expected, HalfMoved
  <2> SUFFICES ASSUME loop.pc # "ended", NEW d \in loaded \ suspect, d \notin suspect', d \in Dirs
               PROVE  Shows(d)' /\ Backed(d)'
    BY <1>3, <2>3 DEF Current, Sound, TypeOK
  <2>4. Shows(d) /\ Backed(d)
    BY <1>3 DEF Current
  <2>5. \A o \in device' : o \in device /\ o.handle # Handle
    BY <1>3 DEF WithHandle
  <2>6. Shows(d)'
    <3> SUFFICES ASSUME NEW o \in device', o.dir = d, o.handle \notin Pending
                 PROVE  \E f \in Range(kids'[d]) : f.handle = o.handle
      BY <2>3 DEF Shows
    <3>1. PICK f \in Range(kids[d]) : f.handle = o.handle
      BY <2>4, <2>5 DEF Shows
    <3>2. f \in Range(kids'[d])
      BY <2>1, <2>2, <2>5, <3>1 DEF Handle
    <3> QED
      BY <3>1, <3>2
  <2>7. Backed(d)'
    <3> SUFFICES ASSUME NEW e \in Range(kids'[d]), e.handle \notin Pending
                 PROVE  \E o \in device' : o.handle = e.handle
      BY <2>3 DEF Backed
    <3>1. e \in Range(kids[d]) /\ ~(d = op.dir /\ e.name = op.name) /\ e.fresh
      BY <2>1 DEF Aimed, ListedFresh
    <3>2. PICK o \in device : o.handle = e.handle
      BY <2>4, <3>1 DEF Backed
    <3>3. o.dir = d
      BY <1>3, <3>1, <3>2 DEF Aimed, Reaches
    <3>4. o \notin WithHandle(Handle)
      <4> SUFFICES ASSUME o \in WithHandle(Handle), o.handle = Handle PROVE FALSE
        BY DEF WithHandle
      <4>1. CASE op.dir \in suspect
        BY <1>3, <3>3, <4>1 DEF Spoiled
      <4>2. CASE op.dir \notin suspect
        BY <2>2, <3>1, <3>2, <4>2
      <4> QED
        BY <4>1, <4>2
    <3> QED
      BY <1>3, <3>2, <3>4
  <2> QED
    BY <2>6, <2>7
<1> QED
  BY <1>2, <1>3 DEF Delete, OnHandle, Unheard

(* A rename moves an entry and its object together. *)
LEMMA CurrentTableRename ==
  ASSUME Sound, Aimed, Current, op.call \in {"rename", "move"}, op.pc = "call", link, KeepsLink,
         UNCHANGED <<events, loop, loaded>>, TableRename, suspect' = suspect \cup Spoiled,
         \A o \in device' : \/ o \in device /\ o.handle # Handle
                            \/ o.handle = Handle /\ (o.dir = op.todir \/ o.dir \in suspect'),
         \A o \in device : \E p \in device' : p.handle = o.handle,
         \E o \in device' : o.handle = Handle,
         op.todir \notin suspect' => At(op.todir, op.toname) = {}
  PROVE  Current'
<1> DEFINE new == [name |-> op.toname, handle |-> Entry(op.dir, op.name).handle,
                   fresh |-> Entry(op.dir, op.name).fresh]
<1>0. Existing
  BY DEF Existing
<1>1. /\ Tabled /\ op.dir \in Dirs /\ op.todir \in Dirs /\ op.name \in Listed(op.dir)
      /\ op.toname \in Names /\ (op.dir # op.todir \/ op.name # op.toname)
  BY <1>0 DEF Sound, Shaped
<1>2. \A d \in Dirs : \A f : f \in Range(kids'[d]) <=>
        \/ /\ f \in Range(kids[d])
           /\ ~(d = op.dir /\ f.name = op.name) /\ ~(d = op.todir /\ f.name = op.toname)
        \/ d = op.todir /\ f = new
  BY <1>1, TableRenameExact
<1>3. new.name = op.toname /\ new.handle = Handle
  BY DEF Handle
<1>4. \A e \in Range(kids[op.dir]) : e.name = op.name => e.handle = Handle
  BY <1>0, Target DEF Handle
<1>5. UNCHANGED <<link, loop, loaded>> /\ Pending' = Pending
  BY PendingSame DEF KeepsLink
<1>6. Expected(op.todir, op.toname) = op.toname
  BY <1>1 DEF Expected
<1> HIDE DEF new
<1> SUFFICES ASSUME loop.pc # "ended", NEW d \in loaded \ suspect, d \notin suspect', d \in Dirs
             PROVE  Shows(d)' /\ Backed(d)'
  BY <1>5 DEF Current, Sound, TypeOK
<1>7. Shows(d) /\ Backed(d)
  BY DEF Current
<1>8. Shows(d)'
  <2> SUFFICES ASSUME NEW o \in device', o.dir = d, o.handle \notin Pending
               PROVE  \E f \in Range(kids'[d]) : f.handle = o.handle
    BY <1>5 DEF Shows
  <2>1. CASE o.handle = Handle /\ (o.dir = op.todir \/ o.dir \in suspect')
    <3>1. new \in Range(kids'[d])
      BY <1>1, <1>2, <2>1
    <3> QED
      BY <1>3, <2>1, <3>1
  <2>2. CASE o \in device /\ o.handle # Handle
    <3>1. PICK f \in Range(kids[d]) : f.handle = o.handle
      BY <1>7, <2>2 DEF Shows
    <3>2. f.fresh
      BY DEF Aimed, ListedFresh
    <3>3. o.name = Expected(d, f.name)
      BY <2>2, <3>1, <3>2 DEF Aimed, Reaches
    <3>4. ~(d = op.todir /\ f.name = op.toname)
      BY <1>6, <2>2, <3>3 DEF At
    <3>5. ~(d = op.dir /\ f.name = op.name)
      BY <1>4, <2>2, <3>1
    <3>6. f \in Range(kids'[d])
      BY <1>2, <3>4, <3>5
    <3> QED
      BY <3>1, <3>6
  <2> QED
    BY <2>1, <2>2
<1>9. Backed(d)'
  <2> SUFFICES ASSUME NEW e \in Range(kids'[d]), e.handle \notin Pending
               PROVE  \E o \in device' : o.handle = e.handle
    BY <1>5 DEF Backed
  <2>1. CASE e = new
    BY <1>3, <2>1
  <2>2. CASE e \in Range(kids[d])
    BY <1>7, <2>2 DEF Backed
  <2> QED
    BY <1>2, <2>1, <2>2
<1> QED
  BY <1>8, <1>9

(* No request but a removal takes a handle away. *)
LEMMA HandlesStay ==
  ASSUME Sound, NEW S, S \in {Renamed, Moved}
  PROVE  \A o \in device : \E p \in (device \ WithHandle(Handle)) \cup S : p.handle = o.handle
<1>1. ASSUME NEW p \in WithHandle(Handle) PROVE \E o \in S : o.handle = p.handle
  <2>1. p \in Objects
    BY DEF WithHandle, Sound, TypeOK
  <2>2. [p EXCEPT !.name = op.toname] \in Renamed /\ [p EXCEPT !.dir = op.todir] \in Moved
    BY DEF Renamed, Moved
  <2>3. [p EXCEPT !.name = op.toname].handle = p.handle /\ [p EXCEPT !.dir = op.todir].handle = p.handle
    BY <2>1 DEF Objects
  <2> QED
    BY <2>2, <2>3
<1> QED
  BY <1>1

LEMMA CurrentRename == ASSUME Sound, Sound', Aimed, Current, Rename PROVE Current'
<1> DEFINE done == (device \ WithHandle(Handle)) \cup Renamed
           allowed == \A o \in Renamed : At(o.dir, o.name) = {}
<1>1. /\ op.call = "rename" /\ op.pc = "call" /\ op.call # "none" /\ Existing /\ ~StrayMove
      /\ UNCHANGED <<events, loop>>
  BY DEF Rename, Calling, Existing, StrayMove, OnHandle
<1>2. CASE Unheard(done, allowed)
  <2> HIDE DEF done, allowed
  <2> QED
    BY <1>1, <1>2, CurrentUnheard
<1>3. CASE /\ link /\ KeepsLink /\ allowed /\ WithHandle(Handle) # {} /\ device' = done
           /\ IF op.todir = op.dir THEN TableRename ELSE UNCHANGED kids
           /\ suspect' = suspect \cup Spoiled /\ UNCHANGED loaded
  <2>1. \A o \in device' :
          \/ o \in device /\ o.handle # Handle
          \/ \E p \in WithHandle(Handle) :
               o.handle = p.handle /\ o.handle = Handle /\ o.dir = p.dir /\ o.name = op.toname
    BY <1>1, <1>3, Relabelled
  <2>2. \A o \in device : \E p \in device' : p.handle = o.handle
    BY <1>3, HandlesStay
  <2>3. CASE op.todir = op.dir
    <3>1. op.dir \notin suspect => \A p \in WithHandle(Handle) : p.dir = op.dir
      BY <1>1, <1>3, Target
    <3>2. op.dir \in suspect => op.todir \in suspect' /\ \A p \in WithHandle(Handle) : p.dir \in suspect'
      BY <1>1, <1>3 DEF Spoiled, Sound, Shaped
    <3>3. \A o \in device' : \/ o \in device /\ o.handle # Handle
                             \/ o.handle = Handle /\ (o.dir = op.todir \/ o.dir \in suspect')
      BY <2>1, <2>3, <3>1, <3>2
    <3>4. \E o \in device' : o.handle = Handle
      BY <1>1, <1>3, Keeps
    <3>5. ASSUME op.todir \notin suspect' PROVE At(op.todir, op.toname) = {}
      <4>1. PICK p \in WithHandle(Handle) : p \in Objects
        BY <1>3 DEF WithHandle, Sound, TypeOK
      <4>2. p.dir = op.todir
        BY <2>3, <3>1, <3>2, <3>5
      <4>3. [p EXCEPT !.name = op.toname] \in Renamed
        BY <4>1 DEF Renamed
      <4>4. [p EXCEPT !.name = op.toname].dir = p.dir /\ [p EXCEPT !.name = op.toname].name = op.toname
        BY <4>1 DEF Objects
      <4> QED
        BY <1>3, <4>2, <4>3, <4>4
    <3> QED
      BY <1>1, <1>3, <2>2, <2>3, <3>3, <3>4, <3>5, CurrentTableRename
  <2>4. CASE op.todir # op.dir
    <3>1. \A o \in device' : \E p \in device : o.handle = p.handle /\ o.dir = p.dir
      BY <2>1 DEF WithHandle
    <3>2. UNCHANGED <<kids, link, loop, loaded>> /\ Pending' = Pending
      BY <1>1, <1>3, <2>4, PendingSame DEF KeepsLink
    <3>3. suspect \subseteq suspect'
      BY <1>3
    <3>4. ASSUME NEW d \in loaded \ suspect, Shows(d), Backed(d) PROVE Shows(d)' /\ Backed(d)'
      BY <2>2, <3>1, <3>2, <3>4 DEF Shows, Backed
    <3> QED
      BY <3>2, <3>3, <3>4 DEF Current
  <2> QED
    BY <2>3, <2>4
<1> QED
  BY <1>2, <1>3 DEF Rename, OnHandle, Unheard

LEMMA CurrentMove == ASSUME Sound, Sound', Aimed, Current, Move PROVE Current'
<1> DEFINE done == (device \ WithHandle(Handle)) \cup Moved
           allowed == \A o \in Moved : At(o.dir, o.name) = {}
<1>1. /\ op.call = "move" /\ op.pc = "call" /\ op.call # "none" /\ Existing
      /\ UNCHANGED <<events, loop>>
  BY DEF Move, Calling, Existing, OnHandle
<1>2. CASE Unheard(done, allowed)
  <2> HIDE DEF done, allowed
  <2> QED
    BY <1>1, <1>2, CurrentUnheard
<1>3. CASE /\ link /\ KeepsLink /\ allowed /\ WithHandle(Handle) # {} /\ device' = done /\ TableRename
           /\ suspect' = suspect \cup Spoiled /\ UNCHANGED loaded
  <2>1. \A o \in device' :
          \/ o \in device /\ o.handle # Handle
          \/ \E p \in WithHandle(Handle) :
               o.handle = p.handle /\ o.handle = Handle /\ o.dir = op.todir /\ o.name = p.name
    BY <1>1, <1>3, Relabelled
  <2>2. \A o \in device : \E p \in device' : p.handle = o.handle
    BY <1>3, HandlesStay
  <2>3. \E o \in device' : o.handle = Handle
    BY <1>1, <1>3, Keeps
  <2>4. ASSUME op.todir \notin suspect' PROVE At(op.todir, op.toname) = {}
    <3>1. op.dir \notin suspect /\ ~StrayMove
      BY <1>1, <1>3, <2>4 DEF Spoiled, Sound, Shaped
    <3>2. PICK p \in WithHandle(Handle) : p \in Objects
      BY <1>3 DEF WithHandle, Sound, TypeOK
    <3>3. p.name = Expected(op.dir, op.name)
      BY <1>1, <1>3, <3>1, Target
    <3>4. p.name = op.toname
      BY <1>1, <3>1, <3>3 DEF Expected, HalfMoved
    <3>5. [p EXCEPT !.dir = op.todir] \in Moved
      BY <3>2 DEF Moved
    <3>6. [p EXCEPT !.dir = op.todir].dir = op.todir /\ [p EXCEPT !.dir = op.todir].name = p.name
      BY <3>2 DEF Objects
    <3> QED
      BY <1>3, <3>4, <3>5, <3>6
  <2> QED
    BY <1>1, <1>3, <2>1, <2>2, <2>3, <2>4, CurrentTableRename
<1> QED
  BY <1>2, <1>3 DEF Move, OnHandle, Unheard

LEMMA CurrentWait == ASSUME Sound, Current, WaitStep \/ WaitEnds PROVE Current'
<1>1. CASE WaitEnds
  <2>1. op.call # "none" /\ Fails /\ UNCHANGED <<device, link, events, loop, kids, loaded>>
    BY <1>1 DEF WaitEnds, GivesUp, Sound, Shaped
  <2> QED
    BY <2>1, CurrentFails
<1>2. CASE WaitStep
  <2>1. UNCHANGED <<device, link, events, loop, kids, loaded, suspect>> \/ loaded' = {}
    BY <1>2, WaitSteps, AdoptTyped
  <2> QED
    BY <2>1, CurrentCalls, CurrentNothing
<1> QED
  BY <1>1, <1>2

LEMMA CurrentNext == Sound /\ Sound' /\ Aimed /\ Current /\ [Next]_vars => Current'
<1>1. ASSUME Current, UNCHANGED vars PROVE Current'
  <2>1. Pending' = Pending
    BY <1>1, PendingSame DEF vars
  <2> QED
    BY <1>1, <2>1, CurrentQuiet DEF vars
<1>2. ASSUME Sound, Sound', Aimed, Current, FuseStep PROVE Current'
  BY <1>2, CurrentResolve, CurrentList, CurrentCreate, CurrentDelete, CurrentRename, CurrentMove,
     CurrentWait DEF FuseStep
<1>3. ASSUME Sound, Aimed, Current,
             \/ \E d \in Dirs, n \in Names :
                  \/ CallCreate(d, n) \/ CallRemove(d, n)
                  \/ \E e \in Dirs, m \in Names : CallRename(d, n, e, m)
             \/ \E d \in Dirs : CallLookup(d) \/ OpenDir(d)
             \/ CallReadDir \/ CloseDir
      PROVE  Current'
  <2>1. UNCHANGED <<device, link, events, loop, kids, suspect>> /\ loaded' \subseteq loaded
    BY <1>3 DEF CallCreate, CallRemove, CallRename, CallLookup, OpenDir, CallReadDir, CloseDir
  <2> QED
    BY <1>3, <2>1, CurrentCalls
<1>4. ASSUME LinkLoss PROVE Current'
  <2>1. ~link'
    BY <1>4 DEF LinkLoss, LosesLink
  <2> QED
    BY <2>1, CurrentNothing
<1>5. ASSUME Sound, Sound', Aimed, Current, Next PROVE Current'
  BY <1>2, <1>3, <1>4, <1>5, CurrentDevice, CurrentLoops DEF Next
<1> QED
  BY <1>1, <1>5

(* ListingCurrent: once the session's event loop has handled every event,  *)
(* a loaded directory shows exactly the objects the device has in it, by   *)
(* name and by handle, whatever was renamed, removed, added and refused    *)
(* before and however often the session was replaced, except where a       *)
(* request took effect and yet answered with an error, and after an event  *)
(* that found an entry of an older session.                                *)
THEOREM ListingsAreCurrent == Spec => []ListingCurrent
<1>1. Sound /\ Aimed /\ Current => ListingCurrent
  <2> SUFFICES ASSUME Sound, Aimed, Current, Idle, link, loop = Polling, events = <<>>,
                      NEW d \in loaded \ suspect
               PROVE  {<<e.name, e.handle>> : e \in Range(kids[d])} =
                      {<<o.name, o.handle>> : o \in {p \in device : p.dir = d}}
    BY DEF ListingCurrent
  <2>1. loop.pc = "polling" /\ Pending = {} /\ \A f, n : Expected(f, n) = n
    BY DEF Polling, Pending, Range, Expected, HalfMoved, Idle
  <2>2. Shows(d) /\ Backed(d) /\ d \in Dirs \ suspect
    BY <2>1 DEF Current, Sound, TypeOK
  <2>3. \A e \in Range(kids[d]) : \A o \in device :
          o.handle = e.handle => o.dir = d /\ o.name = e.name
    BY <2>1, <2>2 DEF Aimed, Reaches, ListedFresh
  <2>4. \A e \in Range(kids[d]) : \E o \in device :
          o.dir = d /\ o.name = e.name /\ o.handle = e.handle
    BY <2>1, <2>2, <2>3 DEF Backed
  <2>5. \A o \in device : o.dir = d =>
          \E e \in Range(kids[d]) : e.name = o.name /\ e.handle = o.handle
    BY <2>1, <2>2, <2>3 DEF Shows
  <2> QED
    BY <2>4, <2>5
<1> QED
  BY <1>1, AimedAlways, CurrentInit, CurrentNext, PTL DEF Spec

(* Reading through a directory.                                            *)

Prefix(s, t) == Len(s) <= Len(t) /\ \A i \in DOMAIN s : s[i] = t[i]

(* While no entry goes, what was read is the beginning of the listing, and *)
(* the listing holds the names the reader may rely on once it is loaded.   *)
Streaming ==
  stream.dir # None /\ calm =>
    /\ stream.offset = Len(stream.seen)
    /\ Prefix(stream.seen, Shown(kids[stream.dir]))
    /\ stream.dir \in loaded => there \subseteq Listed(stream.dir)
    /\ stream.ended /\ stream.ok => there \subseteq Range(stream.seen)

LEMMA StreamingInit == Init => Streaming
  BY DEF Init, Streaming, NoStream

LEMMA ShownExtends ==
  ASSUME NEW ks \in Seq(Entries), NEW ls \in Seq(Entries), Extends(ks, ls)
  PROVE  Prefix(Shown(ks), Shown(ls))
<1> DEFINE s == Shown(ks)
           t == Shown(ls)
<1>1. /\ s \in Seq(Names \cup {".", ".."}) /\ Len(s) = Len(ks) + 2 /\ s[1] = "." /\ s[2] = ".."
      /\ \A i \in DOMAIN ks : s[i + 2] = ks[i].name
  BY ShownTyped
<1>2. /\ Len(t) = Len(ls) + 2 /\ t[1] = "." /\ t[2] = ".."
      /\ \A i \in DOMAIN ls : t[i + 2] = ls[i].name
  BY ShownTyped
<1>3. /\ Len(ks) \in Nat /\ Len(ls) \in Nat /\ DOMAIN ks = 1 .. Len(ks) /\ DOMAIN ls = 1 .. Len(ls)
      /\ DOMAIN s = 1 .. Len(s)
  BY <1>1
<1> HIDE DEF s, t
<1>4. Len(ks) <= Len(ls) /\ \A i \in 1 .. Len(ks) : i \in 1 .. Len(ls) /\ ls[i].name = ks[i].name
  BY <1>3 DEF Extends
<1>5. ASSUME NEW i \in 1 .. Len(s) PROVE s[i] = t[i]
  <2>1. CASE i = 1 \/ i = 2
    BY <1>1, <1>2, <2>1
  <2>2. CASE i # 1 /\ i # 2
    <3>1. PICK j \in 1 .. Len(ks) : j + 2 = i
      <4>1. i - 2 \in 1 .. Len(ks) /\ (i - 2) + 2 = i
        BY <1>1, <1>3, <2>2
      <4> QED
        BY <4>1
    <3>2. s[j + 2] = ks[j].name
      BY <1>1, <1>3
    <3>3. t[j + 2] = ls[j].name /\ ls[j].name = ks[j].name
      BY <1>2, <1>3, <1>4
    <3> QED
      BY <3>1, <3>2, <3>3
  <2> QED
    BY <2>1, <2>2
<1>6. Len(s) <= Len(t)
  BY <1>1, <1>2, <1>3, <1>4
<1>7. Prefix(s, t)
  BY <1>3, <1>5, <1>6 DEF Prefix
<1> QED
  BY <1>7 DEF s, t

LEMMA PrefixOfPrefix ==
  ASSUME NEW T, NEW r \in Seq(T), NEW s \in Seq(T), NEW t \in Seq(T), Prefix(r, s), Prefix(s, t)
  PROVE  Prefix(r, t)
<1>1. /\ Len(r) \in Nat /\ Len(s) \in Nat /\ Len(t) \in Nat
      /\ DOMAIN r = 1 .. Len(r) /\ DOMAIN s = 1 .. Len(s)
  OBVIOUS
<1>2. Len(r) <= Len(t) /\ \A i \in 1 .. Len(r) : i \in 1 .. Len(s)
  BY <1>1 DEF Prefix
<1> QED
  BY <1>1, <1>2 DEF Prefix

(* One reply. *)
LEMMA Paged ==
  ASSUME stream \in Streams, NEW ks \in Seq(Entries), NEW ok \in BOOLEAN, Page(ks, ok),
         stream.offset = Len(stream.seen), Prefix(stream.seen, Shown(ks))
  PROVE  /\ stream'.offset = Len(stream'.seen)
         /\ Prefix(stream'.seen, Shown(ks))
         /\ stream'.ok => stream.ok /\ ok
         /\ stream'.ended => \A i \in DOMAIN ks : ks[i].name \in Range(stream'.seen)
<1> DEFINE T == Names \cup {".", ".."}
           seen == stream.seen
           off == Len(seen)
           sh == Shown(ks)
           n == Len(sh)
           rest == SubSeq(sh, off + 1, n)
           m == Lesser(Capacity, Len(rest))
           page == SubSeq(rest, 1, m)
           all == seen \o page
<1>1. sh \in Seq(T) /\ n = Len(ks) + 2 /\ \A i \in DOMAIN ks : sh[i + 2] = ks[i].name
  BY ShownTyped
<1>2. seen \in Seq(T)
  BY DEF Streams
<1>3. stream' = [dir |-> stream.dir, offset |-> off + Len(page), seen |-> all,
                 ok |-> stream.ok /\ ok, ended |-> page = <<>>]
  BY DEF Page, From
<1>4. /\ stream'.offset = off + Len(page) /\ stream'.seen = all /\ (stream'.ok => stream.ok /\ ok)
      /\ stream'.ended = (page = <<>>)
  BY <1>3
<1>5. off <= n /\ \A i \in DOMAIN seen : seen[i] = sh[i]
  BY DEF Prefix
<1> HIDE DEF T, sh, seen
<1>6. off \in Nat /\ n \in Nat /\ DOMAIN seen = 1 .. off
  BY <1>1, <1>2
<1> HIDE DEF off, n
<1>7. rest \in Seq(T) /\ Len(rest) = n - off /\ \A i \in 1 .. n - off : rest[i] = sh[off + i]
  BY <1>1, <1>5, <1>6 DEF n
<1> HIDE DEF rest
<1>8. m \in Nat /\ m <= n - off /\ (m = 0 => n = off)
  BY <1>5, <1>6, <1>7, NamespaceAssumption DEF Lesser
<1> HIDE DEF m
<1>9. page \in Seq(T) /\ Len(page) = m /\ \A i \in 1 .. m : page[i] = rest[i]
  BY <1>6, <1>7, <1>8
<1>10. \A i \in 1 .. m : page[i] = sh[off + i]
  BY <1>6, <1>7, <1>8, <1>9
<1>11. page = <<>> => m = 0
  BY <1>8, <1>9
<1> HIDE DEF page
<1>12. /\ all \in Seq(T) /\ Len(all) = off + m
       /\ \A i \in 1 .. off : all[i] = seen[i]
       /\ \A i \in 1 .. m : all[off + i] = page[i]
  <2>1. Len(seen) = off
    BY DEF off
  <2>2. seen \in Seq(T) /\ page \in Seq(T)
    BY <1>2, <1>9
  <2>3. /\ all \in Seq(T) /\ Len(all) = Len(seen) + Len(page)
        /\ \A i \in 1 .. Len(seen) : all[i] = seen[i]
        /\ \A i \in 1 .. Len(page) : all[Len(seen) + i] = page[i]
    BY ONLY <2>2, Concatenated
  <2>4. Len(page) = m
    BY <1>9
  <2> HIDE DEF all
  <2> QED
    BY ONLY <2>1, <2>3, <2>4
<1> HIDE DEF all
<1>13. DOMAIN all = 1 .. off + m
  BY <1>6, <1>8, <1>12
<1>14. ASSUME NEW i \in 1 .. off + m PROVE all[i] = sh[i]
  <2>1. CASE i \in 1 .. off
    BY <1>5, <1>6, <1>12, <2>1
  <2>2. CASE i \notin 1 .. off
    <3>1. i - off \in 1 .. m /\ off + (i - off) = i
      BY <1>6, <1>8, <2>2
    <3>2. PICK j \in 1 .. m : off + j = i
      BY <3>1
    <3> QED
      BY <1>10, <1>12, <3>2
  <2> QED
    BY <2>1, <2>2
<1>15. Len(all) <= n
  BY <1>6, <1>8, <1>12
<1>16. Prefix(all, sh)
  BY <1>13, <1>14, <1>15 DEF Prefix, n
<1>17. ASSUME stream'.ended, NEW i \in DOMAIN ks PROVE ks[i].name \in Range(all)
  <2>0. m = 0
    BY <1>4, <1>11, <1>17, Zenon
  <2>1. off + m = n
    BY <1>6, <1>8, <2>0
  <2>2. Len(ks) \in Nat /\ DOMAIN ks = 1 .. Len(ks)
    OBVIOUS
  <2>3. i + 2 \in 1 .. off + m
    BY <1>1, <2>1, <2>2
  <2>4. all[i + 2] = ks[i].name
    BY <1>1, <1>14, <2>3
  <2> QED
    BY <1>13, <2>3, <2>4 DEF Range
<1> QED
  BY <1>4, <1>9, <1>12, <1>16, <1>17 DEF sh

(* Every step keeps the history. *)
LEMMA NextHistory == Next => History
<1>1. FuseStep => History
  BY DEF FuseStep, Resolve, List, Create, Delete, Rename, Move, OnHandle, WaitStep, WaitEnds
<1> QED
  BY <1>1 DEF Next, CallCreate, CallRemove, DeviceAdds, CallRename, CallLookup, OpenDir,
     CallReadDir, CloseDir, DeviceRemoves, StoreChanges, LoopTakes, LoopEnds, LoopHandles,
     LateLoopHandles, LinkLoss

(* What a calm step of an open stream keeps. *)
Calm ==
  /\ stream.dir \in Dirs
  /\ calm
  /\ ~(Evicts /\ op.todir = stream.dir)
  /\ \A e \in Range(kids[stream.dir]) : \E f \in Range(kids'[stream.dir]) : e.name = f.name

LEMMA CalmKeeps ==
  ASSUME Sound, History, stream.dir # None, stream'.dir # None, calm'
  PROVE  Calm /\ there' = there \cap NamesIn(device', stream.dir)
<1>1. stream # NoStream /\ stream.dir \in Dirs
  BY DEF NoStream, Sound, TypeOK, Streams
<1> QED
  BY <1>1 DEF History, Calm

LEMMA ExtendsItself == ASSUME NEW ks \in Seq(Entries) PROVE Extends(ks, ks)
  BY DEF Extends

LEMMA CalmList ==
  ASSUME Sound, Calm, NEW order \in Orders(op.dir), op.dir \in Dirs,
         kids' = [kids EXCEPT ![op.dir] = Synced(op.dir, order)]
  PROVE  Extends(kids[stream.dir], kids'[stream.dir])
<1> DEFINE d == op.dir
<1>1. /\ kids \in [Dirs -> Seq(Entries)] /\ Unique(kids[d]) /\ device \subseteq Objects
      /\ IsFiniteSet(device) /\ UniquePaths /\ d \in Dirs
  BY DEF Sound, TypeOK, Tabled, Stored
<1>2. kids'[d] = Synced(d, order) /\ \A f \in Dirs : f # d => kids'[f] = kids[f]
  BY <1>1
<1>3. CASE stream.dir # d
  BY <1>1, <1>2, <1>3, ExtendsItself DEF Calm
<1>4. CASE stream.dir = d
  <2>1. \A e : e \in Range(Synced(d, order)) <=> \E o \in device : o.dir = d /\ e = FreshEntry(o)
    BY <1>1, SyncedExact
  <2>2. \A o : FreshEntry(o).name = o.name
    BY DEF FreshEntry
  <2>3. \A e \in Range(kids[d]) : \E o \in device : o.dir = d /\ o.name = e.name
    BY <1>2, <1>4, <2>1, <2>2 DEF Calm
  <2>4. Listed(d) \subseteq NamesIn(device, d)
    <3>1. \A n \in Listed(d) : \E e \in Range(kids[d]) : e.name = n
      BY <1>1, ListedNames
    <3> QED
      BY <2>3, <3>1 DEF NamesIn
  <2>5. /\ Len(kids[d]) <= Len(Synced(d, order))
        /\ \A i \in DOMAIN kids[d] : Synced(d, order)[i].name = kids[d][i].name
    BY <1>1, <2>4, SyncedExact
  <2> QED
    BY <1>2, <1>4, <2>5 DEF Extends
<1> QED
  BY <1>3, <1>4

LEMMA CalmDelete ==
  ASSUME Sound, Calm, op.call = "remove", kids' = [kids EXCEPT ![op.dir] = Without(@, op.name)]
  PROVE  Extends(kids[stream.dir], kids'[stream.dir])
<1>1. /\ \A d \in Dirs : d # op.dir => kids'[d] = kids[d]
      /\ \A f : f \in Range(kids'[op.dir]) <=> f \in Range(kids[op.dir]) /\ f.name # op.name
  BY Frees
<1>2. op.dir \in Dirs /\ op.name \in Listed(op.dir)
  BY DEF Sound, Shaped, Existing
<1>3. \E e \in Range(kids[op.dir]) : e.name = op.name
  BY <1>2, ListedNames
<1>4. stream.dir # op.dir
  BY <1>1, <1>3 DEF Calm
<1>5. stream.dir \in Dirs /\ kids[stream.dir] \in Seq(Entries)
  BY DEF Calm, Sound, TypeOK
<1> QED
  BY <1>1, <1>4, <1>5, ExtendsItself

LEMMA CalmTableRename ==
  ASSUME Sound, Calm, op.call \in {"rename", "move"}, TableRename
  PROVE  Extends(kids[stream.dir], kids'[stream.dir])
<1> DEFINE new == [name |-> op.toname, handle |-> Entry(op.dir, op.name).handle,
                   fresh |-> Entry(op.dir, op.name).fresh]
<1>1. /\ Tabled /\ op.dir \in Dirs /\ op.todir \in Dirs /\ op.name \in Listed(op.dir)
      /\ op.toname \in Names /\ (op.dir # op.todir \/ op.name # op.toname)
  BY DEF Sound, Shaped, Existing
<1>2. /\ \A d \in Dirs : d \notin {op.dir, op.todir} => kids'[d] = kids[d]
      /\ \A d \in Dirs : \A f : f \in Range(kids'[d]) <=>
          \/ /\ f \in Range(kids[d])
             /\ ~(d = op.dir /\ f.name = op.name) /\ ~(d = op.todir /\ f.name = op.toname)
          \/ d = op.todir /\ f = new
      /\ op.dir # op.todir /\ op.toname \notin Listed(op.todir)
           => Extends(kids[op.todir], kids'[op.todir])
  BY <1>1, TableRenameExact
<1>3. new.name = op.toname
  OBVIOUS
<1> HIDE DEF new
<1>4. \A f \in Range(kids'[op.dir]) : f.name # op.name
  BY <1>1, <1>2, <1>3
<1>5. \E e \in Range(kids[op.dir]) : e.name = op.name
  BY <1>1, ListedNames
<1>6. stream.dir # op.dir
  BY <1>4, <1>5 DEF Calm
<1>7. stream.dir \in Dirs /\ kids[stream.dir] \in Seq(Entries)
  BY DEF Calm, Sound, TypeOK
<1>8. CASE stream.dir = op.todir
  <2>1. op.toname \notin Listed(op.todir)
    BY <1>4, <1>8 DEF Calm, Evicts
  <2> QED
    BY <1>2, <1>6, <1>8, <2>1
<1>9. CASE stream.dir # op.todir
  BY <1>2, <1>6, <1>7, <1>9, ExtendsItself
<1> QED
  BY <1>8, <1>9

LEMMA CalmExtends ==
  ASSUME Sound, Calm, Next
  PROVE  Extends(kids[stream.dir], kids'[stream.dir])
<1>1. stream.dir \in Dirs /\ kids[stream.dir] \in Seq(Entries) /\ Tabled
  BY DEF Calm, Sound, TypeOK
<1>2. CASE kids' = kids
  BY <1>1, <1>2, ExtendsItself
<1>3. CASE kids' = Stales(kids)
  BY <1>1, <1>3, StalesExact
<1>4. CASE Resolve
  <2>1. ASSUME NEW o \in At(op.dir, op.name), kids' = SetHandle(op.dir, op.name, o.handle), ~Resolved
        PROVE  Extends(kids[stream.dir], kids'[stream.dir])
    <3>1. Existing
      BY <2>1 DEF Resolved, Existing
    <3> QED
      BY <1>1, <2>1, <3>1, SetsHandle
  <2> QED
    BY <1>2, <1>4, <2>1 DEF Resolve
<1>5. CASE List
  <2>1. op.dir \in Dirs
    BY <1>5 DEF List, Calling, Sound, Shaped
  <2> QED
    BY <1>2, <1>5, <2>1, CalmList DEF List, Refuses, Breaks
<1>6. CASE Create
  <2> DEFINE e == FreshEntry([dir |-> op.dir, name |-> op.name, handle |-> next])
  <2>1. op.call = "create" /\ op.name \in Names /\ next \in Nat \ {0}
    BY <1>6 DEF Create, Calling, Sound, Shaped, TypeOK
  <2>2. e \in Entries /\ e.name = op.name
    BY <2>1 DEF FreshEntry, Entries
  <2>3. kids' = kids \/ kids' = [kids EXCEPT ![op.dir] = Append(Without(@, op.name), e)]
    BY <1>6 DEF Create, Refuses, Breaks
  <2> HIDE DEF e
  <2> QED
    BY <1>1, <1>2, <2>1, <2>2, <2>3, Adds
<1>7. ASSUME NEW done, NEW allowed, Unheard(done, allowed)
      PROVE  Extends(kids[stream.dir], kids'[stream.dir])
  <2>1. kids' = kids \/ kids' = Stales(kids)
    BY <1>7 DEF Unheard, Refuses, Breaks, Stale
  <2> QED
    BY <1>2, <1>3, <2>1
<1>8. CASE Delete
  <2>1. op.call = "remove"
    BY <1>8 DEF Delete, Calling
  <2>2. \/ Unheard(device \ WithHandle(Handle), TRUE)
        \/ kids' = [kids EXCEPT ![op.dir] = Without(@, op.name)]
    BY <1>8 DEF Delete, OnHandle, Unheard
  <2> QED
    BY <1>7, <2>1, <2>2, CalmDelete
<1>9. CASE Rename \/ Move
  <2>1. op.call \in {"rename", "move"}
    BY <1>9 DEF Rename, Move, Calling
  <2> DEFINE done == (device \ WithHandle(Handle)) \cup Renamed
             moved == (device \ WithHandle(Handle)) \cup Moved
             allowed == \A o \in Renamed : At(o.dir, o.name) = {}
             room == \A o \in Moved : At(o.dir, o.name) = {}
  <2>2. Unheard(done, allowed) \/ Unheard(moved, room) \/ TableRename \/ kids' = kids
    BY <1>9 DEF Rename, Move, OnHandle, Unheard
  <2> HIDE DEF done, moved, allowed, room
  <2> QED
    BY <1>2, <1>7, <2>1, <2>2, CalmTableRename
<1>10. CASE WaitStep \/ WaitEnds
  <2>1. kids' = kids \/ kids' = Stales(kids)
    BY <1>10, AdoptTyped DEF WaitStep, WaitEnds
  <2> QED
    BY <1>2, <1>3, <2>1
<1>11. CASE ~FuseStep
  <2>1. kids' = kids
    BY <1>11 DEF Next, CallCreate, CallRemove, DeviceAdds, CallRename, CallLookup, OpenDir,
       CallReadDir, CloseDir, DeviceRemoves, StoreChanges, LoopTakes, LoopEnds, LoopHandles,
       LateLoopHandles, LinkLoss
  <2> QED
    BY <1>2, <2>1
<1> QED
  BY <1>4, <1>5, <1>6, <1>8, <1>9, <1>10, <1>11 DEF FuseStep

NamesOf(ks) == {ks[i].name : i \in DOMAIN ks}

(* A listing is loaded only as the device has it. *)
LEMMA ListLoads ==
  ASSUME Sound, op.dir \in Dirs, NEW order \in Orders(op.dir),
         kids' = [kids EXCEPT ![op.dir] = Synced(op.dir, order)]
  PROVE  kids'[op.dir] = Synced(op.dir, order) /\ NamesIn(device, op.dir) \subseteq NamesOf(kids'[op.dir])
<1> DEFINE d == op.dir
<1>1. /\ kids \in [Dirs -> Seq(Entries)] /\ Unique(kids[d]) /\ device \subseteq Objects
      /\ IsFiniteSet(device) /\ UniquePaths /\ d \in Dirs
  BY DEF Sound, TypeOK, Tabled, Stored
<1>2. kids'[d] = Synced(d, order)
  BY <1>1
<1>3. \A e : e \in Range(kids'[d]) <=> \E o \in device : o.dir = d /\ e = FreshEntry(o)
  BY <1>1, <1>2, SyncedExact
<1>4. ASSUME NEW o \in device, o.dir = d PROVE \E i \in DOMAIN kids'[d] : kids'[d][i].name = o.name
  <2>1. FreshEntry(o) \in Range(kids'[d]) /\ FreshEntry(o).name = o.name
    BY <1>3, <1>4 DEF FreshEntry
  <2> QED
    BY <2>1 DEF Range
<1> QED
  BY <1>2, <1>4 DEF NamesIn, NamesOf

LEMMA Loads ==
  ASSUME Sound, Next, NEW d \in loaded'
  PROVE  d \in loaded \/ NamesIn(device', d) \subseteq NamesOf(kids'[d])
<1>1. CASE List
  <2>1. op.dir \in Dirs
    BY <1>1 DEF List, Calling, Sound, Shaped
  <2>2. ASSUME NEW order \in Orders(op.dir), kids' = [kids EXCEPT ![op.dir] = Synced(op.dir, order)],
               device' = device, d = op.dir
        PROVE  NamesIn(device', d) \subseteq NamesOf(kids'[d])
    BY <2>1, <2>2, ListLoads
  <2> QED
    BY <1>1, <2>1, <2>2 DEF List, Refuses, Breaks
<1>2. CASE FuseStep /\ ~List
  <2>1. WaitStep => loaded' = loaded \/ loaded' = {}
    BY AdoptTyped DEF WaitStep
  <2>2. Delete \/ Rename \/ Move => loaded' = loaded \/ loaded' = {}
    BY DEF Delete, Rename, Move, OnHandle, Refuses, Breaks, Stale
  <2>3. loaded' = loaded \/ loaded' = {}
    BY <1>2, <2>1, <2>2 DEF FuseStep, Resolve, Create, Refuses, Breaks, WaitEnds
  <2> QED
    BY <2>3
<1>3. CASE ~FuseStep
  <2>1. loaded' \subseteq loaded
    BY <1>3 DEF Next, CallCreate, CallRemove, DeviceAdds, CallRename, CallLookup, OpenDir,
       CallReadDir, CloseDir, DeviceRemoves, StoreChanges, LoopTakes, LoopEnds, LoopHandles,
       LateLoopHandles, LinkLoss, HandleEvent
  <2> QED
    BY <2>1
<1> QED
  BY <1>1, <1>2, <1>3

(* How a stream goes on. *)
LEMMA StreamChanges ==
  ASSUME Sound, Next
  PROVE  \/ stream' = stream \/ stream' = NoStream
         \/ /\ stream.dir = None /\ stream'.dir \notin loaded'
            /\ stream'.offset = 0 /\ stream'.seen = <<>> /\ ~stream'.ended
         \/ stream.dir \in Dirs /\ Page(kids[stream.dir], FALSE)
         \/ stream.dir \in loaded /\ Page(kids[stream.dir], TRUE)
         \/ /\ stream.dir \in Dirs
            /\ NamesIn(device', stream.dir) \subseteq NamesOf(kids'[stream.dir])
            /\ Page(kids'[stream.dir], TRUE)
<1> DEFINE Failed == stream.dir \in Dirs /\ Page(kids[stream.dir], FALSE)
<1>0. \A ds : FailsIn(ds) => stream' = stream \/ Failed
  BY DEF FailsIn, Sound, Shaped
<1>1. Fails => stream' = stream \/ Failed
  BY <1>0 DEF Fails
<1>2. Reconnect => stream' = stream \/ Failed
  BY <1>1 DEF Reconnect, GivesUp
<1>3. Stale => stream' = stream \/ Failed
  BY <1>1 DEF Stale
<1>4. \A done : Breaks(done) => stream' = stream \/ Failed
  BY <1>2 DEF Breaks
<1>5. \A possible, done : Refuses(possible, done) => stream' = stream \/ Failed
  BY <1>0 DEF Refuses
<1> HIDE DEF Failed
<1>6. Resolve => stream' = stream \/ Failed
  BY <1>1, <1>2 DEF Resolve
<1>7. Create \/ Delete \/ Rename \/ Move => stream' = stream \/ Failed
  BY <1>3, <1>4, <1>5 DEF Create, Delete, Rename, Move, OnHandle
<1>8. WaitStep \/ WaitEnds => stream' = stream \/ Failed
  BY <1>1 DEF WaitStep, WaitEnds, GivesUp
<1>9. List => \/ stream' = stream \/ Failed
              \/ /\ stream.dir \in Dirs
                 /\ NamesIn(device', stream.dir) \subseteq NamesOf(kids'[stream.dir])
                 /\ Page(kids'[stream.dir], TRUE)
  <2> SUFFICES ASSUME List, stream' # stream, ~Failed
               PROVE  /\ stream.dir \in Dirs
                      /\ NamesIn(device', stream.dir) \subseteq NamesOf(kids'[stream.dir])
                      /\ Page(kids'[stream.dir], TRUE)
    OBVIOUS
  <2>1. op.dir \in Dirs
    BY DEF List, Calling, Sound, Shaped
  <2> DEFINE done == <<device, next>>
  <2>2. ~Breaks(done) /\ ~Refuses(TRUE, done)
    <3> HIDE DEF done
    <3> QED
      BY <1>4, <1>5
  <2>3. PICK order \in Orders(op.dir) :
          /\ kids' = [kids EXCEPT ![op.dir] = Synced(op.dir, order)]
          /\ IF op.call = "readdir" THEN Page(Synced(op.dir, order), TRUE) ELSE UNCHANGED stream
          /\ device' = device
    BY <2>2 DEF List
  <2>4. op.call = "readdir" /\ stream.dir = op.dir /\ Page(Synced(op.dir, order), TRUE)
    BY <2>3 DEF Sound, Shaped
  <2>5. kids'[op.dir] = Synced(op.dir, order) /\ NamesIn(device, op.dir) \subseteq NamesOf(kids'[op.dir])
    BY <2>1, <2>3, ListLoads
  <2> QED
    BY <2>1, <2>3, <2>4, <2>5
<1>10. CASE \E d \in Dirs : OpenDir(d)
  <2>1. PICK d \in Dirs : OpenDir(d)
    BY <1>10
  <2>2. stream = NoStream /\ stream' = [NoStream EXCEPT !.dir = d] /\ d \notin loaded'
    BY <2>1 DEF OpenDir
  <2>3. /\ stream.dir = None /\ stream'.dir = d /\ stream'.offset = 0 /\ stream'.seen = <<>>
        /\ ~stream'.ended
    BY <2>2 DEF NoStream
  <2> QED
    BY <2>2, <2>3
<1>11. CASE CallReadDir
  BY <1>11 DEF CallReadDir
<1>12. CASE CloseDir
  BY <1>12 DEF CloseDir
<1>13. ASSUME ~FuseStep, ~CallReadDir, ~CloseDir, ~\E d \in Dirs : OpenDir(d) PROVE stream' = stream
  BY <1>13 DEF Next, CallCreate, CallRemove, DeviceAdds, CallRename, CallLookup, DeviceRemoves,
     StoreChanges, LoopTakes, LoopEnds, LoopHandles, LateLoopHandles, LinkLoss
<1>14. CASE FuseStep
  BY <1>6, <1>7, <1>8, <1>9, <1>14 DEF FuseStep, Failed
<1> QED
  BY <1>10, <1>11, <1>12, <1>13, <1>14

LEMMA StreamingStep == ASSUME Sound, Sound', Streaming, Next PROVE Streaming'
<1> SUFFICES ASSUME stream'.dir # None, calm'
             PROVE  /\ stream'.offset = Len(stream'.seen)
                    /\ Prefix(stream'.seen, Shown(kids'[stream'.dir]))
                    /\ stream'.dir \in loaded' => there' \subseteq NamesOf(kids'[stream'.dir])
                    /\ stream'.ended /\ stream'.ok => there' \subseteq Range(stream'.seen)
  BY DEF Streaming, Listed, NamesOf
<1>1. History
  BY NextHistory
<1>2. CASE stream.dir = None
  <2>1. stream = NoStream /\ stream' # stream /\ stream' # NoStream
    BY <1>2 DEF Sound, Shaped, NoStream
  <2>2. /\ stream'.dir \notin loaded' /\ stream'.offset = 0 /\ stream'.seen = <<>>
        /\ ~stream'.ended
    BY <1>2, <2>1, StreamChanges, NamespaceAssumption DEF Sound, TypeOK
  <2>3. stream'.dir \in Dirs
    BY DEF Sound, TypeOK, Streams
  <2>4. kids'[stream'.dir] \in Seq(Entries)
    BY <2>3 DEF Sound, TypeOK
  <2> DEFINE sh == Shown(kids'[stream'.dir])
  <2>5. sh \in Seq(Names \cup {".", ".."})
    BY <2>4, ShownTyped
  <2> HIDE DEF sh
  <2>6. Prefix(<<>>, sh)
    BY <2>5 DEF Prefix
  <2> QED
    BY <2>2, <2>6 DEF sh
<1>3. CASE stream.dir # None
  <2> DEFINE d == stream.dir
             old == kids[d]
             new == kids'[d]
             T == Names \cup {".", ".."}
  <2>1. Calm /\ there' = there \cap NamesIn(device', d)
    BY <1>1, <1>3, CalmKeeps
  <2>2. d \in Dirs /\ old \in Seq(Entries) /\ new \in Seq(Entries) /\ stream \in Streams
        /\ stream.seen \in Seq(T)
    BY <2>1 DEF Calm, Sound, TypeOK, Streams
  <2>3. Extends(old, new)
    BY <2>1, CalmExtends
  <2>4. /\ stream.offset = Len(stream.seen) /\ Prefix(stream.seen, Shown(old))
        /\ d \in loaded => there \subseteq NamesOf(old)
        /\ stream.ended /\ stream.ok => there \subseteq Range(stream.seen)
    BY <1>3, <2>1 DEF Streaming, Calm, Listed, NamesOf
  <2>5. Prefix(Shown(old), Shown(new)) /\ Shown(old) \in Seq(T) /\ Shown(new) \in Seq(T)
    BY <2>2, <2>3, ShownExtends, ShownTyped
  <2>6. Prefix(stream.seen, Shown(new))
    BY <2>2, <2>4, <2>5, PrefixOfPrefix
  <2>7. \A e \in Range(old) : \E f \in Range(new) : e.name = f.name
    BY <2>1 DEF Calm
  <2>8. NamesOf(old) \subseteq NamesOf(new)
    BY <2>7 DEF NamesOf, Range
  <2>9. d \in loaded' => there' \subseteq NamesOf(new)
    BY <2>1, <2>4, <2>8, Loads
  <2>10. stream' # NoStream
    BY DEF NoStream
  <2> DEFINE Goal == /\ stream'.offset = Len(stream'.seen) /\ Prefix(stream'.seen, Shown(new))
                     /\ stream'.ended /\ stream'.ok => there' \subseteq Range(stream'.seen)
  <2>11. CASE stream' = stream
    BY <2>1, <2>4, <2>6, <2>9, <2>11
  <2>12. ASSUME NEW ks \in {old, new}, NEW ok \in BOOLEAN, Page(ks, ok), ok => there' \subseteq NamesOf(ks)
         PROVE  stream'.dir = d /\ Goal
    <3>1. ks \in Seq(Entries) /\ Prefix(stream.seen, Shown(ks)) /\ Shown(ks) \in Seq(T)
          /\ Prefix(Shown(ks), Shown(new))
      <4>1. Prefix(Shown(new), Shown(new))
        BY <2>5 DEF Prefix
      <4> QED
        BY <2>2, <2>4, <2>5, <2>6, <4>1
    <3>2. stream' \in Streams /\ stream'.dir = d
      BY <2>2, <2>12, <3>1, PageTyped
    <3>3. /\ stream'.offset = Len(stream'.seen) /\ Prefix(stream'.seen, Shown(ks))
          /\ stream'.ok => stream.ok /\ ok
          /\ stream'.ended => \A i \in DOMAIN ks : ks[i].name \in Range(stream'.seen)
      BY <2>2, <2>4, <2>12, <3>1, Paged
    <3>4. stream'.seen \in Seq(T)
      BY <3>2 DEF Streams
    <3>5. Prefix(stream'.seen, Shown(new))
      BY <2>5, <3>1, <3>3, <3>4, PrefixOfPrefix
    <3>6. stream'.ended /\ stream'.ok => there' \subseteq Range(stream'.seen)
      BY <2>12, <3>3 DEF NamesOf
    <3> QED
      BY <3>2, <3>3, <3>5, <3>6
  <2>13. CASE Page(old, FALSE)
    BY <2>9, <2>12, <2>13
  <2>14. CASE d \in loaded /\ Page(old, TRUE)
    BY <2>1, <2>4, <2>9, <2>12, <2>14
  <2>15. CASE Page(new, TRUE) /\ NamesIn(device', d) \subseteq NamesOf(new)
    BY <2>1, <2>9, <2>12, <2>15
  <2> QED
    BY <1>3, <2>10, <2>11, <2>13, <2>14, <2>15, StreamChanges
<1> QED
  BY <1>2, <1>3

LEMMA StreamingNext == Sound /\ Sound' /\ Streaming /\ [Next]_vars => Streaming'
<1>1. ASSUME Streaming, UNCHANGED vars PROVE Streaming'
  BY <1>1 DEF Streaming, vars, Listed
<1> QED
  BY <1>1, StreamingStep

(* StreamComplete: a process that reads through a directory, its listing   *)
(* refreshed, replaced and added to between any two replies, is given each *)
(* name that is on the device all the time, and none twice, as long as no  *)
(* entry goes or is replaced and no request for the listing failed.        *)
THEOREM StreamsAreComplete == Spec => []StreamComplete
<1>1. Sound /\ Streaming => StreamComplete
  <2> SUFFICES ASSUME Sound, Streaming, stream.ended, stream.ok, calm
               PROVE  /\ \A n \in there : n \in Range(stream.seen)
                      /\ \A i, j \in DOMAIN stream.seen : stream.seen[i] = stream.seen[j] => i = j
    BY DEF StreamComplete
  <2> DEFINE ks == kids[stream.dir]
             sh == Shown(ks)
             seen == stream.seen
  <2>1. stream.dir # None
    BY DEF Sound, Shaped, NoStream
  <2>2. stream.dir \in Dirs /\ seen \in Seq(Names \cup {".", ".."})
    BY <2>1 DEF Sound, TypeOK, Streams
  <2>3. ks \in Seq(Entries) /\ Unique(ks)
    BY <2>2 DEF Sound, Tabled
  <2>4. there \subseteq Range(seen) /\ Prefix(seen, sh)
    BY <2>1 DEF Streaming
  <2>5. /\ sh[1] = "." /\ sh[2] = ".." /\ Len(sh) = Len(ks) + 2
        /\ \A i \in DOMAIN ks : sh[i + 2] = ks[i].name
    BY <2>3, ShownTyped
  <2>6. Len(ks) \in Nat /\ DOMAIN ks = 1 .. Len(ks) /\ Len(seen) \in Nat /\ DOMAIN seen = 1 .. Len(seen)
        /\ \A i \in DOMAIN ks : ks[i].name \in Names
    <3>1. \A e \in Entries : e.name \in Names
      BY DEF Entries
    <3> QED
      BY <2>2, <2>3, <3>1
  <2> HIDE DEF ks, sh, seen
  <2>7. Len(seen) <= Len(ks) + 2 /\ \A i \in 1 .. Len(seen) : seen[i] = sh[i]
    BY <2>4, <2>5, <2>6 DEF Prefix
  <2>8. ASSUME NEW i \in 1 .. Len(ks) + 2
        PROVE  i = 1 \/ i = 2 \/ \E k \in 1 .. Len(ks) : i = k + 2 /\ sh[i] = ks[k].name
    <3>1. i = 1 \/ i = 2 \/ (i - 2 \in 1 .. Len(ks) /\ i = (i - 2) + 2)
      BY <2>6
    <3> QED
      BY <2>5, <2>6, <3>1
  <2>9. ASSUME NEW i \in 1 .. Len(ks) + 2, NEW j \in 1 .. Len(ks) + 2, sh[i] = sh[j] PROVE i = j
    <3>1. "." \notin Names /\ ".." \notin Names /\ "." # ".."
      BY NamespaceAssumption
    <3>2. \A k \in 1 .. Len(ks) : ks[k].name # "." /\ ks[k].name # ".."
      BY <2>6, <3>1
    <3>3. \A k, l \in 1 .. Len(ks) : ks[k].name = ks[l].name => k = l
      BY <2>3, <2>6 DEF Unique
    <3> QED
      BY <2>5, <2>8, <2>9, <3>1, <3>2, <3>3
  <2>10. \A i \in 1 .. Len(seen) : i \in 1 .. Len(ks) + 2
    BY <2>6, <2>7
  <2>11. \A i, j \in DOMAIN seen : seen[i] = seen[j] => i = j
    BY <2>6, <2>7, <2>9, <2>10
  <2> QED
    BY <2>4, <2>11 DEF seen
<1> QED
  BY <1>1, Soundness, StreamingInit, StreamingNext, PTL DEF Spec
====
