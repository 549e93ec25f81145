-------------------------- MODULE InodeTableProofs --------------------------
(***************************************************************************)
(* Proofs about the inode table, for any number of names, handles, inodes, *)
(* generations and any listing length.                                     *)
(***************************************************************************)
EXTENDS InodeTable, TLAPS

(* Both indexes agree with the entries, and the root is there. *)
Indexed(t) ==
  /\ Live(t, Root)
  /\ t.entries[Root].parent = Root
  /\ NamesSound(t)
  /\ NamesComplete(t)
  /\ KidsSound(t)
  /\ KidsComplete(t)

(* Numbers from nx on are unused, as an entry and as a parent. *)
Numbered(t, nx) ==
  \A x \in Inodes : Live(t, x) => x < nx /\ t.entries[x].parent < nx

(* The inductive invariant of the table. *)
IInv ==
  /\ TypeOK
  /\ Indexed(table)
  /\ Acyclic(table)
  /\ Numbered(table, next)
  /\ sync # None => sync.dir < next
-----------------------------------------------------------------------------
(* Three maps of the right types make a table. *)
LEMMA TableRecord ==
  ASSUME NEW a \in [Inodes -> Entry \cup {None}],
         NEW b \in [Inodes -> [Names -> Inodes \cup {0}]],
         NEW c \in [Inodes -> [Inodes -> Nat]]
  PROVE  [entries |-> a, names |-> b, kids |-> c] \in Tables
BY DEF Tables

(* What remove leaves of each of the three maps, key by key. *)
LEMMA RemoveFacts ==
  ASSUME NEW t \in Tables, NEW i \in Inodes,
         Live(t, i), t.entries[i].name \in Names
  PROVE  /\ Remove(t, i) \in Tables
         /\ \A x \in Inodes : Remove(t, i).entries[x] =
               IF x = i THEN None ELSE t.entries[x]
         /\ \A p \in Inodes, n \in Names : Remove(t, i).names[p][n] =
               IF p = t.entries[i].parent /\ n = t.entries[i].name
               THEN 0 ELSE t.names[p][n]
         /\ \A p, c \in Inodes : Remove(t, i).kids[p][c] =
               IF p = i \/ (p = t.entries[i].parent /\ c = i)
               THEN 0 ELSE t.kids[p][c]
<1> DEFINE e  == t.entries[i]
           es == [t.entries EXCEPT ![i] = None]
           ns == [t.names EXCEPT ![e.parent][e.name] = 0]
           ks == [[t.kids EXCEPT ![e.parent][i] = 0]
                     EXCEPT ![i] = [c \in Inodes |-> 0]]
           u  == Remove(t, i)
<1>1. e \in Entry /\ e.parent \in Inodes
  BY DEF Tables, Entry, Live
<1>2. u = [entries |-> es, names |-> ns, kids |-> ks]
  BY DEF Remove
<1>3. es \in [Inodes -> Entry \cup {None}]
  BY DEF Tables
<1>4. ns \in [Inodes -> [Names -> Inodes \cup {0}]]
  BY <1>1 DEF Tables
<1>5. ks \in [Inodes -> [Inodes -> Nat]]
  BY <1>1 DEF Tables
<1>6. u \in Tables
  <2> HIDE DEF es, ns, ks, u
  <2> QED BY <1>2, <1>3, <1>4, <1>5, TableRecord
<1>7. \A x \in Inodes : u.entries[x] = IF x = i THEN None ELSE t.entries[x]
  BY <1>2 DEF Tables
<1>8. \A p \in Inodes, n \in Names : u.names[p][n] =
        IF p = e.parent /\ n = e.name THEN 0 ELSE t.names[p][n]
  BY <1>1, <1>2 DEF Tables
<1>9. \A p, c \in Inodes : u.kids[p][c] =
        IF p = i \/ (p = e.parent /\ c = i) THEN 0 ELSE t.kids[p][c]
  BY <1>1, <1>2 DEF Tables
<1> QED
  BY <1>6, <1>7, <1>8, <1>9

(* remove keeps both indexes exact; the children of a removed directory    *)
(* stay as entries whose parent is gone.                                   *)
LEMMA RemoveIndexed ==
  ASSUME NEW t \in Tables, NEW i \in Inodes \ {Root}, Indexed(t), Live(t, i)
  PROVE  Remove(t, i) \in Tables /\ Indexed(Remove(t, i))
<1> DEFINE u == Remove(t, i)
<1>0. t.entries[i].name \in Names /\ t.entries[i].parent \in Inodes
  BY DEF Indexed, NamesComplete, Tables, Entry, Live
<1>1. u \in Tables
  BY <1>0, RemoveFacts
<1>2. \A x \in Inodes : u.entries[x] = IF x = i THEN None ELSE t.entries[x]
  BY <1>0, RemoveFacts
<1>3. \A p \in Inodes, n \in Names : u.names[p][n] =
        IF p = t.entries[i].parent /\ n = t.entries[i].name
        THEN 0 ELSE t.names[p][n]
  BY <1>0, RemoveFacts
<1>4. \A p, c \in Inodes : u.kids[p][c] =
        IF p = i \/ (p = t.entries[i].parent /\ c = i) THEN 0 ELSE t.kids[p][c]
  BY <1>0, RemoveFacts
<1> HIDE DEF u
<1> USE DEF Live, Lookup
<1>5. Live(u, Root) /\ u.entries[Root].parent = Root
  BY <1>2, BoundsAssumption DEF Indexed, Root, Inodes
<1>6. NamesSound(u)
  <2> SUFFICES ASSUME NEW p \in Inodes, NEW n \in Names, u.names[p][n] # 0
               PROVE  /\ u.names[p][n] # Root
                      /\ u.entries[u.names[p][n]] # None
                      /\ u.entries[u.names[p][n]].parent = p
                      /\ u.entries[u.names[p][n]].name = n
    BY DEF NamesSound
  <2>1. u.names[p][n] = t.names[p][n] /\ t.names[p][n] \in Inodes
    BY <1>3 DEF Tables
  <2>2. t.names[p][n] # i
    BY <1>3, <2>1 DEF Indexed, NamesSound
  <2> QED
    BY <1>2, <2>1, <2>2 DEF Indexed, NamesSound
<1>7. NamesComplete(u)
  <2> SUFFICES ASSUME NEW x \in Inodes \ {Root}, u.entries[x] # None
               PROVE  /\ u.entries[x].name \in Names
                      /\ u.names[u.entries[x].parent][u.entries[x].name] = x
    BY DEF NamesComplete
  <2>1. x # i /\ u.entries[x] = t.entries[x]
    BY <1>2
  <2>2. /\ t.entries[x].name \in Names
        /\ t.names[t.entries[x].parent][t.entries[x].name] = x
        /\ t.names[t.entries[i].parent][t.entries[i].name] = i
        /\ t.entries[x].parent \in Inodes
    BY <2>1 DEF Indexed, NamesComplete, Tables, Entry
  <2> QED
    BY <1>3, <2>1, <2>2
<1>8. KidsSound(u)
  BY <1>2, <1>4 DEF Indexed, KidsSound
<1>9. KidsComplete(u)
  <2> SUFFICES ASSUME NEW c \in Inodes \ {Root}, u.entries[c] # None,
                      u.entries[u.entries[c].parent] # None
               PROVE  u.kids[u.entries[c].parent][c] = 1
    BY DEF KidsComplete
  <2>1. c # i /\ u.entries[c] = t.entries[c] /\ t.entries[c].parent \in Inodes
    BY <1>2 DEF Tables, Entry
  <2>2. t.entries[c].parent # i
    BY <1>2, <2>1
  <2> QED
    BY <1>2, <1>4, <2>1, <2>2 DEF Indexed, KidsComplete
<1> QED
  BY <1>1, <1>5, <1>6, <1>7, <1>8, <1>9 DEF Indexed, u

(* Every entry of u is the entry t has there, or is gone. *)
Shrinks(u, t) == \A x \in Inodes : u.entries[x] \in {t.entries[x], None}

(* Removing entries creates no cycle of parents and reuses no number. *)
LEMMA ShrinkKeeps ==
  ASSUME NEW t, NEW u, NEW nx \in Nat, Shrinks(u, t)
  PROVE  /\ Acyclic(t) => Acyclic(u)
         /\ Numbered(t, nx) => Numbered(u, nx)
<1>1. \A x \in Inodes : Live(u, x) => Live(t, x) /\ u.entries[x] = t.entries[x]
  BY DEF Shrinks, Live
<1>2. Acyclic(t) => Acyclic(u)
  <2> SUFFICES ASSUME Acyclic(t), NEW S \in SUBSET (Inodes \ {Root}),
                      \A x \in S : Live(u, x) /\ u.entries[x].parent \in S
               PROVE  S = {}
    BY DEF Acyclic
  <2>1. \A x \in S : Live(t, x) /\ t.entries[x].parent \in S
    BY <1>1
  <2> QED
    BY <2>1 DEF Acyclic
<1>3. Numbered(t, nx) => Numbered(u, nx)
  BY <1>1 DEF Numbered
<1> QED
  BY <1>2, <1>3

(* Evicting a name leaves the index exact and the name free, or on `keep`. *)
LEMMA EvictIndexed ==
  ASSUME NEW t \in Tables, NEW p \in Inodes, NEW n \in Names, NEW keep \in Inodes,
         Indexed(t)
  PROVE  LET u == EvictName(t, p, n, keep) IN
         /\ u \in Tables
         /\ Indexed(u)
         /\ Shrinks(u, t)
         /\ u.names[p][n] \in {0, keep}
         /\ u.entries[keep] = t.entries[keep]
<1> DEFINE old == Lookup(t, p, n)
<1>1. CASE old \in {0, keep}
  BY <1>1 DEF EvictName, Shrinks, Lookup
<1>2. CASE old \notin {0, keep}
  <2>1. /\ old \in Inodes \ {Root} /\ Live(t, old)
        /\ t.entries[old].parent = p /\ t.entries[old].name = n
    BY <1>2 DEF Indexed, NamesSound, Tables, Lookup
  <2>2. EvictName(t, p, n, keep) = Remove(t, old)
    BY <1>2 DEF EvictName
  <2>3. Remove(t, old) \in Tables /\ Indexed(Remove(t, old))
    BY <2>1, RemoveIndexed
  <2>4. /\ \A x \in Inodes : Remove(t, old).entries[x] =
              IF x = old THEN None ELSE t.entries[x]
        /\ Remove(t, old).names[p][n] = 0
    BY <2>1, RemoveFacts
  <2>5. Shrinks(Remove(t, old), t)
    BY <2>4 DEF Shrinks
  <2>6. Remove(t, old).entries[keep] = t.entries[keep]
    BY <1>2, <2>4
  <2> HIDE DEF old
  <2> QED
    BY <2>2, <2>3, <2>4, <2>5, <2>6
<1> QED
  BY <1>1, <1>2

(* Inserting an entry under an unused number keeps the indexes exact and   *)
(* the parents acyclic.                                                    *)
LEMMA InsertIndexed ==
  ASSUME NEW t \in Tables, NEW i \in Inodes \ {Root}, NEW e \in Entry,
         Indexed(t), Acyclic(t), ~Live(t, i),
         \A x \in Inodes : Live(t, x) => t.entries[x].parent # i,
         e.name \in Names, e.parent # i
  PROVE  LET v == Insert(t, i, e) IN
         /\ v \in Tables
         /\ Indexed(v)
         /\ Acyclic(v)
         /\ \A x \in Inodes \ {i} : v.entries[x] \in {t.entries[x], None}
         /\ v.entries[i] = e
<1> DEFINE p  == e.parent
           n  == e.name
           u  == EvictName(t, p, n, i)
           es == [u.entries EXCEPT ![i] = e]
           ns == [u.names EXCEPT ![p][n] = i]
           ks == [u.kids EXCEPT ![p][i] = @ + 1]
           v  == Insert(t, i, e)
<1>1. p \in Inodes /\ n \in Names
  BY DEF Entry
<1>2. /\ u \in Tables /\ Indexed(u) /\ Shrinks(u, t)
      /\ u.names[p][n] \in {0, i} /\ u.entries[i] = t.entries[i]
  BY <1>1, EvictIndexed
<1>3. v = [entries |-> es, names |-> ns, kids |-> ks]
  BY DEF Insert
<1> HIDE DEF p, n, u, v
<1>4. /\ es \in [Inodes -> Entry \cup {None}]
      /\ ns \in [Inodes -> [Names -> Inodes \cup {0}]]
      /\ ks \in [Inodes -> [Inodes -> Nat]]
  <2>1. es \in [Inodes -> Entry \cup {None}]
    BY <1>2 DEF Tables
  <2>2. ns \in [Inodes -> [Names -> Inodes \cup {0}]]
    BY <1>1, <1>2 DEF Tables
  <2>3. ks \in [Inodes -> [Inodes -> Nat]]
    BY <1>1, <1>2 DEF Tables
  <2> QED
    BY <2>1, <2>2, <2>3
<1>5. v \in Tables
  <2> HIDE DEF es, ns, ks
  <2> QED BY <1>3, <1>4, TableRecord
<1>6. \A x \in Inodes : v.entries[x] = IF x = i THEN e ELSE u.entries[x]
  BY <1>2, <1>3 DEF Tables
<1>7. \A q \in Inodes, m \in Names :
         v.names[q][m] = IF q = p /\ m = n THEN i ELSE u.names[q][m]
  BY <1>1, <1>2, <1>3 DEF Tables
<1>8. \A q, c \in Inodes :
         v.kids[q][c] = IF q = p /\ c = i THEN u.kids[q][c] + 1 ELSE u.kids[q][c]
  BY <1>1, <1>2, <1>3 DEF Tables
<1> HIDE DEF es, ns, ks
<1>9. /\ e # None
      /\ u.entries[i] = None
      /\ \A x \in Inodes : u.entries[x] # None => u.entries[x].parent # i
  BY <1>2, NoneAssumption DEF Live, Shrinks
<1> USE DEF Live, Lookup
<1>10. Live(v, Root) /\ v.entries[Root].parent = Root
  BY <1>2, <1>6, BoundsAssumption DEF Indexed, Root, Inodes
<1>11. NamesSound(v)
  <2> SUFFICES ASSUME NEW q \in Inodes, NEW m \in Names, v.names[q][m] # 0
               PROVE  /\ v.names[q][m] # Root
                      /\ v.entries[v.names[q][m]] # None
                      /\ v.entries[v.names[q][m]].parent = q
                      /\ v.entries[v.names[q][m]].name = m
    BY DEF NamesSound
  <2>1. CASE q = p /\ m = n
    BY <2>1, <1>6, <1>7, <1>9 DEF p, n
  <2>2. CASE ~(q = p /\ m = n)
    <3>1. v.names[q][m] = u.names[q][m] /\ u.names[q][m] \in Inodes
      BY <2>2, <1>2, <1>7 DEF Tables
    <3>2. u.names[q][m] # i
      BY <3>1, <1>2, <1>9 DEF Indexed, NamesSound
    <3> QED
      BY <3>1, <3>2, <1>2, <1>6 DEF Indexed, NamesSound
  <2> QED
    BY <2>1, <2>2
<1>12. NamesComplete(v)
  <2> SUFFICES ASSUME NEW x \in Inodes \ {Root}, v.entries[x] # None
               PROVE  /\ v.entries[x].name \in Names
                      /\ v.names[v.entries[x].parent][v.entries[x].name] = x
    BY DEF NamesComplete
  <2>1. CASE x = i
    BY <2>1, <1>1, <1>6, <1>7 DEF p, n
  <2>2. CASE x # i
    <3>1. v.entries[x] = u.entries[x]
      BY <2>2, <1>6
    <3>2. /\ u.entries[x].name \in Names
          /\ u.names[u.entries[x].parent][u.entries[x].name] = x
          /\ u.entries[x].parent \in Inodes
      BY <3>1, <1>2 DEF Indexed, NamesComplete, Tables, Entry
    <3>3. ~(u.entries[x].parent = p /\ u.entries[x].name = n)
      BY <2>2, <3>2, <1>2 DEF Inodes
    <3> QED
      BY <3>1, <3>2, <3>3, <1>7
  <2> QED
    BY <2>1, <2>2
<1>13. \A q \in Inodes : u.kids[q][i] = 0
  BY <1>2, <1>9 DEF Indexed, KidsSound
<1>14. KidsSound(v)
  BY <1>1, <1>2, <1>6, <1>8, <1>9, <1>13 DEF Indexed, KidsSound, p
<1>15. KidsComplete(v)
  <2> SUFFICES ASSUME NEW c \in Inodes \ {Root}, v.entries[c] # None,
                      v.entries[v.entries[c].parent] # None
               PROVE  v.kids[v.entries[c].parent][c] = 1
    BY DEF KidsComplete
  <2>1. CASE c = i
    BY <2>1, <1>1, <1>6, <1>8, <1>13 DEF p
  <2>2. CASE c # i
    <3>1. v.entries[c] = u.entries[c] /\ u.entries[c].parent \in Inodes \ {i}
      BY <2>2, <1>2, <1>6, <1>9 DEF Tables, Entry
    <3> QED
      BY <2>2, <3>1, <1>2, <1>6, <1>8 DEF Indexed, KidsComplete
  <2> QED
    BY <2>1, <2>2
<1>16. Acyclic(v)
  <2> SUFFICES ASSUME NEW S \in SUBSET (Inodes \ {Root}),
                      \A x \in S : v.entries[x] # None /\ v.entries[x].parent \in S
               PROVE  S = {}
    BY DEF Acyclic
  <2> DEFINE R == S \ {i}
  <2>1. \A x \in R : v.entries[x] = u.entries[x] /\ u.entries[x] # None
    BY <1>6
  <2>2. \A x \in R : u.entries[x].parent \in R
    BY <2>1, <1>9
  <2>3. Acyclic(u)
    BY <1>2, ShrinkKeeps
  <2>4. R = {}
    <3> HIDE DEF R
    <3>1. R \in SUBSET (Inodes \ {Root})
      BY DEF R
    <3> QED
      BY <2>1, <2>2, <2>3, <3>1 DEF Acyclic
  <2>5. i \notin S
    BY <2>4, <1>6 DEF p
  <2> QED
    BY <2>4, <2>5
<1>17. \A x \in Inodes \ {i} : v.entries[x] \in {t.entries[x], None}
  BY <1>2, <1>6 DEF Shrinks
<1> QED
  BY <1>5, <1>6, <1>10, <1>11, <1>12, <1>14, <1>15, <1>16, <1>17 DEF Indexed, v

(* A rename keeps the indexes exact; it keeps the parents acyclic when     *)
(* some set closed under parents holds the new parent and not the inode.   *)
LEMMA RenameIndexed ==
  ASSUME NEW t \in Tables, NEW i \in Inodes \ {Root},
         NEW p \in Inodes, NEW n \in Names,
         Indexed(t), Acyclic(t), Live(t, i), i \notin Ancestors(t, p)
  PROVE  LET v == RenameTable(t, i, p, n) IN
         /\ v \in Tables
         /\ Indexed(v)
         /\ Acyclic(v)
         /\ \A x \in Inodes \ {i} : v.entries[x] \in {t.entries[x], None}
         /\ v.entries[i] \in Entry
         /\ v.entries[i].parent = p
         /\ v.entries[i].kind = t.entries[i].kind
<1> DEFINE u  == EvictName(t, p, n, i)
           e  == u.entries[i]
           f  == [e EXCEPT !.parent = p, !.name = n]
           es == [u.entries EXCEPT ![i] = f]
           ns == [[u.names EXCEPT ![e.parent][e.name] = 0] EXCEPT ![p][n] = i]
           k0 == [u.kids EXCEPT ![e.parent][i] = 0]
           ks == [k0 EXCEPT ![p][i] = @ + 1]
           v  == RenameTable(t, i, p, n)
<1>1. /\ u \in Tables /\ Indexed(u) /\ Shrinks(u, t)
      /\ u.names[p][n] \in {0, i} /\ e = t.entries[i]
  BY EvictIndexed
<1>2. v = [entries |-> es, names |-> ns, kids |-> ks]
  BY DEF RenameTable
<1> HIDE DEF u, v
<1>3. /\ e \in Entry /\ e # None /\ e.parent \in Inodes /\ e.name \in Names
      /\ u.names[e.parent][e.name] = i
  BY <1>1 DEF Tables, Entry, Live, Indexed, NamesComplete, Lookup
<1>4. f \in Entry /\ f.parent = p /\ f.name = n /\ f.kind = e.kind /\ f # None
  BY <1>3, NoneAssumption DEF Entry
<1> HIDE DEF e, f
<1>5. es \in [Inodes -> Entry \cup {None}]
  BY <1>1, <1>4 DEF Tables
<1>6. ns \in [Inodes -> [Names -> Inodes \cup {0}]]
  BY <1>1, <1>3 DEF Tables
<1>7. /\ ks \in [Inodes -> [Inodes -> Nat]]
      /\ \A q, c \in Inodes :
            ks[q][c] = IF c # i THEN u.kids[q][c]
                       ELSE (IF q = e.parent THEN 0 ELSE u.kids[q][i])
                            + (IF q = p THEN 1 ELSE 0)
  <2>1. /\ k0 \in [Inodes -> [Inodes -> Nat]]
        /\ \A q, c \in Inodes :
              k0[q][c] = IF q = e.parent /\ c = i THEN 0 ELSE u.kids[q][c]
    BY <1>1, <1>3 DEF Tables
  <2>2. u.kids \in [Inodes -> [Inodes -> Nat]]
    BY <1>1 DEF Tables
  <2> HIDE DEF k0
  <2>3. /\ ks \in [Inodes -> [Inodes -> Nat]]
        /\ \A q, c \in Inodes :
              ks[q][c] = IF q = p /\ c = i THEN k0[q][c] + 1 ELSE k0[q][c]
    BY <2>1
  <2> HIDE DEF ks
  <2> QED
    BY <2>1, <2>2, <2>3
<1>8. v \in Tables
  <2> HIDE DEF es, ns, ks
  <2> QED BY <1>2, <1>5, <1>6, <1>7, TableRecord
<1>9. \A x \in Inodes : v.entries[x] = IF x = i THEN f ELSE u.entries[x]
  BY <1>1, <1>2 DEF Tables
<1>10. \A q \in Inodes, m \in Names :
         v.names[q][m] = IF q = p /\ m = n THEN i
                         ELSE IF q = e.parent /\ m = e.name THEN 0
                         ELSE u.names[q][m]
  BY <1>1, <1>2, <1>3 DEF Tables
<1>11. \A q, c \in Inodes :
         v.kids[q][c] = IF c # i THEN u.kids[q][c]
                        ELSE (IF q = e.parent THEN 0 ELSE u.kids[q][i])
                             + (IF q = p THEN 1 ELSE 0)
  <2> HIDE DEF es, ns, ks
  <2> QED BY <1>2, <1>7
<1> HIDE DEF es, ns, ks
<1> USE DEF Live, Lookup
<1>12. \A q \in Inodes : q # e.parent => u.kids[q][i] = 0
  BY <1>1, <1>3 DEF Indexed, KidsSound, e
<1>13. \A q, c \in Inodes :
         v.kids[q][c] = IF c # i THEN u.kids[q][c] ELSE IF q = p THEN 1 ELSE 0
  BY <1>11, <1>12
<1>14. Live(v, Root) /\ v.entries[Root].parent = Root
  BY <1>1, <1>9, BoundsAssumption DEF Indexed, Root, Inodes
<1>15. NamesSound(v)
  <2> SUFFICES ASSUME NEW q \in Inodes, NEW m \in Names, v.names[q][m] # 0
               PROVE  /\ v.names[q][m] # Root
                      /\ v.entries[v.names[q][m]] # None
                      /\ v.entries[v.names[q][m]].parent = q
                      /\ v.entries[v.names[q][m]].name = m
    BY DEF NamesSound
  <2>1. CASE q = p /\ m = n
    BY <2>1, <1>4, <1>9, <1>10
  <2>2. CASE ~(q = p /\ m = n)
    <3>1. /\ v.names[q][m] = u.names[q][m] /\ u.names[q][m] \in Inodes
          /\ ~(q = e.parent /\ m = e.name)
      BY <2>2, <1>1, <1>10 DEF Tables
    <3>2. u.names[q][m] # i
      BY <3>1, <1>1 DEF Indexed, NamesSound, e
    <3> QED
      BY <3>1, <3>2, <1>1, <1>9 DEF Indexed, NamesSound
  <2> QED
    BY <2>1, <2>2
<1>16. NamesComplete(v)
  <2> SUFFICES ASSUME NEW x \in Inodes \ {Root}, v.entries[x] # None
               PROVE  /\ v.entries[x].name \in Names
                      /\ v.names[v.entries[x].parent][v.entries[x].name] = x
    BY DEF NamesComplete
  <2>1. CASE x = i
    BY <2>1, <1>4, <1>9, <1>10
  <2>2. CASE x # i
    <3>1. v.entries[x] = u.entries[x]
      BY <2>2, <1>9
    <3>2. /\ u.entries[x].name \in Names
          /\ u.names[u.entries[x].parent][u.entries[x].name] = x
          /\ u.entries[x].parent \in Inodes
      BY <3>1, <1>1 DEF Indexed, NamesComplete, Tables, Entry
    <3>3. /\ ~(u.entries[x].parent = p /\ u.entries[x].name = n)
          /\ ~(u.entries[x].parent = e.parent /\ u.entries[x].name = e.name)
      BY <2>2, <3>2, <1>1, <1>3 DEF Inodes
    <3> QED
      BY <3>1, <3>2, <3>3, <1>10
  <2> QED
    BY <2>1, <2>2
<1>17. KidsSound(v)
  BY <1>1, <1>4, <1>9, <1>13 DEF Indexed, KidsSound
<1>18. KidsComplete(v)
  <2> SUFFICES ASSUME NEW c \in Inodes \ {Root}, v.entries[c] # None,
                      v.entries[v.entries[c].parent] # None
               PROVE  v.kids[v.entries[c].parent][c] = 1
    BY DEF KidsComplete
  <2>1. CASE c = i
    BY <2>1, <1>4, <1>9, <1>13
  <2>2. CASE c # i
    <3>1. v.entries[c] = u.entries[c] /\ u.entries[c].parent \in Inodes
      BY <2>2, <1>1, <1>9 DEF Tables, Entry
    <3>2. u.entries[u.entries[c].parent] # None
      BY <3>1, <1>3, <1>9 DEF e
    <3> QED
      BY <2>2, <3>1, <3>2, <1>1, <1>13 DEF Indexed, KidsComplete
  <2> QED
    BY <2>1, <2>2
<1>19. Acyclic(v)
  <2> SUFFICES ASSUME NEW S \in SUBSET (Inodes \ {Root}),
                      \A x \in S : v.entries[x] # None /\ v.entries[x].parent \in S
               PROVE  S = {}
    BY DEF Acyclic
  <2>1. \A x \in S \ {i} : /\ v.entries[x] = t.entries[x] /\ t.entries[x] # None
                           /\ t.entries[x].parent \in S
    BY <1>1, <1>9 DEF Shrinks
  <2>2. CASE i \notin S
    BY <2>1, <2>2 DEF Acyclic
  <2>3. CASE i \in S
    <3>1. p \in S
      BY <2>3, <1>4, <1>9
    <3>2. PICK A \in SUBSET Inodes : p \in A /\ i \notin A /\ ParentClosed(t, A)
      BY DEF Ancestors
    <3> DEFINE R == S \cap A
    <3>3. \A x \in R : t.entries[x] # None /\ t.entries[x].parent \in R
      BY <2>1, <3>2 DEF ParentClosed
    <3>4. R \in SUBSET (Inodes \ {Root}) /\ R # {}
      BY <3>1, <3>2
    <3> HIDE DEF R
    <3> QED
      BY <3>3, <3>4 DEF Acyclic
  <2> QED
    BY <2>2, <2>3
<1>20. \A x \in Inodes \ {i} : v.entries[x] \in {t.entries[x], None}
  BY <1>1, <1>9 DEF Shrinks
<1>21. /\ v.entries[i] \in Entry /\ v.entries[i].parent = p
       /\ v.entries[i].kind = t.entries[i].kind
  BY <1>1, <1>4, <1>9 DEF e
<1> QED
  BY <1>8, <1>14, <1>15, <1>16, <1>17, <1>18, <1>19, <1>20, <1>21 DEF Indexed, v

(* Removing any set of entries but the root keeps the indexes exact. *)
LEMMA RemoveAllIndexed ==
  ASSUME NEW t \in Tables, NEW S \in SUBSET (Inodes \ {Root}), Indexed(t)
  PROVE  LET u == RemoveAll(t, S) IN
         u \in Tables /\ Indexed(u) /\ Shrinks(u, t)
<1> DEFINE u  == RemoveAll(t, S)
<1>1. u \in Tables
  BY DEF RemoveAll, Tables
<1>2. \A x \in Inodes : u.entries[x] = IF x \in S THEN None ELSE t.entries[x]
  BY DEF RemoveAll
<1>3. \A p \in Inodes, n \in Names : u.names[p][n] =
        IF \E i \in S : Live(t, i) /\ t.entries[i].parent = p /\ t.entries[i].name = n
        THEN 0 ELSE t.names[p][n]
  BY DEF RemoveAll
<1>4. \A p, c \in Inodes : u.kids[p][c] =
        IF p \in S \/ (c \in S /\ Live(t, c) /\ t.entries[c].parent = p)
        THEN 0 ELSE t.kids[p][c]
  BY DEF RemoveAll
<1> HIDE DEF u
<1> USE DEF Live, Lookup
<1>5. Live(u, Root) /\ u.entries[Root].parent = Root
  BY <1>2, BoundsAssumption DEF Indexed, Root, Inodes
<1>6. NamesSound(u)
  <2> SUFFICES ASSUME NEW p \in Inodes, NEW n \in Names, u.names[p][n] # 0
               PROVE  /\ u.names[p][n] # Root
                      /\ u.entries[u.names[p][n]] # None
                      /\ u.entries[u.names[p][n]].parent = p
                      /\ u.entries[u.names[p][n]].name = n
    BY DEF NamesSound
  <2>1. u.names[p][n] = t.names[p][n] /\ t.names[p][n] \in Inodes
    BY <1>3 DEF Tables
  <2>2. t.names[p][n] \notin S
    BY <1>3, <2>1 DEF Indexed, NamesSound
  <2> QED
    BY <1>2, <2>1, <2>2 DEF Indexed, NamesSound
<1>7. NamesComplete(u)
  <2> SUFFICES ASSUME NEW x \in Inodes \ {Root}, u.entries[x] # None
               PROVE  /\ u.entries[x].name \in Names
                      /\ u.names[u.entries[x].parent][u.entries[x].name] = x
    BY DEF NamesComplete
  <2>1. x \notin S /\ u.entries[x] = t.entries[x]
    BY <1>2
  <2>2. /\ t.entries[x].name \in Names
        /\ t.names[t.entries[x].parent][t.entries[x].name] = x
        /\ t.entries[x].parent \in Inodes
    BY <2>1 DEF Indexed, NamesComplete, Tables, Entry
  <2>3. ~ \E i \in S : /\ t.entries[i] # None
                        /\ t.entries[i].parent = t.entries[x].parent
                        /\ t.entries[i].name = t.entries[x].name
    BY <2>1, <2>2 DEF Indexed, NamesComplete
  <2> QED
    BY <1>3, <2>1, <2>2, <2>3
<1>8. KidsSound(u)
  BY <1>2, <1>4 DEF Indexed, KidsSound
<1>9. KidsComplete(u)
  <2> SUFFICES ASSUME NEW c \in Inodes \ {Root}, u.entries[c] # None,
                      u.entries[u.entries[c].parent] # None
               PROVE  u.kids[u.entries[c].parent][c] = 1
    BY DEF KidsComplete
  <2>1. c \notin S /\ u.entries[c] = t.entries[c] /\ t.entries[c].parent \in Inodes
    BY <1>2 DEF Tables, Entry
  <2>2. t.entries[c].parent \notin S
    BY <1>2, <2>1
  <2> QED
    BY <1>2, <1>4, <2>1, <2>2 DEF Indexed, KidsComplete
<1>10. Shrinks(u, t)
  BY <1>2 DEF Shrinks
<1> QED
  BY <1>1, <1>5, <1>6, <1>7, <1>8, <1>9, <1>10 DEF Indexed, u

(* Rewriting the kind, handle or generation of entries disturbs no index. *)
LEMMA SameShape ==
  ASSUME NEW t \in Tables, NEW es \in [Inodes -> Entry \cup {None}], NEW nx,
         Indexed(t), Acyclic(t), Numbered(t, nx),
         \A x \in Inodes : /\ es[x] = None <=> t.entries[x] = None
                           /\ es[x] # None => /\ es[x].parent = t.entries[x].parent
                                              /\ es[x].name = t.entries[x].name
  PROVE  LET u == [t EXCEPT !.entries = es] IN
         u \in Tables /\ Indexed(u) /\ Acyclic(u) /\ Numbered(u, nx)
<1> DEFINE u == [t EXCEPT !.entries = es]
<1>1. u \in Tables /\ u.entries = es /\ u.names = t.names /\ u.kids = t.kids
  BY DEF Tables
<1> HIDE DEF u
<1> USE DEF Live, Lookup
<1>0. \A x \in Inodes : t.entries[x] # None => t.entries[x].parent \in Inodes
  BY DEF Tables, Entry
<1>2. Live(u, Root) /\ u.entries[Root].parent = Root
  BY <1>1, BoundsAssumption DEF Indexed, Root, Inodes
<1>3. NamesSound(u)
  <2>1. \A p \in Inodes, n \in Names : t.names[p][n] \in Inodes \cup {0}
    BY DEF Tables
  <2> QED
    BY <1>1, <2>1 DEF Indexed, NamesSound
<1>4. NamesComplete(u)
  BY <1>1 DEF Indexed, NamesComplete
<1>5. KidsSound(u)
  BY <1>1 DEF Indexed, KidsSound
<1>6. KidsComplete(u)
  BY <1>0, <1>1 DEF Indexed, KidsComplete
<1>7. Acyclic(u)
  BY <1>1 DEF Acyclic
<1>8. Numbered(u, nx)
  BY <1>1 DEF Numbered
<1> QED
  BY <1>1, <1>2, <1>3, <1>4, <1>5, <1>6, <1>7, <1>8 DEF Indexed, u

(* Inserting under the number `next` advances the whole invariant. *)
LEMMA InsertNext ==
  ASSUME NEW t \in Tables, NEW nx \in Nat, NEW e \in Entry,
         Indexed(t), Acyclic(t), Numbered(t, nx),
         nx >= 2, nx <= MaxInode, e.name \in Names, e.parent < nx
  PROVE  LET v == Insert(t, nx, e) IN
         v \in Tables /\ Indexed(v) /\ Acyclic(v) /\ Numbered(v, nx + 1)
<1> DEFINE v == Insert(t, nx, e)
<1>1. nx \in Inodes \ {Root} /\ Inodes \subseteq Nat /\ e.parent \in Inodes
  BY BoundsAssumption DEF Inodes, Root, Entry
<1>2. /\ ~Live(t, nx)
      /\ \A x \in Inodes : Live(t, x) => t.entries[x].parent # nx
      /\ e.parent # nx
  BY <1>1 DEF Numbered
<1>3. /\ v \in Tables /\ Indexed(v) /\ Acyclic(v)
      /\ \A x \in Inodes \ {nx} : v.entries[x] \in {t.entries[x], None}
      /\ v.entries[nx] = e
  BY <1>1, <1>2, InsertIndexed
<1> HIDE DEF v
<1>4. Numbered(v, nx + 1)
  <2> SUFFICES ASSUME NEW x \in Inodes, Live(v, x)
               PROVE  x < nx + 1 /\ v.entries[x].parent < nx + 1
    BY DEF Numbered
  <2>0. x \in Nat /\ e.parent \in Nat
    BY <1>1
  <2>1. CASE x = nx
    BY <2>0, <2>1, <1>3
  <2>2. CASE x # nx
    <3>1. Live(t, x) /\ v.entries[x] = t.entries[x] /\ t.entries[x].parent \in Inodes
      BY <2>2, <1>3 DEF Live, Tables, Entry
    <3>2. x < nx /\ t.entries[x].parent < nx /\ t.entries[x].parent \in Nat
      BY <3>1, <1>1 DEF Numbered
    <3> QED
      BY <2>0, <3>1, <3>2
  <2> QED
    BY <2>1, <2>2
<1> QED
  BY <1>3, <1>4 DEF v
-----------------------------------------------------------------------------
(* A new table satisfies the invariant. *)
LEMMA InitIInv == Init => IInv
<1> SUFFICES ASSUME Init PROVE IInv
  OBVIOUS
<1>1. Root \in Inodes
  BY BoundsAssumption DEF Root, Inodes
<1>2. NewEntry(Root, None, "root", None, 0) \in Entry
  BY <1>1 DEF NewEntry, Entry, Kinds
<1>3. /\ \A x \in Inodes : table.entries[x] =
            IF x = Root THEN NewEntry(Root, None, "root", None, 0) ELSE None
      /\ \A p \in Inodes, n \in Names : table.names[p][n] = 0
      /\ \A p, c \in Inodes : table.kids[p][c] = 0
      /\ next = 2
  BY DEF Init, FirstInode
<1>4. TypeOK
  BY <1>2 DEF Init, FirstInode, TypeOK, Tables
<1>5. NewEntry(Root, None, "root", None, 0) # None
      /\ NewEntry(Root, None, "root", None, 0).parent = Root
  BY <1>2, NoneAssumption DEF NewEntry
<1>6. Indexed(table)
  BY <1>1, <1>3, <1>5 DEF Indexed, Live, Lookup, NamesSound, NamesComplete,
                          KidsSound, KidsComplete
<1>7. Acyclic(table)
  BY <1>3 DEF Acyclic, Live
<1>8. Numbered(table, next)
  BY <1>3, <1>5 DEF Numbered, Live, Root
<1>9. sync = None
  BY DEF Init
<1> QED
  BY <1>4, <1>6, <1>7, <1>8, <1>9 DEF IInv

(* Every step of the table preserves the invariant. *)
LEMMA NextIInv == IInv /\ [Next]_vars => IInv'
<1> SUFFICES ASSUME IInv, [Next]_vars PROVE IInv'
  OBVIOUS
<1>0. /\ table \in Tables /\ next \in Nat /\ next >= 2 /\ generation \in Nat
      /\ sync \in [dir : Inodes, listing : Seq(Child), todo : Seq(Child)] \cup {None}
      /\ Indexed(table) /\ Acyclic(table) /\ Numbered(table, next)
      /\ sync # None => sync.dir < next
  BY DEF IInv, TypeOK
<1>a. Inodes \subseteq Nat /\ Root \in Inodes /\ 0 \notin Inodes /\ Root = 1
  BY BoundsAssumption DEF Inodes, Root
<1>b. ASSUME NEW es \in [Inodes -> Entry \cup {None}],
             table' = [table EXCEPT !.entries = es], next' = next,
             generation' \in Nat, sync' = sync,
             \A x \in Inodes : /\ es[x] = None <=> table.entries[x] = None
                               /\ es[x] # None =>
                                     /\ es[x].parent = table.entries[x].parent
                                     /\ es[x].name = table.entries[x].name
      PROVE  IInv'
  <2>1. LET u == [table EXCEPT !.entries = es] IN
        u \in Tables /\ Indexed(u) /\ Acyclic(u) /\ Numbered(u, next)
    BY <1>0, <1>b, SameShape
  <2>2. table' \in Tables /\ Indexed(table') /\ Acyclic(table') /\ Numbered(table', next)
    BY <2>1, <1>b, Zenon
  <2> QED
    BY <2>2, <1>0, <1>b DEF IInv, TypeOK
<1>c. ASSUME Shrinks(table', table), table' \in Tables, Indexed(table'),
             next' = next, generation' = generation,
             sync' \in [dir : Inodes, listing : Seq(Child), todo : Seq(Child)] \cup {None},
             sync' # None => sync'.dir < next
      PROVE  IInv'
  BY <1>0, <1>c, ShrinkKeeps DEF IInv, TypeOK
<1>d. ASSUME NEW p \in Inodes, NEW n \in Names, NEW k \in Kinds, NEW h \in Handles,
             NEW t \in Tables, Indexed(t), Acyclic(t), Numbered(t, next), p < next,
             Alloc, table' = Insert(t, next, NewEntry(p, n, k, h, generation)),
             generation' = generation,
             sync' \in [dir : Inodes, listing : Seq(Child), todo : Seq(Child)] \cup {None},
             sync' # None => sync'.dir < next
      PROVE  IInv'
  <2> DEFINE e == NewEntry(p, n, k, h, generation)
  <2>1. e \in Entry /\ e.name \in Names /\ e.parent = p
    BY <1>0 DEF NewEntry, Entry
  <2> HIDE DEF e
  <2>2. next <= MaxInode /\ next' = next + 1
    BY <1>d DEF Alloc
  <2>3. /\ table' \in Tables /\ Indexed(table') /\ Acyclic(table')
        /\ Numbered(table', next + 1)
    BY <2>1, <2>2, <1>0, <1>d, InsertNext DEF e
  <2> QED
    <3>1. sync' # None => sync'.dir < next'
      <4> SUFFICES ASSUME sync' # None PROVE sync'.dir < next'
        OBVIOUS
      <4>1. sync'.dir \in Nat /\ sync'.dir < next
        BY <1>a, <1>d
      <4> QED
        BY <4>1, <2>2, <1>0
    <3> QED
      BY <2>2, <2>3, <3>1, <1>0, <1>d DEF IInv, TypeOK
<1>1. ASSUME NEW n \in Names, NEW h \in Handles, AddStorage(n, h) PROVE IInv'
  BY <1>0, <1>1, <1>a, <1>d DEF AddStorage, Kinds
<1>2. CASE AddObject
  <2>1. PICK p \in Folders(table), n \in Names, k \in {"dir", "file"}, h \in Handles :
          table' = Insert(table, next, NewEntry(p, n, k, h, generation))
    BY <1>2 DEF AddObject
  <2>2. p \in Inodes /\ p < next
    BY <1>0 DEF Folders, Numbered
  <2>3. k \in Kinds
    BY DEF Kinds
  <2> QED
    BY <1>0, <1>2, <1>d, <2>1, <2>2, <2>3 DEF AddObject
<1>3. ASSUME NEW p \in Inodes, NEW n \in Names, RemoveObject(p, n) PROVE IInv'
  <2> DEFINE i == Lookup(table, p, n)
  <2>1. i \in Inodes \ {Root} /\ Live(table, i)
    BY <1>0, <1>3 DEF RemoveObject, Indexed, NamesSound, Tables, Lookup
  <2>2. table.entries[i].name \in Names
    BY <1>0, <2>1 DEF Indexed, NamesComplete
  <2>3. table' = Remove(table, i)
    BY <1>3 DEF RemoveObject
  <2> HIDE DEF i
  <2>4. table' \in Tables /\ Indexed(table')
    BY <1>0, <2>1, <2>3, RemoveIndexed
  <2>5. Shrinks(table', table)
    BY <1>0, <2>1, <2>2, <2>3, RemoveFacts DEF Shrinks
  <2> QED
    BY <1>0, <1>3, <1>c, <2>4, <2>5 DEF RemoveObject
<1>4. ASSUME NEW p \in Inodes, NEW p2 \in Inodes, NEW n \in Names, NEW n2 \in Names,
             Rename(p, n, p2, n2)
      PROVE  IInv'
  <2> DEFINE i == Lookup(table, p, n)
  <2>1. i \in Inodes \ {Root} /\ Live(table, i) /\ table.entries[i].parent = p
    BY <1>0, <1>4 DEF Rename, Indexed, NamesSound, Tables, Lookup
  <2>2. table' = RenameTable(table, i, p2, n2) /\ i \notin Ancestors(table, p2)
    BY <1>4 DEF Rename, KernelAllowsRename
  <2>3. p2 < next
    BY <1>0, <1>4, <2>1 DEF Rename, Numbered
  <2> HIDE DEF i
  <2>4. /\ table' \in Tables /\ Indexed(table') /\ Acyclic(table')
        /\ \A x \in Inodes \ {i} : table'.entries[x] \in {table.entries[x], None}
        /\ table'.entries[i].parent = p2
    BY <1>0, <2>1, <2>2, RenameIndexed
  <2>5. i < next
    BY <1>0, <2>1 DEF Numbered
  <2>6. Numbered(table', next)
    <3> SUFFICES ASSUME NEW x \in Inodes, Live(table', x)
                 PROVE  x < next /\ table'.entries[x].parent < next
      BY DEF Numbered
    <3>1. CASE x = i
      BY <3>1, <2>3, <2>4, <2>5
    <3>2. CASE x # i
      BY <3>2, <1>0, <2>4 DEF Numbered, Live
    <3> QED
      BY <3>1, <3>2
  <2> QED
    BY <1>0, <1>4, <2>4, <2>6 DEF Rename, IInv, TypeOK
<1>5. ASSUME NEW i \in Inodes, NEW h \in Handles, SetHandle(i, h) PROVE IInv'
  <2> DEFINE e  == table.entries[i]
             f  == [e EXCEPT !.handle = h, !.gen = generation]
             es == [table.entries EXCEPT ![i] = f]
  <2>1. e \in Entry /\ e # None
    BY <1>0, <1>5 DEF SetHandle, Live, Tables
  <2>2. f \in Entry /\ f.parent = e.parent /\ f.name = e.name /\ f # None
    BY <1>0, <2>1, NoneAssumption DEF Entry
  <2>3. table' = [table EXCEPT !.entries = es]
    BY <1>0, <1>5 DEF SetHandle, Tables
  <2> HIDE DEF f
  <2>4. /\ es \in [Inodes -> Entry \cup {None}]
        /\ \A x \in Inodes : es[x] = IF x = i THEN f ELSE table.entries[x]
    BY <1>0, <2>2 DEF Tables
  <2> HIDE DEF es
  <2> QED
    BY <1>0, <1>5, <1>b, <2>1, <2>2, <2>3, <2>4 DEF SetHandle
<1>6. ASSUME NEW i \in Inodes, NEW h \in Handles, FlushHandle(i, h) PROVE IInv'
  <2> DEFINE e  == table.entries[i]
             f  == [e EXCEPT !.handle = h]
             es == [table.entries EXCEPT ![i] = f]
  <2>1. e \in Entry /\ e # None
    BY <1>0, <1>6 DEF FlushHandle, IsFresh, Live, Tables
  <2>2. f \in Entry /\ f.parent = e.parent /\ f.name = e.name /\ f # None
    BY <1>0, <2>1, NoneAssumption DEF Entry
  <2>3. table' = [table EXCEPT !.entries = es]
    BY <1>0, <1>6 DEF FlushHandle, Tables
  <2> HIDE DEF f
  <2>4. /\ es \in [Inodes -> Entry \cup {None}]
        /\ \A x \in Inodes : es[x] = IF x = i THEN f ELSE table.entries[x]
    BY <1>0, <2>2 DEF Tables
  <2> HIDE DEF es
  <2> QED
    BY <1>0, <1>6, <1>b, <2>1, <2>2, <2>3, <2>4 DEF FlushHandle
<1>7. ASSUME NEW f \in [Children(table, Root) -> Handles], BumpGeneration(f) PROVE IInv'
  <2> DEFINE M(x) == /\ x \in Children(table, Root)
                     /\ Live(table, x)
                     /\ table.entries[x].kind = "storage"
             es == [x \in Inodes |-> IF M(x)
                       THEN [table.entries[x] EXCEPT !.handle = f[x]]
                       ELSE table.entries[x]]
  <2>1. table' = [table EXCEPT !.entries = es]
    BY <1>7 DEF BumpGeneration
  <2>2. \A x \in Inodes : M(x) =>
           LET g == [table.entries[x] EXCEPT !.handle = f[x]] IN
           /\ g \in Entry /\ g # None
           /\ g.parent = table.entries[x].parent /\ g.name = table.entries[x].name
    <3> SUFFICES ASSUME NEW x \in Inodes, M(x)
                 PROVE  LET g == [table.entries[x] EXCEPT !.handle = f[x]] IN
                        /\ g \in Entry /\ g # None
                        /\ g.parent = table.entries[x].parent
                        /\ g.name = table.entries[x].name
      OBVIOUS
    <3>1. table.entries[x] \in Entry /\ f[x] \in Handles
      BY <1>0 DEF Live, Tables
    <3> QED
      BY <3>1, NoneAssumption DEF Entry
  <2>3. /\ es \in [Inodes -> Entry \cup {None}]
        /\ \A x \in Inodes :
              /\ es[x] = None <=> table.entries[x] = None
              /\ es[x] # None => /\ es[x].parent = table.entries[x].parent
                                 /\ es[x].name = table.entries[x].name
    <3>1. \A x \in Inodes : table.entries[x] \in Entry \cup {None}
      BY <1>0 DEF Tables
    <3>2. \A x \in Inodes : M(x) => table.entries[x] # None
      BY DEF Live
    <3> HIDE DEF M
    <3> QED
      BY <2>2, <3>1, <3>2
  <2>4. next' = next /\ generation' \in Nat /\ sync' = sync
    BY <1>0, <1>7 DEF BumpGeneration
  <2> HIDE DEF es, M
  <2>5. LET u == [table EXCEPT !.entries = es] IN
        u \in Tables /\ Indexed(u) /\ Acyclic(u) /\ Numbered(u, next)
    BY <1>0, <2>3, SameShape
  <2>6. table' \in Tables /\ Indexed(table') /\ Acyclic(table') /\ Numbered(table', next)
    BY <2>1, <2>5, Zenon
  <2> QED
    BY <1>0, <2>4, <2>6 DEF IInv, TypeOK
<1>8. CASE SyncBegin
  <2>1. PICK p \in Folders(table), l \in Listings :
          sync' = [dir |-> p, listing |-> l, todo |-> l]
    BY <1>8 DEF SyncBegin
  <2>2. l \in Seq(Child)
    BY BoundsAssumption DEF Listings
  <2>3. p \in Inodes /\ p < next
    BY <1>0 DEF Folders, Numbered
  <2> QED
    BY <1>0, <1>8, <2>1, <2>2, <2>3 DEF SyncBegin, IInv, TypeOK
<1>9. CASE SyncChild
  <2> DEFINE d   == sync.dir
             c   == Head(sync.todo)
             ino == Lookup(table, d, c.name)
  <2>1. /\ sync \in [dir : Inodes, listing : Seq(Child), todo : Seq(Child)]
        /\ sync.todo # <<>>
    BY <1>0, <1>9 DEF SyncChild
  <2>2. /\ d \in Inodes /\ c \in Child
        /\ sync' \in [dir : Inodes, listing : Seq(Child), todo : Seq(Child)]
    <3>1. sync.todo \in Seq(Child) /\ sync.listing \in Seq(Child) /\ d \in Inodes
      BY <2>1
    <3>2. c \in Child /\ Tail(sync.todo) \in Seq(Child)
      BY <2>1, <3>1
    <3>3. sync' = [sync EXCEPT !.todo = Tail(sync.todo)]
      BY <1>9 DEF SyncChild
    <3> QED
      BY <2>1, <3>1, <3>2, <3>3
  <2>2a. sync'.dir = d
    BY <2>1, <1>9 DEF SyncChild
  <2>3. c.name \in Names /\ c.kind \in {"dir", "file"} /\ c.handle \in Handles
    BY <2>2 DEF Child
  <2>4. ino \in Inodes \cup {0}
    BY <1>0, <2>2, <2>3 DEF Lookup, Tables
  <2>5. ino # 0 => ino # Root /\ Live(table, ino) /\ table.entries[ino].parent = d
    BY <1>0, <2>2, <2>3 DEF Indexed, NamesSound
  <2>6. \/ /\ SameObject(table, ino, c)
           /\ table' = Patch(table, ino, c, generation)
           /\ next' = next
        \/ /\ Alloc
           /\ table' = Insert(IF ino # 0 THEN Remove(table, ino) ELSE table, next,
                              NewEntry(d, c.name, c.kind, c.handle, generation))
    BY <1>9 DEF SyncChild
  <2>7. generation' = generation
    BY <1>9 DEF SyncChild
  <2>8. d < next
    BY <1>0, <2>1, NoneAssumption
  <2> HIDE DEF d, c, ino
  <2>9. CASE SameObject(table, ino, c) /\ table' = Patch(table, ino, c, generation)
             /\ next' = next
    <3> DEFINE e  == table.entries[ino]
               f  == [e EXCEPT !.kind = c.kind, !.handle = c.handle, !.gen = generation]
               es == [table.entries EXCEPT ![ino] = f]
    <3>1. ino \in Inodes /\ e \in Entry
      BY <2>4, <2>5, <2>9, <1>0 DEF SameObject, Live, Tables
    <3>2. f \in Entry /\ f.parent = e.parent /\ f.name = e.name /\ f # None /\ e # None
      BY <1>0, <2>3, <3>1, NoneAssumption DEF Entry, Kinds
    <3>3. table' = [table EXCEPT !.entries = es]
      BY <1>0, <2>9 DEF Patch, Tables
    <3> HIDE DEF f
    <3>4. /\ es \in [Inodes -> Entry \cup {None}]
          /\ \A x \in Inodes : es[x] = IF x = ino THEN f ELSE table.entries[x]
      BY <1>0, <3>1, <3>2 DEF Tables
    <3> HIDE DEF es
    <3>5. LET u == [table EXCEPT !.entries = es] IN
          u \in Tables /\ Indexed(u) /\ Acyclic(u) /\ Numbered(u, next)
      BY <1>0, <3>2, <3>4, SameShape
    <3>6. table' \in Tables /\ Indexed(table') /\ Acyclic(table') /\ Numbered(table', next)
      BY <3>3, <3>5, Zenon
    <3> QED
      BY <1>0, <2>2, <2>2a, <2>7, <2>8, <2>9, <3>6 DEF IInv, TypeOK
  <2>10. CASE /\ Alloc
              /\ table' = Insert(IF ino # 0 THEN Remove(table, ino) ELSE table, next,
                              NewEntry(d, c.name, c.kind, c.handle, generation))
    <3> DEFINE t == IF ino # 0 THEN Remove(table, ino) ELSE table
    <3>1. /\ t \in Tables /\ Indexed(t) /\ Shrinks(t, table)
      <4>1. CASE ino = 0
        BY <1>0, <4>1 DEF Shrinks
      <4>2. CASE ino # 0
        <5>1. ino \in Inodes \ {Root} /\ Live(table, ino)
          BY <2>4, <2>5, <4>2
        <5>2. table.entries[ino].name \in Names
          BY <1>0, <5>1 DEF Indexed, NamesComplete
        <5>3. Remove(table, ino) \in Tables /\ Indexed(Remove(table, ino))
          BY <1>0, <5>1, RemoveIndexed
        <5>4. Shrinks(Remove(table, ino), table)
          BY <1>0, <5>1, <5>2, RemoveFacts DEF Shrinks
        <5> QED
          BY <4>2, <5>3, <5>4
      <4> QED
        BY <4>1, <4>2
    <3> HIDE DEF t
    <3>2. Acyclic(t) /\ Numbered(t, next)
      BY <1>0, <3>1, ShrinkKeeps
    <3>3. c.kind \in Kinds
      BY <2>3 DEF Kinds
    <3>4. table' = Insert(t, next, NewEntry(d, c.name, c.kind, c.handle, generation))
      BY <2>10 DEF t
    <3> QED
      BY <1>d, <2>2, <2>2a, <2>3, <2>7, <2>8, <2>10, <3>1, <3>2, <3>3, <3>4
  <2> QED
    BY <2>6, <2>9, <2>10
<1>10. CASE SyncPrune
  <2>1. sync \in [dir : Inodes, listing : Seq(Child), todo : Seq(Child)]
    BY <1>0, <1>10 DEF SyncPrune
  <2>2. Gone(table, sync.dir, sync.listing) \in SUBSET (Inodes \ {Root})
    BY <1>0, <2>1 DEF Gone, Children, Indexed, KidsSound, Tables
  <2>3. table' \in Tables /\ Indexed(table') /\ Shrinks(table', table)
    BY <1>0, <1>10, <2>2, RemoveAllIndexed DEF SyncPrune
  <2> QED
    BY <1>10, <1>c, <2>3 DEF SyncPrune
<1>11. CASE UNCHANGED vars
  BY <1>0, <1>11 DEF vars, IInv, TypeOK
<1> QED
  BY <1>1, <1>2, <1>3, <1>4, <1>5, <1>6, <1>7, <1>8, <1>9, <1>10, <1>11 DEF Next

(* The type invariant of the inode table holds for every instance. *)
THEOREM TypeCorrect == Spec => []TypeOK
<1>1. IInv => TypeOK
  BY DEF IInv
<1> QED
  BY <1>1, InitIInv, NextIInv, PTL DEF Spec

(* The name index is exact in every reachable table: FUSE lookup never     *)
(* meets a dangling name and every live entry can be found.                *)
THEOREM NameIndexCorrect == Spec => []NameIndexExact
<1>1. IInv => NameIndexExact
  BY DEF IInv, Indexed, NameIndexExact
<1> QED
  BY <1>1, InitIInv, NextIInv, PTL DEF Spec

(* readdir shows every child of a live directory once and nothing else. *)
THEOREM ChildrenCorrect == Spec => []ChildrenExact
<1>1. IInv => ChildrenExact
  BY DEF IInv, Indexed, ChildrenExact
<1> QED
  BY <1>1, InitIInv, NextIInv, PTL DEF Spec

(* The walks up the tree in find_storage_index and ensure_fresh end. *)
THEOREM WalkTerminates == Spec => []ParentWalkTerminates
<1>1. IInv => ParentWalkTerminates
  BY DEF IInv, ParentWalkTerminates
<1> QED
  BY <1>1, InitIInv, NextIInv, PTL DEF Spec
-----------------------------------------------------------------------------
(* Just the root and the storages have the root for a parent. *)
Ranked(t) ==
  /\ t.entries[Root].kind = "root"
  /\ \A x \in Inodes : Live(t, x) =>
       (t.entries[x].kind \in {"root", "storage"} <=> t.entries[x].parent = Root)

(* Entry x of table t, in directory p, is what child c of a listing says,  *)
(* found out in generation g.                                              *)
Shows(t, p, g, x, c) ==
  /\ Live(t, x) /\ x # Root
  /\ t.entries[x].parent = p
  /\ t.entries[x].name = c.name
  /\ t.entries[x].kind = c.kind
  /\ t.entries[x].handle = c.handle
  /\ t.entries[x].gen = g

(* Child k of listing l is the last of its first j to have name n. *)
LastNamed(l, j, n, k) ==
  /\ l[k].name = n
  /\ \A m \in k + 1 .. j : l[m].name # n

(* The first j children of the listing have been applied: the last of a    *)
(* name is shown, and the others are still to do.                          *)
Applied(j) ==
  /\ Len(sync.listing) = j + Len(sync.todo)
  /\ \A m \in 1 .. Len(sync.todo) : sync.todo[m] = sync.listing[j + m]
  /\ \A n \in Names :
       (\E k \in 1 .. j : sync.listing[k].name = n) =>
         \E k \in 1 .. j, x \in Inodes :
           /\ LastNamed(sync.listing, j, n, k)
           /\ Shows(table, sync.dir, generation, x, sync.listing[k])

(* A running sync_children call has a live directory other than the root,  *)
(* and has dealt with part of its listing.                                 *)
Syncing ==
  sync # None => /\ sync.dir # Root
                 /\ Live(table, sync.dir)
                 /\ \E j \in 0 .. Len(sync.listing) : Applied(j)

(* The inductive invariant of the listings. *)
SInv == IInv /\ Ranked(table) /\ Syncing

(* A rename or an insertion evicts the holder of the name and nothing else. *)
LEMMA EvictEntries ==
  ASSUME NEW t \in Tables, NEW p \in Inodes, NEW n \in Names, NEW keep \in Inodes,
         Indexed(t)
  PROVE  \A x \in Inodes : EvictName(t, p, n, keep).entries[x] =
           IF x = Lookup(t, p, n) /\ x # keep THEN None ELSE t.entries[x]
<1> DEFINE i == Lookup(t, p, n)
<1>1. i \in Inodes \cup {0}
  BY DEF Lookup, Tables
<1>2. CASE i \in {0, keep}
  <2>1. 0 \notin Inodes
    BY DEF Inodes
  <2>2. EvictName(t, p, n, keep) = t
    BY <1>2 DEF EvictName
  <2> QED
    BY <1>2, <2>1, <2>2
<1>3. CASE i \notin {0, keep}
  <2>1. i \in Inodes \ {Root} /\ Live(t, i)
    BY <1>1, <1>3 DEF Indexed, NamesSound
  <2>2. t.entries[i].name \in Names
    BY <2>1 DEF Indexed, NamesComplete
  <2>3. EvictName(t, p, n, keep) = Remove(t, i)
    BY <1>3 DEF EvictName
  <2> QED
    BY <1>3, <2>1, <2>2, <2>3, RemoveFacts
<1> QED
  BY <1>2, <1>3

LEMMA InsertEntries ==
  ASSUME NEW t \in Tables, NEW i \in Inodes, NEW e \in Entry, Indexed(t),
         e.name \in Names
  PROVE  \A x \in Inodes : Insert(t, i, e).entries[x] =
           IF x = i THEN e
           ELSE IF x = Lookup(t, e.parent, e.name) THEN None ELSE t.entries[x]
<1> DEFINE u == EvictName(t, e.parent, e.name, i)
<1>1. e.parent \in Inodes
  BY DEF Entry
<1>2. \A x \in Inodes : u.entries[x] =
        IF x = Lookup(t, e.parent, e.name) /\ x # i THEN None ELSE t.entries[x]
  BY <1>1, EvictEntries
<1>3. u \in Tables
  BY <1>1, EvictIndexed
<1>4. Insert(t, i, e).entries = [u.entries EXCEPT ![i] = e]
  BY DEF Insert
<1>5. u.entries \in [Inodes -> Entry \cup {None}]
  BY <1>3 DEF Tables
<1> HIDE DEF u
<1> QED
  BY <1>2, <1>4, <1>5
-----------------------------------------------------------------------------
(* The entry at x was there before, of the same kind and rank. *)
Carried(x) ==
  /\ x < next
  /\ Live(table, x)
  /\ table'.entries[x].kind = table.entries[x].kind
  /\ table'.entries[x].parent = Root <=> table.entries[x].parent = Root

(* The entry at x is new: it has the number that was next. *)
Allocated(x) ==
  /\ x = next
  /\ table'.entries[x].kind # "root"
  /\ table'.entries[x].kind = "storage" <=> table'.entries[x].parent = Root

(* A step carries the entries over, drops some and allocates at most one. *)
LEMMA StepCarries ==
  ASSUME IInv, Ranked(table), Syncing, [Next]_vars
  PROVE  \A x \in Inodes : Live(table', x) => Carried(x) \/ Allocated(x)
<1> USE NoneAssumption
<1>0. /\ table \in Tables /\ next \in Nat /\ next >= 2 /\ generation \in Nat
      /\ sync \in [dir : Inodes, listing : Seq(Child), todo : Seq(Child)] \cup {None}
      /\ Indexed(table) /\ Acyclic(table) /\ Numbered(table, next)
      /\ sync # None => sync.dir < next
  BY DEF IInv, TypeOK
<1>a. Inodes \subseteq Nat /\ Root \in Inodes /\ 0 \notin Inodes /\ Root = 1
  BY BoundsAssumption DEF Inodes, Root
<1>b. \A x \in Inodes : Live(table, x) => x < next
  BY <1>0 DEF Numbered
<1>c. ASSUME \A x \in Inodes : Live(table', x) => table'.entries[x] = table.entries[x]
      PROVE  \A x \in Inodes : Live(table', x) => Carried(x)
  BY <1>b, <1>c DEF Carried, Live
<1>d. ASSUME NEW p \in Inodes, NEW n \in Names, NEW k \in {"storage", "dir", "file"},
             NEW h \in Handles, NEW t \in Tables, Indexed(t), Shrinks(t, table), Alloc,
             table' = Insert(t, next, NewEntry(p, n, k, h, generation)),
             k = "storage" <=> p = Root
      PROVE  \A x \in Inodes : Live(table', x) => Carried(x) \/ Allocated(x)
  <2> DEFINE e == NewEntry(p, n, k, h, generation)
  <2>1. e \in Entry /\ e.name = n /\ e.parent = p /\ e.kind = k
    BY <1>0 DEF NewEntry, Entry, Kinds
  <2>2. next \in Inodes
    BY <1>0, <1>d DEF Alloc, Inodes
  <2> HIDE DEF e
  <2>3. \A x \in Inodes : table'.entries[x] =
          IF x = next THEN e
          ELSE IF x = Lookup(t, e.parent, e.name) THEN None ELSE t.entries[x]
    BY <1>d, <2>1, <2>2, InsertEntries DEF e
  <2> SUFFICES ASSUME NEW x \in Inodes, Live(table', x)
               PROVE  Carried(x) \/ Allocated(x)
    OBVIOUS
  <2>4. CASE x = next
    BY <1>d, <2>1, <2>2, <2>3, <2>4 DEF Allocated
  <2>5. CASE x # next
    <3>1. table'.entries[x] = t.entries[x] /\ Live(t, x)
      BY <2>3, <2>5 DEF Live
    <3>2. t.entries[x] = table.entries[x] /\ Live(table, x)
      BY <1>d, <3>1 DEF Shrinks, Live
    <3> QED
      BY <1>b, <3>1, <3>2 DEF Carried
  <2> QED
    BY <2>4, <2>5
<1>e. Shrinks(table, table)
  BY DEF Shrinks
<1>f. \A p \in Folders(table) : p \in Inodes /\ p # Root
  BY DEF Folders, Ranked
<1>1. ASSUME NEW n \in Names, NEW h \in Handles, AddStorage(n, h)
      PROVE  \A x \in Inodes : Live(table', x) => Carried(x) \/ Allocated(x)
  BY <1>0, <1>1, <1>a, <1>d, <1>e DEF AddStorage
<1>2. ASSUME AddObject
      PROVE  \A x \in Inodes : Live(table', x) => Carried(x) \/ Allocated(x)
  <2>1. PICK p \in Folders(table), n \in Names, k \in {"dir", "file"}, h \in Handles :
          table' = Insert(table, next, NewEntry(p, n, k, h, generation))
    BY <1>2 DEF AddObject
  <2>2. p \in Inodes /\ p # Root /\ k \in {"storage", "dir", "file"} /\ k # "storage"
    BY <1>f
  <2>3. Alloc
    BY <1>2 DEF AddObject
  <2> QED
    BY <1>0, <1>d, <1>e, <2>1, <2>2, <2>3
<1>3. ASSUME NEW p \in Inodes, NEW n \in Names, RemoveObject(p, n)
      PROVE  \A x \in Inodes : Live(table', x) => Carried(x)
  <2> DEFINE i == Lookup(table, p, n)
  <2>1. i \in Inodes \ {Root} /\ Live(table, i)
    BY <1>0, <1>3 DEF RemoveObject, Indexed, NamesSound, Tables, Lookup
  <2>2. table.entries[i].name \in Names
    BY <1>0, <2>1 DEF Indexed, NamesComplete
  <2>3. table' = Remove(table, i)
    BY <1>3 DEF RemoveObject
  <2> HIDE DEF i
  <2>4. \A x \in Inodes : table'.entries[x] = IF x = i THEN None ELSE table.entries[x]
    BY <1>0, <2>1, <2>2, <2>3, RemoveFacts
  <2> QED
    BY <1>c, <2>4 DEF Live
<1>4. ASSUME NEW p \in Inodes, NEW p2 \in Inodes, NEW n \in Names, NEW n2 \in Names,
             Rename(p, n, p2, n2)
      PROVE  \A x \in Inodes : Live(table', x) => Carried(x)
  <2> DEFINE i == Lookup(table, p, n)
  <2>1. i \in Inodes \ {Root} /\ Live(table, i) /\ table.entries[i].parent = p
    BY <1>0, <1>4 DEF Rename, Indexed, NamesSound, Tables, Lookup
  <2>2. /\ table' = RenameTable(table, i, p2, n2) /\ i \notin Ancestors(table, p2)
        /\ table.entries[i].kind \in {"file", "dir"}
    BY <1>4 DEF Rename, KernelAllowsRename
  <2>3. p # Root /\ p2 # Root
    BY <1>4, <2>1, <2>2 DEF Rename, Ranked
  <2> HIDE DEF i
  <2>4. /\ \A x \in Inodes \ {i} : table'.entries[x] \in {table.entries[x], None}
        /\ table'.entries[i].parent = p2
        /\ table'.entries[i].kind = table.entries[i].kind
    BY <1>0, <2>1, <2>2, RenameIndexed
  <2> SUFFICES ASSUME NEW x \in Inodes, Live(table', x) PROVE Carried(x)
    OBVIOUS
  <2>5. CASE x = i
    BY <1>b, <2>1, <2>3, <2>4, <2>5 DEF Carried
  <2>6. CASE x # i
    BY <1>b, <2>4, <2>6 DEF Carried, Live
  <2> QED
    BY <2>5, <2>6
<1>5. ASSUME NEW i \in Inodes, NEW h \in Handles, SetHandle(i, h)
      PROVE  \A x \in Inodes : Live(table', x) => Carried(x)
  <2> DEFINE e  == table.entries[i]
             f  == [e EXCEPT !.handle = h, !.gen = generation]
  <2>1. e \in Entry /\ Live(table, i)
    BY <1>0, <1>5 DEF SetHandle, Live, Tables
  <2>2. f.parent = e.parent /\ f.kind = e.kind
    BY <2>1 DEF Entry
  <2> HIDE DEF f
  <2>3. \A x \in Inodes : table'.entries[x] = IF x = i THEN f ELSE table.entries[x]
    BY <1>0, <1>5 DEF SetHandle, Tables, f
  <2> QED
    BY <1>b, <2>1, <2>2, <2>3 DEF Carried, Live
<1>6. ASSUME NEW i \in Inodes, NEW h \in Handles, FlushHandle(i, h)
      PROVE  \A x \in Inodes : Live(table', x) => Carried(x)
  <2> DEFINE e  == table.entries[i]
             f  == [e EXCEPT !.handle = h]
  <2>1. e \in Entry /\ Live(table, i)
    BY <1>0, <1>6 DEF FlushHandle, IsFresh, Live, Tables
  <2>2. f.parent = e.parent /\ f.kind = e.kind
    BY <2>1 DEF Entry
  <2> HIDE DEF f
  <2>3. \A x \in Inodes : table'.entries[x] = IF x = i THEN f ELSE table.entries[x]
    BY <1>0, <1>6 DEF FlushHandle, Tables, f
  <2> QED
    BY <1>b, <2>1, <2>2, <2>3 DEF Carried, Live
<1>7. ASSUME NEW f \in [Children(table, Root) -> Handles], BumpGeneration(f)
      PROVE  \A x \in Inodes : Live(table', x) => Carried(x)
  <2> SUFFICES ASSUME NEW x \in Inodes, Live(table', x) PROVE Carried(x)
    OBVIOUS
  <2> DEFINE e == table.entries[x]
             g == [e EXCEPT !.handle = f[x]]
  <2>1. table'.entries[x] = IF /\ x \in Children(table, Root)
                               /\ Live(table, x)
                               /\ table.entries[x].kind = "storage"
                            THEN g ELSE e
    BY <1>0, <1>7 DEF BumpGeneration, Tables
  <2>2. Live(table, x)
    BY <2>1 DEF Live
  <2>3. e \in Entry
    BY <1>0, <2>2 DEF Live, Tables
  <2>4. g.parent = e.parent /\ g.kind = e.kind
    BY <2>3 DEF Entry
  <2> HIDE DEF g
  <2> QED
    BY <1>b, <2>1, <2>2, <2>4 DEF Carried
<1>8. ASSUME SyncBegin
      PROVE  \A x \in Inodes : Live(table', x) => Carried(x)
  BY <1>8, <1>c DEF SyncBegin
<1>9. ASSUME SyncChild
      PROVE  \A x \in Inodes : Live(table', x) => Carried(x) \/ Allocated(x)
  <2> DEFINE d   == sync.dir
             c   == Head(sync.todo)
             ino == Lookup(table, d, c.name)
             t   == IF ino # 0 THEN Remove(table, ino) ELSE table
  <2>1. /\ d \in Inodes /\ d # Root /\ sync.todo \in Seq(Child) /\ sync.todo # <<>>
    BY <1>0, <1>9 DEF SyncChild, Syncing
  <2>2. c \in Child
    BY <2>1
  <2>3. c.name \in Names /\ c.kind \in {"dir", "file"} /\ c.handle \in Handles
    BY <2>2 DEF Child
  <2>4. ino \in Inodes \cup {0}
    BY <1>0, <2>1, <2>3 DEF Lookup, Tables
  <2>5. ino # 0 => ino # Root /\ Live(table, ino) /\ table.entries[ino].parent = d
    BY <1>0, <2>1, <2>3 DEF Indexed, NamesSound
  <2>6. \/ /\ SameObject(table, ino, c)
           /\ table' = Patch(table, ino, c, generation)
        \/ /\ Alloc
           /\ table' = Insert(t, next,
                              NewEntry(d, c.name, c.kind, c.handle, generation))
    BY <1>9 DEF SyncChild
  <2> HIDE DEF d, c, ino, t
  <2>7. CASE SameObject(table, ino, c) /\ table' = Patch(table, ino, c, generation)
    <3> DEFINE e  == table.entries[ino]
               f  == [e EXCEPT !.kind = c.kind, !.handle = c.handle, !.gen = generation]
    <3>1. ino \in Inodes /\ e \in Entry /\ Live(table, ino) /\ e.parent = d
      BY <2>4, <2>5, <2>7, <1>0 DEF SameObject, Live, Tables
    <3>2. f.parent = e.parent /\ f.kind = c.kind
      BY <3>1 DEF Entry
    <3>3. e.kind \in {"dir", "file"}
      BY <2>1, <3>1 DEF Ranked, Entry, Kinds
    <3>4. c.kind = e.kind
      BY <2>3, <2>7, <3>3 DEF SameObject, IsDir
    <3> HIDE DEF f
    <3>5. \A x \in Inodes : table'.entries[x] = IF x = ino THEN f ELSE table.entries[x]
      BY <1>0, <2>7, <3>1 DEF Patch, Tables, f
    <3> QED
      BY <1>b, <3>1, <3>2, <3>4, <3>5 DEF Carried, Live
  <2>8. CASE /\ Alloc
             /\ table' = Insert(t, next,
                                NewEntry(d, c.name, c.kind, c.handle, generation))
    <3>1. t \in Tables /\ Indexed(t) /\ Shrinks(t, table)
      <4>1. CASE ino = 0
        BY <1>0, <4>1 DEF Shrinks, t
      <4>2. CASE ino # 0
        <5>1. ino \in Inodes \ {Root} /\ Live(table, ino)
          BY <2>4, <2>5, <4>2
        <5>2. table.entries[ino].name \in Names
          BY <1>0, <5>1 DEF Indexed, NamesComplete
        <5>3. Remove(table, ino) \in Tables /\ Indexed(Remove(table, ino))
          BY <1>0, <5>1, RemoveIndexed
        <5>4. Shrinks(Remove(table, ino), table)
          BY <1>0, <5>1, <5>2, RemoveFacts DEF Shrinks
        <5> QED
          BY <4>2, <5>3, <5>4 DEF t
      <4> QED
        BY <4>1, <4>2
    <3>2. c.kind \in {"storage", "dir", "file"} /\ (c.kind = "storage" <=> d = Root)
      BY <2>1, <2>3
    <3> QED
      BY <1>d, <2>1, <2>3, <2>8, <3>1, <3>2
  <2> QED
    BY <2>6, <2>7, <2>8
<1>10. ASSUME SyncPrune
       PROVE  \A x \in Inodes : Live(table', x) => Carried(x)
  <2>1. \A x \in Inodes : table'.entries[x] \in {table.entries[x], None}
    BY <1>10 DEF SyncPrune, RemoveAll
  <2> QED
    BY <1>c, <2>1 DEF Live
<1>11. ASSUME UNCHANGED vars
       PROVE  \A x \in Inodes : Live(table', x) => Carried(x)
  BY <1>11, <1>c DEF vars
<1> QED
  BY <1>1, <1>2, <1>3, <1>4, <1>5, <1>6, <1>7, <1>8, <1>9, <1>10, <1>11 DEF Next

(* A patched entry, field by field. *)
Patched(o, k, h, g) == [o EXCEPT !.kind = k, !.handle = h, !.gen = g]

LEMMA PatchedEntry ==
  ASSUME NEW o \in Entry, NEW k, NEW h, NEW g
  PROVE  Patched(o, k, h, g) =
           [parent |-> o.parent, name |-> o.name, kind |-> k, handle |-> h, gen |-> g]
<1> DEFINE r == [o EXCEPT !.kind = k]
           s == [r EXCEPT !.handle = h]
<1>1. o = [parent |-> o.parent, name |-> o.name, kind |-> o.kind,
           handle |-> o.handle, gen |-> o.gen]
  BY DEF Entry
<1>2. r = [parent |-> o.parent, name |-> o.name, kind |-> k,
           handle |-> o.handle, gen |-> o.gen]
  BY <1>1
<1>3. Patched(o, k, h, g) = [s EXCEPT !.gen = g]
  BY DEF Patched
<1> HIDE DEF r
<1>4. s = [parent |-> o.parent, name |-> o.name, kind |-> k, handle |-> h,
           gen |-> o.gen]
  BY <1>2
<1> HIDE DEF s
<1> QED
  BY <1>3, <1>4

(* What one turn of the loop does to the entries: the child of the listing *)
(* gets the entry e at i, its old number when that is the same object and  *)
(* a new one otherwise, the old entry being gone then.                     *)
LEMMA SyncChildShows ==
  ASSUME IInv, Ranked(table), Syncing, SyncChild
  PROVE  LET c   == Head(sync.todo)
             ino == Lookup(table, sync.dir, c.name) IN
         \E i \in Inodes \ {Root}, e \in Entry :
           /\ e = NewEntry(sync.dir, c.name, c.kind, c.handle, generation)
           /\ \A x \in Inodes : table'.entries[x] =
                IF x = i THEN e ELSE IF x = ino THEN None ELSE table.entries[x]
           /\ \/ i = ino
              \/ ~Live(table, i) /\ ~SameObject(table, ino, c)
<1> USE NoneAssumption
<1>0. /\ table \in Tables /\ next \in Nat /\ next >= 2 /\ generation \in Nat
      /\ sync \in [dir : Inodes, listing : Seq(Child), todo : Seq(Child)] \cup {None}
      /\ Indexed(table) /\ Acyclic(table) /\ Numbered(table, next)
  BY DEF IInv, TypeOK
<1> DEFINE d   == sync.dir
           c   == Head(sync.todo)
           ino == Lookup(table, d, c.name)
           t   == IF ino # 0 THEN Remove(table, ino) ELSE table
           e   == NewEntry(d, c.name, c.kind, c.handle, generation)
<1>1. d \in Inodes /\ d # Root /\ sync.todo \in Seq(Child) /\ sync.todo # <<>>
  BY <1>0 DEF SyncChild, Syncing
<1>2. c \in Child
  BY <1>1
<1>3. c.name \in Names /\ c.kind \in {"dir", "file"} /\ c.handle \in Handles
  BY <1>2 DEF Child
<1>4. ino \in Inodes \cup {0}
  BY <1>0, <1>1, <1>3 DEF Lookup, Tables
<1>5. ino # 0 => /\ ino # Root /\ Live(table, ino) /\ table.entries[ino].parent = d
                 /\ table.entries[ino].name = c.name
  BY <1>0, <1>1, <1>3 DEF Indexed, NamesSound
<1>6. \/ /\ SameObject(table, ino, c)
         /\ table' = Patch(table, ino, c, generation)
      \/ /\ ~SameObject(table, ino, c)
         /\ Alloc
         /\ table' = Insert(t, next, e)
  BY DEF SyncChild
<1>7. /\ e \in Entry /\ e.parent = d /\ e.name = c.name /\ e.kind = c.kind
      /\ e.handle = c.handle /\ e.gen = generation
  BY <1>0, <1>1, <1>3 DEF NewEntry, Entry, Kinds
<1>8. SUFFICES \E i \in Inodes \ {Root} :
           /\ \A x \in Inodes : table'.entries[x] =
                IF x = i THEN e ELSE IF x = ino THEN None ELSE table.entries[x]
           /\ \/ i = ino
              \/ ~Live(table, i) /\ ~SameObject(table, ino, c)
  BY <1>7
<1>9. CASE SameObject(table, ino, c) /\ table' = Patch(table, ino, c, generation)
  <2> DEFINE o == table.entries[ino]
             f == Patched(o, c.kind, c.handle, generation)
  <2>1. /\ ino \in Inodes \ {Root} /\ o \in Entry /\ Live(table, ino)
        /\ o.parent = d /\ o.name = c.name
    BY <1>4, <1>5, <1>9, <1>0 DEF SameObject, Live, Tables
  <2>2. f = e
    <3> HIDE DEF d, c, ino
    <3>0. o \in Entry
      BY <2>1
    <3> HIDE DEF o
    <3>1. f = [parent |-> o.parent, name |-> o.name, kind |-> c.kind,
               handle |-> c.handle, gen |-> generation]
      BY <3>0, PatchedEntry
    <3> QED
      BY <2>1, <3>1 DEF NewEntry, o
  <2> HIDE DEF e, d, c, ino
  <2>3. \A x \in Inodes : table'.entries[x] = IF x = ino THEN f ELSE table.entries[x]
    <3> HIDE DEF f
    <3> QED
      BY <1>0, <1>9, <2>1 DEF Patch, Tables, Patched, f
  <2> QED
    BY <2>1, <2>2, <2>3
<1>10. CASE /\ ~SameObject(table, ino, c)
            /\ Alloc
            /\ table' = Insert(t, next, e)
  <2> HIDE DEF e, d, c, ino
  <2>1. next \in Inodes \ {Root} /\ ~Live(table, next)
    BY <1>0, <1>10 DEF Alloc, Inodes, Numbered, Root
  <2>2. CASE ino = 0
    <3>1. t = table /\ 0 \notin Inodes
      BY <2>2 DEF Inodes
    <3>2. \A x \in Inodes : table'.entries[x] =
            IF x = next THEN e ELSE IF x = ino THEN None ELSE table.entries[x]
      BY <1>0, <1>3, <1>7, <1>10, <2>1, <3>1, InsertEntries DEF ino
    <3> QED
      BY <1>10, <2>1, <3>2
  <2>3. CASE ino # 0
    <3>1. ino \in Inodes \ {Root} /\ Live(table, ino)
      BY <1>4, <1>5, <2>3
    <3>2. table.entries[ino].name \in Names
      BY <1>0, <3>1 DEF Indexed, NamesComplete
    <3>3. t = Remove(table, ino)
      BY <2>3
    <3>4. t \in Tables /\ Indexed(t)
      BY <1>0, <3>1, <3>3, RemoveIndexed
    <3>5. /\ \A x \in Inodes : t.entries[x] = IF x = ino THEN None ELSE table.entries[x]
          /\ \A p \in Inodes, n \in Names : t.names[p][n] =
               IF p = table.entries[ino].parent /\ n = table.entries[ino].name
               THEN 0 ELSE table.names[p][n]
      BY <1>0, <3>1, <3>2, <3>3, RemoveFacts
    <3>6. Lookup(t, d, c.name) = 0
      BY <1>1, <1>3, <1>5, <2>3, <3>5 DEF Lookup
    <3>7. 0 \notin Inodes
      BY DEF Inodes
    <3> HIDE DEF t
    <3>8. \A x \in Inodes : table'.entries[x] =
            IF x = next THEN e ELSE IF x = Lookup(t, d, c.name) THEN None ELSE t.entries[x]
      BY <1>3, <1>7, <1>10, <2>1, <3>4, InsertEntries
    <3> QED
      BY <1>10, <2>1, <3>1, <3>5, <3>6, <3>7, <3>8
  <2> QED
    BY <2>2, <2>3
<1> QED
  BY <1>6, <1>9, <1>10

(* No entry but the root is its own parent. *)
LEMMA NotOwnParent ==
  ASSUME NEW t, NEW x \in Inodes \ {Root}, Acyclic(t), Live(t, x)
  PROVE  t.entries[x].parent # x
<1> SUFFICES ASSUME t.entries[x].parent = x PROVE FALSE
  OBVIOUS
<1>1. {x} \in SUBSET (Inodes \ {Root})
  OBVIOUS
<1>2. \A y \in {x} : Live(t, y) /\ t.entries[y].parent \in {x}
  OBVIOUS
<1> QED
  BY <1>1, <1>2 DEF Acyclic

(* The ranks survive every step. *)
LEMMA NextRanked ==
  ASSUME IInv, Ranked(table), Syncing, [Next]_vars
  PROVE  Ranked(table')
<1>1. \A x \in Inodes : Live(table', x) => Carried(x) \/ Allocated(x)
  BY StepCarries
<1>2. Live(table', Root) /\ next >= 2 /\ next \in Nat /\ Root \in Inodes /\ Root = 1
  BY NextIInv, BoundsAssumption DEF IInv, TypeOK, Indexed, Root, Inodes
<1>3. Carried(Root)
  BY <1>1, <1>2 DEF Allocated
<1>4. table'.entries[Root].kind = "root"
  BY <1>3 DEF Carried, Ranked
<1>5. ASSUME NEW x \in Inodes, Live(table', x)
      PROVE  table'.entries[x].kind \in {"root", "storage"}
                <=> table'.entries[x].parent = Root
  <2>1. CASE Carried(x)
    BY <2>1 DEF Carried, Ranked
  <2>2. CASE Allocated(x)
    BY <2>2 DEF Allocated
  <2> QED
    BY <1>1, <1>5, <2>1, <2>2
<1> QED
  BY <1>4, <1>5 DEF Ranked

(* One turn of the loop applies one more child of the listing. *)
LEMMA SyncChildApplies ==
  ASSUME SInv, SyncChild
  PROVE  Syncing'
<1> USE NoneAssumption
<1>0. /\ IInv /\ Ranked(table) /\ Syncing
      /\ table \in Tables /\ generation \in Nat /\ generation' = generation
      /\ sync \in [dir : Inodes, listing : Seq(Child), todo : Seq(Child)]
      /\ Indexed(table) /\ Acyclic(table)
      /\ sync.todo # <<>>
      /\ sync' = [sync EXCEPT !.todo = Tail(sync.todo)]
  BY DEF SInv, IInv, TypeOK, SyncChild
<1> DEFINE d   == sync.dir
           l   == sync.listing
           c   == Head(sync.todo)
           ino == Lookup(table, d, c.name)
<1>1. /\ d \in Inodes \ {Root} /\ Live(table, d)
      /\ l \in Seq(Child) /\ sync.todo \in Seq(Child)
      /\ \E j \in 0 .. Len(l) : Applied(j)
  BY <1>0 DEF Syncing
<1>2. PICK j \in 0 .. Len(l) : Applied(j)
  BY <1>1
<1>3. /\ Len(l) = j + Len(sync.todo)
      /\ \A m \in 1 .. Len(sync.todo) : sync.todo[m] = l[j + m]
      /\ \A n \in Names :
           (\E k \in 1 .. j : l[k].name = n) =>
             \E k \in 1 .. j, x \in Inodes :
               LastNamed(l, j, n, k) /\ Shows(table, d, generation, x, l[k])
  BY <1>2 DEF Applied
<1>4. /\ sync'.dir = d /\ sync'.listing = l /\ sync'.todo = Tail(sync.todo)
      /\ sync' # None
  <2>1. /\ sync.todo \in Seq(Child) /\ Tail(sync.todo) \in Seq(Child)
        /\ l \in Seq(Child) /\ d \in Inodes
    BY <1>0, <1>1
  <2>2. sync' = [dir |-> d, listing |-> l, todo |-> Tail(sync.todo)]
    BY <1>0
  <2>3. sync' \in [dir : Inodes, listing : Seq(Child), todo : Seq(Child)]
    <3> HIDE DEF d, l
    <3> QED
      BY <2>1, <2>2
  <2> QED
    BY <2>2, <2>3
<1>5. /\ Len(sync.todo) \in Nat \ {0} /\ Len(l) \in Nat /\ j \in Nat
      /\ c = sync.todo[1] /\ c \in Child
      /\ Len(Tail(sync.todo)) = Len(sync.todo) - 1
      /\ \A m \in 1 .. Len(Tail(sync.todo)) : Tail(sync.todo)[m] = sync.todo[m + 1]
  <2> DEFINE q == sync.todo
  <2>1. q \in Seq(Child) /\ q # <<>> /\ l \in Seq(Child)
    BY <1>0, <1>1
  <2>2. Len(l) \in Nat /\ j \in Nat
    BY <2>1
  <2> HIDE DEF q
  <2>3. /\ Len(q) \in Nat \ {0} /\ Head(q) = q[1] /\ q[1] \in Child
        /\ Len(Tail(q)) = Len(q) - 1
    BY <2>1
  <2>4. \A m \in 1 .. Len(Tail(q)) : Tail(q)[m] = q[m + 1]
    BY <2>1
  <2> QED
    BY <2>2, <2>3, <2>4 DEF q
<1>6. c = l[j + 1] /\ j + 1 \in 1 .. Len(l)
  BY <1>3, <1>5
<1>7. c.name \in Names
  BY <1>5 DEF Child
<1>8. ino # 0 => Live(table, ino) /\ table.entries[ino].parent = d
                  /\ table.entries[ino].name = c.name
  BY <1>0, <1>1, <1>7 DEF Indexed, NamesSound
<1>9. PICK i \in Inodes \ {Root}, e \in Entry :
        /\ e = NewEntry(d, c.name, c.kind, c.handle, generation)
        /\ \A x \in Inodes : table'.entries[x] =
             IF x = i THEN e ELSE IF x = ino THEN None ELSE table.entries[x]
        /\ i = ino \/ ~Live(table, i)
  BY <1>0, SyncChildShows
<1>10. /\ e.parent = d /\ e.name = c.name /\ e.kind = c.kind /\ e.handle = c.handle
       /\ e.gen = generation /\ e # None
  BY <1>9 DEF NewEntry
<1>11. ASSUME NEW x \in Inodes, Live(table, x),
              table.entries[x].parent # d \/ table.entries[x].name # c.name
       PROVE  table'.entries[x] = table.entries[x]
  <2>1. 0 \notin Inodes
    BY DEF Inodes
  <2> HIDE DEF ino, c, d
  <2> QED
    BY <1>8, <1>9, <1>11, <2>1
<1>12. Live(table', d)
  BY <1>0, <1>1, <1>11, NotOwnParent DEF Live
<1> HIDE DEF ino, c, d, l
<1>13. Len(l) = (j + 1) + Len(Tail(sync.todo))
  <2> DEFINE a == Len(sync.todo)
             b == Len(Tail(sync.todo))
             n == Len(l)
  <2>1. n = j + a /\ b = a - 1 /\ a \in Nat /\ j \in Nat
    BY <1>3, <1>5
  <2> HIDE DEF a, b, n
  <2>2. n = (j + 1) + b
    BY <2>1
  <2> QED
    BY <2>2 DEF b, n
<1>14. \A m \in 1 .. Len(Tail(sync.todo)) : Tail(sync.todo)[m] = l[(j + 1) + m]
  <2> SUFFICES ASSUME NEW m \in 1 .. Len(Tail(sync.todo))
               PROVE  Tail(sync.todo)[m] = l[(j + 1) + m]
    OBVIOUS
  <2>1. m + 1 \in 1 .. Len(sync.todo) /\ j + (m + 1) = (j + 1) + m
    BY <1>5
  <2> QED
    BY <1>3, <1>5, <2>1
<1>15. ASSUME NEW n \in Names, \E k \in 1 .. j + 1 : l[k].name = n
       PROVE  \E k \in 1 .. j + 1, x \in Inodes :
                LastNamed(l, j + 1, n, k) /\ Shows(table', d, generation, x, l[k])
  <2>1. CASE n = c.name
    <3>1. LastNamed(l, j + 1, n, j + 1)
      BY <1>5, <1>6, <2>1 DEF LastNamed
    <3>2. Shows(table', d, generation, i, l[j + 1])
      BY <1>6, <1>9, <1>10 DEF Shows, Live
    <3>3. j + 1 \in 1 .. j + 1
      BY <1>5
    <3> QED
      BY <3>1, <3>2, <3>3
  <2>2. CASE n # c.name
    <3>1. \E k \in 1 .. j : l[k].name = n
      BY <1>5, <1>6, <1>15, <2>2
    <3>2. PICK k \in 1 .. j, x \in Inodes :
            LastNamed(l, j, n, k) /\ Shows(table, d, generation, x, l[k])
      BY <1>3, <3>1 DEF d, l
    <3>3. LastNamed(l, j + 1, n, k)
      <4>1. l[k].name = n /\ \A m \in k + 1 .. j : l[m].name # n
        BY <3>2 DEF LastNamed
      <4>2. ASSUME NEW m \in k + 1 .. j + 1 PROVE l[m].name # n
        <5>1. m = j + 1 \/ m \in k + 1 .. j
          BY <1>5
        <5> QED
          BY <1>6, <2>2, <4>1, <5>1
      <4> QED
        BY <4>1, <4>2 DEF LastNamed
    <3>4. table'.entries[x] = table.entries[x]
      BY <1>11, <2>2, <3>2 DEF Shows, LastNamed
    <3>5. Shows(table', d, generation, x, l[k])
      BY <3>2, <3>4 DEF Shows, Live
    <3>6. k \in 1 .. j + 1
      BY <1>5
    <3> QED
      BY <3>3, <3>5, <3>6
  <2> QED
    BY <2>1, <2>2
<1>16. Applied(j + 1)'
  <2>1. Len(sync'.listing) = (j + 1) + Len(sync'.todo)
    BY <1>4, <1>13 DEF l
  <2>2. \A m \in 1 .. Len(sync'.todo) : sync'.todo[m] = sync'.listing[(j + 1) + m]
    BY <1>4, <1>14 DEF l
  <2>3. \A n \in Names :
          (\E k \in 1 .. j + 1 : sync'.listing[k].name = n) =>
            \E k \in 1 .. j + 1, x \in Inodes :
              /\ LastNamed(sync'.listing, j + 1, n, k)
              /\ Shows(table', sync'.dir, generation', x, sync'.listing[k])
    BY <1>0, <1>4, <1>15 DEF d, l
  <2> QED
    BY <2>1, <2>2, <2>3 DEF Applied
<1>17. j + 1 \in 0 .. Len(sync'.listing)
  BY <1>4, <1>5, <1>6 DEF l
<1> QED
  BY <1>1, <1>4, <1>12, <1>16, <1>17 DEF Syncing, d

LEMMA InitSInv == Init => SInv
<1> SUFFICES ASSUME Init PROVE SInv
  OBVIOUS
<1>1. IInv
  BY InitIInv
<1>2. sync = None /\ table.entries = [x \in Inodes |->
        IF x = Root THEN NewEntry(Root, None, "root", None, 0) ELSE None]
  BY DEF Init
<1>3. Root \in Inodes
  BY BoundsAssumption DEF Root, Inodes
<1>4. /\ NewEntry(Root, None, "root", None, 0).kind = "root"
      /\ NewEntry(Root, None, "root", None, 0).parent = Root
  BY DEF NewEntry
<1> QED
  BY <1>1, <1>2, <1>3, <1>4 DEF SInv, Ranked, Syncing, Live

(* Every step of the table preserves the invariant of the listings. *)
LEMMA NextSInv == SInv /\ [Next]_vars => SInv'
<1> SUFFICES ASSUME SInv, [Next]_vars PROVE SInv'
  OBVIOUS
<1>1. IInv' /\ Ranked(table')
  BY NextIInv, NextRanked DEF SInv
<1> SUFFICES Syncing'
  BY <1>1 DEF SInv
<1>2. CASE sync' = None
  BY <1>2 DEF Syncing
<1>3. CASE SyncBegin
  <2>1. PICK p \in Folders(table), l \in Listings :
          sync' = [dir |-> p, listing |-> l, todo |-> l]
    BY <1>3 DEF SyncBegin
  <2>2. p # Root /\ Live(table, p) /\ table' = table
    BY <1>3 DEF SyncBegin, SInv, Ranked, Folders
  <2>3. l \in Seq(Child)
    BY BoundsAssumption DEF Listings
  <2>4. sync'.dir = p /\ sync'.listing = l /\ sync'.todo = l
    BY <2>1
  <2>5. Applied(0)'
    BY <2>3, <2>4 DEF Applied
  <2>6. 0 \in 0 .. Len(sync'.listing)
    BY <2>3, <2>4
  <2> QED
    BY <2>2, <2>4, <2>5, <2>6 DEF Syncing
<1>4. CASE SyncChild
  BY <1>4, SyncChildApplies
<1>5. CASE UNCHANGED vars
  BY <1>5 DEF SInv, Syncing, Applied, vars
<1>6. \/ SyncBegin \/ SyncChild \/ UNCHANGED vars \/ sync' = None
  BY DEF Next, AddStorage, AddObject, RemoveObject, Rename, SetHandle, FlushHandle,
         BumpGeneration, SyncPrune
<1> QED
  BY <1>2, <1>3, <1>4, <1>5, <1>6
-----------------------------------------------------------------------------
(* The kernel may cache an inode number for good: no operation gives a     *)
(* number to a second object, or makes a directory of a file.              *)
THEOREM NumbersStay == Spec => NumbersAreForever
<1> DEFINE Forever ==
      \A i \in Inodes :
        /\ i < next /\ ~Live(table, i) => ~Live(table', i)
        /\ Live(table, i) /\ Live(table', i) =>
              table.entries[i].kind = table'.entries[i].kind
<1>1. SInv /\ [Next]_vars => Forever
  <2> SUFFICES ASSUME SInv, [Next]_vars, NEW i \in Inodes, Live(table', i)
               PROVE  /\ i < next => Live(table, i)
                      /\ Live(table, i) => table.entries[i].kind = table'.entries[i].kind
    OBVIOUS
  <2>1. Carried(i) \/ Allocated(i)
    BY StepCarries DEF SInv
  <2>2. Live(table, i) => i < next
    BY DEF SInv, IInv, Numbered
  <2>3. next \in Nat
    BY DEF SInv, IInv, TypeOK
  <2> QED
    BY <2>1, <2>2, <2>3 DEF Carried, Allocated
<1> HIDE DEF Forever
<1>2. SInv /\ [Next]_vars => [Forever]_vars
  BY <1>1
<1> QED
  BY <1>2, InitSInv, NextSInv, PTL DEF Spec, NumbersAreForever, Forever

(* sync_children leaves alone what the device still reports: such a child  *)
(* keeps its number, name and parent through every step of the call.       *)
THEOREM ReportedChildrenStay == Spec => ReportedKeepsNumber
<1> DEFINE Keeps ==
      sync # None =>
        \A i \in Inodes :
          /\ Live(table, i) /\ table.entries[i].parent = sync.dir
          /\ i # Root
          /\ Reported(sync.listing, table.entries[i].name)
          /\ \A k \in 1 .. Len(sync.listing) :
                sync.listing[k].name = table.entries[i].name =>
                   sync.listing[k].kind = table.entries[i].kind
          => /\ Live(table', i)
             /\ table'.entries[i].parent = table.entries[i].parent
             /\ table'.entries[i].name = table.entries[i].name
<1>1. SInv /\ [Next]_vars => Keeps
  <2> SUFFICES ASSUME SInv, [Next]_vars, sync # None, NEW i \in Inodes,
                      Live(table, i), table.entries[i].parent = sync.dir, i # Root,
                      Reported(sync.listing, table.entries[i].name),
                      \A k \in 1 .. Len(sync.listing) :
                        sync.listing[k].name = table.entries[i].name =>
                           sync.listing[k].kind = table.entries[i].kind
               PROVE  /\ Live(table', i)
                      /\ table'.entries[i].parent = table.entries[i].parent
                      /\ table'.entries[i].name = table.entries[i].name
    OBVIOUS
  <2>0. /\ IInv /\ Ranked(table) /\ Syncing /\ Indexed(table) /\ table \in Tables
        /\ sync \in [dir : Inodes, listing : Seq(Child), todo : Seq(Child)]
    BY DEF SInv, IInv, TypeOK
  <2>1. SyncChild \/ SyncPrune \/ UNCHANGED vars
    BY DEF Next, AddStorage, AddObject, RemoveObject, Rename, SetHandle, FlushHandle,
           BumpGeneration, SyncBegin
  <2>2. CASE SyncChild
    <3> DEFINE c   == Head(sync.todo)
               ino == Lookup(table, sync.dir, c.name)
    <3>1. PICK j \in 0 .. Len(sync.listing) : Applied(j)
      BY <2>0 DEF Syncing
    <3>2. /\ sync.todo \in Seq(Child) /\ sync.todo # <<>> /\ sync.listing \in Seq(Child)
      BY <2>0, <2>2 DEF SyncChild
    <3>3. c = sync.todo[1] /\ c \in Child /\ Len(sync.todo) \in Nat \ {0}
      BY <3>2
    <3>4. sync.todo[1] = sync.listing[j + 1] /\ j + 1 \in 1 .. Len(sync.listing)
      BY <3>1, <3>2, <3>3 DEF Applied
    <3>5. c.kind \in {"dir", "file"} /\ c.name \in Names
      BY <3>3 DEF Child
    <3>6. PICK x \in Inodes \ {Root}, e \in Entry :
            /\ e = NewEntry(sync.dir, c.name, c.kind, c.handle, generation)
            /\ \A y \in Inodes : table'.entries[y] =
                 IF y = x THEN e ELSE IF y = ino THEN None ELSE table.entries[y]
            /\ \/ x = ino
               \/ ~Live(table, x) /\ ~SameObject(table, ino, c)
      BY <2>0, <2>2, SyncChildShows
    <3>7. e.parent = sync.dir /\ e.name = c.name /\ e # None
      BY <3>6, NoneAssumption DEF NewEntry
    <3>8. CASE i # ino
      <4>1. table'.entries[i] = table.entries[i]
        BY <3>6, <3>8
      <4> QED
        BY <4>1 DEF Live
    <3>9. CASE i = ino
      <4>1. table.entries[i].name = c.name
        BY <2>0, <3>5, <3>9 DEF Indexed, NamesSound, Inodes
      <4>2. c.kind = table.entries[i].kind
        BY <3>3, <3>4, <4>1
      <4>3. SameObject(table, ino, c)
        BY <3>5, <3>9, <4>2 DEF SameObject, IsDir, Inodes
      <4>4. table'.entries[i] = e
        BY <3>6, <3>9, <4>3
      <4> QED
        BY <3>7, <4>1, <4>4 DEF Live
    <3> QED
      BY <3>8, <3>9
  <2>3. CASE SyncPrune
    <3>1. i \notin Gone(table, sync.dir, sync.listing)
      BY DEF Gone
    <3>2. table'.entries[i] = table.entries[i]
      BY <2>3, <3>1 DEF SyncPrune, RemoveAll
    <3> QED
      BY <3>2 DEF Live
  <2>4. CASE UNCHANGED vars
    BY <2>4 DEF vars, Live
  <2> QED
    BY <2>1, <2>2, <2>3, <2>4
<1> HIDE DEF Keeps
<1>2. SInv /\ [Next]_vars => [Keeps]_vars
  BY <1>1
<1> QED
  BY <1>2, InitSInv, NextSInv, PTL DEF Spec, ReportedKeepsNumber, Keeps

(* The prune leaves every name of the directory as the device reported it. *)
LEMMA PruneSettles ==
  ASSUME SInv, SyncPrune, NEW n \in Names
  PROVE  Settled(table', generation', sync.dir, sync.listing, n)
<1> USE NoneAssumption
<1>0. /\ IInv /\ Ranked(table) /\ Syncing
      /\ table \in Tables /\ Indexed(table) /\ Acyclic(table)
      /\ sync \in [dir : Inodes, listing : Seq(Child), todo : Seq(Child)]
      /\ sync.todo = <<>>
      /\ generation' = generation
  BY DEF SInv, IInv, TypeOK, SyncPrune
<1> DEFINE d == sync.dir
           l == sync.listing
           G == Gone(table, d, l)
<1>1. /\ d \in Inodes \ {Root} /\ Live(table, d) /\ l \in Seq(Child)
  BY <1>0 DEF Syncing
<1>2. Applied(Len(l))
  <2>1. PICK j \in 0 .. Len(l) : Applied(j)
    BY <1>0 DEF Syncing
  <2>2. Len(l) = j + Len(sync.todo) /\ Len(sync.todo) = 0
    BY <1>0, <2>1 DEF Applied
  <2>3. j = Len(l)
    BY <1>1, <2>2
  <2> QED
    BY <2>1, <2>3
<1>3. /\ table' \in Tables /\ Indexed(table')
      /\ \A x \in Inodes : table'.entries[x] = IF x \in G THEN None ELSE table.entries[x]
  <2>1. G \in SUBSET (Inodes \ {Root})
    BY <1>0, <1>1 DEF Gone, Children, Indexed, KidsSound, Tables
  <2>2. table' = RemoveAll(table, G)
    BY DEF SyncPrune
  <2>3. table' \in Tables /\ Indexed(table')
    BY <1>0, <2>1, <2>2, RemoveAllIndexed
  <2> QED
    BY <2>2, <2>3 DEF RemoveAll
<1>4. Live(table', d)
  <2>1. table.entries[d].parent # d
    BY <1>0, <1>1, NotOwnParent
  <2>2. d \notin G
    BY <1>0, <1>1, <2>1 DEF Gone, Children, Indexed, KidsSound, Tables
  <2> QED
    BY <1>1, <1>3, <2>2 DEF Live
<1>5. CASE Reported(l, n)
  <2> DEFINE Last(k) == l[k].name = n /\ \A j \in k + 1 .. Len(l) : l[j].name # n
             last    == CHOOSE k \in 1 .. Len(l) : Last(k)
             i       == Lookup(table', d, n)
  <2>1. \E k \in 1 .. Len(l) : l[k].name = n
    BY <1>5 DEF Reported
  <2>2. PICK k \in 1 .. Len(l), x \in Inodes :
          LastNamed(l, Len(l), n, k) /\ Shows(table, d, generation, x, l[k])
    BY <1>2, <2>1 DEF Applied
  <2>3. Last(k)
    BY <2>2 DEF LastNamed
  <2>4. last \in 1 .. Len(l) /\ Last(last)
    BY <2>3
  <2>5. last = k
    <3> HIDE DEF last
    <3>1. Len(l) \in Nat /\ last \in Nat /\ k \in Nat
      BY <1>1, <2>4
    <3>2. ~(k < last)
      BY <2>3, <2>4, <3>1
    <3>3. ~(last < k)
      BY <2>3, <2>4, <3>1
    <3> QED
      BY <3>1, <3>2, <3>3
  <2>6. /\ Live(table, x) /\ x # Root
        /\ table.entries[x].parent = d /\ table.entries[x].name = n
        /\ table.entries[x].kind = l[k].kind
        /\ table.entries[x].handle = l[k].handle
        /\ table.entries[x].gen = generation
    BY <2>2 DEF Shows, LastNamed
  <2>7. x \notin G
    BY <1>5, <2>6 DEF Gone
  <2>8. table'.entries[x] = table.entries[x] /\ Live(table', x)
    BY <1>3, <2>6, <2>7 DEF Live
  <2>9. i = x
    BY <1>3, <2>6, <2>8 DEF Indexed, NamesComplete
  <2>10. table'.kids[d][x] = 1
    BY <1>3, <1>4, <2>6, <2>8 DEF Indexed, KidsComplete
  <2>11. x # 0
    BY DEF Inodes
  <2>12. IsFresh(table', generation', x)
    BY <1>0, <2>6, <2>8 DEF IsFresh
  <2>13. /\ i # 0
         /\ table'.kids[d][i] = 1
         /\ table'.entries[i].kind = l[last].kind
         /\ table'.entries[i].handle = l[last].handle
         /\ IsFresh(table', generation', i)
    <3> HIDE DEF i, last, d, l
    <3> QED
      BY <2>5, <2>6, <2>8, <2>9, <2>10, <2>11, <2>12
  <2> QED
    BY <1>5, <2>13, Zenon DEF Settled
<1>6. CASE ~Reported(l, n)
  <2>1. Lookup(table', d, n) = 0
    <3> SUFFICES ASSUME Lookup(table', d, n) # 0 PROVE FALSE
      OBVIOUS
    <3> DEFINE x == Lookup(table', d, n)
    <3>1. /\ x \in Inodes \ {Root} /\ Live(table', x)
          /\ table'.entries[x].parent = d /\ table'.entries[x].name = n
      BY <1>1, <1>3 DEF Indexed, NamesSound, Tables, Lookup
    <3> HIDE DEF x
    <3>2. x \notin G /\ table'.entries[x] = table.entries[x] /\ Live(table, x)
      BY <1>3, <3>1 DEF Live
    <3>3. table.kids[d][x] = 1
      BY <1>0, <1>1, <3>1, <3>2 DEF Indexed, KidsComplete
    <3>4. x \in G
      BY <1>6, <3>1, <3>2, <3>3 DEF Gone, Children
    <3> QED
      BY <3>2, <3>4
  <2> QED
    BY <1>6, <2>1 DEF Settled
<1> QED
  BY <1>5, <1>6

(* A listing that has been applied is the directory: the names the device  *)
(* reported and no other, each with the last kind and handle reported and  *)
(* a fresh generation, whatever was evicted or flipped on the way.         *)
THEOREM ListingIsApplied == Spec => ListingApplied
<1> DEFINE Applies ==
      sync # None /\ sync' = None =>
        \A n \in Names : Settled(table', generation, sync.dir, sync.listing, n)
<1>1. SInv /\ [Next]_vars => [Applies]_vars
  <2> SUFFICES ASSUME SInv, Next, sync # None, sync' = None, NEW n \in Names
               PROVE  Settled(table', generation, sync.dir, sync.listing, n)
    BY DEF vars
  <2>1. SyncChild \/ SyncPrune
    BY DEF Next, AddStorage, AddObject, RemoveObject, Rename, SetHandle, FlushHandle,
           BumpGeneration, SyncBegin
  <2>2. ~SyncChild
    <3> SUFFICES ASSUME SyncChild PROVE FALSE
      OBVIOUS
    <3>1. /\ sync \in [dir : Inodes, listing : Seq(Child), todo : Seq(Child)]
          /\ sync.todo # <<>> /\ sync' = [sync EXCEPT !.todo = Tail(sync.todo)]
      BY DEF SInv, IInv, TypeOK, SyncChild
    <3>2. sync.todo \in Seq(Child)
      BY <3>1
    <3>3. Tail(sync.todo) \in Seq(Child)
      BY <3>1, <3>2
    <3>4. sync' \in [dir : Inodes, listing : Seq(Child), todo : Seq(Child)]
      BY <3>1, <3>3
    <3> QED
      BY <3>4, NoneAssumption
  <2>3. generation' = generation
    BY <2>1, <2>2 DEF SyncPrune
  <2> QED
    BY <2>1, <2>2, <2>3, PruneSettles
<1> HIDE DEF Applies
<1> QED
  BY <1>1, InitSInv, NextSInv, PTL DEF Spec, ListingApplied, Applies
====
