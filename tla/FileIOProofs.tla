---------------------------- MODULE FileIOProofs ----------------------------
(***************************************************************************)
(* Proofs about the bytes of a file, for any number of descriptors, any    *)
(* bytes, lengths and writes, and whatever the device changes by itself.   *)
(***************************************************************************)
EXTENDS FileIO, TLAPS

(* Write k of log l has put a byte at i. *)
Over(l, k, i) == i > l[k].at /\ i <= l[k].at + Len(l[k].data)

(* A file is as long as the furthest write reached, and has at every place *)
(* the byte of the last write over it, or a zero.  Unlike Replay this      *)
(* chooses nothing, so a step can be checked against it.                   *)
Longest(file, l) ==
  /\ \A k \in DOMAIN l :
       l[k].data # <<>> => l[k].at + Len(l[k].data) <= Len(file)
  /\ \/ Len(file) = 0
     \/ \E k \in DOMAIN l : /\ l[k].data # <<>>
                            /\ l[k].at + Len(l[k].data) = Len(file)

LastAt(file, l, i) ==
  \/ file[i] = 0 /\ \A k \in DOMAIN l : ~Over(l, k, i)
  \/ \E k \in DOMAIN l : /\ Over(l, k, i)
                         /\ \A m \in DOMAIN l : Over(l, m, i) => m <= k
                         /\ file[i] = l[k].data[i - l[k].at]

Exact(file, l) == Longest(file, l) /\ \A i \in 1 .. Len(file) : LastAt(file, l, i)
-----------------------------------------------------------------------------
LEMMA MaxIs ==
  ASSUME NEW S \in SUBSET Nat, NEW m \in S, \A x \in S : x <= m
  PROVE  Max(S) = m
<1>1. \A x \in S : x >= m => x = m
  OBVIOUS
<1>2. Max(S) \in S /\ \A y \in S : Max(S) >= y
  BY DEF Max
<1> QED
  BY <1>1, <1>2

LEMMA MaxOfTwo ==
  ASSUME NEW a \in Nat, NEW b \in Nat
  PROVE  Max({a, b}) = IF a >= b THEN a ELSE b
<1>1. CASE a >= b
  BY <1>1, MaxIs
<1>2. CASE ~(a >= b)
  BY <1>2, MaxIs
<1> QED
  BY <1>1, <1>2

LEMMA LogFacts ==
  ASSUME NEW l \in Seq(Logs)
  PROVE  \A k \in DOMAIN l : /\ l[k].at \in Nat /\ l[k].data \in Seq(Bytes)
                             /\ Len(l[k].data) \in Nat /\ k \in Nat
<1>1. \A k \in DOMAIN l : l[k] \in Logs /\ k \in Nat
  OBVIOUS
<1>2. \A e \in Logs : e.at \in Nat /\ e.data \in Seq(Bytes)
  BY DEF Logs
<1>3. \A d \in Seq(Bytes) : Len(d) \in Nat
  OBVIOUS
<1> QED
  BY <1>1, <1>2, <1>3

(* A file that is exact is what replaying the writes gives. *)
LEMMA ExactIsReplay ==
  ASSUME NEW file \in Files, NEW l \in Seq(Logs), Exact(file, l)
  PROVE  file = Replay(l)
<1> DEFINE ends    == {l[k].at + Len(l[k].data) : k \in {j \in DOMAIN l : l[j].data # <<>>}}
           over(i) == {k \in DOMAIN l : i > l[k].at /\ i <= l[k].at + Len(l[k].data)}
           byte(i) == IF over(i) = {} THEN 0
                      ELSE LET k == Max(over(i)) IN l[k].data[i - l[k].at]
<1>1. \A k \in DOMAIN l : /\ l[k].at \in Nat /\ l[k].data \in Seq(Bytes)
                          /\ Len(l[k].data) \in Nat /\ k \in Nat
  BY LogFacts
<1>2. Len(file) \in Nat
  BY DEF Files
<1>3. Max(ends \cup {0}) = Len(file)
  <2>1. ends \cup {0} \in SUBSET Nat
    BY <1>1
  <2>2. Len(file) \in ends \cup {0}
    BY DEF Exact, Longest
  <2>3. \A x \in ends \cup {0} : x <= Len(file)
    BY <1>2 DEF Exact, Longest
  <2> HIDE DEF ends
  <2> QED
    BY <2>1, <2>2, <2>3, MaxIs
<1>4. ASSUME NEW i \in 1 .. Len(file) PROVE file[i] = byte(i)
  <2>0. LastAt(file, l, i)
    BY <1>4 DEF Exact
  <2>1. CASE file[i] = 0 /\ \A k \in DOMAIN l : ~Over(l, k, i)
    <3>1. over(i) = {}
      BY <2>1 DEF Over
    <3> QED
      BY <2>1, <3>1
  <2>2. CASE \E k \in DOMAIN l : /\ Over(l, k, i)
                                 /\ \A m \in DOMAIN l : Over(l, m, i) => m <= k
                                 /\ file[i] = l[k].data[i - l[k].at]
    <3>1. PICK k \in DOMAIN l : /\ Over(l, k, i)
                                /\ \A m \in DOMAIN l : Over(l, m, i) => m <= k
                                /\ file[i] = l[k].data[i - l[k].at]
      BY <2>2
    <3>2. k \in over(i) /\ over(i) \in SUBSET Nat /\ \A m \in over(i) : m <= k
      BY <1>1, <3>1 DEF Over
    <3>3. Max(over(i)) = k
      <4> HIDE DEF over
      <4> QED
        BY <3>2, MaxIs
    <3>4. over(i) # {}
      BY <3>2
    <3> HIDE DEF over
    <3> QED
      BY <3>1, <3>3, <3>4
  <2> QED
    BY <2>0, <2>1, <2>2 DEF LastAt
<1>5. Replay(l) = [i \in 1 .. Max(ends \cup {0}) |-> byte(i)]
  BY DEF Replay
<1>6. file = [i \in 1 .. Len(file) |-> file[i]]
  BY DEF Files
<1> HIDE DEF ends, over, byte
<1> QED
  BY <1>3, <1>4, <1>5, <1>6

LEMMA EmptyExact == Exact(<<>>, <<>>)
BY DEF Exact, Longest, LastAt

(* What Put makes of a file. *)
LEMMA PutFacts ==
  ASSUME NEW file \in Files, NEW at \in Nat, NEW data \in Seq(Bytes)
  PROVE  LET n == IF Len(file) >= at + Len(data) THEN Len(file) ELSE at + Len(data) IN
         /\ Put(file, at, data) \in Files
         /\ Len(Put(file, at, data)) = n
         /\ \A i \in 1 .. n : Put(file, at, data)[i] =
              IF i > at /\ i <= at + Len(data) THEN data[i - at]
              ELSE IF i <= Len(file) THEN file[i] ELSE 0
<1> DEFINE n == IF Len(file) >= at + Len(data) THEN Len(file) ELSE at + Len(data)
           b(i) == IF i > at /\ i <= at + Len(data) THEN data[i - at]
                   ELSE IF i <= Len(file) THEN file[i] ELSE 0
<1>1. Len(file) \in Nat /\ Len(data) \in Nat /\ n \in Nat
  BY DEF Files
<1>2. Max({Len(file), at + Len(data)}) = n
  BY <1>1, MaxOfTwo
<1>3. \A i \in 1 .. n : b(i) \in Bytes \cup {0}
  <2> SUFFICES ASSUME NEW i \in 1 .. n PROVE b(i) \in Bytes \cup {0}
    OBVIOUS
  <2>1. CASE i > at /\ i <= at + Len(data)
    <3>1. i - at \in 1 .. Len(data)
      BY <1>1, <2>1
    <3> QED
      BY <2>1, <3>1
  <2>2. CASE ~(i > at /\ i <= at + Len(data)) /\ i <= Len(file)
    <3>1. file[i] \in Bytes \cup {0}
      BY <1>1, <2>2 DEF Files
    <3> QED
      BY <2>2, <3>1
  <2>3. CASE ~(i > at /\ i <= at + Len(data)) /\ ~(i <= Len(file))
    BY <2>3
  <2> QED
    BY <2>1, <2>2, <2>3
<1>4. Put(file, at, data) = [i \in 1 .. n |-> b(i)]
  BY <1>2 DEF Put
<1> HIDE DEF b, n
<1>5. /\ Put(file, at, data) \in Files
      /\ Len(Put(file, at, data)) = n
      /\ \A i \in 1 .. n : Put(file, at, data)[i] = b(i)
  BY <1>1, <1>3, <1>4 DEF Files
<1> QED
  BY <1>5 DEF b, n

(* A log and one write more. *)
LEMMA AppendFacts ==
  ASSUME NEW l \in Seq(Logs), NEW e \in Logs
  PROVE  /\ Append(l, e) \in Seq(Logs)
         /\ Len(l) \in Nat
         /\ DOMAIN l = 1 .. Len(l)
         /\ DOMAIN Append(l, e) = 1 .. Len(l) + 1
         /\ \A k \in 1 .. Len(l) : Append(l, e)[k] = l[k]
         /\ Append(l, e)[Len(l) + 1] = e
OBVIOUS

(* A write of no bytes leaves a file exact. *)
LEMMA SkipExact ==
  ASSUME NEW file \in Files, NEW l \in Seq(Logs), NEW e \in Logs,
         e.data = <<>>, Exact(file, l)
  PROVE  Exact(file, Append(l, e))
<1> DEFINE u == Append(l, e)
           n == Len(l)
<1>1. /\ n \in Nat /\ DOMAIN l = 1 .. n /\ DOMAIN u = 1 .. n + 1
      /\ \A k \in 1 .. n : u[k] = l[k]
      /\ u[n + 1] = e
  BY AppendFacts
<1>2. e.at \in Nat /\ Len(e.data) = 0
  BY DEF Logs
<1>3. Len(file) \in Nat
  BY DEF Files
<1> HIDE DEF u, n
<1>4. Longest(file, u)
  <2>1. ASSUME NEW k \in DOMAIN u, u[k].data # <<>>
        PROVE  u[k].at + Len(u[k].data) <= Len(file)
    <3>1. k \in 1 .. n /\ u[k] = l[k]
      BY <1>1, <2>1
    <3> QED
      BY <1>1, <2>1, <3>1 DEF Exact, Longest
  <2>2. ASSUME Len(file) # 0
        PROVE  \E k \in DOMAIN u : /\ u[k].data # <<>>
                                   /\ u[k].at + Len(u[k].data) = Len(file)
    <3>1. PICK k \in DOMAIN l : l[k].data # <<>> /\ l[k].at + Len(l[k].data) = Len(file)
      BY <2>2 DEF Exact, Longest
    <3>2. k \in DOMAIN u /\ u[k] = l[k]
      BY <1>1
    <3> QED
      BY <3>1, <3>2
  <2> QED
    BY <2>1, <2>2 DEF Longest
<1>5. ASSUME NEW i \in 1 .. Len(file) PROVE LastAt(file, u, i)
  <2>1. LastAt(file, l, i)
    BY DEF Exact
  <2>2. \A k \in 1 .. n : Over(u, k, i) <=> Over(l, k, i)
    BY <1>1 DEF Over
  <2>3. ~Over(u, n + 1, i)
    BY <1>1, <1>2, <1>3 DEF Over
  <2>4. CASE file[i] = 0 /\ \A k \in DOMAIN l : ~Over(l, k, i)
    <3>1. \A k \in DOMAIN u : ~Over(u, k, i)
      BY <1>1, <2>2, <2>3, <2>4
    <3> QED
      BY <2>4, <3>1 DEF LastAt
  <2>5. CASE \E k \in DOMAIN l : /\ Over(l, k, i)
                                 /\ \A m \in DOMAIN l : Over(l, m, i) => m <= k
                                 /\ file[i] = l[k].data[i - l[k].at]
    <3>1. PICK k \in DOMAIN l : /\ Over(l, k, i)
                                /\ \A m \in DOMAIN l : Over(l, m, i) => m <= k
                                /\ file[i] = l[k].data[i - l[k].at]
      BY <2>5
    <3>2. k \in DOMAIN u /\ u[k] = l[k] /\ Over(u, k, i)
      BY <1>1, <2>2, <3>1
    <3>3. \A m \in DOMAIN u : Over(u, m, i) => m <= k
      BY <1>1, <2>2, <2>3, <3>1
    <3> QED
      BY <3>1, <3>2, <3>3 DEF LastAt
  <2> QED
    BY <2>1, <2>4, <2>5 DEF LastAt
<1> QED
  BY <1>4, <1>5 DEF Exact, u

(* A write that puts its bytes into the file leaves it exact. *)
LEMMA PutExact ==
  ASSUME NEW file \in Files, NEW l \in Seq(Logs), NEW e \in Logs,
         e.data # <<>>, Exact(file, l)
  PROVE  Exact(Put(file, e.at, e.data), Append(l, e))
<1> DEFINE u == Append(l, e)
           n == Len(l)
           a == e.at
           z == Len(e.data)
           v == Put(file, e.at, e.data)
           len == IF Len(file) >= a + z THEN Len(file) ELSE a + z
<1>1. /\ n \in Nat /\ DOMAIN l = 1 .. n /\ DOMAIN u = 1 .. n + 1
      /\ \A k \in 1 .. n : u[k] = l[k]
      /\ u[n + 1] = e
  BY AppendFacts
<1>2. e.at \in Nat /\ e.data \in Seq(Bytes)
  BY DEF Logs
<1>3. a \in Nat /\ z \in Nat \ {0}
  BY <1>2
<1>4. Len(file) \in Nat
  BY DEF Files
<1>5. /\ Len(v) = len
      /\ \A i \in 1 .. len : v[i] = IF i > a /\ i <= a + z THEN e.data[i - a]
                                    ELSE IF i <= Len(file) THEN file[i] ELSE 0
  BY <1>2, PutFacts
<1>6. len \in Nat /\ len >= Len(file) /\ len >= a + z /\ len \in {Len(file), a + z}
  BY <1>3, <1>4
<1>7. \A k \in DOMAIN l : l[k].at \in Nat /\ Len(l[k].data) \in Nat
  BY LogFacts
<1>8. \A k \in DOMAIN l : l[k].data # <<>> => l[k].at + Len(l[k].data) <= Len(file)
  BY DEF Exact, Longest
<1> HIDE DEF u, n, v, len
<1>9. Longest(v, u)
  <2>1. ASSUME NEW k \in DOMAIN u, u[k].data # <<>>
        PROVE  u[k].at + Len(u[k].data) <= Len(v)
    <3>1. CASE k = n + 1
      BY <1>1, <1>5, <1>6, <3>1
    <3>2. CASE k # n + 1
      <4>1. k \in DOMAIN l /\ u[k] = l[k]
        BY <1>1, <3>2
      <4>2. l[k].at + Len(l[k].data) <= Len(file)
        BY <1>8, <2>1, <4>1
      <4> QED
        BY <1>4, <1>5, <1>6, <1>7, <4>1, <4>2
    <3> QED
      BY <3>1, <3>2
  <2>2. \E k \in DOMAIN u : /\ u[k].data # <<>>
                            /\ u[k].at + Len(u[k].data) = Len(v)
    <3>1. CASE len = a + z
      <4>1. n + 1 \in DOMAIN u
        BY <1>1
      <4> QED
        BY <1>1, <1>5, <3>1, <4>1
    <3>2. CASE len = Len(file) /\ len # a + z
      <4>1. Len(file) # 0
        BY <1>3, <1>6, <3>2
      <4>2. PICK k \in DOMAIN l : l[k].data # <<>> /\ l[k].at + Len(l[k].data) = Len(file)
        BY <4>1 DEF Exact, Longest
      <4>3. k \in DOMAIN u /\ u[k] = l[k]
        BY <1>1
      <4> QED
        BY <1>5, <3>2, <4>2, <4>3
    <3> QED
      BY <1>6, <3>1, <3>2
  <2> QED
    BY <2>1, <2>2 DEF Longest
<1>10. ASSUME NEW i \in 1 .. Len(v) PROVE LastAt(v, u, i)
  <2>0. i \in 1 .. len /\ i \in Nat
    BY <1>5, <1>6
  <2>1. \A k \in 1 .. n : Over(u, k, i) <=> Over(l, k, i)
    BY <1>1 DEF Over
  <2>2. Over(u, n + 1, i) <=> i > a /\ i <= a + z
    BY <1>1 DEF Over
  <2>3. CASE i > a /\ i <= a + z
    <3>1. v[i] = e.data[i - a]
      BY <1>5, <2>0, <2>3
    <3>2. n + 1 \in DOMAIN u /\ \A m \in DOMAIN u : m <= n + 1
      BY <1>1
    <3>3. v[i] = u[n + 1].data[i - u[n + 1].at]
      BY <1>1, <3>1
    <3> QED
      BY <2>2, <2>3, <3>2, <3>3 DEF LastAt
  <2>4. CASE ~(i > a /\ i <= a + z) /\ i <= Len(file)
    <3>1. v[i] = file[i]
      BY <1>5, <2>0, <2>4
    <3>2. LastAt(file, l, i)
      BY <1>4, <2>0, <2>4 DEF Exact
    <3>3. CASE file[i] = 0 /\ \A k \in DOMAIN l : ~Over(l, k, i)
      <4>1. \A k \in DOMAIN u : ~Over(u, k, i)
        BY <1>1, <2>1, <2>2, <2>4, <3>3
      <4> QED
        BY <3>1, <3>3, <4>1 DEF LastAt
    <3>4. CASE \E k \in DOMAIN l : /\ Over(l, k, i)
                                   /\ \A m \in DOMAIN l : Over(l, m, i) => m <= k
                                   /\ file[i] = l[k].data[i - l[k].at]
      <4>1. PICK k \in DOMAIN l : /\ Over(l, k, i)
                                  /\ \A m \in DOMAIN l : Over(l, m, i) => m <= k
                                  /\ file[i] = l[k].data[i - l[k].at]
        BY <3>4
      <4>2. k \in DOMAIN u /\ u[k] = l[k] /\ Over(u, k, i)
        BY <1>1, <2>1, <4>1
      <4>3. \A m \in DOMAIN u : Over(u, m, i) => m <= k
        BY <1>1, <2>1, <2>2, <2>4, <4>1
      <4> QED
        BY <3>1, <4>1, <4>2, <4>3 DEF LastAt
    <3> QED
      BY <3>2, <3>3, <3>4 DEF LastAt
  <2>5. CASE ~(i > a /\ i <= a + z) /\ ~(i <= Len(file))
    <3>1. v[i] = 0
      BY <1>5, <2>0, <2>5
    <3>2. ASSUME NEW k \in DOMAIN l PROVE ~Over(l, k, i)
      <4>1. CASE l[k].data = <<>>
        BY <1>7, <2>0, <4>1 DEF Over
      <4>2. CASE l[k].data # <<>>
        BY <1>4, <1>7, <1>8, <2>0, <2>5, <4>2 DEF Over
      <4> QED
        BY <4>1, <4>2
    <3>3. \A k \in DOMAIN u : ~Over(u, k, i)
      BY <1>1, <2>1, <2>2, <2>5, <3>2
    <3> QED
      BY <3>1, <3>3 DEF LastAt
  <2> QED
    BY <2>3, <2>4, <2>5
<1> QED
  BY <1>9, <1>10 DEF Exact, u, v
-----------------------------------------------------------------------------
(* The buffers keep their type; None stands for no buffer. *)
LEMMA SpoolTypes ==
  /\ NewSpool \in Spools
  /\ \A s \in Spools : s # None
  /\ TypeOK => \A f \in Fds : Buffer(f) \in Spools
<1>1. NewSpool \in Spools
  BY DEF NewSpool, Spools, Files
<1>2. \A s \in Spools : s # None
  BY FileIOAssumption
<1>3. TypeOK => \A f \in Fds : Buffer(f) \in Spools
  BY <1>1 DEF TypeOK, Buffer
<1> QED
  BY <1>1, <1>2, <1>3

(* A write that succeeds, field by field. *)
LEMMA WriteFacts ==
  ASSUME NEW s \in Spools, NEW at \in Nat, NEW data \in Seq(Bytes)
  PROVE  LET w == write_at(s, at, data) IN
         /\ w \in Spools
         /\ data = <<>> => w = s
         /\ data # <<>> =>
              /\ w.file = Put(s.file, at, data)
              /\ w.len = IF s.len >= at + Len(data) THEN s.len ELSE at + Len(data)
              /\ w.dirty
<1> DEFINE m == IF s.len >= at + Len(data) THEN s.len ELSE at + Len(data)
           p == Put(s.file, at, data)
<1>1. s.file \in Files /\ s.len \in Nat /\ Len(data) \in Nat /\ m \in Nat
  BY DEF Spools
<1>2. Max({s.len, at + Len(data)}) = m
  BY <1>1, MaxOfTwo
<1>3. p \in Files
  BY <1>1, PutFacts
<1>4. CASE data = <<>>
  BY <1>4 DEF write_at, Empty
<1>5. CASE data # <<>>
  <2>1. write_at(s, at, data) = [file |-> p, len |-> m, dirty |-> TRUE]
    BY <1>2, <1>5 DEF write_at, Empty
  <2> HIDE DEF p, m
  <2>2. [file |-> p, len |-> m, dirty |-> TRUE] \in Spools
    BY <1>1, <1>3 DEF Spools
  <2> QED
    BY <1>5, <2>1, <2>2 DEF p, m
<1> QED
  BY <1>4, <1>5

(* A write that fails: only the file may have changed. *)
LEMMA FailFacts ==
  ASSUME NEW s \in Spools, NEW at \in Nat, NEW data \in Seq(Bytes)
  PROVE  LET w == write_fails(s, at, data) IN
         /\ w \in Spools
         /\ w.file = IF data = <<>> THEN s.file ELSE Put(s.file, at, data)
         /\ w.len = s.len
         /\ w.dirty = s.dirty
<1> DEFINE p == IF data = <<>> THEN s.file ELSE Put(s.file, at, data)
<1>1. s.file \in Files /\ s.len \in Nat
  BY DEF Spools
<1>2. p \in Files
  BY <1>1, PutFacts
<1>3. write_fails(s, at, data) = [s EXCEPT !.file = p]
  BY DEF write_fails
<1> HIDE DEF p
<1>4. /\ [s EXCEPT !.file = p] \in Spools
      /\ [s EXCEPT !.file = p].file = p
      /\ [s EXCEPT !.file = p].len = s.len
      /\ [s EXCEPT !.file = p].dirty = s.dirty
  BY <1>2 DEF Spools
<1> QED
  BY <1>3, <1>4 DEF p

LEMMA DataTypes ==
  /\ Runs \subseteq Seq(Bytes)
  /\ Given \subseteq Files
  /\ 0 .. MaxLen - 1 \subseteq Nat /\ 0 .. MaxLen \subseteq Nat
<1>1. Runs \subseteq Seq(Bytes)
  BY FileIOAssumption DEF Runs
<1>2. Given \subseteq Files
  <2>1. Seq(Bytes) \subseteq Files
    BY DEF Files
  <2> QED
    BY <2>1, FileIOAssumption
<1> QED
  BY <1>1, <1>2, FileIOAssumption

(* What a step may do to the contents of a period. *)
LEMMA NotedTyped ==
  ASSUME since \subseteq Files, object' \in Files \cup {None}, Noted
  PROVE  since' \subseteq Files
BY DEF Noted

(* What arrives keeps the cache's length and is the object's.  *)
LEMMA ArrivedFacts ==
  ASSUME NEW c \in Caches, NEW from, NEW n,
         object \in Files \cup {None}
  PROVE  /\ Arrived(c, from, n) \in Caches
         /\ DOMAIN Arrived(c, from, n) = DOMAIN c
         /\ \A i \in DOMAIN c :
              \/ Arrived(c, from, n)[i] = c[i]
              \/ /\ object # None /\ i \in DOMAIN object
                 /\ Arrived(c, from, n)[i] = object[i]
<1> DEFINE S == Bytes \cup {0, Missing}
           b(i) == IF /\ c[i] = Missing /\ i > from /\ i <= n
                      /\ object # None /\ i \in DOMAIN object
                   THEN object[i] ELSE c[i]
<1>1. Arrived(c, from, n) = [i \in DOMAIN c |-> b(i)]
  BY DEF Arrived
<1>2. Len(c) \in Nat /\ DOMAIN c = 1 .. Len(c) /\ c \in Seq(S)
  BY DEF Caches
<1>3. ASSUME NEW i \in 1 .. Len(c) PROVE b(i) \in S
  <2>1. c[i] \in S
    BY <1>2
  <2>2. object # None /\ i \in DOMAIN object => object[i] \in S
    BY DEF Files
  <2> QED
    BY <2>1, <2>2
<1>4. \A i \in DOMAIN c :
        b(i) = c[i] \/ (object # None /\ i \in DOMAIN object /\ b(i) = object[i])
  OBVIOUS
<1> HIDE DEF b, S
<1>5. [i \in DOMAIN c |-> b(i)] \in Seq(S)
  BY <1>2, <1>3
<1> QED
  BY <1>1, <1>4, <1>5 DEF S, Caches

(* A read leaves the inode's cache, or a new one, with what has arrived    *)
(* or without; the fill is one it could have started.                      *)
LEMMA OutcomeFacts ==
  ASSUME NEW c, NEW at, NEW n, NEW o \in ReadOutcomes(c, at, n)
  PROVE  /\ o.cache \in {c, Arrived(c, at, n), Arrived(c, 0, n)}
         /\ o.fill = fill \/ o.fill \in {"running", "ending", "ended"}
<1>1. ASSUME NEW r \in FullRead(c, at, n)
      PROVE  /\ r.cache \in {c, Arrived(c, at, n), Arrived(c, 0, n)}
             /\ r.fill = fill \/ r.fill \in {"running", "ending", "ended"}
  <2>1. \/ r = [cache |-> c, fill |-> fill]
        \/ r = [cache |-> c, fill |-> "ended"]
        \/ r \in [cache : {Arrived(c, 0, n)}, fill : {"running", "ending"}]
    BY <1>1 DEF FullRead
  <2> QED
    BY <2>1
<1>2. \/ o \in FullRead(c, at, n)
      \/ o = [cache |-> c, fill |-> fill]
      \/ o = [cache |-> Arrived(c, at, n), fill |-> fill]
  BY DEF ReadOutcomes, read_strategy
<1> QED
  BY <1>1, <1>2

LEMMA InitTyped == Init => TypeOK
<1> SUFFICES ASSUME Init PROVE TypeOK
  OBVIOUS
<1>1. /\ object \in Files \cup {None}
      /\ entry \in Nat \cup {None}
  BY DataTypes DEF Init, Files
<1>2. /\ mode \in [Fds -> {"closed", "r", "w", "rw"}]
      /\ spool \in [Fds -> Spools \cup {None}]
      /\ log \in [Fds -> Seq(Logs)]
  BY DEF Init
<1> QED
  BY <1>1, <1>2 DEF Init, TypeOK

(* Every step keeps the types. *)
LEMMA NextTyped == TypeOK /\ [Next]_vars => TypeOK'
<1> SUFFICES ASSUME TypeOK, [Next]_vars PROVE TypeOK'
  OBVIOUS
<1>0. /\ \A f \in Fds : Buffer(f) \in Spools
      /\ NewSpool \in Spools
      /\ <<>> \in Files /\ <<>> # None /\ None \notin Files
      /\ \A c \in Files : Len(c) \in Nat
  <2>1. \A f \in Fds : Buffer(f) \in Spools /\ NewSpool \in Spools
    BY SpoolTypes
  <2>2. None \notin Files
    BY FileIOAssumption
  <2>3. <<>> \in Files /\ \A c \in Files : Len(c) \in Nat
    BY DEF Files
  <2> QED
    BY <2>1, <2>2, <2>3, SpoolTypes
<1>1. ASSUME NEW f \in Fds, NEW m \in {"r", "w", "rw"}, Open(f, m) PROVE TypeOK'
  BY <1>1, NotedTyped DEF Open, TypeOK
<1>2. ASSUME NEW f \in Fds, Create(f) PROVE TypeOK'
  BY <1>0, <1>2 DEF Create, TypeOK
<1>3. ASSUME NEW f \in Fds, Release(f) PROVE TypeOK'
  <2>1. /\ object' \in Files \cup {None} /\ entry' \in Nat \cup {None}
        /\ event' \in BOOLEAN /\ outcome' \in {"none", "ok", "eio"}
    <3>1. CASE /\ IsDirty(spool[f])
               /\ object' = Uploaded(spool[f]) /\ entry' = Len(object')
               /\ outcome' = "ok"
               /\ event' = FALSE
      <4>1. spool[f] \in Spools
        BY <3>1 DEF IsDirty, TypeOK
      <4>2. object' \in Files
        BY <3>1, <4>1 DEF Uploaded, Spools
      <4> QED
        BY <1>0, <3>1, <4>2
    <3>2. CASE /\ object' \in {object} \cup (IF IsDirty(spool[f]) THEN {None} ELSE {})
               /\ outcome' = IF IsDirty(spool[f]) THEN "eio" ELSE "ok"
               /\ UNCHANGED <<entry, event>>
      BY <3>2 DEF TypeOK
    <3> QED
      BY <1>3, <3>1, <3>2 DEF Release
  <2>2. since' \subseteq Files
    BY <1>3, <2>1, NotedTyped DEF Release, TypeOK
  <2>3. /\ cache' \in Caches \cup {None}
        /\ fill' \in {"idle", "running", "ending", "ended"} /\ orphans' \in Nat
        /\ cache' = None => fill' = "idle"
    BY <1>3 DEF Release, Keeps, Dropped, TypeOK
  <2>4. /\ mode' \in [Fds -> {"closed", "r", "w", "rw"}]
        /\ spool' \in [Fds -> Spools \cup {None}]
        /\ log' \in [Fds -> Seq(Logs)]
    BY <1>3 DEF Release, TypeOK
  <2> QED
    BY <1>3, <2>1, <2>2, <2>3, <2>4 DEF Release, TypeOK
<1>4. ASSUME NEW f \in Fds, NEW at \in 0 .. MaxLen - 1, NEW data \in Runs,
             Write(f, at, data) \/ WriteFails(f, at, data)
      PROVE  TypeOK'
  <2>0. at \in Nat /\ data \in Seq(Bytes)
    BY DataTypes
  <2>1. spool' \in [Fds -> Spools \cup {None}]
    <3>1. /\ write_at(Buffer(f), at, data) \in Spools
          /\ write_fails(Buffer(f), at, data) \in Spools
      BY <1>0, <2>0, WriteFacts, FailFacts
    <3> QED
      BY <1>4, <3>1 DEF Write, WriteFails, TypeOK
  <2>2. log' \in [Fds -> Seq(Logs)]
    <3>1. \A b \in BOOLEAN : [at |-> at, data |-> data, ok |-> b] \in Logs
      BY <2>0 DEF Logs
    <3>2. PICK b \in BOOLEAN : log' = [log EXCEPT ![f] =
                                 Append(@, [at |-> at, data |-> data, ok |-> b])]
      BY <1>4 DEF Write, WriteFails, Logged
    <3> DEFINE e == [at |-> at, data |-> data, ok |-> b]
    <3>3. log[f] \in Seq(Logs) /\ e \in Logs
      BY <3>1 DEF TypeOK
    <3> HIDE DEF e
    <3>4. Append(log[f], e) \in Seq(Logs)
      BY <3>3
    <3>5. log' = [log EXCEPT ![f] = Append(log[f], e)]
      BY <3>2 DEF e
    <3> QED
      BY <3>4, <3>5 DEF TypeOK
  <2>3. /\ writes' = writes + 1
        /\ UNCHANGED <<object, entry, mode, leaked, cache, fill, orphans, event, outcome,
                       since, changes>>
    BY <1>4 DEF Write, WriteFails
  <2> QED
    BY <2>1, <2>2, <2>3 DEF TypeOK
<1>5. ASSUME NEW f \in Fds, NEW size \in {0, 1}, SetSize(f, size) PROVE TypeOK'
  <2>1. spool' \in [Fds -> Spools \cup {None}]
    BY <1>0, <1>5 DEF SetSize, Truncated, TypeOK
  <2>2. log' \in [Fds -> Seq(Logs)]
    BY <1>5 DEF SetSize, TypeOK
  <2> QED
    BY <1>5, <2>1, <2>2 DEF SetSize, TypeOK
<1>6. ASSUME NEW f \in Fds, NEW at \in 0 .. MaxLen - 1, NEW n \in 0 .. MaxLen,
             Read(f, at, n)
      PROVE  TypeOK'
  <2> DEFINE c == IF cache = None THEN NewCache(entry) ELSE cache
  <2>1. entry \in Nat
    BY <1>6 DEF Read, TypeOK
  <2>2. NewCache(entry) \in Caches
    BY <2>1 DEF NewCache, Caches
  <2>3. c \in Caches
    BY <2>2 DEF TypeOK
  <2>4. PICK o \in ReadOutcomes(c, at, n) : cache' = o.cache /\ fill' = o.fill
    BY <1>6 DEF Read
  <2> HIDE DEF c
  <2>5. Arrived(c, at, n) \in Caches /\ Arrived(c, 0, n) \in Caches
    BY <2>3, ArrivedFacts DEF TypeOK
  <2>6. /\ o.cache \in {c, Arrived(c, at, n), Arrived(c, 0, n)}
        /\ o.fill = fill \/ o.fill \in {"running", "ending", "ended"}
    BY OutcomeFacts
  <2>7. cache' \in Caches /\ fill' \in {"idle", "running", "ending", "ended"}
    BY <2>3, <2>4, <2>5, <2>6 DEF TypeOK
  <2>8. cache' # None
    BY <2>7, FileIOAssumption
  <2> QED
    BY <1>6, <2>7, <2>8 DEF Read, TypeOK
<1>7. CASE Unlink \/ Relist
  BY <1>0, <1>7 DEF Unlink, Relist, TypeOK
<1>8. ASSUME NEW c \in Given, DeviceChanges(c) PROVE TypeOK'
  <2>1. c \in Files /\ c # None
    BY <1>0, DataTypes
  <2> QED
    BY <1>8, <2>1, NotedTyped DEF DeviceChanges, TypeOK
<1>10. CASE EventHandled
  <2>1. /\ cache' = None /\ fill' = "idle" /\ orphans' \in Nat
        /\ object' = object
    BY <1>10 DEF EventHandled, Keeps, TypeOK
  <2>2. since' \subseteq Files
    BY <1>10, <2>1, NotedTyped DEF EventHandled, TypeOK
  <2> QED
    BY <1>10, <2>1, <2>2 DEF EventHandled, TypeOK
<1>11. ASSUME NEW n \in 0 .. MaxLen, Fill(n) PROVE TypeOK'
  <2>1. cache \in Caches
    BY <1>11 DEF Fill, TypeOK
  <2>2. cache' \in Caches
    BY <1>11, <2>1, ArrivedFacts DEF Fill, TypeOK
  <2>3. cache' # None
    BY <2>2, FileIOAssumption
  <2> QED
    BY <1>11, <2>2, <2>3 DEF Fill, TypeOK
<1>12. CASE FillTail \/ OrphanTail
  BY <1>12, NotedTyped DEF FillTail, OrphanTail, TypeOK
<1>9. CASE UNCHANGED vars
  BY <1>9 DEF vars, TypeOK
<1> QED
  BY <1>1, <1>2, <1>3, <1>4, <1>5, <1>6, <1>7, <1>8, <1>9, <1>10, <1>11, <1>12 DEF Next

(* The types of the file's state hold for every instance. *)
THEOREM TypeCorrect == Spec => []TypeOK
BY InitTyped, NextTyped, PTL DEF Spec
-----------------------------------------------------------------------------
(* A descriptor of mode m, its buffer s and the log l of its writes: a     *)
(* closed one has no buffer and without a buffer nothing is logged; a      *)
(* buffer is exact, its length right if no write failed, and a write that  *)
(* succeeded has made it dirty.                                            *)
Matches(m, s, l) ==
  /\ m = "closed" => s = None
  /\ s = None => l = <<>>
  /\ s # None => /\ Exact(s.file, l)
                 /\ (\A k \in DOMAIN l : l[k].ok) => s.len = Len(s.file)
  /\ (\E k \in DOMAIN l : l[k].ok /\ l[k].data # <<>>) => s # None /\ s.dirty

(* The inductive invariant of the spools. *)
Spooled == \A f \in Fds : Matches(mode[f], spool[f], log[f])

LEMMA NewMatches ==
  ASSUME NEW m
  PROVE  Matches(m, NewSpool, <<>>) <=> m # "closed"
<1>1. NewSpool # None /\ NewSpool.file = <<>> /\ NewSpool.len = 0
  BY SpoolTypes DEF NewSpool
<1> QED
  BY <1>1, EmptyExact DEF Matches

(* A buffer that matches its log matches it after one more write. *)
LEMMA WriteMatches ==
  ASSUME NEW m, m # "closed", NEW s \in Spools, NEW w \in Spools, NEW l \in Seq(Logs),
         NEW e \in Logs, Matches(m, s, l),
         w.file = IF e.data = <<>> THEN s.file ELSE Put(s.file, e.at, e.data),
         e.ok => /\ e.data = <<>> => w = s
                 /\ e.data # <<>> =>
                      /\ w.len = IF s.len >= e.at + Len(e.data) THEN s.len
                                 ELSE e.at + Len(e.data)
                      /\ w.dirty,
         ~e.ok => w.dirty = s.dirty
  PROVE  Matches(m, w, Append(l, e))
<1> DEFINE u == Append(l, e)
           n == Len(l)
<1>1. /\ n \in Nat /\ DOMAIN l = 1 .. n /\ DOMAIN u = 1 .. n + 1
      /\ \A k \in 1 .. n : u[k] = l[k]
      /\ u[n + 1] = e
  BY AppendFacts
<1>2. s # None /\ w # None
  BY SpoolTypes
<1>3. s.file \in Files /\ e.at \in Nat /\ e.data \in Seq(Bytes) /\ e.ok \in BOOLEAN
  BY DEF Spools, Logs
<1>4. Exact(w.file, u)
  <2>0. Exact(s.file, l)
    BY <1>2 DEF Matches
  <2>1. CASE e.data = <<>>
    BY <1>3, <2>0, <2>1, SkipExact
  <2>2. CASE e.data # <<>>
    BY <1>3, <2>0, <2>2, PutExact
  <2> QED
    BY <2>1, <2>2
<1> HIDE DEF u, n
<1>5. ASSUME \A k \in DOMAIN u : u[k].ok PROVE w.len = Len(w.file)
  <2>1. e.ok
    BY <1>1, <1>5
  <2>2. \A k \in DOMAIN l : l[k].ok
    BY <1>1, <1>5
  <2>3. s.len = Len(s.file)
    BY <1>2, <2>2 DEF Matches
  <2>4. CASE e.data = <<>>
    BY <2>1, <2>3, <2>4
  <2>5. CASE e.data # <<>>
    <3>1. Len(Put(s.file, e.at, e.data)) =
            IF Len(s.file) >= e.at + Len(e.data) THEN Len(s.file) ELSE e.at + Len(e.data)
      BY <1>3, PutFacts
    <3> QED
      BY <2>1, <2>3, <2>5, <3>1
  <2> QED
    BY <2>4, <2>5
<1>6. ASSUME NEW k \in DOMAIN u, u[k].ok, u[k].data # <<>> PROVE w.dirty
  <2>1. CASE k = n + 1
    BY <1>1, <1>6, <2>1
  <2>2. CASE k # n + 1
    <3>1. k \in DOMAIN l /\ u[k] = l[k]
      BY <1>1, <2>2
    <3>2. s.dirty
      BY <1>6, <3>1 DEF Matches
    <3> QED
      BY <1>3, <3>2
  <2> QED
    BY <2>1, <2>2
<1> QED
  BY <1>2, <1>4, <1>5, <1>6 DEF Matches, u

LEMMA InitSpooled == Init => Spooled
<1> SUFFICES ASSUME Init, NEW f \in Fds PROVE Matches(mode[f], spool[f], log[f])
  BY DEF Spooled
<1>1. mode[f] = "closed" /\ spool[f] = None /\ log[f] = <<>>
  BY DEF Init
<1> QED
  BY <1>1 DEF Matches

(* Every step keeps the spools exact. *)
LEMMA NextSpooled == TypeOK /\ Spooled /\ [Next]_vars => Spooled'
<1> SUFFICES ASSUME TypeOK, Spooled, [Next]_vars PROVE Spooled'
  OBVIOUS
<1>0. /\ mode \in [Fds -> {"closed", "r", "w", "rw"}]
      /\ spool \in [Fds -> Spools \cup {None}]
      /\ log \in [Fds -> Seq(Logs)]
  BY DEF TypeOK
<1>a. ASSUME NEW f \in Fds, NEW m, NEW s, NEW l,
             mode' = [mode EXCEPT ![f] = m], spool' = [spool EXCEPT ![f] = s],
             log' = [log EXCEPT ![f] = l], Matches(m, s, l)
      PROVE  Spooled'
  <2> SUFFICES ASSUME NEW g \in Fds PROVE Matches(mode'[g], spool'[g], log'[g])
    BY DEF Spooled
  <2>1. CASE g = f
    <3>1. mode'[g] = m /\ spool'[g] = s /\ log'[g] = l
      BY <1>0, <1>a, <2>1
    <3> QED
      BY <1>a, <3>1
  <2>2. CASE g # f
    <3>1. mode'[g] = mode[g] /\ spool'[g] = spool[g] /\ log'[g] = log[g]
      BY <1>0, <1>a, <2>2
    <3> QED
      BY <3>1 DEF Spooled
  <2> QED
    BY <2>1, <2>2
<1>b. /\ \A f \in Fds : /\ mode = [mode EXCEPT ![f] = mode[f]]
                        /\ spool = [spool EXCEPT ![f] = spool[f]]
                        /\ log = [log EXCEPT ![f] = log[f]]
  BY <1>0
<1>c. \A f \in Fds : /\ Buffer(f) \in Spools
                     /\ mode[f] # "closed" => Matches(mode[f], Buffer(f), log[f])
  <2> SUFFICES ASSUME NEW f \in Fds
               PROVE  /\ Buffer(f) \in Spools
                      /\ mode[f] # "closed" => Matches(mode[f], Buffer(f), log[f])
    OBVIOUS
  <2>1. Buffer(f) \in Spools
    BY SpoolTypes
  <2>2. CASE spool[f] = None
    <3>1. log[f] = <<>> /\ Buffer(f) = NewSpool
      BY <2>2 DEF Spooled, Matches, Buffer
    <3> QED
      BY <2>1, <3>1, NewMatches
  <2>3. CASE spool[f] # None
    BY <2>1, <2>3 DEF Spooled, Buffer
  <2> QED
    BY <2>2, <2>3
<1>1. ASSUME NEW f \in Fds, NEW m \in {"r", "w", "rw"}, Open(f, m) PROVE Spooled'
  <2>1. Matches(m, spool[f], log[f])
    BY <1>1 DEF Spooled, Matches
  <2>2. mode' = [mode EXCEPT ![f] = m] /\ spool' = spool /\ log' = log
    BY <1>1 DEF Open
  <2> QED
    BY <1>a, <1>b, <2>1, <2>2
<1>2. ASSUME NEW f \in Fds, Create(f) PROVE Spooled'
  <2>1. mode[f] = "closed" /\ spool[f] = None /\ log[f] = <<>>
    BY <1>2 DEF Create, Spooled, Matches
  <2>2. CASE mode' = [mode EXCEPT ![f] = "rw"] /\ spool' = [spool EXCEPT ![f] = NewSpool]
    <3>1. Matches("rw", NewSpool, log[f])
      BY <2>1, NewMatches
    <3>2. log' = [log EXCEPT ![f] = log[f]]
      BY <1>2, <1>b DEF Create
    <3> QED
      BY <1>a, <2>2, <3>1, <3>2
  <2>3. CASE UNCHANGED <<mode, spool>>
    BY <1>2, <2>3 DEF Create, Spooled
  <2> QED
    BY <1>2, <2>2, <2>3 DEF Create
<1>3. ASSUME NEW f \in Fds, Release(f) PROVE Spooled'
  <2>1. Matches("closed", None, <<>>)
    BY DEF Matches
  <2>2. /\ mode' = [mode EXCEPT ![f] = "closed"]
        /\ spool' = [spool EXCEPT ![f] = None]
        /\ log' = [log EXCEPT ![f] = <<>>]
    BY <1>3 DEF Release
  <2> QED
    BY <1>a, <2>1, <2>2
<1>4. ASSUME NEW f \in Fds, NEW at \in 0 .. MaxLen - 1, NEW data \in Runs,
             Write(f, at, data)
      PROVE  Spooled'
  <2> DEFINE e == [at |-> at, data |-> data, ok |-> TRUE]
             w == write_at(Buffer(f), at, data)
  <2>0. at \in Nat /\ data \in Seq(Bytes)
    BY DataTypes
  <2>1. e \in Logs /\ e.at = at /\ e.data = data /\ e.ok
    BY <2>0 DEF Logs
  <2>2. /\ mode' = mode /\ mode[f] # "closed"
        /\ spool' = [spool EXCEPT ![f] = w]
        /\ log' = [log EXCEPT ![f] = Append(log[f], e)]
    BY <1>4 DEF Write, Logged
  <2> HIDE DEF e, w
  <2>3. /\ w \in Spools
        /\ data = <<>> => w = Buffer(f)
        /\ data # <<>> =>
             /\ w.file = Put(Buffer(f).file, at, data)
             /\ w.len = IF Buffer(f).len >= at + Len(data) THEN Buffer(f).len
                        ELSE at + Len(data)
             /\ w.dirty
    BY <1>c, <2>0, WriteFacts DEF w
  <2>4. log[f] \in Seq(Logs)
    BY <1>0
  <2>5. Matches(mode[f], w, Append(log[f], e))
    BY <1>c, <2>1, <2>2, <2>3, <2>4, WriteMatches
  <2> QED
    BY <1>a, <1>b, <2>2, <2>5
<1>5. ASSUME NEW f \in Fds, NEW at \in 0 .. MaxLen - 1, NEW data \in Runs,
             WriteFails(f, at, data)
      PROVE  Spooled'
  <2> DEFINE e == [at |-> at, data |-> data, ok |-> FALSE]
             w == write_fails(Buffer(f), at, data)
  <2>0. at \in Nat /\ data \in Seq(Bytes)
    BY DataTypes
  <2>1. e \in Logs /\ e.at = at /\ e.data = data /\ ~e.ok
    BY <2>0 DEF Logs
  <2>2. /\ mode' = mode /\ mode[f] # "closed"
        /\ spool' = [spool EXCEPT ![f] = w]
        /\ log' = [log EXCEPT ![f] = Append(log[f], e)]
    BY <1>5 DEF WriteFails, Logged
  <2> HIDE DEF e, w
  <2>3. /\ w \in Spools
        /\ w.file = IF data = <<>> THEN Buffer(f).file ELSE Put(Buffer(f).file, at, data)
        /\ w.dirty = Buffer(f).dirty
    BY <1>c, <2>0, FailFacts DEF w
  <2>4. log[f] \in Seq(Logs)
    BY <1>0
  <2>5. Matches(mode[f], w, Append(log[f], e))
    BY <1>c, <2>1, <2>2, <2>3, <2>4, WriteMatches
  <2> QED
    BY <1>a, <1>b, <2>2, <2>5
<1>6. ASSUME NEW f \in Fds, NEW size \in {0, 1}, SetSize(f, size) PROVE Spooled'
  <2>0. mode' = mode /\ mode[f] # "closed"
    BY <1>6 DEF SetSize
  <2>1. CASE size = 0
    <3>1. PICK s \in {NewSpool, None} : spool' = [spool EXCEPT ![f] = s]
      BY <1>6, <2>1 DEF SetSize, Truncated
    <3>2. log' = [log EXCEPT ![f] = <<>>]
      BY <1>6, <2>1 DEF SetSize
    <3>3. Matches(mode[f], None, <<>>)
      BY DEF Matches
    <3>4. Matches(mode[f], s, <<>>)
      BY <2>0, <3>3, NewMatches
    <3> QED
      BY <1>a, <1>b, <2>0, <3>1, <3>2, <3>4
  <2>2. CASE size = 1
    <3>1. spool' = [spool EXCEPT ![f] = Buffer(f)] /\ log' = log
      BY <1>6, <2>2 DEF SetSize, Truncated
    <3> QED
      BY <1>a, <1>b, <1>c, <2>0, <3>1
  <2> QED
    BY <2>1, <2>2
<1>7. CASE UNCHANGED <<mode, spool, log>>
  BY <1>7 DEF Spooled
<1>8. ASSUME NEW f \in Fds, NEW at, NEW n, Read(f, at, n) PROVE UNCHANGED <<mode, spool, log>>
  BY <1>8 DEF Read
<1>9. ASSUME NEW c, DeviceChanges(c) \/ Fill(c) PROVE UNCHANGED <<mode, spool, log>>
  BY <1>9 DEF DeviceChanges, Fill
<1>10. ASSUME Unlink \/ EventHandled \/ Relist \/ FillTail \/ OrphanTail \/ UNCHANGED vars
       PROVE  UNCHANGED <<mode, spool, log>>
  BY <1>10 DEF Unlink, EventHandled, Relist, FillTail, OrphanTail, vars
<1> QED
  BY <1>1, <1>2, <1>3, <1>4, <1>5, <1>6, <1>7, <1>8, <1>9, <1>10 DEF Next

(* Whatever mix of writes, empty ones, failing ones and truncations: a     *)
(* spool holds the last byte written at each place, zeros in the gaps, and *)
(* its length is right unless a write failed.                              *)
THEOREM SpoolIsExact == Spec => []SpoolExact
<1>1. TypeOK /\ Spooled => SpoolExact
  <2> SUFFICES ASSUME TypeOK, Spooled, NEW f \in Fds, spool[f] # None
               PROVE  /\ spool[f].file = Replay(log[f])
                      /\ (\A k \in DOMAIN log[f] : log[f][k].ok) =>
                           spool[f].len = Len(spool[f].file)
    BY DEF SpoolExact
  <2>1. spool[f].file \in Files /\ log[f] \in Seq(Logs)
    BY DEF TypeOK, Spools
  <2>2. Matches(mode[f], spool[f], log[f])
    BY DEF Spooled
  <2>3. spool[f].file = Replay(log[f])
    BY <2>1, <2>2, ExactIsReplay DEF Matches
  <2> QED
    BY <2>2, <2>3 DEF Matches
<1> QED
  BY <1>1, InitTyped, NextTyped, InitSpooled, NextSpooled, PTL DEF Spec

(* A close that reports success after a write has stored what was written. *)
THEOREM CloseStoresAll == Spec => CloseStores
<1> DEFINE Stores ==
      \A f \in Fds :
        /\ mode[f] # "closed" /\ mode'[f] = "closed" /\ outcome' = "ok"
        /\ \E k \in DOMAIN log[f] : log[f][k].ok /\ log[f][k].data # <<>>
        => object' = Replay(log[f]) /\ entry' = Len(object')
<1>1. TypeOK /\ Spooled /\ [Next]_vars => Stores
  <2> SUFFICES ASSUME TypeOK, Spooled, [Next]_vars, NEW f \in Fds,
                      mode[f] # "closed", mode'[f] = "closed", outcome' = "ok",
                      \E k \in DOMAIN log[f] : log[f][k].ok /\ log[f][k].data # <<>>
               PROVE  object' = Replay(log[f]) /\ entry' = Len(object')
    OBVIOUS
  <2>0. mode \in [Fds -> {"closed", "r", "w", "rw"}]
    BY DEF TypeOK
  <2>1. Release(f)
    <3>1. ASSUME NEW g \in Fds, NEW m \in {"r", "w", "rw"}, Open(g, m) PROVE FALSE
      BY <2>0, <3>1 DEF Open
    <3>2. ASSUME NEW g \in Fds, Create(g) PROVE FALSE
      BY <2>0, <3>2 DEF Create
    <3>3. ASSUME NEW g \in Fds, Release(g) PROVE g = f
      BY <2>0, <3>3 DEF Release
    <3>4. ASSUME NEW g, NEW at, NEW data,
                 Write(g, at, data) \/ WriteFails(g, at, data)
          PROVE  FALSE
      BY <3>4 DEF Write, WriteFails
    <3>5. ASSUME NEW g, NEW size, SetSize(g, size) PROVE FALSE
      BY <3>5 DEF SetSize
    <3>6. ASSUME NEW g, NEW at, NEW n, Read(g, at, n) PROVE FALSE
      BY <3>6 DEF Read
    <3>7. ASSUME NEW c, DeviceChanges(c) \/ Fill(c) PROVE FALSE
      BY <3>7 DEF DeviceChanges, Fill
    <3>8. ~(Unlink \/ EventHandled \/ Relist \/ FillTail \/ OrphanTail \/ UNCHANGED vars)
      BY DEF Unlink, EventHandled, Relist, FillTail, OrphanTail, vars
    <3> QED
      BY <3>1, <3>2, <3>3, <3>4, <3>5, <3>6, <3>7, <3>8 DEF Next
  <2>2. Matches(mode[f], spool[f], log[f])
    BY DEF Spooled
  <2>3. IsDirty(spool[f]) /\ Exact(spool[f].file, log[f])
    BY <2>2 DEF Matches, IsDirty
  <2>4. spool[f].file \in Files /\ log[f] \in Seq(Logs)
    BY <2>3 DEF TypeOK, Spools, IsDirty
  <2>5. object' = spool[f].file /\ entry' = Len(object')
    BY <2>1, <2>3 DEF Release, Uploaded
  <2> QED
    BY <2>3, <2>4, <2>5, ExactIsReplay
<1> HIDE DEF Stores
<1>2. TypeOK /\ Spooled /\ [Next]_vars => [Stores]_vars
  BY <1>1
<1> QED
  BY <1>2, InitTyped, NextTyped, InitSpooled, NextSpooled, PTL
     DEF Spec, CloseStores, Stores
-----------------------------------------------------------------------------
(* Byte i of cache c is missing, or some content in S had it. *)
FromSince(c, S) ==
  \A i \in DOMAIN c : c[i] = Missing \/ \E o \in S : i \in DOMAIN o /\ o[i] = c[i]

(* Somebody has the file open, or its cache has a task at work on it.      *)
Busy == InUse(Fds) \/ Filling

(* The inductive invariant of the read cache.  The contents of the present *)
(* period are none outside one and have the object's in one; a file that   *)
(* is neither open nor being filled has no cache.                          *)
Recent ==
  /\ ~Busy => since = {}
  /\ Busy /\ entry # None /\ object # None => object \in since
  /\ ~Busy /\ ~leaked => cache = None
  /\ CacheRecent

LEMMA InitRecent == Init => Recent
<1> SUFFICES ASSUME Init PROVE Recent
  OBVIOUS
<1>1. ~Busy
  BY DEF Init, Busy, InUse, Filling
<1> QED
  BY <1>1 DEF Init, Recent, CacheRecent, ReopenRereads

(* Who has the file open, when one descriptor changes. *)
LEMMA InUseOpens ==
  ASSUME TypeOK, NEW f \in Fds, NEW m, m # "closed", mode' = [mode EXCEPT ![f] = m]
  PROVE  InUse(Fds)'
BY DEF TypeOK, InUse

LEMMA InUseCloses ==
  ASSUME TypeOK, NEW f \in Fds, mode' = [mode EXCEPT ![f] = "closed"], mode[f] # "closed"
  PROVE  InUse(Fds) /\ (InUse(Fds)' <=> InUse(Fds \ {f}))
BY DEF TypeOK, InUse

(* A step that notes the object's content: the invariant holds after it if *)
(* the cache is kept only from period to period, and unchanged.            *)
LEMMA NotedRecent ==
  ASSUME Recent, Noted,
         entry' # None => entry # None,
         cache' \in {cache, None}, leaked' = leaked,
         ~Busy' => cache' = None \/ leaked,
         since \subseteq Files, None \notin Files
  PROVE  Recent'
<1>1. since' = IF Busy' THEN (since \cup {object'}) \ {None} ELSE {}
  BY DEF Noted, Busy
<1>2. None \notin since
  OBVIOUS
<1>3. CacheRecent'
  <2>1. CASE ~leaked /\ cache' # None /\ entry' # None
    <3>1. cache' = cache /\ cache # None /\ entry # None /\ Busy'
      BY <2>1
    <3>2. since \subseteq since'
      BY <1>1, <1>2, <3>1
    <3>3. FromSince(cache, since)
      BY <2>1, <3>1 DEF Recent, CacheRecent, ReopenRereads, FromSince
    <3>4. FromSince(cache', since')
      BY <3>1, <3>2, <3>3 DEF FromSince
    <3> QED
      BY <3>4 DEF CacheRecent, ReopenRereads, FromSince
  <2>2. CASE leaked \/ cache' = None \/ entry' = None
    BY <2>2 DEF CacheRecent, ReopenRereads
  <2> QED
    BY <2>1, <2>2
<1> QED
  BY <1>1, <1>3 DEF Recent

(* A step that changes nothing of this but the cache, within a period.     *)
LEMMA FilledRecent ==
  ASSUME TypeOK, Recent, Busy, Busy', entry' = entry, entry # None,
         UNCHANGED <<object, leaked, since>>,
         NEW c \in Caches, leaked \/ FromSince(c, since),
         NEW from, NEW n, cache' \in {c, Arrived(c, from, n)}
  PROVE  Recent'
<1>1. ASSUME FromSince(c, since) PROVE FromSince(Arrived(c, from, n), since)
  <2> SUFFICES ASSUME NEW i \in DOMAIN c, Arrived(c, from, n)[i] # c[i]
               PROVE  \E o \in since : i \in DOMAIN o /\ o[i] = Arrived(c, from, n)[i]
    BY <1>1, ArrivedFacts DEF FromSince, TypeOK
  <2>1. object # None /\ i \in DOMAIN object /\ Arrived(c, from, n)[i] = object[i]
    BY ArrivedFacts DEF TypeOK
  <2>2. object \in since
    BY <2>1 DEF Recent
  <2> QED
    BY <2>1, <2>2
<1>2. leaked \/ FromSince(cache', since')
  BY <1>1
<1>3. CacheRecent'
  BY <1>2 DEF CacheRecent, ReopenRereads, FromSince
<1> QED
  BY <1>3 DEF Recent

(* Every step keeps the cache recent. *)
LEMMA NextRecent == TypeOK /\ Recent /\ [Next]_vars => Recent'
<1> SUFFICES ASSUME TypeOK, Recent, [Next]_vars PROVE Recent'
  OBVIOUS
<1>0. TypeOK' /\ since \subseteq Files /\ None \notin Files /\ None \notin Caches
  BY NextTyped, FileIOAssumption DEF TypeOK
<1>1. ASSUME NEW f \in Fds, NEW m \in {"r", "w", "rw"}, Open(f, m) PROVE Recent'
  <2>1. InUse(Fds)'
    BY <1>1, InUseOpens DEF Open
  <2> QED
    BY <1>0, <1>1, <2>1, NotedRecent DEF Open, Busy
<1>2. ASSUME NEW f \in Fds, Create(f) PROVE Recent'
  <2>1. cache' = None /\ object' = <<>> /\ fill' = "idle"
    BY <1>2 DEF Create
  <2>2. CacheRecent' /\ ~Filling'
    BY <2>1 DEF CacheRecent, ReopenRereads, Filling
  <2>3. CASE mode' = [mode EXCEPT ![f] = "rw"] /\ since' = {<<>>}
    <3>1. InUse(Fds)'
      BY <2>3, InUseOpens
    <3> QED
      BY <2>1, <2>2, <2>3, <3>1 DEF Recent, Busy
  <2>4. CASE mode' = mode /\ since' = {}
    <3>1. ~InUse(Fds)'
      BY <1>2, <2>4 DEF Create, InUse
    <3> QED
      BY <2>1, <2>2, <2>4, <3>1 DEF Recent, Busy
  <2> QED
    BY <1>2, <2>3, <2>4 DEF Create
<1>3. ASSUME NEW f \in Fds, Release(f) PROVE Recent'
  <2> DEFINE used == InUse(Fds \ {f})
  <2>1. InUse(Fds) /\ (InUse(Fds)' <=> used)
    BY <1>3, InUseCloses DEF Release
  <2>2. /\ cache' = IF leaked \/ used \/ fill = "running" THEN cache ELSE None
        /\ fill' = IF cache' = None THEN "idle" ELSE fill
        /\ leaked' = leaked
        /\ Noted
    BY <1>3 DEF Release, Keeps, Dropped, Held
  <2> HIDE DEF used
  <2>3. entry' # None => entry # None
    BY <1>3 DEF Release
  <2>4. ~Busy' => cache' = None \/ leaked
    BY <2>1, <2>2 DEF Busy, Filling
  <2> QED
    BY <1>0, <2>2, <2>3, <2>4, NotedRecent
<1>4. ASSUME NEW f \in Fds, NEW at \in 0 .. MaxLen - 1, NEW n \in 0 .. MaxLen,
             Read(f, at, n)
      PROVE  Recent'
  <2> DEFINE c == IF cache = None THEN NewCache(entry) ELSE cache
  <2>1. /\ InUse(Fds) /\ InUse(Fds)' /\ entry # None /\ entry' = entry
        /\ UNCHANGED <<object, leaked, since>>
    BY <1>4 DEF Read, InUse
  <2>2. c \in Caches
    <3>1. NewCache(entry) \in Caches
      BY <2>1 DEF NewCache, Caches, TypeOK
    <3> QED
      BY <3>1 DEF TypeOK
  <2>3. leaked \/ FromSince(c, since)
    <3>1. FromSince(NewCache(entry), since)
      BY DEF NewCache, FromSince
    <3>2. cache # None => leaked \/ FromSince(cache, since)
      BY <2>1 DEF Recent, CacheRecent, ReopenRereads, FromSince
    <3> QED
      BY <3>1, <3>2
  <2>4. cache' \in {c, Arrived(c, at, n), Arrived(c, 0, n)}
    <3>1. PICK o \in ReadOutcomes(c, at, n) : cache' = o.cache
      BY <1>4 DEF Read
    <3> HIDE DEF c
    <3> QED
      BY <3>1, OutcomeFacts
  <2> HIDE DEF c
  <2>5. Busy /\ Busy'
    BY <2>1 DEF Busy
  <2> QED
    BY <2>1, <2>2, <2>3, <2>4, <2>5, FilledRecent
<1>5. ASSUME NEW n \in 0 .. MaxLen, Fill(n) PROVE Recent'
  <2>1. /\ Filling /\ Filling' /\ cache # None /\ cache' = Arrived(cache, 0, n)
        /\ UNCHANGED <<object, entry, leaked, since>>
    BY <1>5 DEF Fill, Filling, TypeOK
  <2>2. CASE entry = None
    BY <2>1, <2>2 DEF Recent, Busy, CacheRecent, ReopenRereads
  <2>3. CASE entry # None
    <3>1. leaked \/ FromSince(cache, since)
      BY <2>1, <2>3 DEF Recent, CacheRecent, ReopenRereads, FromSince
    <3>2. cache \in Caches /\ Busy /\ Busy'
      BY <2>1 DEF TypeOK, Busy
    <3> QED
      BY <2>1, <2>3, <3>1, <3>2, FilledRecent
  <2> QED
    BY <2>2, <2>3
<1>6. CASE FillTail \/ OrphanTail
  <2>1. /\ mode' = mode /\ entry' = entry /\ leaked' = leaked /\ Noted
        /\ cache' = IF Held(Fds) THEN cache ELSE None
    BY <1>6 DEF FillTail, OrphanTail
  <2>2. InUse(Fds)' <=> InUse(Fds)
    BY <2>1 DEF InUse
  <2>3. ~Busy' => cache' = None \/ leaked
    BY <2>1, <2>2 DEF Busy, Held
  <2> QED
    BY <1>0, <2>1, <2>3, NotedRecent
<1>7. CASE EventHandled
  <2>1. entry' = entry /\ leaked' = leaked /\ Noted /\ cache' = None
    BY <1>7 DEF EventHandled, Keeps
  <2> QED
    BY <1>0, <2>1, NotedRecent
<1>8. ASSUME NEW c \in Given, DeviceChanges(c) PROVE Recent'
  <2>1. UNCHANGED <<entry, mode, leaked, cache, fill>> /\ Noted
    BY <1>8 DEF DeviceChanges
  <2>2. Busy' <=> Busy
    BY <2>1 DEF Busy, InUse, Filling
  <2>3. ~Busy' => cache' = None \/ leaked
    BY <2>1, <2>2 DEF Recent
  <2> QED
    BY <1>0, <2>1, <2>3, NotedRecent
<1>9. CASE Unlink \/ Relist
  <2>1. /\ UNCHANGED <<mode, fill, since, leaked, cache>>
        /\ entry # None
        /\ entry' = None \/ object' = object
    BY <1>9 DEF Unlink, Relist
  <2>2. Busy' <=> Busy
    BY <2>1 DEF Busy, InUse, Filling
  <2>3. CacheRecent'
    BY <2>1 DEF Recent, CacheRecent, ReopenRereads
  <2> QED
    BY <2>1, <2>2, <2>3 DEF Recent
<1>10. CASE UNCHANGED <<mode, fill, since, leaked, cache, object, entry>>
  <2>1. Busy' <=> Busy
    BY <1>10 DEF Busy, InUse, Filling
  <2>2. CacheRecent'
    BY <1>10 DEF Recent, CacheRecent, ReopenRereads
  <2> QED
    BY <1>10, <2>1, <2>2 DEF Recent
<1>11. ASSUME NEW f, NEW at, NEW data, Write(f, at, data) \/ WriteFails(f, at, data)
       PROVE  UNCHANGED <<mode, fill, since, leaked, cache, object, entry>>
  BY <1>11 DEF Write, WriteFails
<1>12. ASSUME NEW f, NEW size, SetSize(f, size)
       PROVE  UNCHANGED <<mode, fill, since, leaked, cache, object, entry>>
  BY <1>12 DEF SetSize
<1>13. ASSUME UNCHANGED vars
       PROVE  UNCHANGED <<mode, fill, since, leaked, cache, object, entry>>
  BY <1>13 DEF vars
<1> QED
  BY <1>1, <1>2, <1>3, <1>4, <1>5, <1>6, <1>7, <1>8, <1>9, <1>10, <1>11, <1>12, <1>13
  DEF Next

(* No byte is served from before the period in which the file has been     *)
(* open or being filled, unless a create has failed for want of a spool    *)
(* and left its descriptor behind.                                         *)
THEOREM CacheIsRecent == Spec => []CacheRecent
<1>1. Recent => CacheRecent
  BY DEF Recent
<1> QED
  BY <1>1, InitTyped, NextTyped, InitRecent, NextRecent, PTL DEF Spec
====
