----------------------------- MODULE RangedRead -----------------------------
(***************************************************************************)
(* Reads of one open file on a device with partial downloads: the ranged   *)
(* branch of read in src/src/fs.rs over a SparseCache                      *)
(* (src/src/sparse_cache.rs).  A byte is known by its offset; the spool    *)
(* file reads as zeros where nothing was written.                          *)
(*                                                                         *)
(* The FUSE thread holds `inner` for the whole read.  Between reads a      *)
(* re-listing may change the entry's size while the cache keeps the size   *)
(* it was created with, and an event or the last close drops the cache.    *)
(***************************************************************************)
EXTENDS RangeSet

CONSTANTS MaxSize,  \* bound: sizes and offsets
          Chunk,    \* the largest request sent to the device
          Overshoot \* bound: bytes a response may have beyond the request

ASSUME RangedReadAssumption ==
  /\ MaxSize \in Nat /\ Overshoot \in Nat
  /\ Chunk \in Nat \ {0}
  /\ MaxSize + Chunk + Overshoot <= U64Max

VARIABLES size,   \* the entry's size
          actual, \* the bytes the device really has
          cache,  \* the sparse cache: present, its total_size and ranges
          held,   \* the offsets written to its spool file
          rd,     \* the read under way
          reply   \* the last reply: "none", "eio", or the offsets sent

vars == <<size, actual, cache, held, rd, reply>>

NoCache == [present |-> FALSE, total |-> 0, ranges |-> <<>>]

NoRead == [pc |-> "idle", offset |-> 0, len |-> 0, size |-> 0, todo |-> <<>>,
           cursor |-> 0]

Init ==
  /\ size \in 0 .. MaxSize
  /\ actual \in 0 .. MaxSize
  /\ cache = NoCache
  /\ held = {}
  /\ rd = NoRead
  /\ reply = [kind |-> "none", sent |-> {}]

Replies(kind, sent) == rd' = NoRead /\ reply' = [kind |-> kind, sent |-> sent]
-----------------------------------------------------------------------------
(* read: past the end there is nothing to fetch.  Otherwise the inode's    *)
(* cache, or a new one, says what is missing.                              *)
ReadBegin(offset, len) ==
  /\ rd.pc = "idle"
  /\ IF len = 0 \/ offset >= size
     THEN Replies("data", {}) /\ UNCHANGED <<cache, held>>
     ELSE /\ cache' = IF cache.present THEN cache
                      ELSE [present |-> TRUE, total |-> size, ranges |-> <<>>]
          /\ held' = IF cache.present THEN held ELSE {}
          /\ LET todo == Missing(cache'.ranges, offset, len, cache'.total) IN
             rd' = [pc |-> "fetch", offset |-> offset, len |-> len, size |-> size,
                    todo |-> todo,
                    cursor |-> IF todo = <<>> THEN 0 ELSE todo[1].start]
          /\ UNCHANGED reply
  /\ UNCHANGED <<size, actual>>

(* On to the next missing range, if there is one. *)
NextRange ==
  [rd EXCEPT !.todo = Tail(@),
             !.cursor = IF Len(rd.todo) > 1 THEN rd.todo[2].start ELSE 0]

(* What of an n-byte response fits inside the object. *)
Writable(n) == Min({n, IF rd.size > rd.cursor THEN rd.size - rd.cursor ELSE 0})

NeverPastEnd(end) == FALSE

(* write_at refuses bytes past the cache's total_size. *)
PastEnd(end) == end > cache.total

NeverBreaks(n) == FALSE

(* An empty response ends the range, however much of it is missing. *)
Breaks(n) == n = 0

(* One request, answered with n bytes. *)
Fetch(n) ==
  LET end == rd.cursor + Writable(n) IN
  /\ rd.pc = "fetch" /\ rd.todo # <<>>
  /\ n <= Min({Chunk, rd.todo[1].end - rd.cursor}) + Overshoot
  /\ n = 0 \/ rd.cursor + n <= actual
  /\ IF Writable(n) > 0 /\ PastEnd(end)
     THEN Replies("eio", {}) /\ UNCHANGED <<cache, held>>
     ELSE /\ cache' = [cache EXCEPT !.ranges = Insert(@, Span(rd.cursor, end))]
          /\ held' = held \cup (rd.cursor .. end - 1)
          /\ rd' = IF Breaks(n) \/ rd.cursor + n >= rd.todo[1].end
                   THEN NextRange ELSE [rd EXCEPT !.cursor = @ + n]
          /\ UNCHANGED reply
  /\ UNCHANGED <<size, actual>>

(* The request fails, recovery included. *)
FetchFails ==
  /\ rd.pc = "fetch" /\ rd.todo # <<>>
  /\ Replies("eio", {})
  /\ UNCHANGED <<size, actual, cache, held>>

ServesAnything == TRUE

(* The validity check after the fetches. *)
AllArrived == Missing(cache.ranges, rd.offset, rd.len, cache.total) = <<>>

(* read_at: short where the cache ends. *)
Serve ==
  /\ rd.pc = "fetch" /\ rd.todo = <<>>
  /\ IF AllArrived
     THEN Replies("data", rd.offset .. Min({rd.offset + rd.len, cache.total}) - 1)
     ELSE Replies("eio", {})
  /\ UNCHANGED <<size, actual, cache, held>>

(* The object changes on the device; a re-listing tells the entry. *)
Changes(s) ==
  /\ rd.pc = "idle"
  /\ actual' = s
  /\ UNCHANGED <<size, cache, held, rd, reply>>

Relist ==
  /\ rd.pc = "idle"
  /\ size' = actual
  /\ UNCHANGED <<actual, cache, held, rd, reply>>

(* The last close, or an ObjectInfoChanged event. *)
DropCache ==
  /\ rd.pc = "idle" /\ cache.present
  /\ cache' = NoCache
  /\ held' = {}
  /\ UNCHANGED <<size, actual, rd, reply>>
-----------------------------------------------------------------------------
Step == (\E n \in 0 .. Chunk + Overshoot : Fetch(n)) \/ Serve

Next ==
  \/ \E offset, len \in 0 .. MaxSize : ReadBegin(offset, len)
  \/ Step \/ FetchFails
  \/ \E s \in 0 .. MaxSize : Changes(s)
  \/ Relist \/ DropCache

Spec == Init /\ [][Next]_vars

(* The device answers; it need never fail a request. *)
FairSpec == Spec /\ WF_vars(Step)
-----------------------------------------------------------------------------
(* The cache's ranges are exactly the offsets written to its spool file,   *)
(* all below its total_size: no hole is ever taken for data, and no byte   *)
(* that is there is fetched again.                                         *)
CacheExact ==
  /\ Normal(cache.ranges)
  /\ Covered(cache.ranges) = held
  /\ \A o \in held : o < cache.total

(* Whatever ranges the cache has come to: insert adds exactly the range it *)
(* is given and keeps them sorted and apart, also when it touches, nests   *)
(* in or bridges others; and missing returns, in normal form, exactly the  *)
(* requested offsets below the limit that are not there, at the largest    *)
(* offsets too.                                                            *)
RangesExact ==
  rd.pc = "idle" =>
    /\ \A s, e \in Offsets :
         LET ranges == Insert(cache.ranges, Span(s, e)) IN
         Normal(ranges) /\ Covered(ranges) = held \cup (s .. e - 1)
    /\ \A offset, len, limit \in Offsets :
         LET gaps == Missing(cache.ranges, offset, len, limit)
             asked == {o \in Offsets : offset <= o /\ o < offset + len /\ o < limit} IN
         Normal(gaps) /\ Covered(gaps) = asked \ held

(* A reply with data holds only bytes the device sent, never the zeros of  *)
(* the spool file's holes, whatever short, long or empty responses came.   *)
ServedIsReal ==
  [][reply' # reply /\ reply'.kind = "data" => reply'.sent \subseteq held]_vars

(* Every read ends: empty and short responses do not make it fetch for     *)
(* ever.                                                                   *)
ReadEnds == rd.pc = "fetch" ~> rd.pc = "idle"
=============================================================================
