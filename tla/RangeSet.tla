------------------------------ MODULE RangeSet ------------------------------
(***************************************************************************)
(* The populated byte ranges of a sparse cache (src/src/ranges.rs): a      *)
(* sequence of half-open ranges, sorted, neither overlapping nor touching. *)
(***************************************************************************)
EXTENDS Naturals, Sequences, FiniteSetsExt, SequencesExt

CONSTANT U64Max \* the largest offset

ASSUME RangeSetAssumption == U64Max \in Nat \ {0}

Offsets == 0 .. U64Max

Span(s, e) == [start |-> s, end |-> e]

Bytes(r) == r.start .. r.end - 1

Covered(ranges) == UNION {Bytes(ranges[i]) : i \in DOMAIN ranges}

(* No two ranges overlap or touch, and none is empty. *)
Normal(ranges) ==
  /\ \A i \in DOMAIN ranges : ranges[i].start < ranges[i].end
  /\ \A i \in DOMAIN ranges :
       i + 1 \in DOMAIN ranges => ranges[i].end < ranges[i + 1].start

Apart(r, s, e) == r.end < s \/ r.start > e

(* insert's retain: a range that overlaps or touches what has been merged  *)
(* so far is merged into it, the others are kept.                          *)
Absorb(acc, r) ==
  IF Apart(r, acc.start, acc.end)
  THEN [acc EXCEPT !.kept = Append(@, r)]
  ELSE [acc EXCEPT !.start = Min({@, r.start}), !.end = Max({@, r.end})]

Merge(ranges, new) ==
  FoldLeft(Absorb, [start |-> new.start, end |-> new.end, kept |-> <<>>], ranges)

(* binary_search_by: the place of the first range that does not start      *)
(* before the merged one.                                                  *)
Place(ranges, start) ==
  Min({i \in 1 .. Len(ranges) + 1 : i \in DOMAIN ranges => ranges[i].start >= start})

Insert(ranges, new) ==
  IF new.start >= new.end THEN ranges
  ELSE LET m == Merge(ranges, new) IN
       InsertAt(m.kept, Place(m.kept, m.start), Span(m.start, m.end))

WrappingAdd(a, b) == (a + b) % (U64Max + 1)

SaturatingAdd(a, b) == Min({a + b, U64Max})

(* missing's loop; done: it took a break. *)
Scan(acc, r, end) ==
  IF acc.done \/ r.end <= acc.cursor THEN acc
  ELSE IF r.start >= end THEN [acc EXCEPT !.done = TRUE]
  ELSE [cursor |-> r.end,
        done   |-> r.end >= end,
        out    |-> IF r.start > acc.cursor
                   THEN Append(acc.out, Span(acc.cursor, Min({r.start, end})))
                   ELSE acc.out]

Gaps(ranges, offset, end) ==
  FoldLeft(LAMBDA acc, r : Scan(acc, r, end),
           [cursor |-> offset, done |-> FALSE, out |-> <<>>], ranges)

(* The parts of [offset, offset + size), clipped to [0, limit), that are   *)
(* not in the set.                                                         *)
Missing(ranges, offset, size, limit) ==
  LET end == Min({SaturatingAdd(offset, size), limit}) IN
  IF offset >= end THEN <<>>
  ELSE LET g == Gaps(ranges, offset, end) IN
       IF g.cursor < end THEN Append(g.out, Span(g.cursor, end)) ELSE g.out
=============================================================================
