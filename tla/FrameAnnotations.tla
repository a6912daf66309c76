-------------------------- MODULE FrameAnnotations --------------------------
(***************************************************************************)
(* annotate_windows (windows/annotations.py) as operators: which intervals *)
(* of a sidecar a window touches, and how many of its seconds lie inside   *)
(* their union.  A sidecar is [usable, rows]: whether its three columns    *)
(* are there in their kinds, and its intervals in file order.              *)
(***************************************************************************)
EXTENDS FrameQuality

Greater(a, b) == IF a > b THEN a ELSE b

Lesser(a, b) == IF a < b THEN a ELSE b

Bounded(f) == {"open_time", "close_time"} \subseteq f.have

(* _require_annotations: no null, no interval that holds no second.        *)
Sound(interval) ==
  /\ Null \notin {interval.start, interval.end, interval.flag}
  /\ interval.start < interval.end

SoundSidecar(sidecar) == \A k \in DOMAIN sidecar.rows : Sound(sidecar.rows[k])

(* read_annotations: a file is [there, typed, named, rows]: whether it is  *)
(* a regular file, can be read as the declared kinds, and has the three    *)
(* columns.  Reading stops one row past the cap.                           *)
Table(file, cap) ==
  IF cap = Null THEN file.rows ELSE SubSeq(file.rows, 1, Lesser(cap + 1, Len(file.rows)))

ReadVerdict(file, cap) ==
  LET table == [usable |-> TRUE, rows |-> Table(file, cap)] IN
  IF cap # Null /\ cap < 1 THEN "config_error"
  ELSE IF ~file.there THEN "file_not_found"
  ELSE IF ~file.typed \/ (cap # Null /\ Len(table.rows) > cap) THEN "annotation_error"
  ELSE IF ~file.named THEN "config_error"
  ELSE IF ~SoundSidecar(table) THEN "annotation_error"
  ELSE "ok"

(* _touches: half-open on both sides; a window without a bound touches     *)
(* nothing.                                                                *)
Touches(row, start, end) ==
  /\ Null \notin {row.open_time, row.close_time}
  /\ row.open_time < end
  /\ row.close_time > start

Spans(sidecar) == {<<sidecar.rows[k].start, sidecar.rows[k].end>> : k \in DOMAIN sidecar.rows}

Ahead(a, b) == a[1] < b[1] \/ (a[1] = b[1] /\ a[2] < b[2])

(* sorted; equal spans merge into one.                                     *)
InStartOrder(spans) ==
  [k \in 1 .. Cardinality(spans) |->
     CHOOSE span \in spans : Cardinality({other \in spans : Ahead(other, span)}) = k - 1]

Extend(merged, span) ==
  IF merged # <<>> /\ span[1] <= merged[Len(merged)][2]
  THEN [merged EXCEPT ![Len(merged)] = <<@[1], Greater(@[2], span[2])>>]
  ELSE Append(merged, span)

MergedInTurn(spans) ==
  LET merged[k \in 0 .. Len(spans)] ==
        IF k = 0 THEN <<>> ELSE Extend(merged[k - 1], spans[k])
  IN  merged[Len(spans)]

(* Faulty variant: spans are merged in file order.                         *)
MergedAsTheyCome(sidecar) ==
  MergedInTurn([k \in DOMAIN sidecar.rows |-> <<sidecar.rows[k].start, sidecar.rows[k].end>>])

(* _merged: disjoint spans, in start order.                                *)
Merged(sidecar) == MergedInTurn(InStartOrder(Spans(sidecar)))

(* The flags of a window, distinct; their order is that of their names.    *)
Flags(row, sidecar) ==
  {sidecar.rows[k].flag : k \in {k \in DOMAIN sidecar.rows :
                                   Touches(row, sidecar.rows[k].start, sidecar.rows[k].end)}}

(* A window's share of one merged span; of a window that ends before it    *)
(* begins, none.                                                           *)
Overlap(row, span) ==
  IF Touches(row, span[1], span[2])
  THEN Greater(0, Lesser(row.close_time, span[2]) - Greater(row.open_time, span[1]))
  ELSE 0

(* sum_horizontal                                                          *)
Total(seconds) ==
  LET total[k \in 0 .. Len(seconds)] == IF k = 0 THEN 0 ELSE total[k - 1] + seconds[k]
  IN  total[Len(seconds)]

OverlapSeconds(row, sidecar) ==
  LET spans == Merged(sidecar) IN
  Total([k \in DOMAIN spans |-> Overlap(row, spans[k])])

=============================================================================
