------------------------------ MODULE SplitSpec ------------------------------
(***************************************************************************)
(* What src/tracer/scripts/split.py promises, as one step: the output file *)
(* holds, in input order, every empty and comment row unchanged and, for   *)
(* every range row a-b with a < b, the pieces of a..b that fall in the     *)
(* successive aligned batches [q * BATCH_SIZE, (q + 1) * BATCH_SIZE - 1],  *)
(* followed by a separator row.  Rows that do not parse as two integers,   *)
(* and ranges with a >= b, leave nothing in the file.                      *)
(*                                                                         *)
(* A row is a record: kind "empty" (a blank line), "comment" (first cell   *)
(* starting with #), "garbage" (first cell that int() or the unpacking of  *)
(* two values rejects) or "range" with its two integers lo and hi.  An     *)
(* output row is one of the kept input rows, a "tile" lo-hi or the         *)
(* "separator" row of 15 #.                                                *)
(***************************************************************************)
EXTENDS Integers, SequencesExt

CONSTANTS
  Batch,          \* BATCH_SIZE
  Ints,           \* the integers a range row may carry
  MaxRows         \* the most rows an input file has

Row(kind, lo, hi) == [kind |-> kind, lo |-> lo, hi |-> hi]

Separator == Row("separator", 0, 0)

Rows ==
  {Row(kd, 0, 0) : kd \in {"empty", "comment", "garbage"}}
    \cup {Row("range", a, b) : a \in Ints, b \in Ints}

Inputs == BoundedSeq(Rows, MaxRows)

\* The reference: the batches a..b meets, in order, each cut to a..b.
Tiles(a, b) ==
  [q \in 1 .. (b \div Batch - a \div Batch + 1) |->
     LET blk == a \div Batch + q - 1
     IN Row("tile", IF a > blk * Batch THEN a ELSE blk * Batch,
                    IF b < blk * Batch + Batch - 1 THEN b
                                                   ELSE blk * Batch + Batch - 1)]

RowOutput(r) ==
  CASE r.kind \in {"empty", "comment"}      -> <<r>>
    [] r.kind = "range" /\ r.lo < r.hi      -> Tiles(r.lo, r.hi) \o <<Separator>>
    [] OTHER                                -> << >>

Expand(in) == FlattenSeq([j \in 1 .. Len(in) |-> RowOutput(in[j])])

VARIABLES
  input,      \* the rows read_csv returns
  written,    \* write_csv has run
  file        \* the rows of the output file

vars == <<input, written, file>>

Init ==
  /\ input \in Inputs
  /\ written = FALSE
  /\ file = << >>

Write ==
  /\ ~written
  /\ written' = TRUE
  /\ file' = Expand(input)
  /\ UNCHANGED input

Spec == Init /\ [][Write]_vars /\ WF_vars(Write)

=============================================================================
