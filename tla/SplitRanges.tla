----------------------------- MODULE SplitRanges -----------------------------
(***************************************************************************)
(* main and process_range of src/tracer/scripts/split.py, step by step:    *)
(* the loop over the rows read_csv returns, the batch loop of              *)
(* process_range, and the final write_csv.  The rows and the output rows   *)
(* are those of SplitSpec; parsing a range row (line 43) is modelled by    *)
(* its outcome, two integers or a ValueError, and formatting a piece as    *)
(* f"{start}-{end}" by the tile row that keeps both numbers.               *)
(*                                                                         *)
(* SplitSpec, which writes the whole expanded file in one step, is the     *)
(* specification this module is shown to implement.                       *)
(***************************************************************************)
EXTENDS Integers, Sequences

CONSTANTS Batch, Ints, MaxRows

ASSUME SplitAssumption ==
  /\ Batch \in Nat \ {0} /\ Ints \subseteq Nat /\ MaxRows \in Nat

VARIABLES
  input,      \* data: the rows read_csv returned
  idx,        \* the index of the row the loop of line 36 is at
  out,        \* processed_data
  pc,         \* "row", "tile" (inside process_range) or "done"
  start,      \* process_range's start
  int2,       \* process_range's int2
  ranges,     \* process_range's ranges
  file        \* the rows write_csv put in the output file

vars == <<input, idx, out, pc, start, int2, ranges, file>>

Abs == INSTANCE SplitSpec WITH written <- (pc = "done")

Row(kind, lo, hi) == Abs!Row(kind, lo, hi)

Min2(a, b) == IF a <= b THEN a ELSE b

-----------------------------------------------------------------------------
Init ==
  /\ input \in Abs!Inputs
  /\ idx = 1
  /\ out = << >>
  /\ pc = "row"
  /\ start = 0 /\ int2 = 0 /\ ranges = << >>
  /\ file = << >>

\* lines 37-40: an empty row or a comment row is copied as it is.
KeepRow ==
  /\ pc = "row" /\ idx <= Len(input)
  /\ input[idx].kind \in {"empty", "comment"}
  /\ out' = Append(out, input[idx])
  /\ idx' = idx + 1
  /\ UNCHANGED <<input, pc, start, int2, ranges, file>>

\* Mutant: the except branch keeps the row instead of skipping it.
SkipInvalidRowKept ==
  /\ pc = "row" /\ idx <= Len(input)
  /\ input[idx].kind = "garbage"
  /\ out' = Append(out, input[idx])
  /\ idx' = idx + 1
  /\ UNCHANGED <<input, pc, start, int2, ranges, file>>

\* lines 43 and 50-51: the first cell is not two integers; the row is
\* reported and dropped.
SkipInvalidRow ==
  /\ pc = "row" /\ idx <= Len(input)
  /\ input[idx].kind = "garbage"
  /\ idx' = idx + 1
  /\ UNCHANGED <<input, out, pc, start, int2, ranges, file>>

\* lines 44 and 48-49: int1 >= int2; the range is reported and dropped.
SkipInvalidRange ==
  /\ pc = "row" /\ idx <= Len(input)
  /\ input[idx].kind = "range" /\ input[idx].lo >= input[idx].hi
  /\ idx' = idx + 1
  /\ UNCHANGED <<input, out, pc, start, int2, ranges, file>>

\* lines 43-45 and 9-10: process_range(int1, int2) is called.
StartRange ==
  /\ pc = "row" /\ idx <= Len(input)
  /\ input[idx].kind = "range" /\ input[idx].lo < input[idx].hi
  /\ start' = input[idx].lo
  /\ int2' = input[idx].hi
  /\ ranges' = << >>
  /\ pc' = "tile"
  /\ UNCHANGED <<input, idx, out, file>>

\* Mutant: the piece ends on the first number of the next batch.
TilePastBatch ==
  /\ pc = "tile" /\ start <= int2
  /\ LET end == Min2((start \div Batch + 1) * Batch, int2)
     IN /\ ranges' = Append(ranges, Row("tile", start, end))
        /\ start' = end + 1
  /\ UNCHANGED <<input, idx, out, pc, int2, file>>

\* lines 11-14: one piece, up to the end of start's batch or int2.
Tile ==
  /\ pc = "tile" /\ start <= int2
  /\ LET end == Min2((start \div Batch + 1) * Batch - 1, int2)
     IN /\ ranges' = Append(ranges, Row("tile", start, end))
        /\ start' = end + 1
  /\ UNCHANGED <<input, idx, out, pc, int2, file>>

\* lines 15-16 and 46-47: the separator closes the pieces, which main
\* appends to processed_data one by one.
EndRange ==
  /\ pc = "tile" /\ start > int2
  /\ out' = out \o Append(ranges, Abs!Separator)
  /\ idx' = idx + 1
  /\ pc' = "row"
  /\ UNCHANGED <<input, start, int2, ranges, file>>

\* line 53: write_csv(output_file, processed_data).
WriteFile ==
  /\ pc = "row" /\ idx > Len(input)
  /\ file' = out
  /\ pc' = "done"
  /\ UNCHANGED <<input, idx, out, start, int2, ranges>>

Next ==
  \/ KeepRow \/ SkipInvalidRow \/ SkipInvalidRange \/ StartRange
  \/ Tile \/ EndRange \/ WriteFile

\* The script runs alone to its end: every enabled step is taken.
Spec == Init /\ [][Next]_vars /\ WF_vars(Next)

-----------------------------------------------------------------------------
(* Properties.                                                             *)

TypeOK ==
  /\ input \in Abs!Inputs
  /\ idx \in 1 .. Len(input) + 1
  /\ pc \in {"row", "tile", "done"}
  /\ start \in Nat /\ int2 \in Nat
  /\ \A s \in {out, ranges, file} :
       \A j \in 1 .. Len(s) :
         s[j].kind \in {"empty", "comment", "tile", "separator"}

\* split.py implements SplitSpec: it always terminates and writes, in
\* input order, the kept rows and, for each range a < b, its pieces cut at
\* every multiple of BATCH_SIZE, contiguous, covering a..b and nothing
\* else, then the separator.  This is the behaviour of the batch loop of
\* lines 11-14 at every boundary (a range starting or ending on a batch
\* edge, or inside one batch) and of the row loop around it.
SplitContract == Abs!Spec

=============================================================================
