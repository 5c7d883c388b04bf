---------------------------- MODULE MCSplitRanges ----------------------------
(* BATCH_SIZE = 5 as in the code.  The range ends 0, 4, 5, 9 and 12 put   *)
(* starts and ends on the first and the last number of a batch and inside *)
(* one, so that a range lies in one batch, ends on a batch edge or spans  *)
(* three batches; with up to 3 rows, every kind of row follows every      *)
(* other, and a range follows a range.                                    *)
EXTENDS SplitRanges

MCInts == {0, 4, 5, 9, 12}
=============================================================================
