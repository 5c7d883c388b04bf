------------------------- MODULE SplitRangesProofs -------------------------
(***************************************************************************)
(* Proofs about split.py (module SplitRanges), for every BATCH_SIZE, every *)
(* set of integers a row may carry and every number of rows.              *)
(*                                                                         *)
(* TypeCorrect: the loop of main and the batch loop of process_range keep *)
(* every variable in its type.  It needs the output sequences to be       *)
(* sequences of output rows and the row index to stay on a row while      *)
(* process_range runs.                                                    *)
(***************************************************************************)
EXTENDS SplitRanges, SequenceTheorems, NaturalsInduction, TLAPS

USE SplitAssumption

\* The rows that may be written: kept rows, pieces and separators.
OutRow == [kind : {"empty", "comment", "tile", "separator"}, lo : Int, hi : Int]

\* The type invariant, with the sequences typed and the row index on a row
\* while a range is cut.
TInv ==
  /\ TypeOK
  /\ input \in Seq(Abs!Rows)
  /\ out \in Seq(OutRow) /\ ranges \in Seq(OutRow) /\ file \in Seq(OutRow)
  /\ pc = "tile" => idx <= Len(input)

-----------------------------------------------------------------------------
(* Types.                                                                  *)

\* The inputs read_csv can return are sequences of rows.
LEMMA InputsSeq ==
  ASSUME NEW x \in Abs!Inputs
  PROVE  x \in Seq(Abs!Rows)
<1>. PICK l \in 0 .. MaxRows : x \in [1 .. l -> Abs!Rows]
  BY DEF Abs!Inputs, Abs!BoundedSeq, Abs!SeqOf
<1>. QED  BY SMT

\* A row read from the input has a kind and two naturals.
LEMMA RowFields ==
  ASSUME NEW r \in Abs!Rows
  PROVE  /\ r.kind \in {"empty", "comment", "garbage", "range"}
         /\ r.lo \in Nat /\ r.hi \in Nat
         /\ r = Row(r.kind, r.lo, r.hi)
BY DEF Abs!Rows, Abs!Row, Row

\* A sequence of output rows has output kinds only.
LEMMA OutKinds ==
  ASSUME NEW s \in Seq(OutRow)
  PROVE  \A j \in 1 .. Len(s) :
           s[j].kind \in {"empty", "comment", "tile", "separator"}
<1>. SUFFICES ASSUME NEW j \in 1 .. Len(s)
              PROVE  s[j].kind \in {"empty", "comment", "tile", "separator"}
  OBVIOUS
<1>1. s[j] \in OutRow
  BY ElementOfSeq
<1>. QED  BY <1>1, Zenon DEF OutRow

LEMMA TInvInit == Init => TInv
<1>. SUFFICES ASSUME Init PROVE TInv
  OBVIOUS
<1>1. input \in Seq(Abs!Rows)
  BY InputsSeq DEF Init
<1>2. Len(input) \in Nat
  BY <1>1
<1>. QED  BY <1>1, <1>2, SMT DEF Init, TInv, TypeOK

\* Three sequences of output rows have output kinds only.
LEMMA OutKinds3 ==
  ASSUME NEW a \in Seq(OutRow), NEW b \in Seq(OutRow), NEW c \in Seq(OutRow)
  PROVE  \A s \in {a, b, c} : \A j \in 1 .. Len(s) :
           s[j].kind \in {"empty", "comment", "tile", "separator"}
BY OutKinds

\* A step that keeps the input and leaves every variable in its type
\* preserves TInv.
LEMMA TInvPrime ==
  ASSUME TInv, input' = input,
         idx' \in 1 .. Len(input) + 1, pc' \in {"row", "tile", "done"},
         start' \in Nat, int2' \in Nat,
         out' \in Seq(OutRow), ranges' \in Seq(OutRow), file' \in Seq(OutRow),
         pc' = "tile" => idx' <= Len(input)
  PROVE  TInv'
<1>1. \A s \in {out', ranges', file'} : \A j \in 1 .. Len(s) :
        s[j].kind \in {"empty", "comment", "tile", "separator"}
  BY OutKinds3
<1>. QED  BY <1>1 DEF TInv, TypeOK

\* The row at idx, while the loop is on a row.
LEMMA CurrentRow ==
  ASSUME TInv, idx <= Len(input)
  PROVE  /\ idx \in 1 .. Len(input)
         /\ input[idx] \in Abs!Rows
         /\ input[idx].lo \in Nat /\ input[idx].hi \in Nat
         /\ input[idx] = Row(input[idx].kind, input[idx].lo, input[idx].hi)
<1>1. idx \in 1 .. Len(input)
  BY SMT DEF TInv, TypeOK
<1>2. input[idx] \in Abs!Rows
  BY <1>1, ElementOfSeq DEF TInv
<1>. QED  BY <1>1, <1>2, RowFields

LEMMA KeepRowTInv == TInv /\ KeepRow => TInv'
<1>. SUFFICES ASSUME TInv, KeepRow PROVE TInv'
  OBVIOUS
<1>1. input[idx] \in OutRow
  <2>1. input[idx].kind \in {"empty", "comment"}
    BY DEF KeepRow
  <2>. QED  BY <2>1, CurrentRow DEF KeepRow, Row, Abs!Row, OutRow
<1>2. out' \in Seq(OutRow)
  BY <1>1 DEF TInv, KeepRow
<1>3. idx' \in 1 .. Len(input) + 1
  BY CurrentRow, SMT DEF KeepRow
<1>. QED  BY <1>2, <1>3, TInvPrime DEF TInv, TypeOK, KeepRow

LEMMA SkipInvalidRowTInv == TInv /\ SkipInvalidRow => TInv'
<1>. SUFFICES ASSUME TInv, SkipInvalidRow PROVE TInv'
  OBVIOUS
<1>1. idx' \in 1 .. Len(input) + 1
  BY CurrentRow, SMT DEF SkipInvalidRow
<1>. QED  BY <1>1, TInvPrime DEF TInv, TypeOK, SkipInvalidRow

LEMMA SkipInvalidRangeTInv == TInv /\ SkipInvalidRange => TInv'
<1>. SUFFICES ASSUME TInv, SkipInvalidRange PROVE TInv'
  OBVIOUS
<1>1. idx' \in 1 .. Len(input) + 1
  BY CurrentRow, SMT DEF SkipInvalidRange
<1>. QED  BY <1>1, TInvPrime DEF TInv, TypeOK, SkipInvalidRange

LEMMA StartRangeTInv == TInv /\ StartRange => TInv'
<1>. SUFFICES ASSUME TInv, StartRange PROVE TInv'
  OBVIOUS
<1>1. start' \in Nat /\ int2' \in Nat /\ idx \in 1 .. Len(input)
  BY CurrentRow DEF StartRange
<1>. QED  BY <1>1, TInvPrime, SMT DEF TInv, TypeOK, StartRange

LEMMA TileTInv == TInv /\ Tile => TInv'
<1>. SUFFICES ASSUME TInv, Tile PROVE TInv'
  OBVIOUS
<1>. DEFINE end == Min2((start \div Batch + 1) * Batch - 1, int2)
<1>1. start \in Nat /\ int2 \in Nat
  BY DEF TInv, TypeOK
<1>2. end \in Nat
  BY <1>1, SMT DEF Min2
<1>3. Row("tile", start, end) \in OutRow
  BY <1>1, <1>2 DEF Row, Abs!Row, OutRow
<1>4. ranges' \in Seq(OutRow) /\ start' \in Nat
  BY <1>2, <1>3, SMT DEF TInv, Tile
<1>. QED  BY <1>4, TInvPrime DEF TInv, TypeOK, Tile

LEMMA EndRangeTInv == TInv /\ EndRange => TInv'
<1>. SUFFICES ASSUME TInv, EndRange PROVE TInv'
  OBVIOUS
<1>1. Abs!Separator \in OutRow
  BY DEF Abs!Separator, Abs!Row, OutRow
<1>2. out' \in Seq(OutRow)
  BY <1>1 DEF TInv, EndRange
<1>3. idx' \in 1 .. Len(input) + 1
  BY SMT DEF TInv, TypeOK, EndRange
<1>. QED  BY <1>2, <1>3, TInvPrime DEF TInv, TypeOK, EndRange

LEMMA WriteFileTInv == TInv /\ WriteFile => TInv'
BY TInvPrime DEF TInv, TypeOK, WriteFile

LEMMA StutterTInv == TInv /\ UNCHANGED vars => TInv'
BY DEF TInv, TypeOK, vars

LEMMA TInvStep == TInv /\ [Next]_vars => TInv'
BY KeepRowTInv, SkipInvalidRowTInv, SkipInvalidRangeTInv, StartRangeTInv,
   TileTInv, EndRangeTInv, WriteFileTInv, StutterTInv DEF Next

\* Every reachable state of split.py is well typed: the row index stays
\* within the rows read (one past the last once the loop is over), the
\* batch loop's bounds are naturals, and processed_data, the pieces of the
\* current range and the output file hold only kept rows, pieces and
\* separators.
THEOREM TypeCorrect == Spec => []TypeOK
<1>1. TInv => TypeOK
  BY DEF TInv
<1>. QED  BY <1>1, TInvInit, TInvStep, PTL DEF Spec

-----------------------------------------------------------------------------
(* The output of the rows read so far.                                     *)

\* RowOutput of every row of the input, in order.
Outs == [j \in 1 .. Len(input) |-> Abs!RowOutput(input[j])]

\* The prefixes of Expand(input): Flat[i] is the output of rows 1 .. i.
\* It is the function FlattenSeq defines on Outs.
Flat[i \in 1 .. Len(Outs)] == IF i = 1 THEN Outs[i] ELSE Flat[i - 1] \o Outs[i]

\* The output of the first i rows.
Done(i) == IF i = 0 THEN << >> ELSE Flat[i]

LEMMA OutsLen ==
  ASSUME input \in Seq(Abs!Rows)
  PROVE  Len(Outs) = Len(input) /\ Len(input) \in Nat
BY DEF Outs

\* Flat satisfies its recursive definition.
LEMMA FlatDef ==
  ASSUME input \in Seq(Abs!Rows)
  PROVE  \A i \in 1 .. Len(input) :
           Flat[i] = IF i = 1 THEN Outs[1] ELSE Flat[i - 1] \o Outs[i]
<1>. DEFINE n == Len(Outs)
<1>1. n = Len(input) /\ n \in Nat
  BY OutsLen
<1>2. \A g : [i \in 1 .. n |-> IF i = 1 THEN Outs[i] ELSE g[i - 1] \o Outs[i]]
           = [i \in 1 .. n |-> IF i = 1 THEN Outs[1] ELSE g[i - 1] \o Outs[i]]
  OBVIOUS
<1>3. FiniteNatInductiveDefHypothesis(Flat, Outs[1], LAMBDA v, i : v \o Outs[i], 1, n)
  BY <1>2, Zenon DEF FiniteNatInductiveDefHypothesis, Flat
<1>4. FiniteNatInductiveDefConclusion(Flat, Outs[1], LAMBDA v, i : v \o Outs[i], 1, n)
  BY <1>1, <1>3, FiniteNatInductiveDef
<1>. QED  BY <1>1, <1>4 DEF FiniteNatInductiveDefConclusion

\* What SplitSpec writes is the output of all the rows.
LEMMA ExpandDone ==
  ASSUME input \in Seq(Abs!Rows)
  PROVE  Abs!Expand(input) = Done(Len(input))
<1>1. Len(Outs) = Len(input) /\ Len(input) \in Nat
  BY OutsLen
<1>2. Abs!Expand(input) = Abs!FlattenSeq(Outs)
  BY DEF Abs!Expand, Outs
<1>3. CASE Len(input) = 0
  <2>1. Outs = << >>
    BY <1>3 DEF Outs
  <2>2. Abs!FlattenSeq(Outs) = Outs
    BY <1>1, <1>3 DEF Abs!FlattenSeq
  <2>. QED  BY <1>2, <1>3, <2>1, <2>2 DEF Done
<1>4. CASE Len(input) # 0
  <2>1. Abs!FlattenSeq(Outs) = Flat[Len(Outs)]
    BY <1>1, <1>4 DEF Abs!FlattenSeq, Flat
  <2>. QED  BY <1>1, <1>2, <1>4, <2>1 DEF Done
<1>. QED  BY <1>3, <1>4

-----------------------------------------------------------------------------
(* Integer division by BATCH_SIZE.                                         *)

\* x \div c is the d with d * c <= x < (d + 1) * c.
LEMMA DivChar ==
  ASSUME NEW x \in Int, NEW d \in Int, NEW c \in Nat \ {0},
         d * c <= x, x < (d + 1) * c
  PROVE  x \div c = d
BY SMT

\* An exact division leaves a multiple.
LEMMA DivExact ==
  ASSUME NEW x \in Nat, NEW c \in Nat \ {0}, x % c = 0
  PROVE  x = (x \div c) * c /\ x \div c \in Nat
BY SMT

\* The quotient bounds the dividend.
LEMMA DivBounds ==
  ASSUME NEW x \in Nat, NEW c \in Nat \ {0}
  PROVE  /\ x \div c \in Nat
         /\ (x \div c) * c <= x /\ x < (x \div c + 1) * c
BY SMT

\* Multiplying by a natural keeps the order.
LEMMA MulMono ==
  ASSUME NEW x \in Int, NEW y \in Int, NEW c \in Nat, x <= y
  PROVE  x * c <= y * c
BY SMT

\* A positive factor cancels from a strict inequality.
LEMMA MulCancel ==
  ASSUME NEW x \in Int, NEW y \in Int, NEW c \in Nat \ {0}, x * c < y * c
  PROVE  x < y
BY SMT

(* The pieces of a range.                                                  *)

\* The pieces of a..b form a sequence of output rows, one per batch a..b
\* meets.
LEMMA TilesSeq ==
  ASSUME NEW a \in Nat, NEW b \in Nat, a <= b
  PROVE  /\ Abs!Tiles(a, b) \in Seq(OutRow)
         /\ Len(Abs!Tiles(a, b)) = b \div Batch - a \div Batch + 1
<1>. DEFINE L == b \div Batch - a \div Batch + 1
<1>1. a \div Batch \in Nat /\ b \div Batch \in Nat
      /\ (a \div Batch) * Batch <= a /\ a < (a \div Batch + 1) * Batch
      /\ (b \div Batch) * Batch <= b /\ b < (b \div Batch + 1) * Batch
  BY DivBounds
<1>2. a \div Batch <= b \div Batch
  <2>1. (a \div Batch) * Batch < (b \div Batch + 1) * Batch
    BY <1>1, SMT
  <2>2. a \div Batch < b \div Batch + 1
    BY <1>1, <2>1, MulCancel
  <2>. QED  BY <2>2, SMT
<1>3. L \in Nat
  BY <1>1, <1>2, SMT
<1>4. \A q \in 1 .. L :
        LET blk == a \div Batch + q - 1
        IN  Abs!Row("tile", IF a > blk * Batch THEN a ELSE blk * Batch,
                    IF b < blk * Batch + Batch - 1 THEN b
                                                   ELSE blk * Batch + Batch - 1)
            \in OutRow
  BY <1>1, SMT DEF Abs!Row, OutRow
<1>5. Abs!Tiles(a, b) \in Seq(OutRow)
  <2>1. Abs!Tiles(a, b) \in [1 .. L -> OutRow]
    BY <1>4 DEF Abs!Tiles
  <2>. QED  BY <1>3, <2>1, SeqDef, Zenon
<1>6. DOMAIN Abs!Tiles(a, b) = 1 .. L
  BY DEF Abs!Tiles
<1>. QED  BY <1>3, <1>5, <1>6, LenProperties, SMT

\* The piece of a..b in batch blk.
PieceAt(a, b, blk) ==
  Abs!Row("tile", IF a > blk * Batch THEN a ELSE blk * Batch,
                  IF b < blk * Batch + Batch - 1 THEN b ELSE blk * Batch + Batch - 1)

\* The q-th piece of a..b lies in the q-th batch a..b meets.
LEMMA TilesAt ==
  ASSUME NEW a \in Nat, NEW b \in Nat, a <= b,
         NEW q \in 1 .. Len(Abs!Tiles(a, b))
  PROVE  Abs!Tiles(a, b)[q] = PieceAt(a, b, a \div Batch + q - 1)
<1>1. Len(Abs!Tiles(a, b)) = b \div Batch - a \div Batch + 1
  BY TilesSeq
<1>. QED  BY <1>1 DEF Abs!Tiles, PieceAt

\* A piece is an output row.
LEMMA TileRow ==
  ASSUME NEW lo \in Nat, NEW hi \in Nat
  PROVE  Row("tile", lo, hi) \in OutRow
BY DEF Row, Abs!Row, OutRow

\* The first piece process_range appends (line 13), from a to the end of
\* a's batch or b, is the whole of Tiles(a, e).
LEMMA TilesFirst ==
  ASSUME NEW a \in Nat, NEW b \in Nat, a <= b,
         NEW e, e = Min2((a \div Batch + 1) * Batch - 1, b)
  PROVE  << Row("tile", a, e) >> = Abs!Tiles(a, e)
<1>. DEFINE ad == a \div Batch
<1>1. ad \in Nat /\ ad * Batch <= a /\ a < (ad + 1) * Batch
  BY DivBounds
<1>2. e \in Nat /\ a <= e /\ e < (ad + 1) * Batch /\ e <= b
  BY <1>1, SMT DEF Min2
<1>3. e \div Batch = ad
  BY <1>1, <1>2, DivChar
<1>4. Abs!Tiles(a, e) \in Seq(OutRow) /\ Len(Abs!Tiles(a, e)) = 1
  <2>1. Abs!Tiles(a, e) \in Seq(OutRow)
        /\ Len(Abs!Tiles(a, e)) = e \div Batch - a \div Batch + 1
    BY <1>2, TilesSeq
  <2>2. e \div Batch - a \div Batch + 1 = 1
    BY <1>1, <1>3, SMT
  <2>. QED  BY <2>1, <2>2
<1>5. Abs!Tiles(a, e)[1] = PieceAt(a, e, ad)
  <2>1. 1 \in 1 .. Len(Abs!Tiles(a, e)) /\ a \div Batch + 1 - 1 = ad
    <3>1. 1 \in 1 .. 1 /\ a \div Batch + 1 - 1 = ad
      BY <1>1, SMT
    <3>. QED  BY <1>4, <3>1
  <2>2. Abs!Tiles(a, e)[1] = PieceAt(a, e, a \div Batch + 1 - 1)
    BY <1>2, <2>1, TilesAt
  <2>. QED  BY <2>1, <2>2
<1>6. PieceAt(a, e, ad) = Row("tile", a, e)
  <2>1. (IF a > ad * Batch THEN a ELSE ad * Batch) = a
    BY <1>1, SMT
  <2>2. (IF e < ad * Batch + Batch - 1 THEN e ELSE ad * Batch + Batch - 1) = e
    BY <1>1, <1>2, SMT
  <2>. QED  BY <2>1, <2>2 DEF PieceAt, Row
<1>7. << Row("tile", a, e) >> \in Seq(OutRow)
  BY <1>2, TileRow
<1>. QED  BY <1>4, <1>5, <1>6, <1>7, SeqEqual

\* A piece from a multiple s of BATCH_SIZE to any e of the same batch
\* extends the pieces of a..s-1 to those of a..e.
LEMMA TilesBatch ==
  ASSUME NEW a \in Nat, NEW s \in Nat, a < s, s % Batch = 0,
         NEW e \in Nat, s <= e, e <= (s \div Batch) * Batch + Batch - 1
  PROVE  Abs!Tiles(a, s - 1) \o << Row("tile", s, e) >> = Abs!Tiles(a, e)
<1>. DEFINE k == s \div Batch
            ad == a \div Batch
<1>1. s = k * Batch /\ k \in Nat
  BY DivExact
<1>2. ad \in Nat /\ ad * Batch <= a /\ a < (ad + 1) * Batch
  BY DivBounds
<1>3. e \in Nat /\ s <= e /\ e <= k * Batch + Batch - 1
  OBVIOUS
<1>4. e \div Batch = k /\ a <= e
  BY <1>1, <1>3, DivChar, SMT
<1>5. (s - 1) \div Batch = k - 1
  BY <1>1, DivChar
<1>6. ad <= k - 1
  <2>1. ad * Batch < k * Batch
    BY <1>1, <1>2, SMT
  <2>2. ad < k
    BY <1>1, <1>2, <2>1, MulCancel
  <2>. QED  BY <2>2, SMT
<1>. DEFINE Old == Abs!Tiles(a, s - 1)
            New == Abs!Tiles(a, e)
            Last == << Row("tile", s, e) >>
<1>7. Old \in Seq(OutRow) /\ Len(Old) = k - ad
  <2>1. s - 1 \in Nat /\ a <= s - 1
    BY SMT
  <2>2. Old \in Seq(OutRow) /\ Len(Old) = (s - 1) \div Batch - ad + 1
    BY <2>1, TilesSeq
  <2>3. (s - 1) \div Batch - ad + 1 = k - ad
    BY <1>2, <1>5, SMT
  <2>. QED  BY <2>2, <2>3
<1>8. New \in Seq(OutRow) /\ Len(New) = k - ad + 1
  <2>1. New \in Seq(OutRow) /\ Len(New) = e \div Batch - ad + 1
    BY <1>3, <1>4, TilesSeq
  <2>. QED  BY <1>4, <2>1
<1>9. Last \in Seq(OutRow) /\ Len(Last) = 1
  BY <1>3, TileRow
<1>10. Old \o Last \in Seq(OutRow) /\ Len(Old \o Last) = k - ad + 1
       /\ \A i \in 1 .. k - ad + 1 :
            (Old \o Last)[i] = IF i <= k - ad THEN Old[i] ELSE Last[i - (k - ad)]
  <2>1. k - ad + 1 = Len(Old) + Len(Last) /\ k - ad = Len(Old)
    BY <1>2, <1>6, <1>7, <1>9, SMT
  <2>2. /\ Old \o Last \in Seq(OutRow)
        /\ Len(Old \o Last) = Len(Old) + Len(Last)
        /\ \A i \in 1 .. Len(Old) + Len(Last) :
             (Old \o Last)[i] = IF i <= Len(Old) THEN Old[i] ELSE Last[i - Len(Old)]
    BY <1>7, <1>9, ConcatProperties
  <2>. QED  BY <2>1, <2>2
<1>11. ASSUME NEW q \in 1 .. k - ad
       PROVE  Old[q] = New[q]
  <2>. DEFINE blk == ad + q - 1
  <2>1. blk \in Nat /\ blk <= k - 1
    BY <1>2, <1>6, SMT
  <2>2. blk * Batch <= (k - 1) * Batch
    BY <1>1, <2>1, MulMono
  <2>3. blk * Batch + Batch - 1 <= s - 1 /\ s - 1 < e
    BY <1>1, <1>3, <2>2, SMT
  <2>4. Old[q] = PieceAt(a, s - 1, blk) /\ New[q] = PieceAt(a, e, blk)
    <3>1. q \in 1 .. Len(Old) /\ q \in 1 .. Len(New) /\ s - 1 \in Nat /\ a <= s - 1
      BY <1>2, <1>7, <1>8, SMT
    <3>2. Abs!Tiles(a, s - 1)[q] = PieceAt(a, s - 1, a \div Batch + q - 1)
      BY <3>1, TilesAt, Zenon
    <3>3. Abs!Tiles(a, e)[q] = PieceAt(a, e, a \div Batch + q - 1)
      <4>1. e \in Nat /\ a <= e /\ q \in 1 .. Len(Abs!Tiles(a, e))
        BY <1>3, <1>4, <3>1
      <4>. QED  BY <4>1, TilesAt, Zenon
    <3>. QED  BY <3>2, <3>3
  <2>5. (IF s - 1 < blk * Batch + Batch - 1 THEN s - 1 ELSE blk * Batch + Batch - 1)
        = (IF e < blk * Batch + Batch - 1 THEN e ELSE blk * Batch + Batch - 1)
    BY <1>3, <2>3, SMT
  <2>. QED  BY <2>4, <2>5 DEF PieceAt
<1>12. New[k - ad + 1] = Row("tile", s, e)
  <2>1. k - ad + 1 \in 1 .. Len(New) /\ ad + (k - ad + 1) - 1 = k
    BY <1>2, <1>6, <1>8, SMT
  <2>2. New[k - ad + 1] = PieceAt(a, e, k)
    <3>1. Abs!Tiles(a, e)[k - ad + 1] = PieceAt(a, e, a \div Batch + (k - ad + 1) - 1)
      <4>1. e \in Nat /\ a <= e /\ k - ad + 1 \in 1 .. Len(Abs!Tiles(a, e))
        BY <1>3, <1>4, <2>1
      <4>. QED  BY <4>1, TilesAt, Zenon
    <3>. QED  BY <2>1, <3>1
  <2>3. (IF a > k * Batch THEN a ELSE k * Batch) = s
    BY <1>1, <1>2, SMT
  <2>4. (IF e < k * Batch + Batch - 1 THEN e ELSE k * Batch + Batch - 1) = e
    BY <1>1, <1>3, SMT
  <2>. QED  BY <2>2, <2>3, <2>4 DEF PieceAt, Row
<1>13. \A i \in 1 .. k - ad + 1 : (Old \o Last)[i] = New[i]
  <2>. SUFFICES ASSUME NEW i \in 1 .. k - ad + 1 PROVE (Old \o Last)[i] = New[i]
    OBVIOUS
  <2>1. CASE i <= k - ad
    <3>1. i \in 1 .. k - ad
      BY <2>1, SMT
    <3>. QED  BY <1>10, <1>11, <2>1, <3>1
  <2>2. CASE ~(i <= k - ad)
    <3>1. i = k - ad + 1 /\ i - (k - ad) = 1
      BY <1>2, <1>6, <2>2, SMT
    <3>2. Last[1] = Row("tile", s, e)
      OBVIOUS
    <3>. QED  BY <1>10, <1>12, <2>2, <3>1, <3>2
  <2>. QED  BY <2>1, <2>2
<1>. QED  BY <1>8, <1>10, <1>13, SeqEqual

\* A later piece (line 13), from a multiple s of BATCH_SIZE to the end of
\* its batch or b, extends the pieces of a..s-1 to those of a..e.
LEMMA TilesStep ==
  ASSUME NEW a \in Nat, NEW b \in Nat, NEW s \in Nat,
         a < s, s <= b, s % Batch = 0,
         NEW e, e = Min2((s \div Batch + 1) * Batch - 1, b)
  PROVE  Abs!Tiles(a, s - 1) \o << Row("tile", s, e) >> = Abs!Tiles(a, e)
<1>1. s = (s \div Batch) * Batch /\ s \div Batch \in Nat
  BY DivExact
<1>2. e \in Nat /\ s <= e /\ e <= (s \div Batch) * Batch + Batch - 1
  BY <1>1, SMT DEF Min2
<1>3. \A x \in Nat : s <= x /\ x <= (s \div Batch) * Batch + Batch - 1 =>
        Abs!Tiles(a, s - 1) \o << Row("tile", s, x) >> = Abs!Tiles(a, x)
  BY TilesBatch
<1>. QED  BY <1>2, <1>3

(* The output of each row.                                                 *)

\* What RowOutput gives for each kind of row.
LEMMA RowOutputCases ==
  ASSUME NEW r \in Abs!Rows
  PROVE  /\ r.kind \in {"empty", "comment"} => Abs!RowOutput(r) = << r >>
         /\ r.kind = "garbage" => Abs!RowOutput(r) = << >>
         /\ r.kind = "range" /\ r.lo >= r.hi => Abs!RowOutput(r) = << >>
         /\ r.kind = "range" /\ r.lo < r.hi =>
              Abs!RowOutput(r) = Abs!Tiles(r.lo, r.hi) \o << Abs!Separator >>
<1>1. r.lo \in Nat /\ r.hi \in Nat
  BY RowFields
<1>2. r.kind = "range" /\ r.lo >= r.hi => ~(r.lo < r.hi)
  BY <1>1, SMT
<1>. QED  BY <1>2 DEF Abs!RowOutput

\* The output of a row is a sequence of output rows.
LEMMA RowOutputSeq ==
  ASSUME NEW r \in Abs!Rows
  PROVE  Abs!RowOutput(r) \in Seq(OutRow)
<1>1. r.kind \in {"empty", "comment", "garbage", "range"}
      /\ r.lo \in Nat /\ r.hi \in Nat /\ r = Row(r.kind, r.lo, r.hi)
  BY RowFields
<1>2. CASE r.kind \in {"empty", "comment"}
  <2>1. r \in OutRow
    BY <1>1, <1>2 DEF Row, Abs!Row, OutRow
  <2>2. << r >> \in Seq(OutRow)
    BY <2>1
  <2>3. Abs!RowOutput(r) = << r >>
    BY <1>2, RowOutputCases
  <2>. QED  BY <2>2, <2>3
<1>3. CASE r.kind = "range" /\ r.lo < r.hi
  <2>1. Abs!Tiles(r.lo, r.hi) \in Seq(OutRow)
    <3>1. r.lo <= r.hi
      BY <1>1, <1>3, SMT
    <3>. QED  BY <1>1, <3>1, TilesSeq
  <2>2. << Abs!Separator >> \in Seq(OutRow)
    BY DEF Abs!Separator, Abs!Row, OutRow
  <2>. QED  BY <1>3, <2>1, <2>2, RowOutputCases, ConcatProperties
<1>4. CASE ~(r.kind \in {"empty", "comment"}) /\ ~(r.kind = "range" /\ r.lo < r.hi)
  <2>1. Abs!RowOutput(r) = << >>
    <3>1. r.kind = "garbage" \/ (r.kind = "range" /\ r.lo >= r.hi)
      BY <1>1, <1>4, SMT
    <3>. QED  BY <3>1, RowOutputCases
  <2>. QED  BY <2>1, EmptySeq
<1>. QED  BY <1>2, <1>3, <1>4

\* The output of rows 1 .. i is that of rows 1 .. i - 1 followed by that
\* of row i.
LEMMA DoneStep ==
  ASSUME input \in Seq(Abs!Rows), NEW i \in 1 .. Len(input), Done(i - 1) \in Seq(OutRow)
  PROVE  Done(i) = Done(i - 1) \o Outs[i]
<1>1. Outs[i] = Abs!RowOutput(input[i]) /\ Outs[i] \in Seq(OutRow)
  <2>1. input[i] \in Abs!Rows
    BY ElementOfSeq
  <2>. QED  BY <2>1, RowOutputSeq DEF Outs
<1>2. Flat[i] = IF i = 1 THEN Outs[1] ELSE Flat[i - 1] \o Outs[i]
  BY FlatDef
<1>3. CASE i = 1
  <2>1. Done(i - 1) = << >> /\ Done(i) = Outs[1]
    BY <1>2, <1>3 DEF Done
  <2>. QED  BY <1>1, <1>3, <2>1, ConcatEmptySeq
<1>4. CASE i # 1
  <2>1. i - 1 # 0 /\ i # 0
    BY <1>4, SMT
  <2>. QED  BY <1>2, <1>4, <2>1 DEF Done
<1>. QED  BY <1>3, <1>4

(* The refinement invariant.                                               *)

\* The row process_range is cutting.
Cur == input[idx]

\* While process_range runs, the pieces appended so far are the pieces of
\* the range up to start - 1, and start is the range's first number, a
\* multiple of BATCH_SIZE, or one past int2.
TileInv ==
  /\ Cur.kind = "range" /\ Cur.lo < Cur.hi /\ int2 = Cur.hi
  /\ Cur.lo <= start /\ start <= int2 + 1
  /\ start = Cur.lo \/ start % Batch = 0 \/ start = int2 + 1
  /\ ranges = IF start = Cur.lo THEN << >> ELSE Abs!Tiles(Cur.lo, start - 1)

\* processed_data is the output of the rows before idx, nothing is
\* written before the loop ends, and what is written is SplitSpec's file.
RInv ==
  /\ TInv
  /\ pc \in {"row", "tile"} => file = << >> /\ out = Done(idx - 1)
  /\ pc = "done" => file = Abs!Expand(input)
  /\ pc = "tile" => TileInv

\* The output of the rows depends only on the input, which no step changes.
LEMMA InputKept ==
  ASSUME input' = input
  PROVE  Flat' = Flat /\ Abs!Expand(input)' = Abs!Expand(input)
BY DEF Flat, Outs, Abs!Expand

\* RInv in the next state, from its parts.
LEMMA RInvPrime ==
  ASSUME TInv', input' = input,
         pc' \in {"row", "tile"} => file' = << >> /\ out' = Done(idx' - 1),
         pc' = "done" => file' = Abs!Expand(input),
         pc' = "tile" => TileInv'
  PROVE  RInv'
<1>1. Flat' = Flat /\ Abs!Expand(input)' = Abs!Expand(input)
  BY InputKept
<1>. QED  BY <1>1 DEF RInv, Done

LEMMA RInvInit == Init => RInv
<1>. SUFFICES ASSUME Init PROVE RInv
  OBVIOUS
<1>. QED  BY TInvInit DEF Init, RInv, Done

\* (m * c) % c = 0.
LEMMA ModMul ==
  ASSUME NEW x \in Nat, NEW c \in Nat \ {0}
  PROVE  (x * c) % c = 0
BY SMT

\* A row the loop of line 36 copies (lines 37-40) adds itself to the output.
LEMMA KeepRowRInv == RInv /\ KeepRow => RInv'
<1>. SUFFICES ASSUME RInv, KeepRow PROVE RInv'
  OBVIOUS
<1>1. TInv'
  BY KeepRowTInv DEF RInv
<1>2. idx \in 1 .. Len(input) /\ input[idx] \in Abs!Rows /\ idx' - 1 = idx
  BY CurrentRow, SMT DEF RInv, KeepRow
<1>3. out = Done(idx - 1) /\ out \in Seq(OutRow) /\ input \in Seq(Abs!Rows)
  BY DEF RInv, TInv, KeepRow
<1>4. Done(idx) = out \o Outs[idx]
  BY <1>2, <1>3, DoneStep
<1>5. Outs[idx] = << input[idx] >>
  <2>1. Outs[idx] = Abs!RowOutput(input[idx])
    BY <1>2 DEF Outs
  <2>. QED  BY <1>2, <2>1, RowOutputCases DEF KeepRow
<1>6. input[idx] \in OutRow
  BY <1>2, RowFields DEF KeepRow, Row, Abs!Row, OutRow
<1>7. out' = Done(idx' - 1)
  BY <1>2, <1>3, <1>4, <1>5, <1>6, AppendIsConcat DEF KeepRow
<1>. QED  BY <1>1, <1>7, RInvPrime DEF RInv, KeepRow

\* A row that is not two integers, or a range with int1 >= int2, adds
\* nothing.
LEMMA SkipRInv ==
  ASSUME RInv, pc = "row", idx <= Len(input), Abs!RowOutput(input[idx]) = << >>,
         idx' = idx + 1, UNCHANGED <<input, out, pc, start, int2, ranges, file>>,
         TInv'
  PROVE  RInv'
<1>2. idx \in 1 .. Len(input) /\ idx' - 1 = idx
  BY CurrentRow, SMT DEF RInv
<1>3. out = Done(idx - 1) /\ out \in Seq(OutRow) /\ input \in Seq(Abs!Rows)
  BY DEF RInv, TInv
<1>4. Done(idx) = out \o Outs[idx]
  BY <1>2, <1>3, DoneStep
<1>5. Outs[idx] = << >>
  BY <1>2 DEF Outs
<1>6. out' = Done(idx' - 1)
  BY <1>2, <1>3, <1>4, <1>5, ConcatEmptySeq
<1>. QED  BY <1>6, RInvPrime DEF RInv

LEMMA SkipInvalidRowRInv == RInv /\ SkipInvalidRow => RInv'
<1>. SUFFICES ASSUME RInv, SkipInvalidRow PROVE RInv'
  OBVIOUS
<1>1. TInv'
  BY SkipInvalidRowTInv DEF RInv
<1>2. Abs!RowOutput(input[idx]) = << >>
  BY CurrentRow, RowOutputCases DEF RInv, SkipInvalidRow
<1>. QED  BY <1>1, <1>2, SkipRInv DEF SkipInvalidRow

LEMMA SkipInvalidRangeRInv == RInv /\ SkipInvalidRange => RInv'
<1>. SUFFICES ASSUME RInv, SkipInvalidRange PROVE RInv'
  OBVIOUS
<1>1. TInv'
  BY SkipInvalidRangeTInv DEF RInv
<1>2. Abs!RowOutput(input[idx]) = << >>
  BY CurrentRow, RowOutputCases DEF RInv, SkipInvalidRange
<1>. QED  BY <1>1, <1>2, SkipRInv DEF SkipInvalidRange

\* process_range starts (lines 43-45): no piece yet, start at int1.
LEMMA StartRangeRInv == RInv /\ StartRange => RInv'
<1>. SUFFICES ASSUME RInv, StartRange PROVE RInv'
  OBVIOUS
<1>1. TInv'
  BY StartRangeTInv DEF RInv
<1>2. Cur.lo \in Nat /\ Cur.hi \in Nat
  BY CurrentRow DEF RInv, StartRange, Cur
<1>3. TileInv'
  <2>1. Cur' = Cur /\ start' = Cur.lo /\ int2' = Cur.hi /\ ranges' = << >>
    BY DEF StartRange, Cur
  <2>2. Cur.lo <= Cur.lo /\ Cur.lo <= Cur.hi + 1
    BY <1>2, SMT DEF StartRange, Cur
  <2>. QED  BY <2>1, <2>2 DEF TileInv, StartRange, Cur
<1>. QED  BY <1>1, <1>3, RInvPrime DEF RInv, StartRange

\* One pass of the batch loop (lines 11-14) extends the pieces of int1 ..
\* start - 1 to those of int1 .. end.
LEMMA TileRInv == RInv /\ Tile => RInv'
<1>. SUFFICES ASSUME RInv, Tile PROVE RInv'
  OBVIOUS
<1>. DEFINE lo == Cur.lo
            end == Min2((start \div Batch + 1) * Batch - 1, int2)
<1>1. TInv'
  BY TileTInv DEF RInv
<1>2. TileInv /\ lo \in Nat /\ start \in Nat /\ int2 \in Nat
  BY CurrentRow DEF RInv, TInv, TypeOK, Tile, Cur
<1>3. start \div Batch \in Nat
      /\ start < (start \div Batch + 1) * Batch
  BY <1>2, DivBounds
<1>4. end \in Nat /\ start <= end /\ end <= int2 /\ lo < end + 1
  BY <1>2, <1>3, SMT DEF Min2, TileInv, Tile
<1>5. (end + 1) % Batch = 0 \/ end + 1 = int2 + 1
  <2>1. CASE (start \div Batch + 1) * Batch - 1 <= int2
    <3>1. end + 1 = (start \div Batch + 1) * Batch
      BY <1>2, <1>3, <2>1, SMT DEF Min2
    <3>2. ((start \div Batch + 1) * Batch) % Batch = 0
      BY <1>3, ModMul
    <3>. QED  BY <3>1, <3>2
  <2>2. CASE ~((start \div Batch + 1) * Batch - 1 <= int2)
    BY <1>2, <1>3, <2>2, SMT DEF Min2
  <2>. QED  BY <2>1, <2>2
<1>6. ranges' = Abs!Tiles(lo, end)
  <2>1. Row("tile", start, end) \in OutRow
    BY <1>2, <1>4, TileRow
  <2>2. CASE start = lo
    <3>1. ranges = << >>
      BY <1>2, <2>2 DEF TileInv
    <3>2. lo <= int2
      BY <1>2, SMT DEF TileInv
    <3>3. << Row("tile", lo, end) >> = Abs!Tiles(lo, end)
      BY <1>2, <2>2, <3>2, TilesFirst
    <3>. QED  BY <2>1, <2>2, <3>1, <3>3, AppendIsConcat, EmptySeq, ConcatEmptySeq
              DEF Tile
  <2>3. CASE start # lo
    <3>1. ranges = Abs!Tiles(lo, start - 1)
      BY <1>2, <2>3 DEF TileInv
    <3>2. lo < start /\ start <= int2 /\ start % Batch = 0
      BY <1>2, <2>3, SMT DEF TileInv, Tile
    <3>3. Abs!Tiles(lo, start - 1) \o << Row("tile", start, end) >> = Abs!Tiles(lo, end)
      <4>1. /\ lo \in Nat /\ int2 \in Nat /\ start \in Nat
            /\ lo < start /\ start <= int2 /\ start % Batch = 0
            /\ end = Min2((start \div Batch + 1) * Batch - 1, int2)
        BY <1>2, <3>2
      <4>2. \A e : e = Min2((start \div Batch + 1) * Batch - 1, int2) =>
              Abs!Tiles(lo, start - 1) \o << Row("tile", start, e) >> = Abs!Tiles(lo, e)
        BY <4>1, TilesStep
      <4>. QED  BY <4>1, <4>2
    <3>4. Abs!Tiles(lo, start - 1) \in Seq(OutRow)
      <4>1. start - 1 \in Nat /\ lo <= start - 1
        BY <1>2, <3>2, SMT
      <4>. QED  BY <1>2, <4>1, TilesSeq
    <3>. QED  BY <2>1, <3>1, <3>3, <3>4, AppendIsConcat DEF Tile
  <2>. QED  BY <2>2, <2>3
<1>7. TileInv'
  <2>1. Cur' = Cur /\ int2' = int2 /\ start' = end + 1
    BY DEF Tile, Cur
  <2>2. start' # lo /\ start' - 1 = end /\ lo <= start' /\ start' <= int2 + 1
    BY <1>2, <1>4, <2>1, SMT
  <2>. QED  BY <1>2, <1>5, <1>6, <2>1, <2>2 DEF TileInv
<1>. QED  BY <1>1, <1>7, RInvPrime DEF RInv, Tile

\* process_range returns (lines 15-16, 46-47): the pieces of the whole
\* range and the separator are the output of the row.
LEMMA EndRangeRInv == RInv /\ EndRange => RInv'
<1>. SUFFICES ASSUME RInv, EndRange PROVE RInv'
  OBVIOUS
<1>1. TInv'
  BY EndRangeTInv DEF RInv
<1>2. TileInv /\ idx \in 1 .. Len(input) /\ input[idx] \in Abs!Rows
      /\ Cur.lo \in Nat /\ int2 \in Nat /\ start \in Nat
  BY CurrentRow DEF RInv, TInv, TypeOK, EndRange, Cur
<1>3. ranges = Abs!Tiles(Cur.lo, Cur.hi)
  <2>1. start = int2 + 1 /\ start # Cur.lo /\ start - 1 = Cur.hi
    BY <1>2, SMT DEF TileInv, EndRange
  <2>. QED  BY <1>2, <2>1 DEF TileInv
<1>4. Outs[idx] = Append(ranges, Abs!Separator)
  <2>1. Outs[idx] = Abs!RowOutput(input[idx])
    BY <1>2 DEF Outs
  <2>2. Abs!RowOutput(input[idx]) = Abs!Tiles(Cur.lo, Cur.hi) \o << Abs!Separator >>
    BY <1>2, RowOutputCases DEF TileInv, Cur
  <2>3. Abs!Tiles(Cur.lo, Cur.hi) \in Seq(OutRow) /\ Abs!Separator \in OutRow
    <3>1. Cur.hi \in Nat /\ Cur.lo <= Cur.hi
      BY <1>2, SMT DEF TileInv
    <3>2. Abs!Separator \in OutRow
      BY DEF Abs!Separator, Abs!Row, OutRow
    <3>. QED  BY <1>2, <3>1, <3>2, TilesSeq
  <2>. QED  BY <1>3, <2>1, <2>2, <2>3, AppendIsConcat
<1>5. out = Done(idx - 1) /\ out \in Seq(OutRow) /\ input \in Seq(Abs!Rows)
      /\ idx' - 1 = idx
  BY <1>2, SMT DEF RInv, TInv, EndRange
<1>6. Done(idx) = out \o Outs[idx]
  BY <1>2, <1>5, DoneStep
<1>7. out' = Done(idx' - 1)
  BY <1>4, <1>5, <1>6 DEF EndRange
<1>. QED  BY <1>1, <1>7, RInvPrime DEF RInv, EndRange

\* write_csv (line 53) writes processed_data, the output of every row.
LEMMA WriteFileRInv == RInv /\ WriteFile => RInv'
<1>. SUFFICES ASSUME RInv, WriteFile PROVE RInv'
  OBVIOUS
<1>1. TInv'
  BY WriteFileTInv DEF RInv
<1>2. idx - 1 = Len(input) /\ input \in Seq(Abs!Rows)
  BY SMT DEF RInv, TInv, TypeOK, WriteFile
<1>3. file' = Abs!Expand(input)
  BY <1>2, ExpandDone DEF RInv, WriteFile
<1>. QED  BY <1>1, <1>3, RInvPrime DEF WriteFile

LEMMA StutterRInv == RInv /\ UNCHANGED vars => RInv'
<1>. SUFFICES ASSUME RInv, UNCHANGED vars PROVE RInv'
  OBVIOUS
<1>1. TInv'
  BY StutterTInv DEF RInv
<1>. QED  BY <1>1, RInvPrime DEF RInv, vars, TileInv, Cur

LEMMA RInvStep == RInv /\ [Next]_vars => RInv'
BY KeepRowRInv, SkipInvalidRowRInv, SkipInvalidRangeRInv, StartRangeRInv,
   TileRInv, EndRangeRInv, WriteFileRInv, StutterRInv DEF Next

-----------------------------------------------------------------------------
(* Refinement.                                                             *)

\* The safety part of SplitSpec: nothing is written until the one write of
\* the whole expanded input.
AbsSafety == Abs!Init /\ [][Abs!Write]_(Abs!vars)

\* The write of line 53 is SplitSpec's write.
LEMMA WriteFileIsWrite == RInv /\ WriteFile => Abs!Write
<1>. SUFFICES ASSUME RInv, WriteFile PROVE Abs!Write
  OBVIOUS
<1>1. RInv'
  BY WriteFileRInv
<1>2. file' = Abs!Expand(input)
  <2>1. Abs!Expand(input)' = Abs!Expand(input)
    BY InputKept DEF WriteFile
  <2>. QED  BY <1>1, <2>1 DEF RInv, WriteFile
<1>. QED  BY <1>2 DEF WriteFile, Abs!Write

\* Every other step of split.py leaves what SplitSpec sees unchanged.
LEMMA OtherStepsStutter ==
  ASSUME RInv, KeepRow \/ SkipInvalidRow \/ SkipInvalidRange \/ StartRange
                 \/ Tile \/ EndRange \/ UNCHANGED vars
  PROVE  UNCHANGED Abs!vars
BY DEF KeepRow, SkipInvalidRow, SkipInvalidRange, StartRange, Tile, EndRange,
       vars, Abs!vars

LEMMA StepRefines == RInv /\ [Next]_vars => [Abs!Write]_(Abs!vars)
BY WriteFileIsWrite, OtherStepsStutter DEF Next

\* split.py implements the safety part of SplitSpec, for every BATCH_SIZE,
\* every set of integers and every number of rows: the loop of main
\* (lines 36-51) and the batch loop of process_range (lines 11-16) write
\* nothing until write_csv (line 53), which writes, in input order, the
\* kept rows and each range a < b cut at every multiple of BATCH_SIZE into
\* contiguous pieces covering a..b, each range followed by a separator.
THEOREM SafetyRefined == Spec => AbsSafety
<1>1. Init => Abs!Init
  BY DEF Init, Abs!Init
<1>2. Spec => []RInv
  BY RInvInit, RInvStep, PTL DEF Spec
<1>. QED  BY <1>1, <1>2, StepRefines, PTL DEF Spec, AbsSafety

=============================================================================
