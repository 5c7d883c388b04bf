-------------------------- MODULE BkzSearchProofs --------------------------
(***************************************************************************)
(* Proofs about the search of bkz_bit_security (module BkzSearch), for     *)
(* every value of the constants that satisfies ParamsAssumption and        *)
(* CostsAssumption.                                                        *)
(*                                                                         *)
(* TypeOK is inductive by itself.  BisectBracket is not: when Probe opens  *)
(* the bisection it copies min_m and max_m into l and h, so the proof      *)
(* needs to know that max_m is still the caller's max_m before the         *)
(* bisection and that the scan never moves min_m past it.  Both facts are  *)
(* conjuncts of the inductive invariant IInv.  A third fact, that the      *)
(* search never overwrites a revealed cost (f is pure), is the lemma       *)
(* RevealKeeps.                                                            *)
(***************************************************************************)
EXTENDS BkzSearch, TLAPS

USE ParamsAssumption, CostsAssumption

\* The values a revealed cost can take.
CostValues == Costs \cup {0, Infinity}

\* Before the bisection max_m is the caller's max_m.
MaxUntouched ==
  pc \in {"gate", "scan", "probe", "bisect"} => maxM = maxArg * Scale

\* The scan starts at min_m and never moves min_m past the caller's max_m.
ScanWithinRange ==
  pc \in {"scan", "probe"} => minM <= maxArg * Scale

IInv ==
  /\ TypeOK
  /\ MaxUntouched
  /\ ScanWithinRange
  /\ BisectBracket

-----------------------------------------------------------------------------
(* Lemmas about the operators the actions are built from.                  *)

\* Every outcome of estimate_bkz_security_for_m is a cost value.
LEMMA OutcomesType ==
  ASSUME NEW s
  PROVE  Outcomes(s) \subseteq CostValues
BY DEF Outcomes, CostValues

\* Evaluating f at a grid point yields a cost value.
LEMMA EvalType ==
  ASSUME TypeOK, NEW s \in Grid, NEW v \in Eval(s)
  PROVE  v \in CostValues
<1>1. CASE cost[s] # NotEvaluated
  BY <1>1 DEF Eval, TypeOK, CostValues
<1>2. CASE cost[s] = NotEvaluated
  BY <1>2, OutcomesType DEF Eval
<1>. QED  BY <1>1, <1>2

\* Revealing a cost keeps the type of the cost table.
LEMMA RevealType ==
  ASSUME TypeOK, NEW s \in Grid, NEW v \in Eval(s), Reveal(s, v)
  PROVE  cost' \in [Grid -> CostValues \cup {NotEvaluated}]
BY EvalType DEF Reveal, TypeOK, CostValues

\* f is pure: revealing a cost never changes one revealed before.
LEMMA RevealKeeps ==
  ASSUME TypeOK, NEW s \in Grid, NEW v \in Eval(s), Reveal(s, v),
         NEW t \in Grid, cost[t] # NotEvaluated
  PROVE  cost'[t] = cost[t]
BY DEF Reveal, Eval, TypeOK

\* Revealing v at s makes the cost at s equal to v.
LEMMA RevealSets ==
  ASSUME TypeOK, NEW s \in Grid, NEW v, Reveal(s, v)
  PROVE  cost'[s] = v
BY DEF Reveal, TypeOK

\* The midpoint of two grid points lies between them.
LEMMA MidBetween ==
  ASSUME NEW l \in Int, NEW h \in Int, l <= h
  PROVE  /\ (h + l) \div 2 \in l .. h
BY SMT

\* A member of an integer interval lies between its ends.
LEMMA IntervalBounds ==
  ASSUME NEW a \in Int, NEW b \in Int, NEW x \in a .. b
  PROVE  a <= x /\ x <= b
BY SMT

-----------------------------------------------------------------------------
(* Type correctness.                                                       *)

LEMMA TypeInit == Init => TypeOK
<1>. SUFFICES ASSUME Init PROVE TypeOK
  OBVIOUS
<1>1. MaxM * Scale \in Nat
  OBVIOUS
<1>2. maxArg * Scale \in Grid
  BY DEF Init, Grid
<1>. QED  BY <1>1, <1>2 DEF Init, TypeOK, Grid

LEMMA TypeStep == TypeOK /\ [Next]_vars => TypeOK'
<1>. SUFFICES ASSUME TypeOK, [Next]_vars PROVE TypeOK'
  OBVIOUS
<1>. USE DEF TypeOK, Grid
<1>1. CeilM \in Nat
  BY DEF CeilM
<1>2. CASE Gate
  BY <1>1, <1>2 DEF Gate, fixed
<1>3. CASE ScanStep
  BY <1>3, EvalType, RevealType DEF ScanStep, fixed, CostValues
<1>4. CASE ScanDone
  BY <1>4 DEF ScanDone, fixed
<1>5. CASE Probe
  BY <1>5, EvalType, RevealType DEF Probe, fixed, CostValues
<1>6. CASE BisectStep
  <2>1. (hi + lo) \div 2 \in Grid
    BY MidBetween
  <2>. QED  BY <1>6, <2>1, EvalType, RevealType DEF BisectStep, fixed, CostValues
<1>7. CASE BisectDone
  BY <1>7 DEF BisectDone, fixed
<1>8. CASE Minimize
  <2>1. minM .. maxM \subseteq Grid
    OBVIOUS
  <2>. QED  BY <1>8, <2>1, EvalType, RevealType DEF Minimize, fixed, CostValues
<1>9. CASE UNCHANGED vars
  BY <1>9 DEF vars
<1>. QED  BY <1>2, <1>3, <1>4, <1>5, <1>6, <1>7, <1>8, <1>9 DEF Next

\* Every variable of the search always has its type.
THEOREM TypeCorrect == Spec => []TypeOK
BY TypeInit, TypeStep, PTL DEF Spec

-----------------------------------------------------------------------------
(* The bisection bracket.                                                  *)

\* A product of a bound and the grid scale is monotone in the bound.
LEMMA ScaleMonotone ==
  ASSUME NEW a \in Nat, NEW b \in Nat, a <= b
  PROVE  a * Scale <= b * Scale
BY SMT

LEMMA IInvInit == Init => IInv
<1>. SUFFICES ASSUME Init PROVE IInv
  OBVIOUS
<1>1. TypeOK
  BY TypeInit
<1>. QED  BY <1>1 DEF Init, IInv, MaxUntouched, ScanWithinRange, BisectBracket

LEMMA IInvStep == IInv /\ [Next]_vars => IInv'
<1>. SUFFICES ASSUME IInv, [Next]_vars PROVE IInv'
  OBVIOUS
<1>0. TypeOK /\ TypeOK'
  BY TypeStep DEF IInv
<1>. DEFINE Rest == MaxUntouched /\ ScanWithinRange /\ BisectBracket
<1>. SUFFICES Rest'
  BY <1>0 DEF IInv
<1>1. CASE Gate
  <2>0. CeilM \in Nat /\ maxArg \in Nat
    BY <1>0 DEF CeilM, TypeOK
  <2>1. CASE CeilM > maxArg
    <3>1. pc' = "done"
      BY <1>1, <2>1 DEF Gate
    <3>. QED  BY <3>1 DEF MaxUntouched, ScanWithinRange, BisectBracket
  <2>2. CASE CeilM <= maxArg
    <3>1. /\ pc' = "scan" /\ minM' = CeilM * Scale
          /\ maxM' = maxM /\ maxArg' = maxArg /\ pc = "gate"
      BY <1>1, <2>0, <2>2 DEF Gate, fixed
    <3>2. CeilM * Scale <= maxArg * Scale
      BY <2>0, <2>2, ScaleMonotone
    <3>3. maxM = maxArg * Scale
      BY <3>1 DEF IInv, MaxUntouched
    <3>. QED  BY <3>1, <3>2, <3>3 DEF MaxUntouched, ScanWithinRange, BisectBracket
  <2>. QED  BY <2>0, <2>1, <2>2
<1>2. CASE ScanStep
  <2>1. i \in Nat /\ maxArg \in Nat /\ i <= maxArg
    BY <1>2, <1>0 DEF ScanStep, TypeOK
  <2>2. i * Scale <= maxArg * Scale
    BY <2>1, ScaleMonotone
  <2>3. /\ pc = "scan" /\ pc' \in {"scan", "probe"}
        /\ minM' \in {minM, i * Scale}
        /\ maxM' = maxM /\ maxArg' = maxArg
    BY <1>2 DEF ScanStep, fixed
  <2>4. maxM = maxArg * Scale /\ minM <= maxArg * Scale
    BY <2>3 DEF IInv, MaxUntouched, ScanWithinRange
  <2>. QED  BY <2>2, <2>3, <2>4 DEF MaxUntouched, ScanWithinRange, BisectBracket
<1>3. CASE ScanDone
  <2>1. /\ pc = "scan" /\ pc' = "probe"
        /\ minM' = minM /\ maxM' = maxM /\ maxArg' = maxArg
    BY <1>3 DEF ScanDone, fixed
  <2>2. maxM = maxArg * Scale /\ minM <= maxArg * Scale
    BY <2>1 DEF IInv, MaxUntouched, ScanWithinRange
  <2>. QED  BY <2>1, <2>2 DEF MaxUntouched, ScanWithinRange, BisectBracket
<1>4. CASE Probe
  <2>. PICK v \in Eval(maxM) :
          /\ Reveal(maxM, v)
          /\ IF v = Infinity
               THEN /\ lo' = minM
                    /\ hi' = maxM
                    /\ pc' = "bisect"
               ELSE /\ pc' = "minimize"
                    /\ UNCHANGED <<lo, hi>>
    BY <1>4 DEF Probe
  <2>0. /\ pc = "probe"
        /\ minM' = minM /\ maxM' = maxM /\ maxArg' = maxArg
    BY <1>4 DEF Probe, fixed
  <2>1. maxM = maxArg * Scale /\ minM <= maxArg * Scale
    BY <2>0 DEF IInv, MaxUntouched, ScanWithinRange
  <2>2. CASE v = Infinity
    <3>1. cost'[maxM] = Infinity
      BY <1>0, <2>2, RevealSets DEF TypeOK
    <3>2. /\ lo' = minM /\ hi' = maxM /\ pc' = "bisect"
      BY <2>2
    <3>3. minM \in Nat /\ maxM \in Nat
      BY <1>0 DEF TypeOK, Grid
    <3>. QED  BY <2>0, <2>1, <3>1, <3>2, <3>3
              DEF MaxUntouched, ScanWithinRange, BisectBracket
  <2>3. CASE v # Infinity
    <3>1. pc' = "minimize"
      BY <2>3
    <3>. QED  BY <3>1 DEF MaxUntouched, ScanWithinRange, BisectBracket
  <2>. QED  BY <2>2, <2>3
<1>5. CASE BisectStep
  <2>. DEFINE mid == (hi + lo) \div 2
  <2>0. /\ pc = "bisect" /\ pc' = "bisect"
        /\ minM' = minM /\ maxM' = maxM /\ maxArg' = maxArg
    BY <1>5 DEF BisectStep, fixed
  <2>1. /\ minM <= lo /\ lo <= hi /\ hi <= maxArg * Scale
        /\ cost[hi] = Infinity
        /\ Finite(lo) \/ lo = minM
        /\ maxM = maxArg * Scale
    BY <2>0 DEF IInv, BisectBracket, MaxUntouched
  <2>2. mid \in lo .. hi /\ mid \in Grid
    <3>1. lo \in Grid /\ hi \in Grid
      BY <1>0 DEF TypeOK
    <3>2. mid \in lo .. hi
      BY <2>1, <3>1, MidBetween DEF Grid
    <3>3. lo .. hi \subseteq Grid
      BY <3>1 DEF Grid
    <3>. QED  BY <3>2, <3>3
  <2>. PICK v \in Eval(mid) :
          /\ Reveal(mid, v)
          /\ IF v = Infinity THEN hi' = mid /\ lo' = lo
                             ELSE lo' = mid /\ hi' = hi
    BY <1>5 DEF BisectStep
  <2>3. v \in CostValues /\ cost'[mid] = v
    BY <1>0, <2>2, EvalType, RevealSets
  <2>9. lo \in Grid /\ hi \in Grid
    BY <1>0 DEF TypeOK
  <2>4. cost'[hi] = Infinity
    <3>1. cost[hi] # NotEvaluated
      BY <2>1
    <3>. QED  BY <1>0, <2>1, <2>2, <2>9, <3>1, RevealKeeps
  <2>5. Finite(lo) => cost'[lo] \notin {Infinity, NotEvaluated}
    <3>. SUFFICES ASSUME Finite(lo)
                  PROVE  cost'[lo] \notin {Infinity, NotEvaluated}
      OBVIOUS
    <3>1. cost[lo] # NotEvaluated
      BY DEF Finite
    <3>2. cost'[lo] = cost[lo]
      BY <1>0, <2>2, <2>9, <3>1, RevealKeeps
    <3>. QED  BY <3>2 DEF Finite
  <2>6. (MaxUntouched /\ ScanWithinRange)'
    BY <2>0, <2>1 DEF MaxUntouched, ScanWithinRange
  <2>7. CASE v = Infinity
    <3>1. hi' = mid /\ lo' = lo
      BY <2>7
    <3>2. (Finite(lo) \/ lo = minM)'
      BY <2>0, <2>1, <2>5, <3>1 DEF Finite
    <3>4. cost'[hi'] = Infinity
      BY <2>3, <2>7, <3>1
    <3>3. lo' \in Int /\ hi' \in Int /\ minM \in Int /\ maxArg * Scale \in Int
      BY <1>0, <2>2, <3>1 DEF TypeOK, Grid
    <3>5. lo <= hi' /\ hi' <= hi
      BY <2>2, <3>1, IntervalBounds DEF Grid
    <3>6. minM' <= lo' /\ lo' <= hi' /\ hi' <= maxArg' * Scale
      <4>1. lo \in Int /\ hi \in Int
        BY <2>9 DEF Grid
      <4>2. maxArg' * Scale = maxArg * Scale
        BY <2>0
      <4>. QED  BY <2>0, <2>1, <3>1, <3>3, <3>5, <4>1, <4>2
    <3>. QED  BY <2>0, <2>6, <3>2, <3>4, <3>6 DEF BisectBracket
  <2>8. CASE v # Infinity
    <3>1. lo' = mid /\ hi' = hi
      BY <2>8
    <3>2. Finite(lo)'
      <4>1. cost'[mid] \notin {Infinity, NotEvaluated}
        BY <2>3, <2>8 DEF CostValues
      <4>. QED  BY <3>1, <4>1 DEF Finite
    <3>3. lo' \in Int /\ hi' \in Int /\ minM \in Int /\ maxArg * Scale \in Int
      BY <1>0, <2>2, <3>1 DEF TypeOK, Grid
    <3>4. cost'[hi'] = Infinity
      BY <2>4, <3>1
    <3>5. lo <= lo' /\ lo' <= hi
      BY <2>2, <3>1, IntervalBounds DEF Grid
    <3>6. minM' <= lo' /\ lo' <= hi' /\ hi' <= maxArg' * Scale
      <4>1. lo \in Int /\ hi \in Int
        BY <2>9 DEF Grid
      <4>2. maxArg' * Scale = maxArg * Scale
        BY <2>0
      <4>. QED  BY <2>0, <2>1, <3>1, <3>3, <3>5, <4>1, <4>2
    <3>. QED  BY <2>0, <2>6, <3>2, <3>4, <3>6 DEF BisectBracket
  <2>. QED  BY <2>7, <2>8
<1>6. CASE BisectDone
  <2>1. pc' = "minimize"
    BY <1>6 DEF BisectDone
  <2>. QED  BY <2>1 DEF MaxUntouched, ScanWithinRange, BisectBracket
<1>7. CASE Minimize
  <2>1. pc' \in {"done", "error"}
    BY <1>7 DEF Minimize
  <2>. QED  BY <2>1 DEF MaxUntouched, ScanWithinRange, BisectBracket
<1>8. CASE UNCHANGED vars
  <2>1. /\ pc' = pc /\ minM' = minM /\ maxM' = maxM /\ maxArg' = maxArg
        /\ lo' = lo /\ hi' = hi /\ cost' = cost
    BY <1>8 DEF vars
  <2>. QED  BY <2>1 DEF IInv, MaxUntouched, ScanWithinRange, BisectBracket, Finite
<1>. QED  BY <1>1, <1>2, <1>3, <1>4, <1>5, <1>6, <1>7, <1>8 DEF Next

\* While bkz_bit_security bisects, h is an evaluated width of infinite cost,
\* min_m <= l <= h <= max_m, and l is a finite-cost width unless it is still
\* the min_m the scan could not make feasible.
THEOREM BisectBracketHolds == Spec => []BisectBracket
<1>1. IInv => BisectBracket
  BY DEF IInv
<1>. QED  BY IInvInit, IInvStep, <1>1, PTL DEF Spec

=============================================================================
