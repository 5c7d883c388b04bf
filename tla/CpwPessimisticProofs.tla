------------------------ MODULE CpwPessimisticProofs ------------------------
(***************************************************************************)
(* Proofs about cpw_bit_security_pessimistic (module CpwPessimistic), for  *)
(* every value of the constants that satisfies CpwAssumption.              *)
(*                                                                         *)
(* The level k the bound settles on comes from three branches (lines       *)
(* 75-85).  The one that bisects takes the floor of the root of f, modelled *)
(* by FloorRoot as the level j with g(j) <= rhs < g(j + 1), or j - 1 when   *)
(* the root is the integer j itself.  That such a j exists is a discrete   *)
(* intermediate-value argument: g(0) <= rhs because the gate of line 61    *)
(* passed, g(max_k) > rhs because the first branch was not taken, so the   *)
(* least level in 0..max_k with g above rhs is preceded by one at or below *)
(* it (the least element of a non-empty set of naturals, lemma WFMin).     *)
(* That j - 1 is still affordable at an integer root uses                  *)
(* 2 ** j = 2 * 2 ** (j - 1) and j >= 1.                                   *)
(*                                                                         *)
(* The inductive invariant IInv adds to the two properties that the gate   *)
(* passed before k is chosen, and that the level chosen is affordable      *)
(* before m is.                                                            *)
(***************************************************************************)
EXTENDS CpwPessimistic, NaturalsInduction, WellFoundedInduction, TLAPS

USE CpwAssumption

-----------------------------------------------------------------------------
(* Powers of two.                                                          *)

\* Pow2 is the function its recursive definition describes.
LEMMA Pow2Conclusion == NatInductiveDefConclusion(Pow2, 1, LAMBDA v, j : 2 * v)
<1>1. NatInductiveDefHypothesis(Pow2, 1, LAMBDA v, j : 2 * v)
  BY DEF NatInductiveDefHypothesis, Pow2
<1>. QED  BY <1>1, NatInductiveDef

\* The recursive definition of Pow2 unfolds.
LEMMA Pow2Def ==
  \A j \in Nat : Pow2[j] = IF j = 0 THEN 1 ELSE 2 * Pow2[j - 1]
BY Pow2Conclusion DEF NatInductiveDefConclusion

\* A non-empty set of naturals has a least element.
LEMMA LeastNat ==
  ASSUME NEW T, T \subseteq Nat, T # {}
  PROVE  \E x \in T : \A y \in T : x <= y
<1>1. \E x \in T : \A y \in T : ~(<<y, x>> \in OpToRel(<, Nat))
  BY NatLessThanWellFounded, WFMin
<1>2. \A x, y \in T : ~(<<y, x>> \in OpToRel(<, Nat)) => ~(y < x)
  BY Zenon DEF OpToRel
<1>3. \E x \in T : \A y \in T : ~(y < x)
  BY <1>1, <1>2, Zenon
<1>4. \A x, y \in T : ~(y < x) => x <= y
  BY SMT
<1>. QED  BY <1>3, <1>4, Zenon

\* 2 ** j is a positive natural number.
LEMMA Pow2Type == \A j \in Nat : Pow2[j] \in Nat \ {0}
<1>. DEFINE Bad == {j \in Nat : Pow2[j] \notin Nat \ {0}}
<1>. SUFFICES Bad = {}
  OBVIOUS
<1>. SUFFICES ASSUME Bad # {} PROVE FALSE
  OBVIOUS
<1>. PICK x \in Bad : \A y \in Bad : x <= y
  BY LeastNat
<1>1. x # 0
  <2>1. Pow2[0] = 1
    BY Pow2Def
  <2>. QED  BY <2>1, SMT
<1>2. x - 1 \in Nat /\ x - 1 \notin Bad
  BY <1>1, SMT
<1>3. Pow2[x] = 2 * Pow2[x - 1]
  BY <1>1, Pow2Def
<1>. QED  BY <1>2, <1>3, SMT

\* 2 ** (j + 1) = 2 * 2 ** j.
LEMMA Pow2Succ ==
  ASSUME NEW j \in Nat
  PROVE  Pow2[j + 1] = 2 * Pow2[j]
<1>1. j + 1 \in Nat /\ j + 1 # 0 /\ (j + 1) - 1 = j
  BY SMT
<1>. QED  BY <1>1, Pow2Def

-----------------------------------------------------------------------------
(* Integer division and cancellation.                                     *)

\* a \div b is the largest q with q * b <= a, and an exact division
\* leaves no remainder.
LEMMA DivBounds ==
  ASSUME NEW a \in Nat, NEW b \in Nat \ {0}
  PROVE  /\ a \div b \in Nat
         /\ (a \div b) * b <= a /\ a < (a \div b + 1) * b
         /\ (a % b = 0 => a = (a \div b) * b)
BY SMT

\* A positive factor cancels from a strict inequality.
LEMMA MulCancel ==
  ASSUME NEW a \in Int, NEW b \in Int, NEW c \in Nat \ {0}, a * c < b * c
  PROVE  a < b
BY SMT

-----------------------------------------------------------------------------
(* The level and the width.                                                *)

\* The arguments are naturals, n positive.
LEMMA ArgsNat ==
  ASSUME TypeOK
  PROVE  n \in Nat \ {0} /\ m0 \in Nat /\ \E e \in 0 .. m0 : Pow2[e] = m0
BY DEF TypeOK

\* max_k = min(log2 m_0, n) is a natural number.
LEMMA MaxKNat ==
  ASSUME TypeOK
  PROVE  MaxK \in Nat
<1>1. n \in Nat /\ m0 \in Nat /\ \E e \in 0 .. m0 : Pow2[e] = m0
  BY ArgsNat
<1>2. Log2(m0) \in 0 .. m0
  BY <1>1, Zenon DEF Log2
<1>. QED  BY <1>1, <1>2, SMT DEF MaxK

\* Level 0 is affordable once the gate of line 61 has passed.
LEMMA AffordableZero ==
  ASSUME TypeOK, m0 * LogBeta >= n * LogQ
  PROVE  Affordable(0, m0)
<1>1. n \in Nat /\ m0 \in Nat
  BY ArgsNat
<1>2. Pow2[0] = 1
  BY Pow2Def
<1>. QED  BY <1>1, <1>2, SMT DEF Affordable

\* The discrete intermediate-value step: when level 0 is affordable and
\* level max_k is not, some level below max_k is affordable and the next
\* one is not.
LEMMA Crossing ==
  ASSUME TypeOK, m0 * LogBeta >= n * LogQ, ~Affordable(MaxK, m0)
  PROVE  \E i \in 0 .. MaxK : Affordable(i, m0) /\ ~Affordable(i + 1, m0)
<1>1. MaxK \in Nat
  BY MaxKNat
<1>. DEFINE T == {i \in 0 .. MaxK : ~Affordable(i, m0)}
<1>2. MaxK \in T
  BY <1>1, SMT
<1>3. T \subseteq Nat
  BY <1>1, SMT
<1>. PICK x \in T : \A y \in T : x <= y
  BY <1>2, <1>3, LeastNat
<1>4. Affordable(0, m0)
  BY AffordableZero
<1>5. x # 0
  BY <1>4
<1>6. x \in 1 .. MaxK
  BY <1>1, <1>5, SMT
<1>7. x - 1 \in 0 .. MaxK /\ (x - 1) + 1 = x /\ ~(x <= x - 1)
  BY <1>1, <1>6, SMT
<1>8. x - 1 \notin T
  BY <1>7
<1>9. Affordable(x - 1, m0)
  BY <1>7, <1>8
<1>. QED  BY <1>7, <1>9

\* The level lines 83-85 may return is at most max_k and affordable,
\* whichever way the bisection rounds an integer root.
LEMMA FloorRootAffordable ==
  ASSUME TypeOK, m0 * LogBeta > n * LogQ, ~Affordable(MaxK, m0),
         NEW lvl \in FloorRoot
  PROVE  lvl \in 0 .. MaxK /\ Affordable(lvl, m0)
<1>. DEFINE j == CHOOSE i \in 0 .. MaxK :
                   Affordable(i, m0) /\ ~Affordable(i + 1, m0)
<1>1. j \in 0 .. MaxK /\ Affordable(j, m0)
  <2>1. m0 * LogBeta >= n * LogQ
    BY ArgsNat, SMT
  <2>. QED  BY <2>1, Crossing
<1>2. lvl = j \/ (RootAt(j) /\ lvl = j - 1)
  BY Zenon DEF FloorRoot
<1>3. CASE lvl = j
  BY <1>1, <1>3
<1>4. CASE RootAt(j) /\ lvl = j - 1
  <2>1. MaxK \in Nat /\ j \in Nat /\ n \in Nat /\ m0 \in Nat
    BY <1>1, MaxKNat, ArgsNat
  <2>2. j # 0
    <3>. SUFFICES ASSUME j = 0 PROVE FALSE
      OBVIOUS
    <3>1. Pow2[0] = 1
      BY Pow2Def
    <3>2. Pow2[0] * (n * LogQ) = (0 + 1) * m0 * LogBeta
      BY <1>4 DEF RootAt
    <3>. QED  BY <2>1, <3>1, <3>2, SMT
  <2>3. Pow2[j] = 2 * Pow2[j - 1] /\ Pow2[j - 1] \in Nat
    BY <2>1, <2>2, Pow2Def, Pow2Type, SMT
  <2>4. j * (m0 * LogBeta) >= m0 * LogBeta
    BY <2>1, <2>2, SMT
  <2>5. 2 * (Pow2[j - 1] * (n * LogQ)) = (j + 1) * (m0 * LogBeta)
    BY <1>4, <2>1, <2>3, SMT DEF RootAt
  <2>6. Pow2[j - 1] * (n * LogQ) <= j * (m0 * LogBeta)
    BY <2>1, <2>3, <2>4, <2>5, SMT
  <2>7. lvl \in 0 .. MaxK /\ (lvl + 1) * m0 * LogBeta = j * (m0 * LogBeta)
    BY <1>1, <1>4, <2>1, <2>2, SMT
  <2>. QED  BY <1>4, <2>6, <2>7 DEF Affordable
<1>. QED  BY <1>2, <1>3, <1>4

\* The width lines 90-93 may return, when f(m_0) > 0, is a natural no
\* larger than m_0 at which level lvl is still affordable.
LEMMA CeilRootAffordable ==
  ASSUME TypeOK, NEW lvl \in Nat,
         (lvl + 1) * m0 * LogBeta > Pow2[lvl] * n * LogQ,
         NEW w \in CeilRoot(lvl)
  PROVE  w \in Nat /\ w <= m0 /\ Affordable(lvl, w)
<1>. DEFINE num == Pow2[lvl] * n * LogQ
            den == (lvl + 1) * LogBeta
            q == num \div den
<1>1. n \in Nat /\ m0 \in Nat /\ Pow2[lvl] \in Nat
  BY ArgsNat, Pow2Type
<1>2. num \in Nat /\ den \in Nat \ {0}
  BY <1>1, SMT
<1>3. q \in Nat /\ q * den <= num /\ num < (q + 1) * den
      /\ (num % den = 0 => num = q * den)
  BY <1>2, DivBounds
<1>4. m0 * den > num
  BY <1>1, SMT
<1>5. q < m0
  <2>1. q * den < m0 * den
    <3>. HIDE DEF num, den, q
    <3>. QED  BY <1>1, <1>2, <1>3, <1>4, SMT
  <2>. QED  BY <1>1, <1>2, <1>3, <2>1, MulCancel
<1>6. w = q + 1 \/ (num % den = 0 /\ w = q)
  BY Zenon DEF CeilRoot
<1>7. num <= den * w
  BY <1>2, <1>3, <1>6, SMT
<1>8. Pow2[lvl] * (n * LogQ) = num /\ (lvl + 1) * w * LogBeta = den * w
  BY <1>1, <1>3, <1>6, SMT
<1>9. w \in Nat /\ w <= m0
  BY <1>1, <1>3, <1>5, <1>6, SMT
<1>10. Affordable(lvl, w)
  BY <1>7, <1>8 DEF Affordable
<1>. QED  BY <1>9, <1>10

-----------------------------------------------------------------------------
(* The inductive invariant.                                                *)

\* Before the function returns, the result is unset; the gate of line 61
\* has passed before the level is chosen; the level is affordable before
\* the width is chosen; and the two properties.  The branch of line 19 is
\* never entered: n is positive.
IInv ==
  /\ TypeOK
  /\ pc \in {"dispatch", "gate", "k", "m", "done"}
  /\ pc \in {"dispatch", "gate", "k", "m"} => result = NotReturned
  /\ pc \in {"k", "m"} => m0 * LogBeta >= n * LogQ
  /\ pc = "m" => k \in 0 .. MaxK /\ Affordable(k, m0)
  /\ LevelAffordable
  /\ ReducedStillDense

LEMMA IInvInit == Init => IInv
<1>. SUFFICES ASSUME Init PROVE IInv
  OBVIOUS
<1>1. TypeOK
  BY DEF Init, TypeOK
<1>. QED  BY <1>1 DEF Init, IInv, LevelAffordable, ReducedStillDense

\* max_k depends only on the arguments, which no step changes.
LEMMA MaxKKept ==
  ASSUME n' = n, m0' = m0
  PROVE  MaxK' = MaxK
BY DEF MaxK, Log2

LEMMA DispatchStep == IInv /\ Dispatch => IInv'
<1>. SUFFICES ASSUME IInv, Dispatch PROVE IInv'
  OBVIOUS
<1>1. ~(n < -1)
  BY ArgsNat, SMT DEF IInv
<1>2. TypeOK'
  BY <1>1 DEF IInv, Dispatch, TypeOK
<1>. QED  BY <1>1, <1>2 DEF IInv, Dispatch, LevelAffordable, ReducedStillDense

LEMMA GateRejectStep == IInv /\ GateReject => IInv'
<1>. SUFFICES ASSUME IInv, GateReject PROVE IInv'
  OBVIOUS
<1>1. TypeOK'
  BY DEF IInv, GateReject, TypeOK
<1>. QED  BY <1>1 DEF IInv, GateReject, LevelAffordable, ReducedStillDense

LEMMA GatePassStep == IInv /\ GatePass => IInv'
<1>. SUFFICES ASSUME IInv, GatePass PROVE IInv'
  OBVIOUS
<1>1. TypeOK'
  BY DEF IInv, GatePass, TypeOK
<1>. QED  BY <1>1 DEF IInv, GatePass, LevelAffordable, ReducedStillDense

\* A step that moves to "m" with an affordable level below max_k.
LEMMA ToWidth ==
  ASSUME IInv, pc = "k", pc' = "m",
         UNCHANGED <<n, m0, searched, m, result>>,
         k' \in 0 .. MaxK, Affordable(k', m0)
  PROVE  IInv'
<1>1. MaxK' = MaxK /\ MaxK \in Nat
  BY MaxKKept, MaxKNat DEF IInv
<1>2. TypeOK'
  BY <1>1, SMT DEF IInv, TypeOK
<1>3. (m0 * LogBeta >= n * LogQ)'
  BY DEF IInv
<1>4. (k \in 0 .. MaxK /\ Affordable(k, m0))'
  BY <1>1 DEF Affordable
<1>. QED  BY <1>2, <1>3, <1>4 DEF IInv, LevelAffordable, ReducedStillDense

LEMMA KAtMaxStep == IInv /\ KAtMax => IInv'
<1>. SUFFICES ASSUME IInv, KAtMax PROVE IInv'
  OBVIOUS
<1>1. k' \in 0 .. MaxK
  BY MaxKNat, SMT DEF IInv, KAtMax
<1>. QED  BY <1>1, ToWidth DEF KAtMax

LEMMA KZeroStep == IInv /\ KZero => IInv'
<1>. SUFFICES ASSUME IInv, KZero PROVE IInv'
  OBVIOUS
<1>1. k' \in 0 .. MaxK /\ Affordable(k', m0)
  <2>1. Affordable(0, m0) /\ MaxK \in Nat
    BY MaxKNat, AffordableZero DEF IInv, KZero
  <2>. QED  BY <2>1, SMT DEF KZero
<1>. QED  BY <1>1, ToWidth DEF KZero

LEMMA KBisectStep == IInv /\ KBisect => IInv'
<1>. SUFFICES ASSUME IInv, KBisect PROVE IInv'
  OBVIOUS
<1>1. k' \in 0 .. MaxK /\ Affordable(k', m0)
  BY FloorRootAffordable DEF IInv, KBisect
<1>. QED  BY <1>1, ToWidth DEF KBisect

\* The bound line 95 returns is a fraction with a positive denominator.
LEMMA BoundFraction ==
  ASSUME NEW lvl \in Nat, NEW w \in Nat
  PROVE  Bound(lvl, w) \in Fraction
<1>1. Pow2[lvl] \in Nat \ {0}
  BY Pow2Type
<1>2. lvl * Pow2[lvl] + LogBeta * w \in Nat
  BY <1>1, SMT
<1>. QED  BY <1>1, <1>2 DEF Bound, Fraction

\* A step that returns the bound of level k and a width w.
LEMMA ToDone ==
  ASSUME IInv, pc = "m", pc' = "done",
         UNCHANGED <<n, m0, searched, k>>,
         m' \in Nat, m' <= m0, Affordable(k, m'), result' = Bound(k, m')
  PROVE  IInv'
<1>1. MaxK' = MaxK /\ k \in Nat
  BY MaxKKept DEF IInv, TypeOK
<1>2. result' \in Fraction
  BY <1>1, BoundFraction
<1>3. TypeOK'
  BY <1>2 DEF IInv, TypeOK
<1>4. LevelAffordable'
  BY <1>1 DEF IInv, LevelAffordable, Affordable
<1>5. ReducedStillDense'
  BY DEF ReducedStillDense, Affordable
<1>. QED  BY <1>3, <1>4, <1>5 DEF IInv

LEMMA MReduceStep == IInv /\ MReduce => IInv'
<1>. SUFFICES ASSUME IInv, MReduce PROVE IInv'
  OBVIOUS
<1>1. m' \in Nat /\ m' <= m0 /\ Affordable(k, m')
  BY CeilRootAffordable DEF IInv, TypeOK, MReduce
<1>. QED  BY <1>1, ToDone DEF MReduce

LEMMA MKeepStep == IInv /\ MKeep => IInv'
<1>. SUFFICES ASSUME IInv, MKeep PROVE IInv'
  OBVIOUS
<1>1. m' \in Nat /\ m' <= m0 /\ Affordable(k, m')
  BY ArgsNat, SMT DEF IInv, MKeep
<1>. QED  BY <1>1, ToDone DEF MKeep

LEMMA StutterStep == IInv /\ UNCHANGED vars => IInv'
<1>. SUFFICES ASSUME IInv, UNCHANGED vars PROVE IInv'
  OBVIOUS
<1>1. MaxK' = MaxK
  BY MaxKKept DEF vars
<1>. QED  BY <1>1 DEF IInv, vars, TypeOK, LevelAffordable, ReducedStillDense,
                    Affordable

LEMMA IInvStep == IInv /\ [Next]_vars => IInv'
BY DispatchStep, GateRejectStep, GatePassStep, KAtMaxStep, KZeroStep,
   KBisectStep, MReduceStep, MKeepStep, StutterStep DEF Next

-----------------------------------------------------------------------------
(* Theorems.                                                               *)

\* Every reachable state of cpw_bit_security_pessimistic is well typed:
\* the result, once returned, is Infinity or a fraction with a positive
\* denominator (2 ** k).
THEOREM TypeCorrect == Spec => []TypeOK
<1>1. IInv => TypeOK
  BY DEF IInv
<1>. QED  BY <1>1, IInvInit, IInvStep, PTL DEF Spec

\* For every log2_q, log2_beta, n and power of two m_0: the level lines
\* 71-85 settle on is at most min(log2 m_0, n) and affordable, whichever
\* way the float bisection rounds an integer root.
THEOREM LevelAffordableHolds == Spec => []LevelAffordable
<1>1. IInv => LevelAffordable
  BY DEF IInv
<1>. QED  BY <1>1, IInvInit, IInvStep, PTL DEF Spec

\* For every value of the constants: the width lines 88-93 settle on is at
\* most m_0 and still affordable at level k, and the result is the bound of
\* line 95 for that level and width.
THEOREM ReducedStillDenseHolds == Spec => []ReducedStillDense
<1>1. IInv => ReducedStillDense
  BY DEF IInv
<1>. QED  BY <1>1, IInvInit, IInvStep, PTL DEF Spec

=============================================================================
