--------------------------- MODULE CpwTreeProofs ---------------------------
(***************************************************************************)
(* Proofs about the tree-cost models of the CPW attack (module CpwTree),   *)
(* for every log2_q, log2_beta, cutoff, set of inputs m_0 and set of       *)
(* tuples that satisfy CpwTreeAssumption.                                  *)
(*                                                                         *)
(* The running time covers every round because each round takes           *)
(* log_runtime to the log-sum-exp or to the max of itself and the round's  *)
(* time, both at least the larger of the two, and the repeat test only     *)
(* adds.  That is inductive once the program counter says where i is: 0    *)
(* before the set-up, and 1 <= i < k while rounds remain, so that          *)
(* ls[i + 1] and 2 ** (k - i) exist.  The types rest on 2 ** j and the     *)
(* running sums of the parts being natural numbers, each shown from the    *)
(* least index at which it would fail (the least element of a non-empty   *)
(* set of naturals, WFMin).                                                *)
(***************************************************************************)
EXTENDS CpwTree, SequenceTheorems, NaturalsInduction, WellFoundedInduction, TLAPS

USE CpwTreeAssumption

-----------------------------------------------------------------------------
(* Natural numbers.                                                        *)

\* Every non-empty set of naturals has a least element.
LEMMA LeastNat ==
  ASSUME NEW T, T \subseteq Nat, T # {}
  PROVE  \E x \in T : \A y \in T : x <= y
<1>1. \E x \in T : \A y \in T : ~(<<y, x>> \in OpToRel(<, Nat))
  BY NatLessThanWellFounded, WFMin
<1>2. \A x, y \in T : ~(<<y, x>> \in OpToRel(<, Nat)) => ~(y < x)
  BY Zenon DEF OpToRel
<1>3. \E x \in T : \A y \in T : ~(y < x)
  BY <1>1, <1>2, Zenon
<1>4. \A x, y \in T : ~(y < x) => x <= y
  BY SMT
<1>. QED  BY <1>3, <1>4, Zenon

\* The recursive definition of Pow2 unfolds.
LEMMA Pow2Def ==
  \A j \in Nat : Pow2[j] = IF j = 0 THEN 1 ELSE 2 * Pow2[j - 1]
<1>1. NatInductiveDefHypothesis(Pow2, 1, LAMBDA v, j : 2 * v)
  BY DEF NatInductiveDefHypothesis, Pow2
<1>2. NatInductiveDefConclusion(Pow2, 1, LAMBDA v, j : 2 * v)
  BY <1>1, NatInductiveDef
<1>. QED  BY <1>2 DEF NatInductiveDefConclusion

\* 2 ** j is a positive natural number.
LEMMA Pow2Type == \A j \in Nat : Pow2[j] \in Nat \ {0}
<1>. DEFINE Bad == {j \in Nat : Pow2[j] \notin Nat \ {0}}
<1>. SUFFICES ASSUME Bad # {} PROVE FALSE
  OBVIOUS
<1>. PICK x \in Bad : \A y \in Bad : x <= y
  BY LeastNat
<1>1. x # 0
  <2>1. Pow2[0] = 1
    BY Pow2Def
  <2>. QED  BY <2>1, SMT
<1>2. x - 1 \in Nat /\ x - 1 \notin Bad
  BY <1>1, SMT
<1>3. Pow2[x] = 2 * Pow2[x - 1]
  BY <1>1, Pow2Def
<1>. QED  BY <1>2, <1>3, SMT

-----------------------------------------------------------------------------
(* The running sums of the parts.                                          *)

\* PartSum and WeightSum are the functions their recursive definitions
\* describe.
LEMMA SumsDef ==
  ASSUME ls \in Seq(Nat \ {0})
  PROVE  /\ \A j \in 0 .. K :
              PartSum[j] = IF j = 0 THEN 0 ELSE PartSum[j - 1] + ls[j]
         /\ \A j \in 0 .. K :
              WeightSum[j] = IF j = 0 THEN 0
                             ELSE WeightSum[j - 1] + ls[j] * Pow2[K - j]
<1>1. K \in Nat
  BY DEF K
<1>2. FiniteNatInductiveDefConclusion(PartSum, 0, LAMBDA v, j : v + ls[j], 0, K)
  <2>1. FiniteNatInductiveDefHypothesis(PartSum, 0, LAMBDA v, j : v + ls[j], 0, K)
    BY DEF FiniteNatInductiveDefHypothesis, PartSum
  <2>. QED  BY <1>1, <2>1, FiniteNatInductiveDef
<1>3. FiniteNatInductiveDefConclusion(WeightSum, 0,
        LAMBDA v, j : v + ls[j] * Pow2[K - j], 0, K)
  <2>1. FiniteNatInductiveDefHypothesis(WeightSum, 0,
          LAMBDA v, j : v + ls[j] * Pow2[K - j], 0, K)
    BY DEF FiniteNatInductiveDefHypothesis, WeightSum
  <2>. QED  BY <1>1, <2>1, FiniteNatInductiveDef
<1>. QED  BY <1>2, <1>3 DEF FiniteNatInductiveDefConclusion

\* Both sums are natural numbers at every index.
LEMMA SumsNat ==
  ASSUME ls \in Seq(Nat \ {0})
  PROVE  \A j \in 0 .. K : PartSum[j] \in Nat /\ WeightSum[j] \in Nat
<1>. DEFINE Bad == {j \in 0 .. K : ~(PartSum[j] \in Nat /\ WeightSum[j] \in Nat)}
<1>1. K \in Nat
  BY DEF K
<1>. SUFFICES ASSUME Bad # {} PROVE FALSE
  OBVIOUS
<1>2. Bad \subseteq Nat
  BY <1>1
<1>. PICK x \in Bad : \A y \in Bad : x <= y
  BY <1>2, LeastNat
<1>3. x # 0
  BY SumsDef
<1>4. x - 1 \in 0 .. K /\ x - 1 \notin Bad /\ x \in 1 .. Len(ls) /\ K - x \in Nat
  BY <1>1, <1>3, SMT DEF K
<1>5. ls[x] \in Nat /\ Pow2[K - x] \in Nat
  BY <1>4, Pow2Type
<1>6. PartSum[x] = PartSum[x - 1] + ls[x]
      /\ WeightSum[x] = WeightSum[x - 1] + ls[x] * Pow2[K - x]
  BY <1>3, SumsDef
<1>7. PartSum[x - 1] \in Nat /\ WeightSum[x - 1] \in Nat
  BY <1>4
<1>8. ~(PartSum[x] \in Nat /\ WeightSum[x] \in Nat)
  OBVIOUS
<1>9. \A a, b, c, d \in Nat : a + b \in Nat /\ c + b * d \in Nat
  BY SMT
<1>10. PartSum[x - 1] + ls[x] \in Nat
       /\ WeightSum[x - 1] + ls[x] * Pow2[K - x] \in Nat
  BY <1>5, <1>7, <1>9
<1>. QED  BY <1>6, <1>8, <1>10

\* m * log2_beta is an integer: it may be negative for HNF when m_0 < n.
LEMMA MBetaInt ==
  ASSUME TypeOK
  PROVE  MBeta \in Int
<1>1. K \in 0 .. K /\ m0 \in Nat
  BY DEF TypeOK, K
<1>2. PartSum[K] \in Nat /\ WeightSum[K] \in Nat
  BY <1>1, SumsNat DEF TypeOK
<1>. QED  BY <1>1, <1>2, SMT DEF MBeta, Min2

-----------------------------------------------------------------------------
(* The inductive invariant.                                                *)

\* log_runtime is not below any round's time so far, and the loop index is
\* 0 before the set-up and names an existing part while rounds remain.
IInv ==
  /\ TypeOK
  /\ rt >= elapsed
  /\ (pc = "setup" => i = 0)
  /\ (pc = "round" => 1 <= i /\ i < K)

\* The depth k is positive and S = 2 ** k a positive natural.
LEMMA DepthType ==
  ASSUME TypeOK
  PROVE  K \in Nat \ {0} /\ S \in Nat \ {0}
<1>1. K \in Nat \ {0}
  BY SMT DEF TypeOK, K
<1>. QED  BY <1>1, Pow2Type DEF S

\* The log-sum-exp on the grid is an integer at least the larger argument.
LEMMA LogSumExpAbove ==
  ASSUME S \in Nat, NEW a \in Int, NEW b \in Int, NEW t \in LogSumExp(a, b)
  PROVE  t \in Int /\ t >= Max2(a, b)
<1>1. CASE a = b
  <2>1. t = a + S
    BY <1>1 DEF LogSumExp
  <2>. QED  BY <1>1, <2>1, SMT DEF Max2
<1>2. CASE a # b
  <2>1. PICK d \in 0 .. S : t = Max2(a, b) + d
    BY <1>2 DEF LogSumExp
  <2>. QED  BY <2>1, SMT DEF Max2
<1>. QED  BY <1>1, <1>2

LEMMA IInvInit == Init => IInv
<1>. SUFFICES ASSUME Init PROVE IInv
  OBVIOUS
<1>1. ls \in Seq(Nat \ {0}) /\ ls # << >>
  BY DEF Init
<1>2. K >= 1
  BY <1>1, EmptySeq, LenProperties DEF K
<1>3. i \in 0 .. K
  BY <1>2, SMT DEF Init, K
<1>4. TypeOK
  BY <1>1, <1>2, <1>3 DEF Init, TypeOK
<1>. QED  BY <1>4 DEF Init, IInv

\* The set-up: log_runtime and the largest round time start equal.
LEMMA SetupStep == IInv /\ Setup => IInv'
<1>. SUFFICES ASSUME IInv, Setup PROVE IInv'
  OBVIOUS
<1>1. TypeOK
  BY DEF IInv
<1>2. K \in Nat \ {0} /\ S \in Nat \ {0} /\ MBeta \in Int
  BY <1>1, DepthType, MBetaInt
<1>3. ls[1] \in Nat
  BY <1>1, <1>2, SMT DEF TypeOK, K
<1>4. K' = K /\ S' = S
  BY DEF Setup, K, S
<1>5. cur' \in Int /\ rt' \in Int /\ elapsed' \in Int /\ rt' >= elapsed'
  BY <1>2, <1>3, SMT DEF Setup
<1>6. i' \in 0 .. K' /\ (pc' = "round" => 1 <= i' /\ i' < K')
  BY <1>2, <1>4, SMT DEF Setup
<1>7. pc' \in {"round", "done"}
  BY DEF Setup
<1>. QED  BY <1>1, <1>5, <1>6, <1>7 DEF Setup, IInv, TypeOK

\* A merge level: the new log_runtime is at least the larger of the old one
\* and the level's time, whichever of the max, the log-sum-exp and the repeat
\* test produced it.
LEMMA RoundStep == IInv /\ Round => IInv' /\ rt' >= rt
<1>. SUFFICES ASSUME IInv, Round PROVE IInv' /\ rt' >= rt
  OBVIOUS
<1>1. TypeOK /\ pc = "round" /\ 1 <= i /\ i < K /\ rt >= elapsed
  BY DEF IInv, Round
<1>2. K \in Nat \ {0} /\ S \in Nat \ {0} /\ i \in Nat
  BY <1>1, DepthType DEF TypeOK
<1>3. ls[i + 1] \in Nat /\ Pow2[K - i] \in Nat
  <2>1. i + 1 \in 1 .. Len(ls) /\ K - i \in Nat
    BY <1>1, <1>2, SMT DEF K
  <2>. QED  BY <1>1, <2>1, Pow2Type DEF TypeOK
<1>. DEFINE gamma == IF hnf THEN ls[i + 1] * Pow2[K - i] ELSE 0
            new == 2 * cur - S * LogQ * ls[i + 1] + S * gamma * LogBeta
            el == new + S * (K - i)
            penalty == IF new < 0 THEN -new ELSE 0
<1>4. gamma \in Nat
  BY <1>3, SMT
<1>5. new \in Int /\ el \in Int /\ penalty \in Nat
  <2>1. cur \in Int /\ K - i \in Nat
    BY <1>1, <1>2, SMT DEF TypeOK
  <2>. HIDE DEF gamma
  <2>2. new \in Int
    <3>. HIDE DEF el, penalty
    <3>. QED  BY <1>2, <1>3, <1>4, <2>1, SMT
  <2>. HIDE DEF new
  <2>3. el \in Int
    BY <1>2, <2>1, <2>2, SMT
  <2>4. penalty \in Nat
    BY <2>2, SMT
  <2>. QED  BY <2>2, <2>3, <2>4
<1>6. /\ cur' = new /\ elapsed' = Max2(elapsed, el)
      /\ repeats' = repeats + penalty
      /\ \E t \in IF Max2(rt, el) > Cutoff * S THEN {Max2(rt, el)}
                                                ELSE LogSumExp(rt, el) :
            rt' = t + penalty
  BY DEF Round
<1>. HIDE DEF gamma, new, el, penalty
<1>7. PICK t \in IF Max2(rt, el) > Cutoff * S THEN {Max2(rt, el)}
                                             ELSE LogSumExp(rt, el) :
            rt' = t + penalty
  BY <1>6
<1>8. t \in Int /\ t >= Max2(rt, el)
  <2>1. CASE Max2(rt, el) > Cutoff * S
    <3>1. t = Max2(rt, el)
      BY <1>7, <2>1
    <3>. QED  BY <1>1, <1>5, <3>1, SMT DEF TypeOK, Max2
  <2>2. CASE ~(Max2(rt, el) > Cutoff * S)
    <3>1. t \in LogSumExp(rt, el)
      BY <1>7, <2>2
    <3>. QED  BY <1>1, <1>2, <1>5, <3>1, LogSumExpAbove DEF TypeOK
  <2>. QED  BY <2>1, <2>2
<1>9. rt' \in Int /\ elapsed' \in Int /\ rt' >= elapsed' /\ rt' >= rt
  BY <1>1, <1>5, <1>6, <1>7, <1>8, SMT DEF TypeOK, Max2
<1>10. cur' \in Int /\ repeats' \in Nat
  BY <1>1, <1>5, <1>6, SMT DEF TypeOK
<1>11. K' = K /\ i' = i + 1 /\ pc' = IF i + 1 < K THEN "round" ELSE "done"
  BY DEF Round, K
<1>12. i' \in 0 .. K' /\ (pc' = "round" => 1 <= i' /\ i' < K')
       /\ pc' \in {"setup", "round", "done"} /\ pc' # "setup"
  BY <1>1, <1>2, <1>11, SMT
<1>13. hnf' = hnf /\ ls' = ls /\ m0' = m0
  BY DEF Round
<1>14. TypeOK'
  <2>1. ls' \in Seq(Nat \ {0}) /\ K' >= 1 /\ m0' \in M0s /\ hnf' \in BOOLEAN
    BY <1>1, <1>2, <1>11, <1>13 DEF TypeOK
  <2>. QED  BY <1>9, <1>10, <1>12, <2>1 DEF TypeOK
<1>. QED  BY <1>9, <1>12, <1>14 DEF IInv

LEMMA StutterStep == IInv /\ UNCHANGED vars => IInv'
BY DEF IInv, TypeOK, vars, K, S

LEMMA IInvStep == IInv /\ [Next]_vars => IInv'
BY SetupStep, RoundStep, StutterStep DEF Next

-----------------------------------------------------------------------------
(* Theorems.                                                               *)

\* Every reachable state of either tree-cost model is well typed, for every
\* partition fed in and every log2_q, log2_beta and m_0: the loop index of
\* lines 119 / 159 stays within 0..k and every scaled quantity is an integer.
THEOREM TypeCorrect == Spec => []TypeOK
<1>1. Spec => []IInv
  BY IInvInit, IInvStep, PTL DEF Spec
<1>. QED  BY <1>1, PTL DEF IInv

\* A merge level never lowers log_runtime, for every partition, m_0 and
\* cutoff: the log-sum-exp and the max of lines 128-133 / 167-172 are at
\* least the old value and the repeat test of lines 137-138 / 176-177 only
\* adds.
THEOREM RuntimeGrowsHolds == Spec => RuntimeGrows
<1>1. Spec => []IInv
  BY IInvInit, IInvStep, PTL DEF Spec
<1>2. IInv /\ [Next]_vars => [pc = "round" => rt' >= rt]_vars
  <2>. SUFFICES ASSUME IInv, [Next]_vars PROVE [pc = "round" => rt' >= rt]_vars
    OBVIOUS
  <2>1. CASE Setup
    BY <2>1 DEF Setup
  <2>2. CASE Round
    BY <2>2, RoundStep
  <2>3. CASE UNCHANGED vars
    BY <2>3
  <2>. QED  BY <2>1, <2>2, <2>3 DEF Next
<1>. QED  BY <1>1, <1>2, PTL DEF Spec, RuntimeGrows

\* The running time estimate_cpw_with_parameters and
\* estimate_cpw_with_hnf_and_parameters return covers the set-up and every
\* merge level, for every partition, every m_0 and every cutoff: neither the
\* max of lines 128-131 / 167-170, nor the log-sum-exp, nor the repeat test
\* of lines 137-138 / 176-177 lets log_runtime fall below a round's time.
THEOREM RuntimeCoversRoundsHolds == Spec => []RuntimeCoversRounds
<1>1. Spec => []IInv
  BY IInvInit, IInvStep, PTL DEF Spec
<1>2. IInv => RuntimeCoversRounds
  BY DEF IInv, RuntimeCoversRounds
<1>. QED  BY <1>1, <1>2, PTL

=============================================================================
