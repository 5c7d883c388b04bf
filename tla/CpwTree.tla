------------------------------ MODULE CpwTree ------------------------------
(***************************************************************************)
(* The tree-cost models of the CPW attack, estimate_cpw_with_parameters    *)
(* and estimate_cpw_with_hnf_and_parameters, and the partition generator   *)
(* partitions, from src/prover/circuits/pi-interconnection/keccak/prover/  *)
(* sis_estimation/combinatorials.py (lines 98-186).  The exhaustive search *)
(* of cpw_bit_security (lines 19-36) calls both models on every partition  *)
(* ls of n that partitions(n, 1) yields.                                   *)
(*                                                                         *)
(* A call is a sequence of rounds: a set-up (k = len(ls), the optimal m,   *)
(* the first list size and running time), one round per tree level        *)
(* i = 1 .. k-1, and the return.  Every quantity is a rational whose       *)
(* denominator divides S = 2^k (chunk_size = m / 2^(k-1), and the running  *)
(* time adds chunk_size * log2_beta / 2), so the model keeps it multiplied *)
(* by S, as an integer.  The one step that is not rational is the          *)
(* log-sum-exp of line 133 / 172, log2(2^a + 2^b), which lies in           *)
(* (max(a, b), max(a, b) + 1] and equals max(a, b) + 1 when a = b: the     *)
(* model lets it be any value of the grid from max(a, b) to max(a, b) + 1, *)
(* so that the values it allows bracket the one the code computes.         *)
(***************************************************************************)
EXTENDS Integers, Sequences

CONSTANTS
  LogQ,           \* log2_q
  LogBeta,        \* log2_beta
  Tuples,         \* the tuples partitions(n, 1) yields for the sizes n
  M0s,            \* the input sizes m_0
  Cutoff          \* the 1000 bits above which log-sum-exp becomes max

ASSUME CpwTreeAssumption ==
  /\ LogQ \in Nat \ {0} /\ LogBeta \in Nat \ {0}
  /\ Tuples \subseteq Seq(Nat \ {0}) \ {<< >>}
  /\ M0s \subseteq Nat /\ Cutoff \in Nat

VARIABLES
  hnf,        \* TRUE for estimate_cpw_with_hnf_and_parameters
  ls,         \* the partition, as a sequence
  m0,         \* m_0
  pc,         \* "setup", "round" or "done"
  i,          \* the loop index of line 119 / 159
  cur,        \* S * cur_log_list_size
  rt,         \* S * log_runtime
  elapsed,    \* history: S * the largest time of a round so far
  repeats     \* history: S * what the repeat test has added so far

vars == <<hnf, ls, m0, pc, i, cur, rt, elapsed, repeats>>

-----------------------------------------------------------------------------
\* 2 ** j, for a natural j.
Pow2[j \in Nat] == IF j = 0 THEN 1 ELSE 2 * Pow2[j - 1]

K == Len(ls)
S == Pow2[K]
Max2(a, b) == IF a >= b THEN a ELSE b
Min2(a, b) == IF a <= b THEN a ELSE b

\* n = sum(ls) and sum(ls[i] * 2**(k-i-1) for i in range(k)), summed up
\* to the j-th part.
PartSum[j \in 0 .. K] == IF j = 0 THEN 0 ELSE PartSum[j - 1] + ls[j]
WeightSum[j \in 0 .. K] ==
  IF j = 0 THEN 0 ELSE WeightSum[j - 1] + ls[j] * Pow2[K - j]

\* lines 106-110 / 149-150, times log2_beta: m * log2_beta, with
\* optimal_m = log2_q / log2_beta * sum(ls[i] * 2^(k-i-1)) and, for HNF,
\* m_0 - n free inputs instead of m_0.
MBeta ==
  LET free == IF hnf THEN m0 - PartSum[K] ELSE m0
  IN Min2(free * LogBeta, LogQ * WeightSum[K])

\* Mutant: the smaller of the two times instead of their sum.
LogSumExpMin(a, b) == {Min2(a, b)}

\* line 133 / 172: S * log2(2^(a/S) + 2^(b/S)) on the grid.
LogSumExp(a, b) ==
  IF a = b THEN {a + S}
  ELSE {Max2(a, b) + d : d \in 0 .. S}

-----------------------------------------------------------------------------
Init ==
  /\ hnf \in BOOLEAN
  /\ ls \in Tuples
  /\ m0 \in M0s
  /\ pc = "setup"
  /\ i = 0 /\ cur = 0 /\ rt = 0 /\ elapsed = 0 /\ repeats = 0

\* lines 101-115 / 145-155: the first list and its running time
\* chunk_size * log2_beta * 0.5 + k.
Setup ==
  /\ pc = "setup"
  /\ cur' = 2 * MBeta - S * LogQ * ls[1]
  /\ rt' = MBeta + S * K
  /\ elapsed' = MBeta + S * K
  /\ i' = 1
  /\ pc' = IF K > 1 THEN "round" ELSE "done"
  /\ UNCHANGED <<hnf, ls, m0, repeats>>

\* Mutant: log_runtime += cur_log_list_size, the repeat test's sign flipped.
RoundPenaltyFlipped ==
  /\ pc = "round"
  /\ LET gamma == IF hnf THEN ls[i + 1] * Pow2[K - i] ELSE 0
         new == 2 * cur - S * LogQ * ls[i + 1] + S * gamma * LogBeta
         el == new + S * (K - i)
         penalty == IF new < 0 THEN new ELSE 0
     IN /\ cur' = new
        /\ elapsed' = Max2(elapsed, el)
        /\ \E t \in IF Max2(rt, el) > Cutoff * S THEN {Max2(rt, el)}
                                                  ELSE LogSumExp(rt, el) :
              rt' = t + penalty
        /\ repeats' = repeats + penalty
  /\ i' = i + 1
  /\ pc' = IF i + 1 < K THEN "round" ELSE "done"
  /\ UNCHANGED <<hnf, ls, m0>>

\* lines 119-138 / 159-177: merge level i.  The HNF model adds
\* gamma_i * log2_beta with gamma_i = ls[i] * 2^(k-i).
Round ==
  /\ pc = "round"
  /\ LET gamma == IF hnf THEN ls[i + 1] * Pow2[K - i] ELSE 0
         new == 2 * cur - S * LogQ * ls[i + 1] + S * gamma * LogBeta
         el == new + S * (K - i)
         penalty == IF new < 0 THEN -new ELSE 0
     IN /\ cur' = new
        /\ elapsed' = Max2(elapsed, el)
        /\ \E t \in IF Max2(rt, el) > Cutoff * S THEN {Max2(rt, el)}
                                                  ELSE LogSumExp(rt, el) :
              rt' = t + penalty
        /\ repeats' = repeats + penalty
  /\ i' = i + 1
  /\ pc' = IF i + 1 < K THEN "round" ELSE "done"
  /\ UNCHANGED <<hnf, ls, m0>>

Next == Setup \/ Round

Spec == Init /\ [][Next]_vars

-----------------------------------------------------------------------------
(* Properties.                                                             *)

TypeOK ==
  /\ hnf \in BOOLEAN
  /\ ls \in Seq(Nat \ {0}) /\ K >= 1
  /\ m0 \in M0s
  /\ pc \in {"setup", "round", "done"}
  /\ i \in 0 .. K
  /\ cur \in Int /\ rt \in Int /\ elapsed \in Int /\ repeats \in Nat

\* A merge level never lowers log_runtime: the log-sum-exp of line 133 /
\* 172 and the max of line 131 / 170 are at least the old value, and the
\* repeat test of lines 137-138 / 176-177 subtracts a negative list size.
RuntimeGrows == [][pc = "round" => rt' >= rt]_vars

\* The running time a tree model returns covers the set-up and every
\* merge level: neither the max of line 131 / 170, nor the log-sum-exp,
\* nor the repeat test lets log_runtime fall below a round's time.
RuntimeCoversRounds ==
  pc = "done" => rt >= elapsed

=============================================================================
