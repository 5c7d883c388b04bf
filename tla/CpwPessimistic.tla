--------------------------- MODULE CpwPessimistic ---------------------------
(***************************************************************************)
(* cpw_bit_security and cpw_bit_security_pessimistic, from                 *)
(* src/prover/circuits/pi-interconnection/keccak/prover/sis_estimation/    *)
(* combinatorials.py.                                                      *)
(*                                                                         *)
(* cpw_bit_security runs the exhaustive search over partitions when        *)
(* n < -1 and otherwise the pessimistic bound.  The bound is computed here *)
(* exactly, on rationals kept as integer cross-products:                   *)
(*                                                                         *)
(*   rhs = m_0 * log2_beta / (n * log2_q)      (the density)               *)
(*   g(k) = 2^k / (k + 1)                      (f(k) = g(k) - rhs)         *)
(*                                                                         *)
(* m_0 ranges over powers of two, so that max_k = min(log2(m_0), n) is an  *)
(* integer and the result k + log2_beta * m / 2^k is rational.  The two    *)
(* calls of scipy's bisect are the only floating-point steps whose outcome *)
(* the model cannot fix: when the root is an exact integer, the float      *)
(* bisection may stop just below or just above it, so the floor (line 85)  *)
(* and the ceiling (line 93) each have two possible outcomes.  Elsewhere   *)
(* the root is a rational at a distance from the next integer far beyond   *)
(* bisect's tolerance, and floor and ceiling are exact.                    *)
(***************************************************************************)
EXTENDS Integers

CONSTANTS
  LogQ,           \* log2_q
  LogBeta,        \* log2_beta
  Ns,             \* the output sizes n a caller passes
  M0s,            \* the input sizes m_0 a caller passes (powers of two)
  Infinity,       \* math.inf
  NotReturned     \* the result before the function returns

\* 2 ** k, for a natural k.
Pow2[j \in Nat] == IF j = 0 THEN 1 ELSE 2 * Pow2[j - 1]

ASSUME CpwAssumption ==
  /\ LogQ \in Nat \ {0} /\ LogBeta \in Nat \ {0}
  /\ Ns \subseteq Nat \ {0}
  /\ \A x \in M0s : x \in Nat /\ \E e \in 0 .. x : Pow2[e] = x
  /\ Infinity \notin Nat /\ NotReturned \notin Nat /\ Infinity # NotReturned

VARIABLES
  n, m0,      \* the arguments
  pc,         \* "dispatch", "gate", "k", "m", "search" or "done"
  searched,   \* the branch of line 19 was taken
  k,          \* the splitting level of lines 71-85
  m,          \* the input width of lines 90-93
  result      \* the returned estimate: Infinity or [num, den]

vars == <<n, m0, pc, searched, k, m, result>>

-----------------------------------------------------------------------------
\* log2 of a power of two.
Log2(x) == CHOOSE e \in 0 .. x : Pow2[e] = x

\* line 68: max_k = min(math.log2(m_0), n).
MaxK == IF Log2(m0) < n THEN Log2(m0) ELSE n

\* g(j) <= rhs, that is 2^j / (j + 1) <= m_0 * log2_beta / (n * log2_q).
Affordable(j, width) == Pow2[j] * (n * LogQ) <= (j + 1) * width * LogBeta

\* g(j) = rhs: the root of f is the integer j.
RootAt(j) == Pow2[j] * (n * LogQ) = (j + 1) * m0 * LogBeta

\* Mutant: the root rounded up instead of down.
FloorRootUp ==
  LET j == CHOOSE i \in 0 .. MaxK :
             Affordable(i, m0) /\ ~Affordable(i + 1, m0)
  IN {j + 1}

\* line 84-85: math.floor(bisect(f, 0, max_k)).  The root lies above 1
\* (g <= 1 on [0, 1] and rhs > 1), and g increases from there on.
FloorRoot ==
  LET j == CHOOSE i \in 0 .. MaxK :
             Affordable(i, m0) /\ ~Affordable(i + 1, m0)
  IN IF RootAt(j) THEN {j - 1, j} ELSE {j}

\* Mutant: the width rounded down instead of up.
CeilRootDown(lvl) == {(Pow2[lvl] * n * LogQ) \div ((lvl + 1) * LogBeta)}

\* line 92-93: math.ceil(bisect(f, 0, m_0)) for f(m) = m * log2_beta /
\* (n * log2_q) - g(k), whose root is 2^k * n * log2_q / ((k + 1) *
\* log2_beta).
CeilRoot(lvl) ==
  LET num == Pow2[lvl] * n * LogQ
      den == (lvl + 1) * LogBeta
  IN IF num % den = 0 THEN {num \div den, num \div den + 1}
                      ELSE {num \div den + 1}

\* Mutant: the divisor 2^k - 1.
BoundOffByOne(lvl, width) ==
  [num |-> lvl * Pow2[lvl] + LogBeta * width, den |-> Pow2[lvl] - 1]

\* line 95: k + log2_beta * (m / 2^k), as a fraction.
Bound(lvl, width) == [num |-> lvl * Pow2[lvl] + LogBeta * width, den |-> Pow2[lvl]]

-----------------------------------------------------------------------------
Init ==
  /\ n \in Ns
  /\ m0 \in M0s
  /\ pc = "dispatch"
  /\ searched = FALSE
  /\ k = 0
  /\ m = 0
  /\ result = NotReturned

\* lines 19 and 37-40: the exhaustive search runs only when n < -1.
Dispatch ==
  /\ pc = "dispatch"
  /\ searched' = (n < -1)
  /\ pc' = IF n < -1 THEN "search" ELSE "gate"
  /\ UNCHANGED <<n, m0, k, m, result>>

\* lines 59-63: too few inputs for a solution to exist.
GateReject ==
  /\ pc = "gate"
  /\ m0 * LogBeta < n * LogQ
  /\ result' = Infinity
  /\ pc' = "done"
  /\ UNCHANGED <<n, m0, searched, k, m>>

GatePass ==
  /\ pc = "gate"
  /\ m0 * LogBeta >= n * LogQ
  /\ pc' = "k"
  /\ UNCHANGED <<n, m0, searched, k, m, result>>

\* lines 75-77: f(max_k) <= 0, even the deepest tree is affordable.
KAtMax ==
  /\ pc = "k"
  /\ Affordable(MaxK, m0)
  /\ k' = MaxK
  /\ pc' = "m"
  /\ UNCHANGED <<n, m0, searched, m, result>>

\* lines 78-82: f(0) >= 0, the density is exactly 1.
KZero ==
  /\ pc = "k"
  /\ ~Affordable(MaxK, m0)
  /\ m0 * LogBeta <= n * LogQ
  /\ k' = 0
  /\ pc' = "m"
  /\ UNCHANGED <<n, m0, searched, m, result>>

\* lines 83-85: bisection for the root of f, floored.
KBisect ==
  /\ pc = "k"
  /\ ~Affordable(MaxK, m0)
  /\ m0 * LogBeta > n * LogQ
  /\ k' \in FloorRoot
  /\ pc' = "m"
  /\ UNCHANGED <<n, m0, searched, m, result>>

\* lines 88-95 when f(0) * f(m_0) < 0: m shrinks to the root, ceiled.
MReduce ==
  /\ pc = "m"
  /\ (k + 1) * m0 * LogBeta > Pow2[k] * n * LogQ
  /\ m' \in CeilRoot(k)
  /\ result' = Bound(k, m')
  /\ pc' = "done"
  /\ UNCHANGED <<n, m0, searched, k>>

\* lines 88-95 when f(m_0) = 0: m stays m_0.
MKeep ==
  /\ pc = "m"
  /\ (k + 1) * m0 * LogBeta <= Pow2[k] * n * LogQ
  /\ m' = m0
  /\ result' = Bound(k, m0)
  /\ pc' = "done"
  /\ UNCHANGED <<n, m0, searched, k>>

Next ==
  \/ Dispatch \/ GateReject \/ GatePass
  \/ KAtMax \/ KZero \/ KBisect
  \/ MReduce \/ MKeep

Spec == Init /\ [][Next]_vars

-----------------------------------------------------------------------------
(* Properties.                                                             *)

Fraction == [num : Nat, den : Nat \ {0}]

TypeOK ==
  /\ n \in Ns /\ m0 \in M0s
  /\ pc \in {"dispatch", "gate", "k", "m", "search", "done"}
  /\ searched \in BOOLEAN
  /\ k \in Nat /\ m \in Nat
  /\ result \in Fraction \cup {Infinity, NotReturned}

\* The level the pessimistic bound settles on (lines 71-85) is one the
\* tree can reach (at most min(log2 m_0, n)) and whose lists the density
\* can fill: 2^k / (k + 1) <= m_0 * log2_beta / (n * log2_q), whichever
\* way the float bisection rounds.
LevelAffordable ==
  (pc = "done" /\ result # Infinity) =>
    /\ k \in 0 .. MaxK
    /\ Affordable(k, m0)

\* Shrinking m (lines 88-93) never goes past m_0 and never below the width
\* at which the lists of level k still hold a solution, so the reported
\* bound k + log2_beta * m / 2^k is that of an attack that still works.
ReducedStillDense ==
  (pc = "done" /\ result # Infinity) =>
    /\ m <= m0
    /\ Affordable(k, m)
    /\ result = Bound(k, m)

\* Lines 83-85 floor the root of f: when the bisection runs, k is the
\* largest level that is affordable, as in the exact floor of the root.
KIsFloorOfRoot ==
  (/\ pc = "done" /\ result # Infinity
   /\ m0 * LogBeta > n * LogQ /\ ~Affordable(MaxK, m0)) =>
    Affordable(k, m0) /\ ~Affordable(k + 1, m0)

=============================================================================
