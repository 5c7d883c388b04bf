----------------------------- MODULE BkzSearch -----------------------------
(***************************************************************************)
(* The search that bkz_bit_security (src/prover/sis_estimation/bkz.py)     *)
(* runs over the input width m of a Ring-SIS instance:                     *)
(*                                                                         *)
(*   1. the volume gate  min_m = ceil(log2_q / log2_beta * n) > max_m;     *)
(*   2. a forward scan for the first integer m with a finite cost;         *)
(*   3. a probe of f(max_m) and, if it is infinite, a bisection on the     *)
(*      feasibility boundary with real midpoints (h + l) / 2;              *)
(*   4. a bounded scalar minimisation over [min_m, max_m] whose success    *)
(*      is asserted, and the cost at the point it returns.                 *)
(*                                                                         *)
(* The per-m cost estimate_bkz_security_for_m is a pure function of real   *)
(* arithmetic.  The model keeps its control (the gate of line 108, the     *)
(* oracle branch of line 113, the "broken" 0 of line 130, the infinity of  *)
(* line 150 and the runtime of lines 153-165) and abstracts the numbers:   *)
(* a cost is a member of the small set Costs, 0, or Infinity, revealed the *)
(* first time the search evaluates a point and fixed from then on (the     *)
(* function is pure).  Real points m are represented on the grid of        *)
(* multiples of 1 / Scale: the variable value s stands for m = s / Scale.  *)
(* With Scale a power of two at least max_m - min_m, every midpoint of the *)
(* bisection lies on the grid, so (h + l) \div 2 is exact.                 *)
(***************************************************************************)
EXTENDS Integers

CONSTANTS
  LogQ,          \* log2_q, the log of the ring modulus
  NSet,          \* the output dimensions n a call may be made with
  LogBeta,       \* log2_beta, the log of the infinity-norm bound
  MaxM,          \* the largest max_m a call may be made with
  MinBlockSize,  \* MIN_BLOCK_SIZE: at or below it the SVP oracle is called directly
  Scale,         \* grid resolution: a grid value s stands for m = s / Scale
  Costs,         \* the finite costs a runtime or an oracle call may return
  Infinity,      \* math.inf
  NotEvaluated,  \* a point whose cost the search has not asked for yet
  Convex         \* TRUE: the finite-cost m form an interval (the code's assumption)

ASSUME ParamsAssumption ==
  /\ LogQ \in Nat \ {0}
  /\ NSet \subseteq Nat \ {0}
  /\ NSet # {}
  /\ LogBeta \in Nat \ {0}
  /\ MaxM \in Nat \ {0}
  /\ MinBlockSize \in Nat
  /\ Scale \in Nat \ {0}
  /\ Convex \in BOOLEAN

ASSUME CostsAssumption ==
  /\ Costs \subseteq Nat \ {0}
  /\ Costs # {}
  /\ Infinity \notin Nat
  /\ NotEvaluated \notin Nat
  /\ NotEvaluated # Infinity

VARIABLES
  n,         \* the argument n of the call (never changes)
  maxArg,    \* the argument max_m of the call (never changes)
  pc,        \* where bkz_bit_security is: "gate", "scan", "probe", "bisect", "minimize", "done", "error"
  i,         \* the loop variable m of the scan (an integer, not a grid value)
  minM,      \* min_m (grid value)
  maxM,      \* max_m (grid value)
  lo, hi,    \* l and h of the bisection (grid values)
  cost,      \* the costs of f revealed so far, NotEvaluated elsewhere
  result,    \* the value returned
  feasLo,    \* the finite-cost interval of f when Convex (never changes)
  feasHi

\* The call's arguments and the cost surface: they never change.
fixed == <<n, maxArg, feasLo, feasHi>>

vars == <<n, maxArg, pc, i, minM, maxM, lo, hi, cost, result, feasLo, feasHi>>

-----------------------------------------------------------------------------
(* Derived quantities.                                                     *)

\* The grid values of m the search can reach.
Grid == 0 .. (MaxM * Scale)

\* math.ceil(log2_q / log2_beta * n), computed exactly.
CeilM == (LogQ * n + LogBeta - 1) \div LogBeta

\* The gate of estimate_bkz_security_for_m: NOT (m < log2_q / log2_beta * n).
LatticeExists(s) == s * LogBeta >= LogQ * n * Scale

\* The outcomes estimate_bkz_security_for_m can have at grid value s.
Outcomes(s) ==
  IF ~LatticeExists(s) THEN {Infinity}
  ELSE IF s <= MinBlockSize * Scale THEN Costs
  ELSE IF Convex /\ s \notin feasLo .. feasHi THEN {Infinity}
  ELSE IF Convex THEN Costs \cup {0}
  ELSE Costs \cup {0, Infinity}

\* f(s): the revealed cost if there is one, otherwise any outcome.
Eval(s) == IF cost[s] # NotEvaluated THEN {cost[s]} ELSE Outcomes(s)

\* A revealed cost that is an attack (not infinity, not yet asked for).
Finite(s) == cost[s] \notin {Infinity, NotEvaluated}

\* Record the cost v of f at s.
Reveal(s, v) == cost' = [cost EXCEPT ![s] = v]

\* The cost surface the code assumes: the finite-cost m form an interval,
\* and every m at or below MIN_BLOCK_SIZE with a lattice is inside it.
ConvexSurface(a, b) ==
  \A s \in Grid : LatticeExists(s) /\ s <= MinBlockSize * Scale => s \in a .. b

-----------------------------------------------------------------------------
(* Mutants: plausible bugs of the search, each replacing one action below. *)

\* The scan keeps going after a finite cost instead of breaking.
ScanNoBreak ==
  /\ pc = "scan"
  /\ i < maxArg
  /\ \E v \in Eval(i * Scale) :
       /\ Reveal(i * Scale, v)
       /\ i' = i + 1
       /\ minM' = IF v # Infinity THEN i * Scale ELSE minM
  /\ UNCHANGED <<pc, maxM, lo, hi, result, fixed>>

\* The scan runs over range(min_m, max_m + 1).
ScanInclusive ==
  /\ pc = "scan"
  /\ i <= maxArg
  /\ \E v \in Eval(i * Scale) :
       /\ Reveal(i * Scale, v)
       /\ IF v # Infinity
            THEN /\ minM' = i * Scale
                 /\ pc' = "probe"
                 /\ i' = i
            ELSE /\ i' = i + 1
                 /\ UNCHANGED <<minM, pc>>
  /\ UNCHANGED <<maxM, lo, hi, result, fixed>>

\* The bisection moves the wrong end.
BisectSwapped ==
  /\ pc = "bisect"
  /\ hi - lo > Scale
  /\ LET mid == (hi + lo) \div 2 IN
       \E v \in Eval(mid) :
          /\ Reveal(mid, v)
          /\ IF v = Infinity THEN lo' = mid /\ hi' = hi
                             ELSE hi' = mid /\ lo' = lo
  /\ UNCHANGED <<pc, i, minM, maxM, result, fixed>>

\* The end of the scan is tested with i > max_m, one past the last width.
ScanDoneLate ==
  /\ pc = "scan"
  /\ i > maxArg
  /\ pc' = "probe"
  /\ UNCHANGED <<i, minM, maxM, lo, hi, cost, result, fixed>>

\* The loop stops at h - l <= 2.
BisectDoneEarly ==
  /\ pc = "bisect"
  /\ hi - lo <= 2 * Scale
  /\ maxM' = lo
  /\ pc' = "minimize"
  /\ UNCHANGED <<i, minM, lo, hi, cost, result, fixed>>

\* The bisection hands h, not l, to the minimiser.
BisectKeepsHigh ==
  /\ pc = "bisect"
  /\ hi - lo <= Scale
  /\ maxM' = hi
  /\ pc' = "minimize"
  /\ UNCHANGED <<i, minM, lo, hi, cost, result, fixed>>

-----------------------------------------------------------------------------
(* The search.                                                             *)

Init ==
  /\ n \in NSet
  /\ maxArg \in 1 .. MaxM
  /\ pc = "gate"
  /\ i = 0
  /\ minM = 0
  /\ maxM = maxArg * Scale
  /\ lo = 0
  /\ hi = 0
  /\ cost = [s \in Grid |-> NotEvaluated]
  /\ result = Infinity
  /\ feasLo \in Grid
  /\ feasHi \in Grid
  /\ Convex => ConvexSurface(feasLo, feasHi)
  /\ ~Convex => feasLo = 0 /\ feasHi = 0

\* Lines 50-53: no solution exists below min_m, so min_m > max_m returns inf.
Gate ==
  /\ pc = "gate"
  /\ IF CeilM > maxArg
       THEN /\ result' = Infinity
            /\ pc' = "done"
            /\ UNCHANGED <<i, minM>>
       ELSE /\ minM' = CeilM * Scale
            /\ i' = CeilM
            /\ pc' = "scan"
            /\ UNCHANGED result
  /\ UNCHANGED <<maxM, lo, hi, cost, fixed>>

\* Lines 57-60: one iteration of the scan; a finite f(m) sets min_m and breaks.
ScanStep ==
  /\ pc = "scan"
  /\ i < maxArg
  /\ \E v \in Eval(i * Scale) :
       /\ Reveal(i * Scale, v)
       /\ IF v # Infinity
            THEN /\ minM' = i * Scale
                 /\ pc' = "probe"
                 /\ i' = i
            ELSE /\ i' = i + 1
                 /\ UNCHANGED <<minM, pc>>
  /\ UNCHANGED <<maxM, lo, hi, result, fixed>>

\* Line 57: the range is exhausted without a finite cost.
ScanDone ==
  /\ pc = "scan"
  /\ i >= maxArg
  /\ pc' = "probe"
  /\ UNCHANGED <<i, minM, maxM, lo, hi, cost, result, fixed>>

\* Lines 62-64: f(max_m); if infinite, bisect on [min_m, max_m].
Probe ==
  /\ pc = "probe"
  /\ \E v \in Eval(maxM) :
       /\ Reveal(maxM, v)
       /\ IF v = Infinity
            THEN /\ lo' = minM
                 /\ hi' = maxM
                 /\ pc' = "bisect"
            ELSE /\ pc' = "minimize"
                 /\ UNCHANGED <<lo, hi>>
  /\ UNCHANGED <<i, minM, maxM, result, fixed>>

\* Lines 65-70: one halving; an infinite midpoint becomes h, a finite one l.
BisectStep ==
  /\ pc = "bisect"
  /\ hi - lo > Scale
  /\ LET mid == (hi + lo) \div 2 IN
       \E v \in Eval(mid) :
          /\ Reveal(mid, v)
          /\ IF v = Infinity THEN hi' = mid /\ lo' = lo
                             ELSE lo' = mid /\ hi' = hi
  /\ UNCHANGED <<pc, i, minM, maxM, result, fixed>>

\* Lines 65 and 71: h - l <= 1 ends the loop and max_m = l.
BisectDone ==
  /\ pc = "bisect"
  /\ hi - lo <= Scale
  /\ maxM' = lo
  /\ pc' = "minimize"
  /\ UNCHANGED <<i, minM, lo, hi, cost, result, fixed>>

\* Lines 75-80: minimize_scalar on (min_m, max_m) converges to some x in the
\* bounds (it returns the best point it evaluated); assert sec.success, then
\* return f(sec.x).  A failed assertion propagates.
Minimize ==
  /\ pc = "minimize"
  /\ \E x \in minM .. maxM, success \in BOOLEAN :
       \E v \in Eval(x) :
          /\ Reveal(x, v)
          /\ IF success THEN result' = v /\ pc' = "done"
                        ELSE pc' = "error" /\ UNCHANGED result
  /\ UNCHANGED <<i, minM, maxM, lo, hi, fixed>>

Next ==
  \/ Gate
  \/ ScanStep
  \/ ScanDone
  \/ Probe
  \/ BisectStep
  \/ BisectDone
  \/ Minimize

\* bkz_bit_security is a sequential function call: it keeps running until it
\* returns or raises, and then stops.
Spec == Init /\ [][Next]_vars /\ WF_vars(Next)

-----------------------------------------------------------------------------
(* Properties.                                                             *)

\* Every variable has its type.
TypeOK ==
  /\ n \in NSet
  /\ maxArg \in 1 .. MaxM
  /\ pc \in {"gate", "scan", "probe", "bisect", "minimize", "done", "error"}
  /\ i \in 0 .. MaxM
  /\ minM \in Grid
  /\ maxM \in Grid
  /\ lo \in Grid
  /\ hi \in Grid
  /\ cost \in [Grid -> Costs \cup {0, Infinity, NotEvaluated}]
  /\ result \in Costs \cup {0, Infinity}
  /\ feasLo \in Grid
  /\ feasHi \in Grid

\* The scan of lines 57-60 skips only widths it has found infeasible: once it
\* is over, every integer m from ceil(log2_q/log2_beta*n) up to min_m was
\* evaluated and had infinite cost.
ScanSkipsOnlyInfeasible ==
  pc \notin {"gate", "scan"} /\ CeilM <= maxArg =>
    \A k \in CeilM .. maxArg :
      k * Scale < minM => cost[k * Scale] = Infinity

\* The bisection of lines 62-71 keeps a bracket: h is an evaluated width of
\* infinite cost, l lies between min_m and h, and l is a finite-cost width
\* unless it is still the min_m the scan could not make feasible.
BisectBracket ==
  pc = "bisect" =>
    /\ minM <= lo
    /\ lo <= hi
    /\ hi <= maxArg * Scale
    /\ cost[hi] = Infinity
    /\ Finite(lo) \/ lo = minM

\* When the bisection has lowered max_m, the feasibility boundary is within
\* one unit above it: some evaluated m in (max_m, max_m + 1] had infinite
\* cost (the bracket of line 65 has closed).
BoundaryWithinOne ==
  pc = "minimize" /\ cost[maxArg * Scale] = Infinity /\ maxM < maxArg * Scale =>
    \E s \in Grid : maxM < s /\ s <= maxM + Scale /\ cost[s] = Infinity

\* minimize_scalar (lines 75-78) is handed a finite-cost upper end max_m,
\* unless the scan of lines 57-60 and the probe of line 62 evaluated every
\* integer m from the volume bound up to the caller's max_m and found each
\* infinite; then the bisection of lines 65-71 closes on l = min_m and the
\* minimiser is handed the single point min_m.
MinimizerEnd ==
  pc = "minimize" =>
    \/ Finite(maxM)
    \/ /\ maxM = minM
       /\ \A k \in CeilM .. maxArg : cost[k * Scale] = Infinity

\* Once the scan has found a width with a finite attack cost, the value
\* returned at line 80 is not infinity.
FiniteResult == pc = "done" /\ Finite(minM) => result # Infinity

\* bkz_bit_security reports infinity (no attack) only where its search found
\* none: the minimiser gets a finite-cost upper end unless every integer
\* width from the volume bound to max_m cost infinity, and, on the convex
\* cost surface the code assumes, a scan that found a finite-cost width
\* ends in a finite result.  (An attack at a fractional width only, with
\* every integer width infeasible, is still reported as infinity.)
NoSilentInfinity == MinimizerEnd /\ FiniteResult

\* The call returns or raises: the scan and the bisection terminate.
Termination == <>(pc \in {"done", "error"})

\* The contract of bkz_bit_security seen from its caller, with the cost
\* surface as the values f may take at each width; BkzContractProofs proves
\* that the search implements its safety part.
Contract == INSTANCE BkzContract WITH
  allowed <- [s \in Grid |-> Outcomes(s)],
  status <- IF pc \in {"done", "error"} THEN pc ELSE "running"

=============================================================================
