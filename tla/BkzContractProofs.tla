------------------------- MODULE BkzContractProofs -------------------------
(***************************************************************************)
(* Proof that the search of bkz_bit_security (module BkzSearch) implements *)
(* its contract (module BkzContract, through the instance Contract of      *)
(* BkzSearch), for every value of the constants: every step of the search  *)
(* is a step of the contract or leaves the caller's view unchanged.        *)
(*                                                                         *)
(* The step of Minimize returns f(x) for an x in [min_m, max_m], and the   *)
(* contract asks that x has a lattice and is at most the caller's max_m.   *)
(* The search's invariant IInv does not say so; the strengthening CInv     *)
(* adds that once the gate has passed, min_m is at least                   *)
(* ceil(log2_q / log2_beta * n) (the scan only raises it), that the scan   *)
(* starts there, and that max_m never exceeds the caller's.  The rest is   *)
(* arithmetic on the ceiling: ceil(a / b) > m implies m * b < a (the gate  *)
(* rejects only widths without a lattice) and ceil(a / b) * b >= a (every  *)
(* width from min_m on has one).                                           *)
(*                                                                         *)
(* Only the safety part of the contract is proved; that the call ends is   *)
(* liveness, which TLC checks.  The second half of the module proves, on   *)
(* the strengthening SInv of CInv, the search's remaining invariants.      *)
(***************************************************************************)
EXTENDS BkzSearchProofs

USE ParamsAssumption, CostsAssumption

\* The scan and everything after it run on a gate that passed.
GateOpen ==
  pc \in {"scan", "probe", "bisect", "minimize"} =>
    /\ CeilM <= maxArg
    /\ CeilM * Scale <= minM

\* The scan starts at ceil(log2_q / log2_beta * n) and only moves up.
ScanFromCeil == pc = "scan" => CeilM <= i

\* max_m is never raised above the caller's.
MaxWithin == maxM <= maxArg * Scale

CInv ==
  /\ IInv
  /\ GateOpen
  /\ ScanFromCeil
  /\ MaxWithin

-----------------------------------------------------------------------------
(* Arithmetic of the ceiling of line 50.                                   *)

\* ceil(a / b) > m: m inputs per unit of norm fall short of a.
LEMMA CeilAbove ==
  ASSUME NEW a \in Nat, NEW b \in Nat \ {0}, NEW m \in Nat,
         (a + b - 1) \div b > m
  PROVE  m * b < a
<1>1. (a + b - 1) \div b >= m + 1
  OBVIOUS
<1>2. b * ((a + b - 1) \div b) <= a + b - 1
  BY SMT
<1>3. b * (m + 1) <= b * ((a + b - 1) \div b)
  BY <1>1, SMT
<1>. QED  BY <1>2, <1>3, SMT

\* ceil(a / b) * b >= a.
LEMMA CeilBelow ==
  ASSUME NEW a \in Nat, NEW b \in Nat \ {0}
  PROVE  ((a + b - 1) \div b) * b >= a
<1>1. (a + b - 1) % b < b
  BY SMT
<1>2. a + b - 1 = b * ((a + b - 1) \div b) + ((a + b - 1) % b)
  BY SMT
<1>. QED  BY <1>1, <1>2, SMT

\* Scaling by the grid keeps an order between products.
LEMMA ScaleOrder ==
  ASSUME NEW x \in Int, NEW y \in Int, x <= y
  PROVE  x * Scale <= y * Scale
BY SMT

-----------------------------------------------------------------------------
(* The strengthened invariant.                                             *)

LEMMA CInvInit == Init => CInv
<1>. SUFFICES ASSUME Init PROVE CInv
  OBVIOUS
<1>1. IInv
  BY IInvInit
<1>2. maxArg * Scale \in Int
  BY DEF Init
<1>. QED  BY <1>1, <1>2 DEF Init, CInv, GateOpen, ScanFromCeil, MaxWithin

LEMMA CInvStep == CInv /\ [Next]_vars => CInv'
<1>. SUFFICES ASSUME CInv, [Next]_vars PROVE CInv'
  OBVIOUS
<1>0. /\ IInv' /\ TypeOK /\ CeilM \in Nat
      /\ MaxWithin /\ GateOpen /\ ScanFromCeil
  BY IInvStep DEF CInv, IInv, TypeOK, CeilM
<1>. DEFINE Rest == GateOpen /\ ScanFromCeil /\ MaxWithin
<1>. SUFFICES Rest'
  BY <1>0 DEF CInv
<1>9. maxArg' = maxArg /\ n' = n
  BY DEF Next, vars, fixed, Gate, ScanStep, ScanDone, Probe, BisectStep,
         BisectDone, Minimize
<1>1. CASE Gate
  <2>1. CASE CeilM > maxArg
    BY <1>0, <1>1, <1>9, <2>1 DEF Gate, Rest, GateOpen, ScanFromCeil, MaxWithin
  <2>2. CASE CeilM <= maxArg
    <3>1. /\ pc' = "scan" /\ minM' = CeilM * Scale /\ i' = CeilM
          /\ maxM' = maxM
      BY <1>1, <2>2, <1>0 DEF Gate, TypeOK
    <3>. QED  BY <1>0, <1>9, <2>2, <3>1 DEF CeilM, GateOpen, ScanFromCeil, MaxWithin
  <2>. QED  BY <1>0, <2>1, <2>2 DEF TypeOK
<1>2. CASE ScanStep
  <2>1. /\ pc = "scan" /\ pc' \in {"scan", "probe"}
        /\ minM' \in {minM, i * Scale} /\ i' \in {i, i + 1}
        /\ maxM' = maxM
    BY <1>2 DEF ScanStep
  <2>2. /\ CeilM <= maxArg /\ CeilM * Scale <= minM /\ CeilM <= i
        /\ i \in Nat
    BY <1>0, <2>1 DEF GateOpen, ScanFromCeil, TypeOK
  <2>3. CeilM * Scale <= i * Scale
    BY <1>0, <2>2, ScaleOrder
  <2>. QED  BY <1>0, <1>9, <2>1, <2>2, <2>3 DEF CeilM, GateOpen, ScanFromCeil, MaxWithin
<1>3. CASE ScanDone
  BY <1>0, <1>3, <1>9 DEF ScanDone, GateOpen, ScanFromCeil, MaxWithin, CeilM
<1>4. CASE Probe
  <2>1. /\ pc = "probe" /\ pc' \in {"bisect", "minimize"}
        /\ minM' = minM /\ maxM' = maxM
    BY <1>4 DEF Probe
  <2>. QED  BY <1>0, <1>9, <2>1 DEF GateOpen, ScanFromCeil, MaxWithin, CeilM
<1>5. CASE BisectStep
  BY <1>0, <1>5, <1>9 DEF BisectStep, GateOpen, ScanFromCeil, MaxWithin, CeilM
<1>6. CASE BisectDone
  <2>1. /\ pc = "bisect" /\ pc' = "minimize"
        /\ minM' = minM /\ maxM' = lo
    BY <1>6 DEF BisectDone
  <2>2. lo <= hi /\ hi <= maxArg * Scale
    BY <2>1 DEF CInv, IInv, BisectBracket
  <2>3. lo \in Int /\ hi \in Int /\ maxArg * Scale \in Int
    BY <1>0 DEF TypeOK, Grid
  <2>. QED  BY <1>0, <1>9, <2>1, <2>2, <2>3 DEF GateOpen, ScanFromCeil, MaxWithin, CeilM
<1>7. CASE Minimize
  BY <1>0, <1>7, <1>9 DEF Minimize, GateOpen, ScanFromCeil, MaxWithin, CeilM
<1>8. CASE UNCHANGED vars
  BY <1>0, <1>8 DEF vars, GateOpen, ScanFromCeil, MaxWithin, CeilM
<1>. QED  BY <1>1, <1>2, <1>3, <1>4, <1>5, <1>6, <1>7, <1>8 DEF Next

-----------------------------------------------------------------------------
(* The refinement.                                                         *)

\* Under the refinement mapping the contract's f is the search's f.
LEMMA EvalAgrees ==
  ASSUME NEW s \in Grid
  PROVE  Contract!Eval(s) = Eval(s)
BY DEF Contract!Eval, Eval

\* Every outcome of f is a natural number or infinity.
LEMMA OutcomesAllowed ==
  ASSUME NEW s
  PROVE  Outcomes(s) \subseteq Nat \cup {Infinity}
<1>1. Outcomes(s) \subseteq CostValues
  BY OutcomesType
<1>2. Costs \subseteq Nat /\ 0 \in Nat
  BY CostsAssumption, SMT
<1>3. CostValues \subseteq Nat \cup {Infinity}
  BY <1>2, Zenon DEF CostValues
<1>. QED  BY <1>1, <1>3, Zenon

\* The cost surface the contract sees never changes.
LEMMA AllowedFixed ==
  ASSUME UNCHANGED fixed
  PROVE  [s \in Grid |-> Outcomes(s)]' = [s \in Grid |-> Outcomes(s)]
BY DEF fixed, Outcomes, LatticeExists

\* A width from ceil(log2_q / log2_beta * n) on has a lattice.
LEMMA LatticeFromCeil ==
  ASSUME NEW x \in Int, NEW nn \in Nat, CeilM * Scale <= x, n = nn
  PROVE  x * LogBeta >= LogQ * n * Scale
<1>. DEFINE c == (LogQ * nn + LogBeta - 1) \div LogBeta
<1>1. c * LogBeta >= LogQ * nn
  BY CeilBelow
<1>2. c \in Int /\ c * Scale <= x
  BY DEF CeilM
<1>3. c * Scale * LogBeta <= x * LogBeta
  BY <1>2, SMT
<1>4. LogQ * nn * Scale <= c * LogBeta * Scale
  BY <1>1, <1>2, SMT
<1>. QED  BY <1>3, <1>4, SMT

\* When the gate rejects, max_m inputs give no lattice.
LEMMA NoLatticeWhenRejected ==
  ASSUME NEW mx \in Nat, NEW nn \in Nat, n = nn, CeilM > mx
  PROVE  ~(mx * Scale * LogBeta >= LogQ * n * Scale)
<1>1. mx * LogBeta < LogQ * nn
  BY CeilAbove DEF CeilM
<1>. QED  BY <1>1, SMT

\* A step that only evaluates f, and neither returns nor raises, is an
\* Evaluate step of the contract.
LEMMA EvaluateStep ==
  ASSUME NEW s \in Grid, NEW v \in Eval(s), Reveal(s, v),
         pc \notin {"done", "error"}, pc' \notin {"done", "error"},
         UNCHANGED <<result, fixed>>
  PROVE  Contract!Evaluate
<1>1. v \in Contract!Eval(s) /\ s \in Contract!Grid
  BY EvalAgrees DEF Contract!Grid, Grid
<1>2. \E t \in Contract!Grid : \E w \in Contract!Eval(t) :
         cost' = [cost EXCEPT ![t] = w]
  BY <1>1 DEF Reveal
<1>3. [s_1 \in Grid |-> Outcomes(s_1)]' = [s_1 \in Grid |-> Outcomes(s_1)]
  BY AllowedFixed
<1>. QED  BY <1>2, <1>3 DEF Contract!Evaluate, fixed

LEMMA ContractInit == Init => Contract!Init
<1>. SUFFICES ASSUME Init PROVE Contract!Init
  OBVIOUS
<1>1. [s \in Grid |-> Outcomes(s)] \in [Grid -> SUBSET (Nat \cup {Infinity})]
  BY OutcomesAllowed
<1>2. n \in Nat \ {0} /\ maxArg \in 1 .. MaxM
  BY DEF Init
<1>3. cost = [s \in Contract!Grid |-> NotEvaluated] /\ result = Infinity
  BY DEF Init, Contract!Grid, Grid
<1>4. pc = "gate"
  BY DEF Init
<1>. QED  BY <1>1, <1>2, <1>3, <1>4 DEF Contract!Init, Contract!Grid, Grid

LEMMA ContractStep ==
  CInv /\ [Next]_vars => [Contract!Next]_(Contract!cvars)
<1>. SUFFICES ASSUME CInv, [Next]_vars
              PROVE  [Contract!Next]_(Contract!cvars)
  OBVIOUS
<1>0. /\ TypeOK /\ GateOpen /\ MaxWithin
      /\ n \in Nat /\ maxArg \in Nat /\ CeilM \in Nat
  BY DEF CInv, IInv, TypeOK, CeilM
<1>1. CASE Gate
  <2>1. CASE CeilM > maxArg
    <3>1. /\ pc = "gate" /\ result' = Infinity /\ pc' = "done"
          /\ UNCHANGED <<cost, fixed>>
      BY <1>1, <2>1 DEF Gate
    <3>2. ~Contract!HasLattice(maxArg * Scale)
      BY <1>0, <2>1, NoLatticeWhenRejected DEF Contract!HasLattice
    <3>3. Contract!Reject
      BY <3>1, <3>2, AllowedFixed DEF Contract!Reject, fixed
    <3>. QED  BY <3>3 DEF Contract!Next
  <2>2. CASE CeilM <= maxArg
    <3>1. /\ pc = "gate" /\ pc' = "scan" /\ UNCHANGED <<cost, result, fixed>>
      BY <1>1, <2>2, <1>0 DEF Gate
    <3>. QED  BY <3>1, AllowedFixed DEF Contract!cvars, fixed
  <2>. QED  BY <1>0, <2>1, <2>2
<1>2. CASE ScanStep
  <2>1. i * Scale \in Grid
    BY <1>0, ScaleOrder DEF TypeOK, Grid
  <2>2. PICK v \in Eval(i * Scale) : Reveal(i * Scale, v)
    BY <1>2 DEF ScanStep
  <2>3. /\ pc = "scan" /\ pc' \in {"scan", "probe"}
        /\ UNCHANGED <<result, fixed>>
    BY <1>2 DEF ScanStep
  <2>. QED  BY <2>1, <2>2, <2>3, EvaluateStep DEF Contract!Next
<1>3. CASE ScanDone
  BY <1>3, AllowedFixed DEF ScanDone, Contract!cvars, fixed
<1>4. CASE Probe
  <2>1. maxM \in Grid
    BY <1>0 DEF TypeOK
  <2>2. PICK v \in Eval(maxM) : Reveal(maxM, v)
    BY <1>4 DEF Probe
  <2>3. /\ pc = "probe" /\ pc' \in {"bisect", "minimize"}
        /\ UNCHANGED <<result, fixed>>
    BY <1>4 DEF Probe
  <2>. QED  BY <2>1, <2>2, <2>3, EvaluateStep DEF Contract!Next
<1>5. CASE BisectStep
  <2>. DEFINE mid == (hi + lo) \div 2
  <2>1. mid \in Grid
    <3>1. lo \in Grid /\ hi \in Grid /\ lo <= hi
      BY <1>5, <1>0 DEF TypeOK, CInv, IInv, BisectBracket, BisectStep
    <3>2. mid \in lo .. hi
      BY <3>1, MidBetween DEF Grid
    <3>. QED  BY <3>1, <3>2 DEF Grid
  <2>2. PICK v \in Eval(mid) : Reveal(mid, v)
    BY <1>5 DEF BisectStep
  <2>3. /\ pc = "bisect" /\ pc' = "bisect"
        /\ UNCHANGED <<result, fixed>>
    BY <1>5 DEF BisectStep
  <2>. QED  BY <2>1, <2>2, <2>3, EvaluateStep DEF Contract!Next
<1>6. CASE BisectDone
  BY <1>6, AllowedFixed DEF BisectDone, Contract!cvars, fixed
<1>7. CASE Minimize
  <2>1. PICK x \in minM .. maxM, success \in BOOLEAN :
          \E v \in Eval(x) :
             /\ Reveal(x, v)
             /\ IF success THEN result' = v /\ pc' = "done"
                           ELSE pc' = "error" /\ UNCHANGED result
    BY <1>7 DEF Minimize
  <2>2. /\ pc = "minimize" /\ UNCHANGED fixed
    BY <1>7 DEF Minimize
  <2>3. /\ minM \in Int /\ maxM \in Int /\ x \in Int
        /\ minM <= x /\ x <= maxM
    BY <1>0, IntervalBounds DEF TypeOK, Grid
  <2>4. x \in Grid
    BY <1>0, <2>3 DEF TypeOK, Grid
  <2>5. Contract!HasLattice(x)
    <3>1. CeilM * Scale <= minM
      BY <1>0, <2>2 DEF GateOpen
    <3>2. CeilM * Scale <= x
      BY <1>0, <2>3, <3>1
    <3>. QED  BY <1>0, <2>3, <3>2, LatticeFromCeil DEF Contract!HasLattice
  <2>6. x <= maxArg * Scale
    BY <1>0, <2>3 DEF MaxWithin, TypeOK
  <2>7. PICK v \in Eval(x) :
          /\ Reveal(x, v)
          /\ IF success THEN result' = v /\ pc' = "done"
                        ELSE pc' = "error" /\ UNCHANGED result
    BY <2>1
  <2>8. /\ v \in Contract!Eval(x)
        /\ cost' = [cost EXCEPT ![x] = v]
        /\ [s \in Grid |-> Outcomes(s)]' = [s \in Grid |-> Outcomes(s)]
        /\ n' = n /\ maxArg' = maxArg
    BY <2>2, <2>4, <2>7, EvalAgrees, AllowedFixed DEF Reveal, fixed
  <2>9. CASE success
    <3>1. result' = v /\ pc' = "done"
      BY <2>7, <2>9
    <3>2. \E y \in Contract!Grid :
            /\ Contract!HasLattice(y) /\ y <= maxArg * Scale
            /\ \E w \in Contract!Eval(y) :
                 cost' = [cost EXCEPT ![y] = w] /\ result' = w
      BY <2>4, <2>5, <2>6, <2>8, <3>1 DEF Contract!Grid, Grid
    <3>3. Contract!Return
      BY <2>2, <2>8, <3>1, <3>2 DEF Contract!Return
    <3>. QED  BY <3>3 DEF Contract!Next
  <2>10. CASE ~success
    <3>1. result' = result /\ pc' = "error"
      BY <2>7, <2>10
    <3>2. \E y \in Contract!Grid : \E w \in Contract!Eval(y) :
            cost' = [cost EXCEPT ![y] = w]
      BY <2>4, <2>8 DEF Contract!Grid, Grid
    <3>3. Contract!Raise
      BY <2>2, <2>8, <3>1, <3>2 DEF Contract!Raise
    <3>. QED  BY <3>3 DEF Contract!Next
  <2>. QED  BY <2>9, <2>10
<1>8. CASE UNCHANGED vars
  BY <1>8 DEF vars, Contract!cvars, Outcomes, LatticeExists
<1>. QED  BY <1>1, <1>2, <1>3, <1>4, <1>5, <1>6, <1>7, <1>8 DEF Next

\* bkz_bit_security implements the safety part of its contract for every
\* value of the constants: it returns infinity without evaluating f only
\* when max_m gives no lattice, returns f(x) only at a width x with a
\* lattice and at most max_m, and never overwrites a revealed cost.
THEOREM ContractRefined == Spec => Contract!Safety
<1>1. Spec => []CInv
  BY CInvInit, CInvStep, PTL DEF Spec
<1>. QED  BY <1>1, ContractInit, ContractStep, PTL DEF Spec, Contract!Safety


-----------------------------------------------------------------------------
(***************************************************************************)
(* The remaining safety invariants of the search of                      *)
(* bkz_bit_security (module BkzSearch): ScanSkipsOnlyInfeasible,           *)
(* BoundaryWithinOne, MinimizerEnd and, on the convex cost surface the    *)
(* code assumes, NoSilentInfinity; for every value of the constants.       *)
(*                                                                         *)
(* None of them is inductive.  The strengthening SInv adds to CInv    *)
(* (module BkzContractProofs):                                             *)
(*   - ScanPrefixInfinite: while the scan runs, min_m is still the volume  *)
(*     bound and every width it has passed had infinite cost, so the break *)
(*     of line 60 sets min_m just past a run of infeasible widths;         *)
(*   - GateFresh: nothing is evaluated before the gate, so the gate's      *)
(*     early return cannot meet a finite min_m;                            *)
(*   - RevealedOutcome: every revealed cost is an outcome f can have at    *)
(*     that width (f is pure and is only ever asked, never overwritten);   *)
(*   - BracketStrict: l < h while bisecting unless both are still max_m,   *)
(*     because a halving with h - l > 1 falls strictly inside (l, h);      *)
(*   - BoundaryKept: the minimiser is entered either with the caller's     *)
(*     max_m or with l one unit below an evaluated infeasible h;           *)
(*   - ScanExhausted: after a scan that found no finite-cost width, min_m  *)
(*     is the volume bound and every integer width below max_m cost        *)
(*     infinity;                                                           *)
(*   - ProbedInfinite: the bisection only runs after f(max_m) was          *)
(*     infinite.                                                           *)
(* MinimizerEnd follows without any assumption on the surface: l only      *)
(* moves to finite-cost midpoints, so the bisection closes either on a     *)
(* finite-cost l or on l = min_m with every integer width infeasible.      *)
(* FiniteResult then follows on a convex surface: both ends of the         *)
(* minimiser's interval are finite-cost widths, the finite-cost widths     *)
(* form the interval feasLo..feasHi, and every width from the volume bound *)
(* on has a lattice, so no width in between can cost infinity.             *)
(***************************************************************************)


\* While the scan runs, min_m is the volume bound and every width passed so
\* far had infinite cost.
ScanPrefixInfinite ==
  pc = "scan" =>
    /\ minM = CeilM * Scale
    /\ \A k \in CeilM .. (i - 1) : cost[k * Scale] = Infinity

\* Before the gate nothing has been evaluated.
GateFresh == pc = "gate" => \A s \in Grid : cost[s] = NotEvaluated

\* A revealed cost is one f can have at that width.
RevealedOutcome ==
  \A s \in Grid : cost[s] # NotEvaluated => cost[s] \in Outcomes(s)

\* The bracket is strict unless l and h are both still the caller's max_m.
BracketStrict == pc = "bisect" => lo < hi \/ lo = maxArg * Scale

\* The minimiser's upper bound is the caller's max_m or lies one unit below
\* an evaluated infeasible width.
BoundaryKept ==
  pc = "minimize" =>
    \/ maxM = maxArg * Scale
    \/ \E s \in Grid : maxM < s /\ s <= maxM + Scale /\ cost[s] = Infinity

\* Once a scan that found no finite-cost width is over, min_m is still the
\* volume bound and every integer width below the caller's max_m cost
\* infinity.
ScanExhausted ==
  pc \in {"probe", "bisect"} /\ ~Finite(minM) =>
    /\ minM = CeilM * Scale
    /\ \A k \in CeilM .. (maxArg - 1) : cost[k * Scale] = Infinity

\* The bisection only runs once f(max_m) was found infinite.
ProbedInfinite == pc = "bisect" => cost[maxArg * Scale] = Infinity

\* The cost surface is the one the code assumes, when Convex.
SurfaceFixed == Convex => ConvexSurface(feasLo, feasHi)

SInv ==
  /\ CInv
  /\ ScanPrefixInfinite
  /\ GateFresh
  /\ RevealedOutcome
  /\ BracketStrict
  /\ BoundaryKept
  /\ SurfaceFixed
  /\ ScanSkipsOnlyInfeasible
  /\ ScanExhausted
  /\ ProbedInfinite
  /\ MinimizerEnd
  /\ (Convex => FiniteResult)

-----------------------------------------------------------------------------
(* Lemmas about evaluating f.                                              *)

\* The value a step obtains from f is an outcome f can have there.
LEMMA EvalOutcome ==
  ASSUME TypeOK, RevealedOutcome, NEW s \in Grid
  PROVE  Eval(s) \subseteq Outcomes(s)
BY DEF Eval, RevealedOutcome

\* The outcomes of f depend only on the call and the surface.
LEMMA OutcomesFixed ==
  ASSUME UNCHANGED fixed, NEW s
  PROVE  Outcomes(s)' = Outcomes(s)
BY DEF fixed, Outcomes, LatticeExists

\* Revealing a cost keeps every revealed cost an outcome, and keeps every
\* infinite and every finite cost revealed before.
LEMMA RevealStep ==
  ASSUME TypeOK, RevealedOutcome, NEW s \in Grid, NEW v \in Eval(s),
         Reveal(s, v), UNCHANGED fixed
  PROVE  /\ RevealedOutcome'
         /\ \A t \in Grid : cost[t] = Infinity => cost'[t] = Infinity
         /\ \A t \in Grid : Finite(t) => Finite(t)'
<1>1. v \in Outcomes(s)
  BY EvalOutcome
<1>2. RevealedOutcome'
  <2>. SUFFICES ASSUME NEW t \in Grid, cost'[t] # NotEvaluated
                PROVE  cost'[t] \in Outcomes(t)'
    BY DEF RevealedOutcome
  <2>1. Outcomes(t)' = Outcomes(t)
    BY OutcomesFixed
  <2>2. CASE t = s
    BY <1>1, <2>1, <2>2, RevealSets
  <2>3. CASE t # s
    BY <2>1, <2>3 DEF Reveal, RevealedOutcome, TypeOK
  <2>. QED  BY <2>2, <2>3
<1>3. \A t \in Grid : cost[t] # NotEvaluated => cost'[t] = cost[t]
  BY RevealKeeps
<1>. QED  BY <1>2, <1>3 DEF Finite

\* A width of finite revealed cost lies in the finite-cost interval of a
\* convex surface.
LEMMA FiniteFeasible ==
  ASSUME Convex, TypeOK, RevealedOutcome, SurfaceFixed,
         NEW a \in Grid, Finite(a)
  PROVE  a \in feasLo .. feasHi
<1>1. cost[a] \in Outcomes(a) /\ cost[a] # Infinity
  BY DEF Finite, RevealedOutcome
<1>2. LatticeExists(a)
  BY <1>1 DEF Outcomes
<1>3. CASE a <= MinBlockSize * Scale
  BY <1>2, <1>3 DEF SurfaceFixed, ConvexSurface
<1>4. CASE ~(a <= MinBlockSize * Scale)
  BY <1>1, <1>2, <1>4 DEF Outcomes
<1>. QED  BY <1>3, <1>4

\* On a convex surface f cannot be infinite between two finite-cost widths
\* at or above the volume bound.
LEMMA NoInfinityBetween ==
  ASSUME Convex, TypeOK, RevealedOutcome, SurfaceFixed,
         NEW a \in Grid, NEW b \in Grid, Finite(a), Finite(b),
         CeilM * Scale <= a, NEW x \in a .. b
  PROVE  Infinity \notin Eval(x)
<1>1. a \in feasLo .. feasHi /\ b \in feasLo .. feasHi
  BY FiniteFeasible
<1>2. x \in feasLo .. feasHi /\ x \in Grid
  BY <1>1 DEF Grid, TypeOK
<1>3. LatticeExists(x)
  <2>1. n \in Nat /\ x \in Int /\ a \in Int /\ a <= x /\ CeilM \in Int
    BY <1>2 DEF TypeOK, Grid, CeilM
  <2>2. CeilM * Scale <= x
    BY <2>1, SMT
  <2>3. x * LogBeta >= LogQ * n * Scale
    BY <2>1, <2>2, LatticeFromCeil
  <2>. QED  BY <2>3 DEF LatticeExists
<1>4. Infinity \notin Costs
  OBVIOUS
<1>5. Infinity \notin Outcomes(x)
  BY <1>2, <1>3, <1>4 DEF Outcomes
<1>. QED  BY <1>2, <1>5, EvalOutcome

\* A halving of a bracket wider than one unit falls strictly inside it.
LEMMA MidStrict ==
  ASSUME NEW l \in Int, NEW h \in Int, h - l > Scale
  PROVE  l < (h + l) \div 2 /\ (h + l) \div 2 < h
BY SMT

-----------------------------------------------------------------------------
(* The strengthened invariant.                                             *)

LEMMA SInvInit == Init => SInv
<1>. SUFFICES ASSUME Init PROVE SInv
  OBVIOUS
<1>1. CInv /\ pc = "gate"
  BY CInvInit DEF Init
<1>2. \A s \in Grid : cost[s] = NotEvaluated
  BY DEF Init
<1>. QED  BY <1>1, <1>2 DEF Init, SInv, ScanPrefixInfinite, GateFresh,
              RevealedOutcome, BracketStrict, BoundaryKept, SurfaceFixed,
              ScanSkipsOnlyInfeasible, ScanExhausted, ProbedInfinite,
              MinimizerEnd, FiniteResult

\* The volume bound is a natural number.
LEMMA CeilNat ==
  ASSUME TypeOK
  PROVE  CeilM \in Nat
<1>1. n \in Nat
  BY DEF TypeOK
<1>. QED  BY <1>1 DEF CeilM

\* A width up to the caller's max_m is on the grid.
LEMMA WidthOnGrid ==
  ASSUME TypeOK, NEW k \in Nat, k <= maxArg
  PROVE  k * Scale \in Grid
<1>1. maxArg \in Nat /\ maxArg <= MaxM
  BY DEF TypeOK
<1>2. k * Scale <= MaxM * Scale
  BY <1>1, ScaleMonotone
<1>. QED  BY <1>2 DEF Grid

\* The parts of SInv that only speak of the scan, the bracket and the
\* minimiser's entry hold vacuously once the call has returned or raised.
LEMMA FinishedVacuous ==
  ASSUME pc' \in {"done", "error"}
  PROVE  (ScanPrefixInfinite /\ GateFresh /\ BracketStrict /\ BoundaryKept)'
BY DEF ScanPrefixInfinite, GateFresh, BracketStrict, BoundaryKept

\* The call and the cost surface never change.
LEMMA FixedKept ==
  ASSUME SInv, UNCHANGED fixed
  PROVE  SurfaceFixed' /\ CeilM' = CeilM /\ maxArg' = maxArg
BY DEF SInv, SurfaceFixed, fixed, ConvexSurface, LatticeExists, CeilM

\* A revealed cost stays an outcome while the cost table is untouched.
LEMMA CostKept ==
  ASSUME RevealedOutcome, UNCHANGED fixed, cost' = cost
  PROVE  RevealedOutcome'
<1>. SUFFICES ASSUME NEW t \in Grid, cost'[t] # NotEvaluated
              PROVE  cost'[t] \in Outcomes(t)'
  BY DEF RevealedOutcome
<1>1. Outcomes(t)' = Outcomes(t)
  BY OutcomesFixed
<1>. QED  BY <1>1 DEF RevealedOutcome

\* A cost value that is not infinity is a revealed finite cost.
LEMMA FiniteValue ==
  ASSUME NEW v \in CostValues, v # Infinity
  PROVE  v \notin {Infinity, NotEvaluated}
BY DEF CostValues

LEMMA GateStep == SInv /\ Gate => SInv'
<1>. SUFFICES ASSUME SInv, Gate PROVE SInv'
  OBVIOUS
<1>0. CInv'
  BY CInvStep DEF Next, SInv
<1>1. /\ TypeOK /\ pc = "gate" /\ cost' = cost /\ UNCHANGED fixed
      /\ \A s \in Grid : cost[s] = NotEvaluated
  BY DEF SInv, CInv, IInv, Gate, GateFresh
<1>9. CeilM \in Nat /\ maxArg \in Nat
  BY <1>1, CeilNat DEF TypeOK
<1>2. RevealedOutcome' /\ SurfaceFixed' /\ CeilM' = CeilM /\ maxArg' = maxArg
  BY <1>1, CostKept, FixedKept DEF SInv
<1>3. CASE CeilM > maxArg
  <2>1. pc' = "done" /\ minM' = minM
    BY <1>3 DEF Gate
  <2>2. ~Finite(minM)'
    BY <1>1, <2>1 DEF Finite, TypeOK
  <2>3. (ScanPrefixInfinite /\ GateFresh /\ BracketStrict /\ BoundaryKept)'
    BY <2>1, FinishedVacuous
  <2>4. ScanSkipsOnlyInfeasible'
    BY <1>2, <1>3, <1>9 DEF ScanSkipsOnlyInfeasible
  <2>5. FiniteResult'
    BY <2>1, <2>2 DEF FiniteResult
  <2>. QED  BY <1>0, <1>2, <2>1, <2>3, <2>4, <2>5
            DEF SInv, ScanExhausted, ProbedInfinite, MinimizerEnd
<1>4. CASE CeilM <= maxArg
  <2>1. pc' = "scan" /\ minM' = CeilM * Scale /\ i' = CeilM
    BY <1>4, <1>9 DEF Gate
  <2>2. CeilM .. (CeilM - 1) = {}
    BY <1>9, SMT
  <2>. QED  BY <1>0, <1>2, <2>1, <2>2
            DEF SInv, ScanPrefixInfinite, GateFresh, BracketStrict,
                BoundaryKept, ScanSkipsOnlyInfeasible, ScanExhausted,
                ProbedInfinite, MinimizerEnd, FiniteResult
<1>. QED  BY <1>3, <1>4, <1>9

LEMMA ScanStepStep == SInv /\ ScanStep => SInv'
<1>. SUFFICES ASSUME SInv, ScanStep PROVE SInv'
  OBVIOUS
<1>0. CInv'
  BY CInvStep DEF Next, SInv
<1>1. /\ TypeOK /\ RevealedOutcome /\ pc = "scan" /\ i < maxArg
      /\ UNCHANGED fixed
      /\ minM = CeilM * Scale
      /\ \A k \in CeilM .. (i - 1) : cost[k * Scale] = Infinity
      /\ i \in Nat /\ maxArg \in 1 .. MaxM /\ CeilM <= i
  BY DEF SInv, CInv, IInv, ScanStep, ScanPrefixInfinite, TypeOK, ScanFromCeil
<1>8. CeilM \in Nat
  BY <1>1, CeilNat
<1>2. SurfaceFixed' /\ CeilM' = CeilM /\ maxArg' = maxArg
  BY <1>1, FixedKept
<1>3. \A k \in Nat : k <= maxArg => k * Scale \in Grid
  <2>1. TypeOK
    BY <1>1
  <2>. QED  BY <2>1, WidthOnGrid
<1>. PICK v \in Eval(i * Scale) :
        /\ Reveal(i * Scale, v)
        /\ IF v # Infinity
             THEN /\ minM' = i * Scale
                  /\ pc' = "probe"
                  /\ i' = i
             ELSE /\ i' = i + 1
                  /\ UNCHANGED <<minM, pc>>
  BY DEF ScanStep
<1>4. i * Scale \in Grid
  BY <1>1, <1>3
<1>5. /\ RevealedOutcome'
      /\ \A t \in Grid : cost[t] = Infinity => cost'[t] = Infinity
      /\ cost'[i * Scale] = v /\ v \in CostValues
  BY <1>1, <1>4, RevealStep, RevealSets, EvalType
<1>6. CASE v # Infinity
  <2>1. minM' = i * Scale /\ pc' = "probe" /\ i' = i
    BY <1>6
  <2>2. ScanSkipsOnlyInfeasible'
    <3>. SUFFICES ASSUME NEW k \in CeilM .. maxArg, k * Scale < i * Scale
                  PROVE  cost'[k * Scale] = Infinity
      BY <1>2, <2>1 DEF ScanSkipsOnlyInfeasible
    <3>1. k \in Nat /\ k < i /\ k <= maxArg
      BY <1>1, <1>8, SMT
    <3>2. cost[k * Scale] = Infinity
      BY <1>1, <3>1
    <3>. QED  BY <1>3, <1>5, <3>1, <3>2
  <2>3. ScanExhausted'
    <3>1. Finite(minM)'
      BY <1>5, <1>6, <2>1, FiniteValue DEF Finite
    <3>. QED  BY <3>1 DEF ScanExhausted
  <2>. QED  BY <1>0, <1>2, <1>5, <2>1, <2>2, <2>3
            DEF SInv, ScanPrefixInfinite, GateFresh, BracketStrict,
                BoundaryKept, ProbedInfinite, MinimizerEnd, FiniteResult
<1>7. CASE v = Infinity
  <2>1. i' = i + 1 /\ minM' = minM /\ pc' = "scan"
    BY <1>1, <1>7
  <2>2. ScanPrefixInfinite'
    <3>. SUFFICES ASSUME NEW k \in CeilM .. i
                  PROVE  cost'[k * Scale] = Infinity
      BY <1>1, <1>2, <2>1 DEF ScanPrefixInfinite
    <3>1. CASE k = i
      BY <1>5, <1>7, <3>1
    <3>2. CASE k # i
      <4>1. k \in CeilM .. (i - 1) /\ k \in Nat /\ k <= maxArg
        BY <1>1, <1>8, <3>2, SMT
      <4>. QED  BY <1>1, <1>3, <1>5, <4>1
    <3>. QED  BY <3>1, <3>2
  <2>. QED  BY <1>0, <1>2, <1>5, <2>1, <2>2
            DEF SInv, GateFresh, BracketStrict, BoundaryKept,
                ScanSkipsOnlyInfeasible, ScanExhausted, ProbedInfinite,
                MinimizerEnd, FiniteResult
<1>. QED  BY <1>6, <1>7

LEMMA ScanDoneStep == SInv /\ ScanDone => SInv'
<1>. SUFFICES ASSUME SInv, ScanDone PROVE SInv'
  OBVIOUS
<1>0. CInv'
  BY CInvStep DEF Next, SInv
<1>1. /\ pc = "scan" /\ pc' = "probe" /\ cost' = cost /\ minM' = minM
      /\ UNCHANGED fixed /\ RevealedOutcome
      /\ minM = CeilM * Scale
  BY DEF SInv, ScanDone, ScanPrefixInfinite
<1>9. CeilM \in Nat
  BY CeilNat DEF SInv, CInv, IInv
<1>2. RevealedOutcome' /\ SurfaceFixed' /\ CeilM' = CeilM /\ maxArg' = maxArg
  BY <1>1, CostKept, FixedKept
<1>3. ScanSkipsOnlyInfeasible'
  <2>. SUFFICES ASSUME NEW k \in CeilM .. maxArg, k * Scale < CeilM * Scale
                PROVE  FALSE
    BY <1>1, <1>2 DEF ScanSkipsOnlyInfeasible
  <2>. QED  BY <1>9, SMT
<1>4. ScanExhausted'
  <2>1. /\ i >= maxArg /\ i \in Nat /\ maxArg \in Nat
        /\ \A k \in CeilM .. (i - 1) : cost[k * Scale] = Infinity
    BY <1>1 DEF SInv, CInv, IInv, TypeOK, ScanDone, ScanPrefixInfinite
  <2>2. CeilM .. (maxArg - 1) \subseteq CeilM .. (i - 1)
    BY <1>9, <2>1, SMT
  <2>. QED  BY <1>1, <1>2, <2>1, <2>2 DEF ScanExhausted
<1>. QED  BY <1>0, <1>1, <1>2, <1>3, <1>4
          DEF SInv, ScanPrefixInfinite, GateFresh, BracketStrict, BoundaryKept,
              ProbedInfinite, MinimizerEnd, FiniteResult

\* After the scan, min_m only names infinite widths below it, and those stay
\* infinite when a cost is revealed.
LEMMA SkipsKept ==
  ASSUME SInv, pc \notin {"gate", "scan"}, pc' \notin {"gate", "scan"},
         minM' = minM, UNCHANGED fixed,
         \A t \in Grid : cost[t] = Infinity => cost'[t] = Infinity
  PROVE  ScanSkipsOnlyInfeasible'
<1>1. TypeOK /\ CeilM' = CeilM /\ maxArg' = maxArg
  BY FixedKept DEF SInv, CInv, IInv
<1>. SUFFICES ASSUME CeilM <= maxArg, NEW k \in CeilM .. maxArg,
                     k * Scale < minM
              PROVE  cost'[k * Scale] = Infinity
  BY <1>1 DEF ScanSkipsOnlyInfeasible
<1>2. cost[k * Scale] = Infinity
  BY DEF SInv, ScanSkipsOnlyInfeasible
<1>3. k \in Nat /\ k <= maxArg
  BY <1>1, CeilNat, SMT
<1>4. k * Scale \in Grid
  BY <1>1, <1>3, WidthOnGrid
<1>. QED  BY <1>2, <1>4

\* A scan that found nothing stays recorded while the probe and the
\* bisection reveal costs.
LEMMA ExhaustedKept ==
  ASSUME SInv, pc \in {"probe", "bisect"}, minM' = minM, UNCHANGED fixed,
         \A t \in Grid : cost[t] = Infinity => cost'[t] = Infinity,
         \A t \in Grid : Finite(t) => Finite(t)'
  PROVE  ScanExhausted'
<1>1. TypeOK /\ CeilM' = CeilM /\ maxArg' = maxArg
  BY FixedKept DEF SInv, CInv, IInv
<1>. SUFFICES ASSUME ~Finite(minM)'
              PROVE  /\ minM = CeilM * Scale
                     /\ \A k \in CeilM .. (maxArg - 1) :
                          cost'[k * Scale] = Infinity
  BY <1>1 DEF ScanExhausted
<1>2. minM \in Grid
  BY <1>1 DEF TypeOK
<1>3. ~Finite(minM)
  BY <1>2 DEF Finite
<1>4. /\ minM = CeilM * Scale
      /\ \A k \in CeilM .. (maxArg - 1) : cost[k * Scale] = Infinity
  BY <1>3 DEF SInv, ScanExhausted
<1>. SUFFICES ASSUME NEW k \in CeilM .. (maxArg - 1)
              PROVE  cost'[k * Scale] = Infinity
  BY <1>4
<1>5. k \in Nat /\ k <= maxArg
  BY <1>1, CeilNat, SMT DEF TypeOK
<1>6. k * Scale \in Grid
  BY <1>1, <1>5, WidthOnGrid
<1>. QED  BY <1>4, <1>6

LEMMA ProbeStep == SInv /\ Probe => SInv'
<1>. SUFFICES ASSUME SInv, Probe PROVE SInv'
  OBVIOUS
<1>0. CInv'
  BY CInvStep DEF Next, SInv
<1>1. /\ TypeOK /\ RevealedOutcome /\ pc = "probe" /\ UNCHANGED fixed
      /\ minM' = minM /\ maxM' = maxM
      /\ maxM = maxArg * Scale /\ minM <= maxArg * Scale
  BY DEF SInv, CInv, IInv, Probe, MaxUntouched, ScanWithinRange
<1>2. SurfaceFixed' /\ CeilM' = CeilM /\ maxArg' = maxArg
  BY <1>1, FixedKept
<1>. PICK v \in Eval(maxM) :
        /\ Reveal(maxM, v)
        /\ IF v = Infinity
             THEN /\ lo' = minM
                  /\ hi' = maxM
                  /\ pc' = "bisect"
             ELSE /\ pc' = "minimize"
                  /\ UNCHANGED <<lo, hi>>
  BY DEF Probe
<1>3. maxM \in Grid /\ minM \in Grid
  BY <1>1 DEF TypeOK
<1>4. /\ RevealedOutcome'
      /\ \A t \in Grid : cost[t] = Infinity => cost'[t] = Infinity
      /\ \A t \in Grid : Finite(t) => Finite(t)'
      /\ cost'[maxM] = v /\ v \in CostValues
  BY <1>1, <1>3, RevealStep, RevealSets, EvalType
<1>5. pc' \in {"bisect", "minimize"}
  OBVIOUS
<1>6. ScanSkipsOnlyInfeasible'
  BY <1>1, <1>4, <1>5, SkipsKept
<1>7. CASE v = Infinity
  <2>1. lo' = minM /\ hi' = maxM /\ pc' = "bisect"
    BY <1>7
  <2>2. minM < maxM \/ minM = maxArg * Scale
    BY <1>1, <1>3 DEF Grid
  <2>3. ScanExhausted'
    BY <1>1, <1>4, ExhaustedKept
  <2>4. ProbedInfinite'
    BY <1>1, <1>2, <1>4, <1>7, <2>1 DEF ProbedInfinite
  <2>. QED  BY <1>0, <1>2, <1>4, <1>6, <2>1, <2>2, <2>3, <2>4
            DEF SInv, ScanPrefixInfinite, GateFresh, BracketStrict,
                BoundaryKept, MinimizerEnd, FiniteResult
<1>8. CASE v # Infinity
  <2>1. pc' = "minimize"
    BY <1>8
  <2>2. Finite(maxM)'
    BY <1>1, <1>4, <1>8, FiniteValue DEF Finite
  <2>3. BoundaryKept'
    BY <1>1, <1>2, <2>1 DEF BoundaryKept
  <2>4. MinimizerEnd'
    BY <2>1, <2>2 DEF MinimizerEnd
  <2>. QED  BY <1>0, <1>2, <1>4, <1>6, <2>1, <2>3, <2>4
            DEF SInv, ScanPrefixInfinite, GateFresh, BracketStrict,
                ScanExhausted, ProbedInfinite, FiniteResult
<1>. QED  BY <1>7, <1>8

LEMMA BisectStepStep == SInv /\ BisectStep => SInv'
<1>. SUFFICES ASSUME SInv, BisectStep PROVE SInv'
  OBVIOUS
<1>0. CInv'
  BY CInvStep DEF Next, SInv
<1>. DEFINE mid == (hi + lo) \div 2
<1>1. /\ TypeOK /\ RevealedOutcome /\ pc = "bisect" /\ pc' = "bisect"
      /\ UNCHANGED fixed /\ minM' = minM /\ hi - lo > Scale
      /\ lo <= hi
  BY DEF SInv, CInv, IInv, BisectStep, BisectBracket
<1>2. SurfaceFixed' /\ CeilM' = CeilM /\ maxArg' = maxArg
  BY <1>1, FixedKept
<1>3. lo \in Int /\ hi \in Int /\ lo .. hi \subseteq Grid
  BY <1>1 DEF TypeOK, Grid
<1>4. lo < mid /\ mid < hi
  BY <1>1, <1>3, MidStrict
<1>5. mid \in Grid
  BY <1>3, <1>4
<1>. PICK v \in Eval(mid) :
        /\ Reveal(mid, v)
        /\ IF v = Infinity THEN hi' = mid /\ lo' = lo
                           ELSE lo' = mid /\ hi' = hi
  BY DEF BisectStep
<1>6. /\ RevealedOutcome'
      /\ \A t \in Grid : cost[t] = Infinity => cost'[t] = Infinity
      /\ \A t \in Grid : Finite(t) => Finite(t)'
  BY <1>1, <1>5, RevealStep
<1>7. ScanSkipsOnlyInfeasible'
  BY <1>1, <1>6, SkipsKept
<1>8. lo' < hi'
  BY <1>4
<1>9. ScanExhausted'
  BY <1>1, <1>6, ExhaustedKept
<1>10. ProbedInfinite'
  <2>1. maxArg * Scale \in Grid
    BY <1>1, WidthOnGrid DEF TypeOK
  <2>2. cost[maxArg * Scale] = Infinity
    BY <1>1 DEF SInv, ProbedInfinite
  <2>. QED  BY <1>1, <1>2, <1>6, <2>1, <2>2 DEF ProbedInfinite
<1>. QED  BY <1>0, <1>1, <1>2, <1>6, <1>7, <1>8, <1>9, <1>10
          DEF SInv, ScanPrefixInfinite, GateFresh, BracketStrict,
              BoundaryKept, MinimizerEnd, FiniteResult

LEMMA BisectDoneStep == SInv /\ BisectDone => SInv'
<1>. SUFFICES ASSUME SInv, BisectDone PROVE SInv'
  OBVIOUS
<1>0. CInv'
  BY CInvStep DEF Next, SInv
<1>1. /\ TypeOK /\ RevealedOutcome /\ pc = "bisect" /\ pc' = "minimize"
      /\ UNCHANGED fixed /\ cost' = cost /\ minM' = minM /\ maxM' = lo
      /\ hi - lo <= Scale /\ lo <= hi /\ cost[hi] = Infinity
      /\ Finite(lo) \/ lo = minM
      /\ lo < hi \/ lo = maxArg * Scale
  BY DEF SInv, CInv, IInv, BisectDone, BisectBracket, BracketStrict
<1>2. RevealedOutcome' /\ SurfaceFixed' /\ CeilM' = CeilM /\ maxArg' = maxArg
  BY <1>1, CostKept, FixedKept
<1>3. ScanSkipsOnlyInfeasible'
  BY <1>1, SkipsKept
<1>4. BoundaryKept'
  <2>1. CASE lo < hi
    <3>1. hi \in Grid /\ maxM' < hi /\ hi <= maxM' + Scale
      BY <1>1, <2>1 DEF TypeOK, Grid
    <3>. QED  BY <1>1, <3>1 DEF BoundaryKept
  <2>2. CASE lo = maxArg * Scale
    BY <1>1, <1>2, <2>2 DEF BoundaryKept
  <2>. QED  BY <1>1, <2>1, <2>2
<1>5. MinimizerEnd'
  <2>1. CASE Finite(lo)
    BY <1>1, <2>1 DEF MinimizerEnd, Finite
  <2>2. CASE ~Finite(lo)
    <3>1. lo = minM /\ ~Finite(minM)
      BY <1>1, <2>2
    <3>2. /\ minM = CeilM * Scale
          /\ \A k \in CeilM .. (maxArg - 1) : cost[k * Scale] = Infinity
      BY <1>1, <3>1 DEF SInv, ScanExhausted
    <3>3. cost[maxArg * Scale] = Infinity
      BY <1>1 DEF SInv, ProbedInfinite
    <3>4. \A k \in CeilM .. maxArg : cost[k * Scale] = Infinity
      <4>. SUFFICES ASSUME NEW k \in CeilM .. maxArg
                    PROVE  cost[k * Scale] = Infinity
        OBVIOUS
      <4>1. k = maxArg \/ k \in CeilM .. (maxArg - 1)
        BY <1>1, CeilNat, SMT DEF TypeOK
      <4>. QED  BY <3>2, <3>3, <4>1
    <3>. QED  BY <1>1, <1>2, <3>1, <3>4 DEF MinimizerEnd
  <2>. QED  BY <2>1, <2>2
<1>. QED  BY <1>0, <1>1, <1>2, <1>3, <1>4, <1>5
          DEF SInv, ScanPrefixInfinite, GateFresh, BracketStrict,
              ScanExhausted, ProbedInfinite, FiniteResult

LEMMA MinimizeStep == SInv /\ Minimize => SInv'
<1>. SUFFICES ASSUME SInv, Minimize PROVE SInv'
  OBVIOUS
<1>0. CInv'
  BY CInvStep DEF Next, SInv
<1>1. /\ TypeOK /\ RevealedOutcome /\ pc = "minimize"
      /\ UNCHANGED fixed /\ minM' = minM /\ maxM' = maxM
      /\ CeilM * Scale <= minM
  BY DEF SInv, CInv, IInv, Minimize, GateOpen
<1>2. SurfaceFixed' /\ CeilM' = CeilM /\ maxArg' = maxArg
  BY <1>1, FixedKept
<1>. PICK x \in minM .. maxM, success \in BOOLEAN :
        \E v \in Eval(x) :
          /\ Reveal(x, v)
          /\ IF success THEN result' = v /\ pc' = "done"
                        ELSE pc' = "error" /\ UNCHANGED result
  BY DEF Minimize
<1>3. x \in Grid /\ minM \in Grid /\ maxM \in Grid
  BY <1>1 DEF TypeOK, Grid
<1>. PICK v \in Eval(x) :
        /\ Reveal(x, v)
        /\ IF success THEN result' = v /\ pc' = "done"
                      ELSE pc' = "error" /\ UNCHANGED result
  OBVIOUS
<1>4. /\ RevealedOutcome'
      /\ \A t \in Grid : cost[t] = Infinity => cost'[t] = Infinity
      /\ cost'[x] = v /\ v \in CostValues
  BY <1>1, <1>3, RevealStep, RevealSets, EvalType
<1>5. pc' \in {"done", "error"}
  OBVIOUS
<1>6. ScanSkipsOnlyInfeasible'
  BY <1>1, <1>4, <1>5, SkipsKept
<1>7. Convex => FiniteResult'
  <2>. SUFFICES ASSUME Convex, pc' = "done", Finite(minM)'
                PROVE  result' # Infinity
    BY DEF FiniteResult
  <2>1. success /\ result' = v
    OBVIOUS
  <2>2. CASE Finite(minM)
    <3>1. Finite(maxM)
      BY <1>1, <2>2 DEF SInv, MinimizerEnd, Finite
    <3>2. Infinity \notin Eval(x)
      BY <1>1, <1>3, <2>2, <3>1, NoInfinityBetween DEF SInv
    <3>. QED  BY <2>1, <3>2
  <2>3. CASE ~Finite(minM)
    <3>1. minM = x
      BY <1>1, <1>3, <2>3 DEF Finite, Reveal, TypeOK
    <3>. QED  BY <1>1, <1>4, <2>1, <3>1 DEF Finite
  <2>. QED  BY <2>2, <2>3
<1>. QED  BY <1>0, <1>2, <1>4, <1>5, <1>6, <1>7, FinishedVacuous
          DEF SInv, ScanExhausted, ProbedInfinite, MinimizerEnd

LEMMA StutterStep == SInv /\ UNCHANGED vars => SInv'
<1>. SUFFICES ASSUME SInv, UNCHANGED vars PROVE SInv'
  OBVIOUS
<1>0. CInv'
  BY CInvStep DEF SInv
<1>1. RevealedOutcome' /\ SurfaceFixed' /\ CeilM' = CeilM /\ maxArg' = maxArg
  BY CostKept, FixedKept DEF SInv, vars, fixed
<1>. QED  BY <1>0, <1>1
          DEF SInv, vars, ScanPrefixInfinite, GateFresh, BracketStrict,
              BoundaryKept, ScanSkipsOnlyInfeasible, ScanExhausted,
              ProbedInfinite, MinimizerEnd, FiniteResult, Finite

LEMMA SInvStep == SInv /\ [Next]_vars => SInv'
BY GateStep, ScanStepStep, ScanDoneStep, ProbeStep, BisectStepStep,
   BisectDoneStep, MinimizeStep, StutterStep DEF Next

-----------------------------------------------------------------------------
(* The invariants.                                                         *)

\* Once the scan of lines 57-60 is over, every integer width from
\* ceil(log2_q / log2_beta * n) below min_m was evaluated and cost infinity:
\* the scan skips only infeasible widths.
THEOREM ScanSkipsOnlyInfeasibleHolds == Spec => []ScanSkipsOnlyInfeasible
<1>1. SInv => ScanSkipsOnlyInfeasible
  BY DEF SInv
<1>. QED  BY SInvInit, SInvStep, <1>1, PTL DEF Spec

\* When the bisection of lines 65-71 has lowered max_m, some evaluated
\* width in (max_m, max_m + 1] cost infinity: the bracket closed on the
\* feasibility boundary.
THEOREM BoundaryWithinOneHolds == Spec => []BoundaryWithinOne
<1>1. SInv => BoundaryWithinOne
  <2>. SUFFICES ASSUME SInv PROVE BoundaryWithinOne
    OBVIOUS
  <2>1. maxM \in Int /\ maxArg * Scale \in Int
    BY DEF SInv, CInv, IInv, TypeOK, Grid
  <2>. QED  BY <2>1 DEF SInv, BoundaryKept, BoundaryWithinOne
<1>. QED  BY SInvInit, SInvStep, <1>1, PTL DEF Spec

\* Whatever the cost surface, minimize_scalar (lines 75-78) is handed a
\* finite-cost upper end unless every integer width from the volume bound to
\* the caller's max_m was evaluated and cost infinity, and then it is handed
\* the single width min_m.
THEOREM MinimizerEndHolds == Spec => []MinimizerEnd
<1>1. SInv => MinimizerEnd
  BY DEF SInv
<1>. QED  BY SInvInit, SInvStep, <1>1, PTL DEF Spec

\* On the convex cost surface the code assumes, bkz_bit_security reports
\* infinity only where its search found no attack: the minimiser's upper end
\* is finite unless every integer width from the volume bound to max_m cost
\* infinity, and once the scan has found a finite-cost width the value
\* returned at line 80 is not infinity.
THEOREM NoSilentInfinityHolds ==
  ASSUME Convex
  PROVE  Spec => []NoSilentInfinity
<1>1. SInv => NoSilentInfinity
  BY DEF SInv, NoSilentInfinity
<1>. QED  BY SInvInit, SInvStep, <1>1, PTL DEF Spec

=============================================================================
