---------------------------- MODULE BkzContract ----------------------------
(***************************************************************************)
(* What bkz_bit_security (src/prover/sis_estimation/bkz.py) promises its   *)
(* callers, without the search that keeps it: the call evaluates the pure  *)
(* per-width cost f at widths of its choice, and then                      *)
(*                                                                         *)
(*   - returns infinity without evaluating anything when no width up to    *)
(*     max_m gives a lattice with a short vector (spec section 4.3 step 1);*)
(*   - or returns f(x) for one width x at which that lattice exists and    *)
(*     that uses at most the max_m inputs the caller allows;               *)
(*   - or raises, when the minimiser reports no success.                   *)
(*                                                                         *)
(* allowed[s] is what f may return at grid width s (s stands for m =       *)
(* s / Scale); the contract never changes it and never overwrites a cost   *)
(* once it has been revealed.  The call always ends.                       *)
(***************************************************************************)
EXTENDS Integers

CONSTANTS LogQ, LogBeta, MaxM, Scale, Infinity, NotEvaluated

VARIABLES
  n,         \* the output dimension of the call
  maxArg,    \* the caller's max_m
  allowed,   \* allowed[s]: the values f may take at s
  cost,      \* the costs revealed so far
  result,    \* the value returned
  status     \* "running", "done" or "error"

cvars == <<n, maxArg, allowed, cost, result, status>>

Grid == 0 .. (MaxM * Scale)

\* m >= log2_q / log2_beta * n: a lattice with a short vector exists at m.
HasLattice(s) == s * LogBeta >= LogQ * n * Scale

Eval(s) == IF cost[s] # NotEvaluated THEN {cost[s]} ELSE allowed[s]

Init ==
  /\ n \in Nat \ {0}
  /\ maxArg \in 1 .. MaxM
  /\ allowed \in [Grid -> SUBSET (Nat \cup {Infinity})]
  /\ cost = [s \in Grid |-> NotEvaluated]
  /\ result = Infinity
  /\ status = "running"

\* An evaluation of f at any width.
Evaluate ==
  /\ status = "running"
  /\ \E s \in Grid : \E v \in Eval(s) : cost' = [cost EXCEPT ![s] = v]
  /\ UNCHANGED <<n, maxArg, allowed, result, status>>

\* Not even max_m inputs give a lattice: the call returns infinity.
Reject ==
  /\ status = "running"
  /\ ~HasLattice(maxArg * Scale)
  /\ result' = Infinity
  /\ status' = "done"
  /\ UNCHANGED <<n, maxArg, allowed, cost>>

\* The call returns f(x) at an admissible width x.
Return ==
  /\ status = "running"
  /\ \E x \in Grid :
       /\ HasLattice(x) /\ x <= maxArg * Scale
       /\ \E v \in Eval(x) :
            /\ cost' = [cost EXCEPT ![x] = v]
            /\ result' = v
  /\ status' = "done"
  /\ UNCHANGED <<n, maxArg, allowed>>

\* The call evaluates f once more and raises.
Raise ==
  /\ status = "running"
  /\ \E s \in Grid : \E v \in Eval(s) : cost' = [cost EXCEPT ![s] = v]
  /\ status' = "error"
  /\ UNCHANGED <<n, maxArg, allowed, result>>

Next == Evaluate \/ Reject \/ Return \/ Raise

Safety == Init /\ [][Next]_cvars

\* The call ends: it does not evaluate f forever.
Spec == Safety /\ WF_cvars(Reject \/ Return \/ Raise)

=============================================================================
