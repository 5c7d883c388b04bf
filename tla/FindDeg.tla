------------------------------ MODULE FindDeg ------------------------------
(***************************************************************************)
(* find_deg and the constructor of RingSisEstimation, from                 *)
(* src/prover/sis_estimation/estimator.py.                                 *)
(*                                                                         *)
(* find_deg tries deg = 1, 2, ..., max_degree - 1.  For each it asks       *)
(* bkz_bit_security(log2_modulus, deg, log2_norm, max_m = secret_size,     *)
(* strategy), and only if that clears the target asks                      *)
(* cpw_bit_security(log2_modulus, deg, log2_norm, 2 * secret_size).  The   *)
(* first degree that clears both is wrapped in a RingSisEstimation, whose  *)
(* constructor computes both estimates again with num_poly =               *)
(* ceil(secret_size / deg): BKZ with max_m = num_poly * deg and the        *)
(* default strategy, CPW with 2 * num_poly * deg.                          *)
(*                                                                         *)
(* The two estimators are pure functions, kept abstract as in BkzSearch:   *)
(* each query is answered once, lazily, with any outcome its code allows,  *)
(* and the same query is always answered the same.  What the model keeps   *)
(* of each is its gate: bkz_bit_security returns infinity when             *)
(* ceil(log2_q / log2_beta * n) > max_m (bkz.py lines 50-53), and may      *)
(* raise at `assert sec.success`; cpw_bit_security returns infinity when   *)
(* the density m_0 * log2_beta / (n * log2_q) is below 1 (combinatorials   *)
(* lines 59-63), and a finite cost otherwise.                              *)
(***************************************************************************)
EXTENDS Integers

CONSTANTS
  LogQ,           \* log2_modulus
  LogNorm,        \* log2_norm
  SecretSize,     \* secret_size
  MaxDegree,      \* max_degree
  Target,         \* target_security
  MarginBkz,      \* margin_bkz
  MarginCpw,      \* margin_cpw
  Levels,         \* the finite bit-security values an estimator can return
  Strategy,       \* the caller's norm_equivalence_strategy
  Heuristic,      \* HEURISTIC, the default strategy
  Infinity,       \* math.inf
  Raise,          \* the AssertionError of bkz.py line 78
  NotEvaluated,   \* a query not asked yet
  None            \* find_deg falling off its loop

ASSUME FindDegAssumption ==
  /\ LogQ \in Nat \ {0} /\ LogNorm \in Nat \ {0}
  /\ SecretSize \in Nat \ {0} /\ MaxDegree \in Nat \ {0}
  /\ Target \in Nat /\ MarginBkz \in Nat /\ MarginCpw \in Nat
  /\ Levels \subseteq Nat
  /\ Infinity \notin Nat /\ Raise \notin Nat /\ NotEvaluated \notin Nat
  /\ Infinity # Raise /\ Infinity # NotEvaluated /\ Raise # NotEvaluated
  /\ None \notin [degree : Nat, numPoly : Nat,
                  bkzSecurity : Nat \cup {Infinity},
                  cpwSecurity : Nat \cup {Infinity}]

VARIABLES
  deg,      \* the loop variable of find_deg
  pc,       \* "bkz", "cpw", "record", "done" or "error"
  bkzTab,   \* bkz_bit_security answers: <<n, max_m, strategy>> -> value
  cpwTab,   \* cpw_bit_security answers: <<n, m_0>> -> value
  record    \* the RingSisEstimation returned, or None

vars == <<deg, pc, bkzTab, cpwTab, record>>

-----------------------------------------------------------------------------
(* The estimators.                                                         *)

\* The degrees find_deg can reach and the widths it can ask about.
Degrees == 1 .. MaxDegree
Widths == 1 .. (2 * SecretSize + 2 * MaxDegree)

\* math.ceil(a / b) on positive integers.
CeilDiv(a, b) == (a + b - 1) \div b

\* bkz.py lines 50-53: a lattice solution exists within max_m.
BkzGate(n, maxM) == CeilDiv(LogQ * n, LogNorm) <= maxM

\* The answers bkz_bit_security can give.
BkzOutcomes(n, maxM) ==
  IF BkzGate(n, maxM) THEN Levels \cup {0, Infinity, Raise} ELSE {Infinity}

\* combinatorials.py lines 59-63: the density of solutions is at least 1.
CpwGate(n, m0) == m0 * LogNorm >= n * LogQ

\* The answers cpw_bit_security can give.
CpwOutcomes(n, m0) == IF CpwGate(n, m0) THEN Levels ELSE {Infinity}

\* bkz_bit_security(log2_modulus, n, log2_norm, max_m, strategy).
Bkz(n, maxM, st) ==
  IF bkzTab[<<n, maxM, st>>] # NotEvaluated THEN {bkzTab[<<n, maxM, st>>]}
  ELSE BkzOutcomes(n, maxM)

\* cpw_bit_security(log2_modulus, n, log2_norm, m0).
Cpw(n, m0) ==
  IF cpwTab[<<n, m0>>] # NotEvaluated THEN {cpwTab[<<n, m0>>]}
  ELSE CpwOutcomes(n, m0)

\* Lines 68 and 72: security - margin < target_security fails the check;
\* infinity - margin is infinity and passes.
Clears(v, margin) == v = Infinity \/ (v \in Nat /\ v - margin >= Target)

-----------------------------------------------------------------------------
(* Mutants: plausible bugs of find_deg, each replacing one action below.   *)

\* The CPW check uses the BKZ margin.
CheckCpwBkzMargin ==
  /\ pc = "cpw"
  /\ \E v \in Cpw(deg, 2 * SecretSize) :
       /\ cpwTab' = [cpwTab EXCEPT ![<<deg, 2 * SecretSize>>] = v]
       /\ IF Clears(v, MarginBkz)
            THEN pc' = "record" /\ UNCHANGED deg
            ELSE pc' = "bkz" /\ deg' = deg + 1
  /\ UNCHANGED <<bkzTab, record>>

\* The loop over degrees runs past max_degree - 1.
CheckBkzUnbounded ==
  /\ pc = "bkz"
  /\ \E v \in Bkz(deg, SecretSize, Strategy) :
       /\ bkzTab' = [bkzTab EXCEPT ![<<deg, SecretSize, Strategy>>] = v]
       /\ CASE v = Raise -> pc' = "error" /\ UNCHANGED deg
            [] Clears(v, MarginBkz) -> pc' = "cpw" /\ UNCHANGED deg
            [] OTHER -> deg' = deg + 1 /\ UNCHANGED pc
  /\ UNCHANGED <<cpwTab, record>>

\* A failed BKZ check retries the same degree.
CheckBkzStays ==
  /\ pc = "bkz"
  /\ deg < MaxDegree
  /\ \E v \in Bkz(deg, SecretSize, Strategy) :
       /\ bkzTab' = [bkzTab EXCEPT ![<<deg, SecretSize, Strategy>>] = v]
       /\ CASE v = Raise -> pc' = "error"
            [] Clears(v, MarginBkz) -> pc' = "cpw"
            [] OTHER -> UNCHANGED pc
  /\ UNCHANGED <<deg, cpwTab, record>>

\* A failed CPW check returns (None) instead of trying the next degree.
CheckCpwReturns ==
  /\ pc = "cpw"
  /\ \E v \in Cpw(deg, 2 * SecretSize) :
       /\ cpwTab' = [cpwTab EXCEPT ![<<deg, 2 * SecretSize>>] = v]
       /\ IF Clears(v, MarginCpw)
            THEN pc' = "record" /\ UNCHANGED record
            ELSE pc' = "done" /\ record' = None
  /\ UNCHANGED <<deg, bkzTab>>

-----------------------------------------------------------------------------
(* find_deg, lines 63-75.                                                  *)

Init ==
  /\ deg = 1
  /\ pc = "bkz"
  /\ bkzTab = [q \in Degrees \X Widths \X {Strategy, Heuristic} |-> NotEvaluated]
  /\ cpwTab = [q \in Degrees \X Widths |-> NotEvaluated]
  /\ record = None

\* Lines 64-69: the BKZ estimate of deg; too low tries the next degree, and
\* the AssertionError of bkz_bit_security propagates.
CheckBkz ==
  /\ pc = "bkz"
  /\ deg < MaxDegree
  /\ \E v \in Bkz(deg, SecretSize, Strategy) :
       /\ bkzTab' = [bkzTab EXCEPT ![<<deg, SecretSize, Strategy>>] = v]
       /\ CASE v = Raise -> pc' = "error" /\ UNCHANGED deg
            [] Clears(v, MarginBkz) -> pc' = "cpw" /\ UNCHANGED deg
            [] OTHER -> deg' = deg + 1 /\ UNCHANGED pc
  /\ UNCHANGED <<cpwTab, record>>

\* Lines 71-73: the CPW estimate of deg; too low tries the next degree.
CheckCpw ==
  /\ pc = "cpw"
  /\ \E v \in Cpw(deg, 2 * SecretSize) :
       /\ cpwTab' = [cpwTab EXCEPT ![<<deg, 2 * SecretSize>>] = v]
       /\ IF Clears(v, MarginCpw)
            THEN pc' = "record" /\ UNCHANGED deg
            ELSE pc' = "bkz" /\ deg' = deg + 1
  /\ UNCHANGED <<bkzTab, record>>

\* Line 75 and RingSisEstimation.__init__ (lines 21-38): num_poly is
\* ceil(secret_size / deg) and both estimates are computed again, BKZ with
\* max_m = num_poly * degree and the default strategy, then CPW with
\* 2 * num_poly * degree.  A raise in the BKZ estimate propagates.
BuildRecord ==
  /\ pc = "record"
  /\ LET numPoly == CeilDiv(SecretSize, deg)
         width == numPoly * deg
     IN \E b \in Bkz(deg, width, Heuristic) :
          /\ bkzTab' = [bkzTab EXCEPT ![<<deg, width, Heuristic>>] = b]
          /\ IF b = Raise
               THEN pc' = "error" /\ UNCHANGED <<cpwTab, record>>
               ELSE \E c \in Cpw(deg, 2 * width) :
                      /\ cpwTab' = [cpwTab EXCEPT ![<<deg, 2 * width>>] = c]
                      /\ record' = [degree |-> deg, numPoly |-> numPoly,
                                    bkzSecurity |-> b, cpwSecurity |-> c]
                      /\ pc' = "done"
  /\ UNCHANGED deg

\* Line 64: range(1, max_degree) is exhausted; find_deg returns None.
Exhausted ==
  /\ pc = "bkz"
  /\ deg >= MaxDegree
  /\ pc' = "done"
  /\ UNCHANGED <<deg, bkzTab, cpwTab, record>>

Next == CheckBkz \/ CheckCpw \/ BuildRecord \/ Exhausted

\* find_deg is a sequential call: it runs until it returns or raises.
Spec == Init /\ [][Next]_vars /\ WF_vars(Next)

-----------------------------------------------------------------------------
(* Properties.                                                             *)

\* Every variable has its type.
TypeOK ==
  /\ deg \in Degrees
  /\ pc \in {"bkz", "cpw", "record", "done", "error"}
  /\ bkzTab \in [Degrees \X Widths \X {Strategy, Heuristic} ->
                 Levels \cup {0, Infinity, Raise, NotEvaluated}]
  /\ cpwTab \in [Degrees \X Widths -> Levels \cup {Infinity, NotEvaluated}]
  /\ record \in {None} \cup
       [degree : Degrees, numPoly : 1 .. SecretSize,
        bkzSecurity : Levels \cup {0, Infinity},
        cpwSecurity : Levels \cup {Infinity}]

\* The answers find_deg's own checks got for degree e.
BkzChecked(e) == bkzTab[<<e, SecretSize, Strategy>>]
CpwChecked(e) == cpwTab[<<e, 2 * SecretSize>>]

\* Degree e was tried by the loop of lines 64-73 and failed a check.
Rejected(e) ==
  /\ BkzChecked(e) # NotEvaluated
  /\ \/ ~Clears(BkzChecked(e), MarginBkz)
     \/ CpwChecked(e) # NotEvaluated /\ ~Clears(CpwChecked(e), MarginCpw)

\* Degree e passed both checks of the loop.
Accepted(e) ==
  /\ Clears(BkzChecked(e), MarginBkz)
  /\ Clears(CpwChecked(e), MarginCpw)

\* The record find_deg returns is for the smallest degree below max_degree
\* that clears both the BKZ and the CPW check: every smaller degree was
\* tried and failed one of them.
FirstClearingDegree ==
  pc = "done" /\ record # None =>
    /\ record.degree \in 1 .. (MaxDegree - 1)
    /\ Accepted(record.degree)
    /\ \A e \in 1 .. (record.degree - 1) : Rejected(e)

\* find_deg returns None only when every degree in range(1, max_degree)
\* was tried and failed a check.
NoneOnlyIfNoneClears ==
  pc = "done" /\ record = None =>
    \A e \in 1 .. (MaxDegree - 1) : Rejected(e)

\* Spec section 8: the record find_deg returns has bkz_security and
\* cpw_security at least the target (with their margins).
RecordReportsAcceptedEstimates ==
  pc = "done" /\ record # None =>
    /\ Clears(record.bkzSecurity, MarginBkz)
    /\ Clears(record.cpwSecurity, MarginCpw)

\* find_deg returns or raises.
FindDegTerminates == <>(pc \in {"done", "error"})

\* find_deg keeps the promise of FindDegContract (spec sections 4.6 and 7):
\* it asks the estimators only as pure functions, raises only when a BKZ
\* estimate raised, returns None only after every degree below the cap
\* failed, and otherwise returns the record of the least clearing degree
\* with the estimates at num_poly * degree; and the call ends.
Contract == INSTANCE FindDegContract WITH
  status <- IF pc \in {"done", "error"} THEN pc ELSE "running"

ImplementsContract == Contract!Spec

=============================================================================
