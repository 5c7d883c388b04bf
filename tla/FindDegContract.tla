--------------------------- MODULE FindDegContract ---------------------------
(***************************************************************************)
(* What find_deg (src/prover/sis_estimation/estimator.py) promises its     *)
(* callers, in the words of spec sections 4.6 and 7 and without the loop   *)
(* that keeps the promise.  The two estimators are pure functions, asked   *)
(* lazily: any query may be asked at any time, is answered with a value    *)
(* the estimator can give, and is answered the same ever after.  The call  *)
(* then ends in one of three ways:                                         *)
(*                                                                         *)
(*   - it returns the record of the least degree below max_degree that     *)
(*     clears both the BKZ and the CPW margin, every smaller degree having *)
(*     been asked and failed one of them; the record holds num_poly =      *)
(*     ceil(secret_size / degree) and the two estimates at that size;      *)
(*   - it reports search exhaustion (None) when every degree below         *)
(*     max_degree was asked and failed (section 7 (d));                    *)
(*   - it raises, when a BKZ estimate it asked for raised: non-convergence *)
(*     propagates and is never defaulted (section 7 (b)).                  *)
(***************************************************************************)
EXTENDS Integers

CONSTANTS LogQ, LogNorm, SecretSize, MaxDegree, Target, MarginBkz,
          MarginCpw, Levels, Strategy, Heuristic, Infinity, Raise,
          NotEvaluated, None

VARIABLES
  bkzTab,   \* the BKZ estimates asked so far: <<n, max_m, strategy>> -> value
  cpwTab,   \* the CPW estimates asked so far: <<n, m_0>> -> value
  record,   \* the record returned, or None
  status    \* "running", "done" or "error"

cvars == <<bkzTab, cpwTab, record, status>>

Degrees == 1 .. MaxDegree
Widths == 1 .. (2 * SecretSize + 2 * MaxDegree)
BkzQueries == Degrees \X Widths \X {Strategy, Heuristic}
CpwQueries == Degrees \X Widths

CeilDiv(a, b) == (a + b - 1) \div b

\* Spec 4.3 step 1: no lattice solution within max_m gives infinity; else a
\* cost, or the fatal non-convergence of the minimiser.
BkzValues(n, maxM) ==
  IF CeilDiv(LogQ * n, LogNorm) <= maxM THEN Levels \cup {0, Infinity, Raise}
  ELSE {Infinity}

\* Spec 4.5: a density below 1 gives infinity; else a cost.
CpwValues(n, m0) ==
  IF m0 * LogNorm >= n * LogQ THEN Levels ELSE {Infinity}

\* A pure function asked at q: its earlier answer if any, else any value.
Answer(tab, q, values) ==
  IF tab[q] # NotEvaluated THEN {tab[q]} ELSE values

BkzAnswer(q) == Answer(bkzTab, q, BkzValues(q[1], q[2]))
CpwAnswer(q) == Answer(cpwTab, q, CpwValues(q[1], q[2]))

\* An estimate clears its margin; infinity always does.
Clears(v, margin) == v = Infinity \/ (v \in Nat /\ v - margin >= Target)

\* Degree e was asked and failed the BKZ margin, or the CPW margin.
Rejected(e) ==
  /\ bkzTab[<<e, SecretSize, Strategy>>] # NotEvaluated
  /\ \/ ~Clears(bkzTab[<<e, SecretSize, Strategy>>], MarginBkz)
     \/ /\ cpwTab[<<e, 2 * SecretSize>>] # NotEvaluated
        /\ ~Clears(cpwTab[<<e, 2 * SecretSize>>], MarginCpw)

\* Degree e cleared both margins.
Accepted(e) ==
  /\ Clears(bkzTab[<<e, SecretSize, Strategy>>], MarginBkz)
  /\ Clears(cpwTab[<<e, 2 * SecretSize>>], MarginCpw)

Init ==
  /\ bkzTab = [q \in BkzQueries |-> NotEvaluated]
  /\ cpwTab = [q \in CpwQueries |-> NotEvaluated]
  /\ record = None
  /\ status = "running"

\* A BKZ estimate is asked and returns.
AskBkz ==
  /\ status = "running"
  /\ \E q \in BkzQueries : \E v \in BkzAnswer(q) \ {Raise} :
       bkzTab' = [bkzTab EXCEPT ![q] = v]
  /\ UNCHANGED <<cpwTab, record, status>>

\* A CPW estimate is asked.
AskCpw ==
  /\ status = "running"
  /\ \E q \in CpwQueries : \E v \in CpwAnswer(q) :
       cpwTab' = [cpwTab EXCEPT ![q] = v]
  /\ UNCHANGED <<bkzTab, record, status>>

\* A BKZ estimate raises, and the call raises with it.
Fatal ==
  /\ status = "running"
  /\ \E q \in BkzQueries :
       /\ Raise \in BkzAnswer(q)
       /\ bkzTab' = [bkzTab EXCEPT ![q] = Raise]
  /\ status' = "error"
  /\ UNCHANGED <<cpwTab, record>>

\* The least clearing degree d is returned, with both estimates taken again
\* at num_poly * d inputs (BKZ with the default strategy).
Accept(d) ==
  /\ status = "running"
  /\ d \in 1 .. (MaxDegree - 1)
  /\ Accepted(d)
  /\ \A e \in 1 .. (d - 1) : Rejected(e)
  /\ LET numPoly == CeilDiv(SecretSize, d)
         width == numPoly * d
     IN \E b \in BkzAnswer(<<d, width, Heuristic>>) \ {Raise} :
        \E c \in CpwAnswer(<<d, 2 * width>>) :
          /\ bkzTab' = [bkzTab EXCEPT ![<<d, width, Heuristic>>] = b]
          /\ cpwTab' = [cpwTab EXCEPT ![<<d, 2 * width>>] = c]
          /\ record' = [degree |-> d, numPoly |-> numPoly,
                        bkzSecurity |-> b, cpwSecurity |-> c]
  /\ status' = "done"

\* No degree below the cap clears both margins: the search reports it.
Exhaust ==
  /\ status = "running"
  /\ \A e \in 1 .. (MaxDegree - 1) : Rejected(e)
  /\ status' = "done"
  /\ UNCHANGED <<bkzTab, cpwTab, record>>

Next == AskBkz \/ AskCpw \/ Fatal \/ (\E d \in Degrees : Accept(d)) \/ Exhaust

\* The call ends: it does not ask new questions forever.
Spec == Init /\ [][Next]_cvars /\ WF_cvars(Next)

=============================================================================
