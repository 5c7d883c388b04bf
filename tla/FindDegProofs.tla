--------------------------- MODULE FindDegProofs ---------------------------
(***************************************************************************)
(* Proofs about find_deg (module FindDeg), for every value of the          *)
(* constants that satisfies FindDegAssumption.                             *)
(*                                                                         *)
(* FirstClearingDegree and NoneOnlyIfNoneClears talk about answers the     *)
(* loop got several iterations earlier, so the inductive invariant records *)
(* what each phase of the loop has established:                            *)
(*  - every degree below deg was tried and rejected (LoopRejects);         *)
(*  - from the CPW check on, deg passed the BKZ check, and from the record *)
(*    on it passed the CPW check too (BkzPassed, CpwPassed);               *)
(*  - a record is for deg, and None is returned only at deg = max_degree.  *)
(* They survive later steps because the estimators are pure: an answer     *)
(* once given is never changed (lemmas BkzKeeps and CpwKeeps).             *)
(***************************************************************************)
EXTENDS FindDeg, TLAPS

USE FindDegAssumption

BkzDom == Degrees \X Widths \X {Strategy, Heuristic}
CpwDom == Degrees \X Widths

\* No answer of an estimator changes once it has been given.
Stable ==
  /\ \A r \in BkzDom : bkzTab[r] # NotEvaluated => bkzTab'[r] = bkzTab[r]
  /\ \A r \in CpwDom : cpwTab[r] # NotEvaluated => cpwTab'[r] = cpwTab[r]

\* Every degree below deg was tried and failed a check.
LoopRejects == pc # "error" => \A e \in 1 .. (deg - 1) : Rejected(e)

\* From the CPW check on, deg is in range and passed the BKZ check.
BkzPassed ==
  pc \in {"cpw", "record"} \/ record # None =>
    deg < MaxDegree /\ Clears(BkzChecked(deg), MarginBkz)

\* From the record on, deg passed the CPW check.
CpwPassed ==
  pc = "record" \/ record # None => Clears(CpwChecked(deg), MarginCpw)

\* A record is returned, and is for deg; None only at the cap.
Returned ==
  /\ record # None => pc = "done" /\ record.degree = deg
  /\ pc = "done" /\ record = None => deg = MaxDegree

IInv == TypeOK /\ LoopRejects /\ BkzPassed /\ CpwPassed /\ Returned

-----------------------------------------------------------------------------
(* Lemmas about the operators the actions are built from.                  *)

\* num_poly = ceil(secret_size / deg) is between 1 and secret_size, and
\* num_poly * deg exceeds secret_size by less than deg.
LEMMA CeilDivBounds ==
  ASSUME NEW a \in Nat \ {0}, NEW b \in Nat \ {0}
  PROVE  /\ CeilDiv(a, b) \in 1 .. a
         /\ CeilDiv(a, b) * b <= a + b - 1
BY DEF CeilDiv

\* The widths find_deg asks about lie in Widths.
LEMMA WidthsCovered ==
  ASSUME NEW d \in Degrees
  PROVE  /\ SecretSize \in Widths /\ 2 * SecretSize \in Widths
         /\ CeilDiv(SecretSize, d) * d \in Widths
         /\ 2 * (CeilDiv(SecretSize, d) * d) \in Widths
<1>1. CeilDiv(SecretSize, d) \in 1 .. SecretSize
      /\ CeilDiv(SecretSize, d) * d <= SecretSize + d - 1
  BY CeilDivBounds DEF Degrees
<1>2. CeilDiv(SecretSize, d) * d >= 1
  BY <1>1 DEF Degrees
<1>. QED  BY <1>1, <1>2 DEF Widths, Degrees

\* Recording an answer of a pure function keeps every answer given before.
LEMMA TableKeeps ==
  ASSUME NEW D, NEW R, NEW f \in [D -> R], NEW q \in D, NEW Out,
         NEW v \in (IF f[q] # NotEvaluated THEN {f[q]} ELSE Out)
  PROVE  \A r \in D : f[r] # NotEvaluated => [f EXCEPT ![q] = v][r] = f[r]
BY Zenon

\* The answers bkz_bit_security can give at a query of the table.
LEMMA BkzType ==
  ASSUME TypeOK, NEW n, NEW w, NEW st, <<n, w, st>> \in BkzDom,
         NEW v \in Bkz(n, w, st)
  PROVE  v \in Levels \cup {0, Infinity, Raise}
BY DEF Bkz, BkzOutcomes, TypeOK, BkzDom

\* The answers cpw_bit_security can give at a query of the table.
LEMMA CpwType ==
  ASSUME TypeOK, NEW n, NEW w, <<n, w>> \in CpwDom, NEW v \in Cpw(n, w)
  PROVE  v \in Levels \cup {Infinity}
BY DEF Cpw, CpwOutcomes, TypeOK, CpwDom

\* A clearing answer is an answer that was given.
LEMMA ClearsGiven ==
  ASSUME NEW v, NEW m \in Nat, Clears(v, m)
  PROVE  v # NotEvaluated
BY DEF Clears

\* Under Stable, a rejected degree stays rejected.
LEMMA RejectedStable ==
  ASSUME TypeOK, Stable, NEW e \in Degrees, Rejected(e)
  PROVE  Rejected(e)'
<1>1. <<e, SecretSize, Strategy>> \in BkzDom /\ <<e, 2 * SecretSize>> \in CpwDom
  BY WidthsCovered DEF BkzDom, CpwDom
<1>2. BkzChecked(e)' = BkzChecked(e)
  BY <1>1 DEF Stable, Rejected, BkzChecked
<1>3. CpwChecked(e) # NotEvaluated => CpwChecked(e)' = CpwChecked(e)
  BY <1>1 DEF Stable, CpwChecked
<1>. QED  BY <1>2, <1>3 DEF Rejected

\* Under Stable, a degree that cleared a check still clears it.
LEMMA ClearsStable ==
  ASSUME TypeOK, Stable, NEW e \in Degrees
  PROVE  /\ Clears(BkzChecked(e), MarginBkz) => Clears(BkzChecked(e), MarginBkz)'
         /\ Clears(CpwChecked(e), MarginCpw) => Clears(CpwChecked(e), MarginCpw)'
<1>1. <<e, SecretSize, Strategy>> \in BkzDom /\ <<e, 2 * SecretSize>> \in CpwDom
  BY WidthsCovered DEF BkzDom, CpwDom
<1>2. Clears(BkzChecked(e), MarginBkz) => BkzChecked(e)' = BkzChecked(e)
  BY <1>1, ClearsGiven DEF Stable, BkzChecked
<1>3. Clears(CpwChecked(e), MarginCpw) => CpwChecked(e)' = CpwChecked(e)
  BY <1>1, ClearsGiven DEF Stable, CpwChecked
<1>. QED  BY <1>2, <1>3 DEF Clears

-----------------------------------------------------------------------------
(* The inductive invariant.                                                *)

LEMMA IInvInit == Init => IInv
<1>. SUFFICES ASSUME Init PROVE IInv
  OBVIOUS
<1>1. TypeOK
  BY DEF Init, TypeOK, Degrees
<1>. QED  BY <1>1 DEF Init, IInv, LoopRejects, BkzPassed, CpwPassed, Returned

\* The BKZ check of lines 67-69.
LEMMA CheckBkzStep == IInv /\ CheckBkz => IInv'
<1>. SUFFICES ASSUME IInv, CheckBkz PROVE IInv'
  OBVIOUS
<1>d. PICK d \in Degrees : d = deg
  BY DEF IInv, TypeOK
<1>. DEFINE q == <<d, SecretSize, Strategy>>
<1>0. /\ TypeOK /\ pc = "bkz" /\ d < MaxDegree /\ record = None
      /\ q \in BkzDom
      /\ UNCHANGED <<cpwTab, record>>
  BY <1>d, WidthsCovered DEF CheckBkz, IInv, Returned, TypeOK, BkzDom
<1>p. PICK v \in Bkz(d, SecretSize, Strategy) :
        /\ bkzTab' = [bkzTab EXCEPT ![q] = v]
        /\ CASE v = Raise -> pc' = "error" /\ UNCHANGED deg
             [] Clears(v, MarginBkz) -> pc' = "cpw" /\ UNCHANGED deg
             [] OTHER -> deg' = deg + 1 /\ UNCHANGED pc
  BY <1>d DEF CheckBkz
<1>1. v \in Levels \cup {0, Infinity, Raise}
  BY <1>0, BkzType
<1>2. Stable
  BY <1>0, <1>p, TableKeeps DEF Stable, Bkz, TypeOK
<1>3. bkzTab' \in [BkzDom -> Levels \cup {0, Infinity, Raise, NotEvaluated}]
  BY <1>0, <1>1, <1>p DEF TypeOK, BkzDom
<1>4. BkzChecked(d)' = v
  BY <1>0, <1>p DEF BkzChecked, TypeOK, BkzDom
<1>5. \A e \in 1 .. (d - 1) : Rejected(e)'
  BY <1>0, <1>d, <1>2, RejectedStable DEF IInv, LoopRejects, Degrees, TypeOK
<1>6. CASE v = Raise
  <2>0. ~Clears(v, MarginBkz)
    BY <1>6 DEF Clears
  <2>1. pc' = "error" /\ deg' = d
    BY <1>d, <1>6, <1>p, <2>0
  <2>2. TypeOK'
    BY <1>0, <1>3, <2>1 DEF TypeOK, BkzDom
  <2>. QED  BY <1>0, <2>1, <2>2
            DEF IInv, LoopRejects, BkzPassed, CpwPassed, Returned
<1>7. CASE v # Raise /\ Clears(v, MarginBkz)
  <2>1. pc' = "cpw" /\ deg' = d
    BY <1>d, <1>7, <1>p
  <2>2. TypeOK'
    BY <1>0, <1>3, <2>1 DEF TypeOK, BkzDom
  <2>3. LoopRejects'
    BY <1>5, <2>1 DEF LoopRejects
  <2>4. BkzPassed'
    BY <1>0, <1>4, <1>7, <2>1 DEF BkzPassed
  <2>. QED  BY <1>0, <2>1, <2>2, <2>3, <2>4
            DEF IInv, CpwPassed, Returned
<1>8. CASE v # Raise /\ ~Clears(v, MarginBkz)
  <2>1. pc' = "bkz" /\ deg' = d + 1
    BY <1>0, <1>d, <1>8, <1>p
  <2>2. Rejected(d)'
    BY <1>1, <1>4, <1>8 DEF Rejected
  <2>3. \A e \in 1 .. (deg' - 1) : Rejected(e)'
    <3>. SUFFICES ASSUME NEW e \in 1 .. (deg' - 1) PROVE Rejected(e)'
      OBVIOUS
    <3>1. e \in 1 .. (d - 1) \/ e = d
      BY <1>0, <2>1 DEF TypeOK, Degrees
    <3>. QED  BY <1>5, <2>2, <3>1
  <2>4. TypeOK'
    BY <1>0, <1>3, <2>1 DEF TypeOK, BkzDom, Degrees
  <2>. QED  BY <1>0, <2>1, <2>3, <2>4
            DEF IInv, LoopRejects, BkzPassed, CpwPassed, Returned
<1>. QED  BY <1>6, <1>7, <1>8

\* The CPW check of lines 71-73.
LEMMA CheckCpwStep == IInv /\ CheckCpw => IInv'
<1>. SUFFICES ASSUME IInv, CheckCpw PROVE IInv'
  OBVIOUS
<1>d. PICK d \in Degrees : d = deg
  BY DEF IInv, TypeOK
<1>. DEFINE q == <<d, 2 * SecretSize>>
<1>0. /\ TypeOK /\ pc = "cpw" /\ d < MaxDegree /\ record = None
      /\ Clears(BkzChecked(d), MarginBkz)
      /\ q \in CpwDom
      /\ UNCHANGED <<bkzTab, record>>
  BY <1>d, WidthsCovered DEF CheckCpw, IInv, Returned, BkzPassed, TypeOK, CpwDom
<1>p. PICK v \in Cpw(d, 2 * SecretSize) :
        /\ cpwTab' = [cpwTab EXCEPT ![q] = v]
        /\ IF Clears(v, MarginCpw)
             THEN pc' = "record" /\ UNCHANGED deg
             ELSE pc' = "bkz" /\ deg' = deg + 1
  BY <1>d DEF CheckCpw
<1>1. v \in Levels \cup {Infinity}
  BY <1>0, CpwType
<1>2. Stable
  BY <1>0, <1>p, TableKeeps DEF Stable, Cpw, TypeOK
<1>3. cpwTab' \in [CpwDom -> Levels \cup {Infinity, NotEvaluated}]
  BY <1>0, <1>1, <1>p DEF TypeOK, CpwDom
<1>4. CpwChecked(d)' = v /\ BkzChecked(d)' = BkzChecked(d)
  BY <1>0, <1>p DEF CpwChecked, BkzChecked, TypeOK, CpwDom
<1>5. \A e \in 1 .. (d - 1) : Rejected(e)'
  BY <1>0, <1>d, <1>2, RejectedStable DEF IInv, LoopRejects, Degrees, TypeOK
<1>6. CASE Clears(v, MarginCpw)
  <2>1. pc' = "record" /\ deg' = d
    BY <1>d, <1>6, <1>p
  <2>2. TypeOK'
    BY <1>0, <1>3, <2>1 DEF TypeOK, CpwDom
  <2>3. LoopRejects' /\ BkzPassed' /\ CpwPassed'
    BY <1>0, <1>4, <1>5, <1>6, <2>1 DEF LoopRejects, BkzPassed, CpwPassed
  <2>. QED  BY <1>0, <2>1, <2>2, <2>3 DEF IInv, Returned
<1>7. CASE ~Clears(v, MarginCpw)
  <2>1. pc' = "bkz" /\ deg' = d + 1
    BY <1>d, <1>7, <1>p
  <2>2. Rejected(d)'
    <3>1. BkzChecked(d)' # NotEvaluated
      BY <1>0, <1>4, ClearsGiven
    <3>2. CpwChecked(d)' # NotEvaluated
      BY <1>1, <1>4
    <3>. QED  BY <1>4, <1>7, <3>1, <3>2 DEF Rejected
  <2>3. \A e \in 1 .. (deg' - 1) : Rejected(e)'
    <3>. SUFFICES ASSUME NEW e \in 1 .. (deg' - 1) PROVE Rejected(e)'
      OBVIOUS
    <3>1. e \in 1 .. (d - 1) \/ e = d
      BY <1>0, <2>1 DEF TypeOK, Degrees
    <3>. QED  BY <1>5, <2>2, <3>1
  <2>4. TypeOK'
    BY <1>0, <1>3, <2>1 DEF TypeOK, CpwDom, Degrees
  <2>. QED  BY <1>0, <2>1, <2>3, <2>4
            DEF IInv, LoopRejects, BkzPassed, CpwPassed, Returned
<1>. QED  BY <1>6, <1>7

\* The record of line 75, built by RingSisEstimation.__init__.
LEMMA BuildRecordStep == IInv /\ BuildRecord => IInv'
<1>. SUFFICES ASSUME IInv, BuildRecord PROVE IInv'
  OBVIOUS
<1>d. PICK d \in Degrees : d = deg
  BY DEF IInv, TypeOK
<1>. DEFINE numPoly == CeilDiv(SecretSize, d)
            width == numPoly * d
            qb == <<d, width, Heuristic>>
            qc == <<d, 2 * width>>
<1>a. /\ TypeOK /\ pc = "record" /\ d < MaxDegree /\ record = None
      /\ Clears(BkzChecked(d), MarginBkz) /\ Clears(CpwChecked(d), MarginCpw)
      /\ deg' = d
  BY <1>d DEF BuildRecord, IInv, Returned, BkzPassed, CpwPassed
<1>b. numPoly \in 1 .. SecretSize
  BY CeilDivBounds DEF Degrees
<1>c. qb \in BkzDom /\ qc \in CpwDom
  <2>1. width \in Widths /\ 2 * width \in Widths
    BY WidthsCovered
  <2>. QED  BY <2>1 DEF BkzDom, CpwDom
<1>0. /\ TypeOK /\ pc = "record" /\ d < MaxDegree /\ record = None
      /\ Clears(BkzChecked(d), MarginBkz) /\ Clears(CpwChecked(d), MarginCpw)
      /\ qb \in BkzDom /\ qc \in CpwDom
      /\ numPoly \in 1 .. SecretSize
      /\ deg' = d
  BY <1>a, <1>b, <1>c
<1>p. PICK b \in Bkz(d, width, Heuristic) :
        /\ bkzTab' = [bkzTab EXCEPT ![qb] = b]
        /\ IF b = Raise
             THEN pc' = "error" /\ UNCHANGED <<cpwTab, record>>
             ELSE \E c \in Cpw(d, 2 * width) :
                    /\ cpwTab' = [cpwTab EXCEPT ![qc] = c]
                    /\ record' = [degree |-> d, numPoly |-> numPoly,
                                  bkzSecurity |-> b, cpwSecurity |-> c]
                    /\ pc' = "done"
  BY <1>d DEF BuildRecord
<1>1. b \in Levels \cup {0, Infinity, Raise}
  BY <1>0, BkzType
<1>2. bkzTab' \in [BkzDom -> Levels \cup {0, Infinity, Raise, NotEvaluated}]
  BY <1>0, <1>1, <1>p DEF TypeOK, BkzDom
<1>3. \A r \in BkzDom : bkzTab[r] # NotEvaluated => bkzTab'[r] = bkzTab[r]
  BY <1>0, <1>p, TableKeeps DEF Bkz, TypeOK
<1>4. CASE b = Raise
  <2>1. pc' = "error" /\ UNCHANGED <<cpwTab, record>>
    BY <1>4, <1>p
  <2>2. TypeOK'
    BY <1>0, <1>2, <2>1 DEF TypeOK, BkzDom
  <2>. QED  BY <1>0, <2>1, <2>2
            DEF IInv, LoopRejects, BkzPassed, CpwPassed, Returned
<1>5. CASE b # Raise
  <2>. PICK c \in Cpw(d, 2 * width) :
         /\ cpwTab' = [cpwTab EXCEPT ![qc] = c]
         /\ record' = [degree |-> d, numPoly |-> numPoly,
                       bkzSecurity |-> b, cpwSecurity |-> c]
         /\ pc' = "done"
    BY <1>5, <1>p
  <2>1. c \in Levels \cup {Infinity}
    BY <1>0, CpwType
  <2>2. Stable
    <3>1. \A r \in CpwDom : cpwTab[r] # NotEvaluated => cpwTab'[r] = cpwTab[r]
      BY <1>0, TableKeeps DEF Cpw, TypeOK
    <3>. QED  BY <1>3, <3>1 DEF Stable
  <2>3. TypeOK'
    <3>1. cpwTab' \in [CpwDom -> Levels \cup {Infinity, NotEvaluated}]
      BY <1>0, <2>1 DEF TypeOK, CpwDom
    <3>2. record' \in [degree : Degrees, numPoly : 1 .. SecretSize,
                       bkzSecurity : Levels \cup {0, Infinity},
                       cpwSecurity : Levels \cup {Infinity}]
      BY <1>0, <1>1, <1>5, <2>1
    <3>. QED  BY <1>0, <1>2, <3>1, <3>2 DEF TypeOK, BkzDom, CpwDom
  <2>4. record' # None
    <3>1. record' \in [degree : Nat, numPoly : Nat,
                       bkzSecurity : Nat \cup {Infinity},
                       cpwSecurity : Nat \cup {Infinity}]
      BY <1>0, <1>1, <1>5, <2>1 DEF Degrees
    <3>. QED  BY <3>1
  <2>5. LoopRejects'
    BY <1>0, <1>d, <2>2, RejectedStable DEF IInv, LoopRejects, Degrees, TypeOK
  <2>6. Clears(BkzChecked(d), MarginBkz)' /\ Clears(CpwChecked(d), MarginCpw)'
    BY <1>0, <2>2, ClearsStable
  <2>7. BkzPassed' /\ CpwPassed' /\ Returned'
    BY <1>0, <2>4, <2>6 DEF BkzPassed, CpwPassed, Returned
  <2>. QED  BY <2>3, <2>5, <2>7 DEF IInv
<1>. QED  BY <1>4, <1>5

\* range(1, max_degree) exhausted: find_deg returns None (line 64).
LEMMA ExhaustedStep == IInv /\ Exhausted => IInv'
<1>. SUFFICES ASSUME IInv, Exhausted PROVE IInv'
  OBVIOUS
<1>1. deg = MaxDegree /\ record = None
  BY DEF IInv, TypeOK, Exhausted, Degrees, Returned
<1>. QED
  BY <1>1 DEF Exhausted, IInv, TypeOK, LoopRejects, BkzPassed, CpwPassed,
               Returned, Rejected, BkzChecked, CpwChecked

LEMMA StutterStep == IInv /\ UNCHANGED vars => IInv'
BY DEF vars, IInv, TypeOK, LoopRejects, BkzPassed, CpwPassed, Returned,
       Rejected, BkzChecked, CpwChecked

LEMMA IInvStep == IInv /\ [Next]_vars => IInv'
BY CheckBkzStep, CheckCpwStep, BuildRecordStep, ExhaustedStep, StutterStep
DEF Next

-----------------------------------------------------------------------------
(* Theorems.                                                               *)

\* Every variable of find_deg's model keeps its type.
THEOREM TypeCorrect == Spec => []TypeOK
<1>1. IInv => TypeOK
  BY DEF IInv
<1>. QED  BY IInvInit, IInvStep, <1>1, PTL DEF Spec

\* The record find_deg returns is for the smallest degree below max_degree
\* that clears both checks of the loop (lines 64-75), for every value of
\* the constants.
THEOREM FirstClearingDegreeHolds == Spec => []FirstClearingDegree
<1>1. IInv => FirstClearingDegree
  BY DEF IInv, TypeOK, Degrees, LoopRejects, BkzPassed, CpwPassed, Returned,
         FirstClearingDegree, Accepted
<1>. QED  BY IInvInit, IInvStep, <1>1, PTL DEF Spec

\* find_deg returns None only after every degree of range(1, max_degree)
\* failed a check (lines 64-73), for every value of the constants.
THEOREM NoneOnlyIfNoneClearsHolds == Spec => []NoneOnlyIfNoneClears
<1>1. IInv => NoneOnlyIfNoneClears
  BY DEF IInv, LoopRejects, Returned, NoneOnlyIfNoneClears
<1>. QED  BY IInvInit, IInvStep, <1>1, PTL DEF Spec

-----------------------------------------------------------------------------
(* find_deg implements FindDegContract.  Under the refinement mapping of   *)
(* FindDeg (the contract's status is "running" until pc is "done" or       *)
(* "error"), each check of the loop is a question the contract allows, a   *)
(* raise of bkz_bit_security is the contract's Fatal, the record is its    *)
(* Accept and the exhausted loop its Exhaust.  IInv supplies what Accept   *)
(* and Exhaust require of the earlier degrees.                             *)

\* The contract judges degrees, and answers queries, as find_deg's model.
LEMMA SameJudgement ==
  ASSUME NEW e
  PROVE  /\ Contract!Rejected(e) <=> Rejected(e)
         /\ Contract!Accepted(e) <=> Accepted(e)
BY DEF Contract!Rejected, Contract!Accepted, Contract!Clears, Rejected,
       Accepted, Clears, BkzChecked, CpwChecked

LEMMA SameAnswers ==
  ASSUME NEW n, NEW w, NEW st
  PROVE  /\ Contract!BkzAnswer(<<n, w, st>>) = Bkz(n, w, st)
         /\ Contract!CpwAnswer(<<n, w>>) = Cpw(n, w)
BY DEF Contract!BkzAnswer, Contract!CpwAnswer, Contract!Answer,
       Contract!BkzValues, Contract!CpwValues, Contract!CeilDiv,
       Bkz, Cpw, BkzOutcomes, CpwOutcomes, BkzGate, CpwGate, CeilDiv

LEMMA SameDomains ==
  /\ Contract!BkzQueries = BkzDom
  /\ Contract!CpwQueries = CpwDom
  /\ Contract!Degrees = Degrees
BY DEF Contract!BkzQueries, Contract!CpwQueries, Contract!Degrees,
       Contract!Widths, BkzDom, CpwDom, Degrees, Widths

LEMMA RefineInit == Init => Contract!Init
BY SameDomains DEF Init, Contract!Init, BkzDom, CpwDom

\* The BKZ check asks a question, or raises with the estimate.
LEMMA CheckBkzRefines ==
  IInv /\ CheckBkz => Contract!AskBkz \/ Contract!Fatal
<1>. SUFFICES ASSUME IInv, CheckBkz
              PROVE  Contract!AskBkz \/ Contract!Fatal
  OBVIOUS
<1>d. PICK d \in Degrees : d = deg
  BY DEF IInv, TypeOK
<1>. DEFINE q == <<d, SecretSize, Strategy>>
<1>0. /\ pc = "bkz" /\ q \in Contract!BkzQueries
      /\ UNCHANGED <<cpwTab, record>>
  BY <1>d, WidthsCovered, SameDomains DEF CheckBkz, BkzDom
<1>p. PICK v \in Contract!BkzAnswer(q) :
        /\ bkzTab' = [bkzTab EXCEPT ![q] = v]
        /\ CASE v = Raise -> pc' = "error" /\ UNCHANGED deg
             [] Clears(v, MarginBkz) -> pc' = "cpw" /\ UNCHANGED deg
             [] OTHER -> deg' = deg + 1 /\ UNCHANGED pc
  BY <1>d, SameAnswers DEF CheckBkz
<1>1. CASE v = Raise
  <2>0. ~Clears(v, MarginBkz)
    BY <1>1 DEF Clears
  <2>1. pc' = "error"
    BY <1>1, <1>p, <2>0
  <2>. QED  BY <1>0, <1>1, <1>p, <2>1 DEF Contract!Fatal
<1>2. CASE v # Raise
  <2>1. pc' \in {"cpw", "bkz"}
    BY <1>0, <1>2, <1>p
  <2>. QED  BY <1>0, <1>2, <1>p, <2>1 DEF Contract!AskBkz
<1>. QED  BY <1>1, <1>2

\* The CPW check asks a question.
LEMMA CheckCpwRefines == IInv /\ CheckCpw => Contract!AskCpw
<1>. SUFFICES ASSUME IInv, CheckCpw PROVE Contract!AskCpw
  OBVIOUS
<1>d. PICK d \in Degrees : d = deg
  BY DEF IInv, TypeOK
<1>. DEFINE q == <<d, 2 * SecretSize>>
<1>0. /\ pc = "cpw" /\ q \in Contract!CpwQueries
      /\ UNCHANGED <<bkzTab, record>>
  BY <1>d, WidthsCovered, SameDomains DEF CheckCpw, CpwDom
<1>p. PICK v \in Contract!CpwAnswer(q) :
        /\ cpwTab' = [cpwTab EXCEPT ![q] = v]
        /\ pc' \in {"record", "bkz"}
  BY <1>d, SameAnswers DEF CheckCpw
<1>. QED  BY <1>0, <1>p DEF Contract!AskCpw

\* The record is the contract's Accept of deg, or a raise.
LEMMA BuildRecordRefines ==
  IInv /\ BuildRecord => (\E e \in Contract!Degrees : Contract!Accept(e))
                         \/ Contract!Fatal
<1>. SUFFICES ASSUME IInv, BuildRecord
              PROVE  (\E e \in Contract!Degrees : Contract!Accept(e))
                     \/ Contract!Fatal
  OBVIOUS
<1>d. PICK d \in Degrees : d = deg
  BY DEF IInv, TypeOK
<1>. DEFINE numPoly == CeilDiv(SecretSize, d)
            width == numPoly * d
            qb == <<d, width, Heuristic>>
            qc == <<d, 2 * width>>
<1>0. /\ pc = "record" /\ d \in 1 .. (MaxDegree - 1)
      /\ Contract!Accepted(d)
      /\ \A e \in 1 .. (d - 1) : Contract!Rejected(e)
  <2>1. /\ pc = "record" /\ d < MaxDegree
        /\ Clears(BkzChecked(d), MarginBkz) /\ Clears(CpwChecked(d), MarginCpw)
        /\ \A e \in 1 .. (d - 1) : Rejected(e)
    BY <1>d DEF BuildRecord, IInv, BkzPassed, CpwPassed, LoopRejects
  <2>2. Contract!Accepted(d)
    BY <2>1, SameJudgement, Zenon DEF Accepted
  <2>3. \A e \in 1 .. (d - 1) : Contract!Rejected(e)
    BY <2>1, SameJudgement, Zenon
  <2>. QED  BY <1>d, <2>1, <2>2, <2>3 DEF Degrees
<1>1. qb \in Contract!BkzQueries /\ numPoly = Contract!CeilDiv(SecretSize, d)
  BY WidthsCovered, SameDomains DEF BkzDom, CeilDiv, Contract!CeilDiv
<1>p. PICK b \in Contract!BkzAnswer(qb) :
        /\ bkzTab' = [bkzTab EXCEPT ![qb] = b]
        /\ IF b = Raise
             THEN pc' = "error" /\ UNCHANGED <<cpwTab, record>>
             ELSE \E c \in Contract!CpwAnswer(qc) :
                    /\ cpwTab' = [cpwTab EXCEPT ![qc] = c]
                    /\ record' = [degree |-> d, numPoly |-> numPoly,
                                  bkzSecurity |-> b, cpwSecurity |-> c]
                    /\ pc' = "done"
  BY <1>d, SameAnswers DEF BuildRecord
<1>2. CASE b = Raise
  BY <1>0, <1>1, <1>2, <1>p DEF Contract!Fatal
<1>3. CASE b # Raise
  <2>1. Contract!Accept(d)
    BY <1>0, <1>1, <1>3, <1>p DEF Contract!Accept
  <2>. QED  BY <2>1, SameDomains DEF Degrees
<1>. QED  BY <1>2, <1>3

\* The exhausted loop returns None: the contract's Exhaust.
LEMMA ExhaustedRefines == IInv /\ Exhausted => Contract!Exhaust
<1>. SUFFICES ASSUME IInv, Exhausted PROVE Contract!Exhaust
  OBVIOUS
<1>1. deg = MaxDegree /\ pc = "bkz" /\ pc' = "done"
  BY DEF IInv, TypeOK, Exhausted, Degrees
<1>2. \A e \in 1 .. (MaxDegree - 1) : Contract!Rejected(e)
  BY <1>1, SameJudgement DEF IInv, LoopRejects
<1>. QED  BY <1>1, <1>2 DEF Exhausted, Contract!Exhaust

LEMMA RefineStep ==
  IInv /\ [Next]_vars => [Contract!Next]_(Contract!cvars)
<1>. SUFFICES ASSUME IInv, [Next]_vars
              PROVE  [Contract!Next]_(Contract!cvars)
  OBVIOUS
<1>1. CASE CheckBkz
  BY <1>1, CheckBkzRefines DEF Contract!Next
<1>2. CASE CheckCpw
  BY <1>2, CheckCpwRefines DEF Contract!Next
<1>3. CASE BuildRecord
  BY <1>3, BuildRecordRefines DEF Contract!Next
<1>4. CASE Exhausted
  BY <1>4, ExhaustedRefines DEF Contract!Next
<1>5. CASE UNCHANGED vars
  BY <1>5 DEF vars, Contract!cvars
<1>. QED  BY <1>1, <1>2, <1>3, <1>4, <1>5 DEF Next

\* find_deg (lines 63-75 with RingSisEstimation.__init__) implements the
\* safety part of FindDegContract, for every value of the constants: it
\* treats both estimators as pure functions, raises only with a BKZ
\* estimate, returns None only after every degree below the cap failed, and
\* otherwise returns the record of the least clearing degree.  The
\* contract's fairness (the call ends) stays model-checked.
THEOREM SafetyRefined ==
  Spec => Contract!Init /\ [][Contract!Next]_(Contract!cvars)
<1>1. Spec => []IInv
  BY IInvInit, IInvStep, PTL DEF Spec
<1>. QED  BY <1>1, RefineInit, RefineStep, PTL DEF Spec

=============================================================================
