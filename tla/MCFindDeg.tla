----------------------------- MODULE MCFindDeg -----------------------------
(***************************************************************************)
(* Model-checking instance of FindDeg.  log2_modulus = 3, log2_norm = 2    *)
(* and secret_size = 3: the BKZ gate ceil(1.5 deg) <= 3 passes for deg 1   *)
(* and 2 and fails for deg 3, so infinity is returned and accepted; the    *)
(* CPW density 6 * 2 / (3 deg) passes for deg 1..4.  For deg = 2,          *)
(* num_poly = 2 and the record is computed at width 4, not 3, so the       *)
(* record's queries differ from the loop's.  Security levels 0..2 around a *)
(* target of 2, with different margins for BKZ and CPW, make both checks   *)
(* pass and fail.                                                          *)
(***************************************************************************)
EXTENDS FindDeg

=============================================================================
