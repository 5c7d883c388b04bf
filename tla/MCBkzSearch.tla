---------------------------- MODULE MCBkzSearch ----------------------------
(***************************************************************************)
(* Model-checking instance of BkzSearch.  log2_q = 3 and log2_beta = 2 put *)
(* the volume gate at m = 1.5 n: for n = 1 min_m = 2 lies below            *)
(* MIN_BLOCK_SIZE = 2 (the SVP-oracle branch), for n = 2 min_m = 3 lies    *)
(* above it (the BKZ branch, where the scan may skip widths).  max_m       *)
(* ranges over 1..5, so the gate also rejects calls outright.  The widest  *)
(* bisection, on [2, 5], has midpoints 3.5, 2.75, 4.25, ...: multiples of  *)
(* 1/4, hence Scale = 4.                                                   *)
(***************************************************************************)
EXTENDS BkzSearch

\* The grid is fine enough for every midpoint of the bisection to be exact.
ASSUME ScaleCoversBisection ==
  /\ \E d \in 0 .. 10 : Scale = 2 ^ d
  /\ \A m \in NSet : MaxM - (LogQ * m + LogBeta - 1) \div LogBeta <= Scale

=============================================================================
