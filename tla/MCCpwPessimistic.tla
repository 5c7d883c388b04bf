-------------------------- MODULE MCCpwPessimistic --------------------------
(* log2_q = 2 and log2_beta = 1 with n in 1..6 and m_0 in 1..64 reach     *)
(* every branch: the density gate both ways, max_k from log2(m_0) and from *)
(* n, a density of exactly 1, integer and non-integer roots of f, and m    *)
(* kept or shrunk.                                                         *)
EXTENDS CpwPessimistic

MCNs == 1 .. 6
MCM0s == {2^e : e \in 0 .. 6}
=============================================================================
