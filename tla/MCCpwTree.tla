------------------------------ MODULE MCCpwTree ------------------------------
(* n up to 4 gives trees of depth 1 to 4 (S up to 16); m_0 in {2, 8}      *)
(* leaves the HNF variant short of free inputs (m_0 < n) and well          *)
(* supplied, and makes the optimal m both larger and smaller than m_0.     *)
(* A cutoff of 4 bits lets both the log-sum-exp and the max branch of a    *)
(* round happen on these small instances; the code's value is 1000.        *)
EXTENDS CpwPartitions

MCNs == 1 .. 4
\* What partitions(n, 1) yields for every n of MCNs.
MCTuples == UNION {Range(Partitions(x, 1)) : x \in MCNs}
MCM0s == {2, 8}
=============================================================================
