---------------------------- MODULE CpwPartitions ----------------------------
(***************************************************************************)
(* The partition generator partitions(n, I) of combinatorials.py (lines    *)
(* 182-186), whose tuples the exhaustive search of cpw_bit_security feeds  *)
(* to the tree-cost models of module CpwTree, checked against a reference  *)
(* definition of the partitions of n.  It is kept apart from CpwTree       *)
(* because it is recursive.                                                *)
(***************************************************************************)
EXTENDS CpwTree, SequencesExt, Functions

RECURSIVE Partitions(_, _), PartitionsFrom(_, _)

\* Mutant: range(j, x // 2), one candidate first part short.
PartitionsFromShort(x, j) ==
  IF j >= x \div 2 THEN << >>
  ELSE LET rest == Partitions(x - j, j)
       IN [q \in 1 .. Len(rest) |-> <<j>> \o rest[q]] \o PartitionsFrom(x, j + 1)

\* for i in range(j, x // 2 + 1): for p in partitions(x - j, j): yield (j,)+p
PartitionsFrom(x, j) ==
  IF j > x \div 2 THEN << >>
  ELSE LET rest == Partitions(x - j, j)
       IN [q \in 1 .. Len(rest) |-> <<j>> \o rest[q]] \o PartitionsFrom(x, j + 1)

\* yield (n,) and then the partitions whose first part is at least I.
Partitions(x, I) == << <<x>> >> \o PartitionsFrom(x, I)

-----------------------------------------------------------------------------
\* The reference: the partitions of x into positive parts, each written
\* once with its parts in increasing order.
PartitionSet(x) ==
  {s \in BoundedSeq(1 .. x, x) :
     SumFunction(s) = x /\ \A j \in 1 .. Len(s) - 1 : s[j] <= s[j + 1]}

\* partitions(n, 1) yields every partition of n exactly once, as spec
\* section 8 asks of the exhaustive search: for the n = sum(ls) whose
\* partition the tree model is running on, none is missed or repeated.
PartitionsExact ==
  LET x == SumFunction(ls)
  IN /\ Range(Partitions(x, 1)) = PartitionSet(x)
     /\ IsInjective(Partitions(x, 1))

=============================================================================
