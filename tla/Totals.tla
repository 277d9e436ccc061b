------------------------------- MODULE Totals -------------------------------
(***************************************************************************)
(* The total of a family of sizes, as a number of units: unit <<i, k>> is  *)
(* the k-th of the i-th member.  What the running counts of the program    *)
(* (bytes in the job queue, frames in the audio queue) are compared with.  *)
(* Counting units avoids recursion, so theorems can speak about totals.    *)
(***************************************************************************)
EXTENDS Integers, FiniteSets

Units(size) == UNION {{i} \X (1..size[i]) : i \in DOMAIN size}

Total(size) == Cardinality(Units(size))
=============================================================================
