------------------------------ MODULE FirstFree ------------------------------
(* First-fit allocation, by the bitmaps of the C++ tool and by the arrays   *)
(* of the dashboard: always the least index that is free.                   *)
EXTENDS Integers, FiniteSets

(* LeastOf(S) holds the one element a single allocation returns, and is     *)
(* empty when nothing is free.                                              *)
LeastOf(S) == {x \in S : \A y \in S : x <= y}

(* Lowest(S, n) holds the sequence n successive allocations return, if all  *)
(* n succeed.                                                               *)
Lowest(S, n) == LET low == {x \in S : Cardinality({y \in S : y < x}) < n}
                IN  {f \in [1 .. n -> low] :
                       \A i, j \in 1 .. n : i < j => f[i] < f[j]}

(* The elements of a finite set of numbers, in increasing order.            *)
Ascending(S) ==
  [k \in 1 .. Cardinality(S) |->
     CHOOSE x \in S : Cardinality({y \in S : y <= x}) = k]

=============================================================================
