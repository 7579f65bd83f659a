--------------------------------- MODULE Sums ---------------------------------
(***************************************************************************)
(* Sums of sequences of numbers and selections from sequences, both as     *)
(* recursive functions on the prefixes of the sequence.                    *)
(***************************************************************************)
EXTENDS Integers, Sequences

(* PartialSums(s)[n]: the sum of the first n elements.                     *)
PartialSums(s) ==
  LET sum[n \in 0..Len(s)] == IF n = 0 THEN 0 ELSE sum[n-1] + s[n] IN sum

SumSeq(s) == PartialSums(s)[Len(s)]

(* The elements of s at the places in S, in their order.                   *)
Selections(s, S) ==
  LET some[n \in 0..Len(s)] == IF n = 0 THEN <<>>
                               ELSE IF n \in S THEN Append(some[n-1], s[n])
                                               ELSE some[n-1]
  IN some

Selected(s, S) == Selections(s, S)[Len(s)]
=============================================================================
