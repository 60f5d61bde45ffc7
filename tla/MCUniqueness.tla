---------------------------- MODULE MCUniqueness -----------------------------
(* Instances of UniquenessTCC.  Every mutation lives on one of two shards.  *)
EXTENDS UniquenessInv, TLC

CONSTANTS i1, i2, x1, v1, v2, s1, s2, c1, c2, c3, c4, d1, d2

(* Two inserts of the same value on different shards; a delete on the shard *)
(* of the first; one call each and a retry of the first insert.             *)
SameValue == [m \in Inserts |-> {v1}]
(* The second insert overlaps the first in one of two values.               *)
Overlap == [m \in Inserts |-> IF m = i1 THEN {v1, v2} ELSE {v2}]

TwoShards == [m \in Mutations |-> IF m = i2 THEN s2 ELSE s1]

OneCallEach == [c \in Calls |-> CASE c = c1 -> i1 [] c = c2 -> i2 [] OTHER -> x1]
RetryFirst == [c \in Calls |-> CASE c = c1 -> i1 [] c = c2 -> i2
                                 [] c = c3 -> x1 [] OTHER -> i1]

(* Recovery passes are interchangeable.                                    *)
Passes == Permutations(Drivers)
==============================================================================
