---------------------------- MODULE MCMutationSaga ----------------------------
(* Instances of MutationSaga: one mutation on both shards, one on the first.*)
EXTENDS MutationSaga, TLC

CONSTANTS m1, m2, s1, s2, c1, c2, c3

BothAndFirst == [m \in Mutations |-> IF m = m1 THEN <<s1, s2>> ELSE <<s1>>]
RetryOfFirst == [c \in Calls |-> IF c = c3 THEN m2 ELSE m1]

(* c1 and c2 are two attempts of one client key.                            *)
Attempts == Permutations({c1, c2})
===============================================================================
