---------------------------- MODULE MCDerivedIndex ----------------------------
(* Instances of DerivedIndex for TLC: what each call writes.                *)
EXTENDS DerivedIndex

CONSTANTS p1, p2, s1

(* A posting, a vector, and another posting.                                *)
OneEach == [c \in Calls |-> CASE c = 1 -> {p1} [] c = 2 -> {s1} [] OTHER -> {p2}]
Everything == [c \in Calls |-> Postings \cup Subjects]
==============================================================================
