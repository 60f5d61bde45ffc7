--------------------------- MODULE MCConstraintDrop ---------------------------
(* Instances of ConstraintDrop.                                             *)
EXTENDS ConstraintDrop

CONSTANTS v1, c1, c2, c3

(* Insert 2 is under the first incarnation, 3 under the second, both of one *)
(* value; 1 is a delete.                                                    *)
OneValue == [m \in Inserts |-> v1]
LastIsNew == [m \in Inserts |-> IF m = 3 THEN 2 ELSE 1]
InOrder == [c \in Calls |-> CASE c = c1 -> 1 [] c = c2 -> 2 [] OTHER -> 3]
==============================================================================
