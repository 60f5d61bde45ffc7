----------------------------- MODULE UniqueIndex -----------------------------
(***************************************************************************)
(* What a UNIQUE constraint promises its users: an index from values to    *)
(* the one element that holds each of them.  An insert takes all its       *)
(* values in one step, and only values nobody holds; a delete or a         *)
(* property removal gives values up.  Nothing of the reservation protocol  *)
(* is visible here: UniquenessTCC is shown to implement this module.       *)
(***************************************************************************)
CONSTANTS Elements, Values, Claims

VARIABLES held,   \* pairs <<element, value>>
          born    \* elements that have been inserted

ivars == <<held, born>>

Init == held = {} /\ born = {}

Insert(e) ==
  /\ e \notin born
  /\ \A v \in Claims[e], o \in Elements : <<o, v>> \notin held
  /\ held' = held \cup {<<e, v>> : v \in Claims[e]}
  /\ born' = born \cup {e}

Remove(R) ==
  /\ held' = held \ R
  /\ UNCHANGED born

Next ==
  \/ \E e \in Elements : Insert(e)
  \/ \E R \in SUBSET held : Remove(R)

Spec == Init /\ [][Next]_ivars
==============================================================================
