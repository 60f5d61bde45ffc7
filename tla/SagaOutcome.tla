----------------------------- MODULE SagaOutcome -----------------------------
(***************************************************************************)
(* What a federated mutation promises its client: every shard of the       *)
(* mutation writes once and reports its rows, its statistics become        *)
(* visible, and only then the mutation is completed and calls of it are    *)
(* answered, all with the same total.  Nothing of dispatch, capture,       *)
(* retries or recovery is visible here: MutationSaga is shown to implement *)
(* this module.                                                            *)
(***************************************************************************)
EXTENDS Integers, FiniteSetsExt

CONSTANTS Mutations, Shards, Calls, KeyOf, Counts,
          Parts     \* Parts[m]: the shards of mutation m

VARIABLES rows,     \* rows[s][m]: what shard s reported for m
          shown,    \* pairs <<s, m>> whose statistics are visible
          total,    \* total[m]: the recorded total
          answer    \* answer[c]: what call c was told

ovars == <<rows, shown, total, answer>>

Unset == -1
Sum(m) == MapThenSumSet(LAMBDA s : rows[s][m], Parts[m])
AllShown(m) == \A s \in Parts[m] : <<s, m>> \in shown

Init ==
  /\ rows = [s \in Shards |-> [m \in Mutations |-> Unset]]
  /\ shown = {}
  /\ total = [m \in Mutations |-> Unset]
  /\ answer = [c \in Calls |-> Unset]

(* A shard writes its part and reports the rows, once and for all.          *)
Write(s, m) ==
  /\ s \in Parts[m] /\ rows[s][m] = Unset
  /\ \E n \in Counts : rows' = [rows EXCEPT ![s][m] = n]
  /\ UNCHANGED <<shown, total, answer>>

(* Statistics of parts that were written become visible.                    *)
Show(s, M) ==
  /\ \A m \in M : rows[s][m] # Unset
  /\ shown' = shown \cup {<<s, m>> : m \in M}
  /\ UNCHANGED <<rows, total, answer>>

Complete(m) ==
  /\ total[m] = Unset /\ AllShown(m)
  /\ total' = [total EXCEPT ![m] = Sum(m)]
  /\ UNCHANGED <<rows, shown, answer>>

(* A call is answered with the total, which is on record by then.           *)
Reply(c) ==
  /\ answer[c] = Unset /\ AllShown(KeyOf[c])
  /\ total' = [total EXCEPT ![KeyOf[c]] = Sum(KeyOf[c])]
  /\ answer' = [answer EXCEPT ![c] = Sum(KeyOf[c])]
  /\ UNCHANGED <<rows, shown>>

Next ==
  \/ \E s \in Shards : \E M \in SUBSET Mutations : Show(s, M)
  \/ \E s \in Shards : \E m \in Mutations : Write(s, m)
  \/ \E m \in Mutations : Complete(m)
  \/ \E c \in Calls : Reply(c)

Spec == Init /\ [][Next]_ovars
==============================================================================
