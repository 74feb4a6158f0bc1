--------------------------- MODULE CommittedStore ---------------------------
(***************************************************************************)
(* What the commit protocol promises of the version store, seen from the   *)
(* outside: the committed history of each key only grows, and a           *)
(* transaction's writes join it all at once, when the transaction commits. *)
(* kv[k] lists the writers of the committed versions of k, oldest first;   *)
(* committed is the set of committed transactions.                        *)
(***************************************************************************)
EXTENDS Sequences

CONSTANTS Keys, TxIds

VARIABLES kv, committed

Init ==
    /\ kv = [k \in Keys |-> <<>>]
    /\ committed = {}

\* t commits: its writes, one version on each key of W, appear together.
Commit(t) ==
    /\ t \notin committed
    /\ committed' = committed \cup {t}
    /\ \E W \in SUBSET Keys :
          kv' = [k \in Keys |-> IF k \in W THEN Append(kv[k], t) ELSE kv[k]]

Next == \E t \in TxIds : Commit(t)

Spec == Init /\ [][Next]_<<kv, committed>>
=============================================================================
