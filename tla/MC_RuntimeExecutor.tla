------------------------- MODULE MC_RuntimeExecutor -------------------------
(* Programs of the client sessions. *)
EXTENDS RuntimeExecutor

\* Two transactions per session, the first committed, the second aborted by
\* the client.
TwoTxns == <<"Begin", "Op", "Commit", "Begin", "Abort">>
\* One transaction per session.
OneTxn == <<"Begin", "Op", "Commit">>
====
