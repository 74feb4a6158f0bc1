------------------------- MODULE MC_AllAtOnceExecutor -------------------------
(* Programs of the client sessions. *)
EXTENDS AllAtOnceExecutor

\* Two transactions per session, the first committed, the second aborted by
\* the client.
TwoTxns == <<"Begin", "Op", "Commit", "Begin", "Abort">>
\* The same with a ReadDataStore in the first transaction.
TwoTxnsDs == <<"Begin", "Op", "ReadDataStore", "Commit", "Begin", "Abort">>
====
