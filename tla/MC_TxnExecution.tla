-------------------------- MODULE MC_TxnExecution ---------------------------
(* Instances of TxnExecution for TLC: two sessions and small programs.     *)
EXTENDS TxnExecution

CONSTANTS t1, t2, k1, k2

R(op, k) == [op |-> op, key |-> k]
B == R("Begin", NoKey)
C == R("Commit", NoKey)
A == R("Abort", NoKey)

\* Write skew: each reads both keys and updates the key the other only read.
WriteSkew == (t1 :> <<B, R("Read", k1), R("Read", k2), R("Update", k2), C>>)
          @@ (t2 :> <<B, R("Read", k1), R("Read", k2), R("Update", k1), C>>)

\* Two writers of one key, one inserting, one upserting then deleting.
InsertRace == (t1 :> <<B, R("Insert", k1), R("Read", k2), C>>)
           @@ (t2 :> <<B, R("Upsert", k1), R("Delete", k1), R("Read", k2), C>>)

\* A reader that gives up while a writer commits.
ReadAbort == (t1 :> <<B, R("Read", k1), R("Insert", k2), A>>)
          @@ (t2 :> <<B, R("Read", k2), R("Update", k2), R("Upsert", k1), C>>)

\* One session: Read then Upsert; Read then Insert; Insert alone.
ReadUpsert == t1 :> <<B, R("Read", k1), R("Upsert", k1), C>>
ReadInsert == t1 :> <<B, R("Read", k1), R("Insert", k1), C>>
InsertOnly == t1 :> <<B, R("Insert", k1), C>>
DoubleInsert == t1 :> <<B, R("Insert", k1), R("Insert", k1), C>>
=============================================================================
