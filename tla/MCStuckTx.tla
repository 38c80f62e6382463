------------------------------ MODULE MCStuckTx ------------------------------
(* Small instances of StuckTx. *)
EXTENDS StuckTx, TLC

CONSTANTS t1, t2, c1, c2, p1, p2

EachItsReplica == c1 :> p1 @@ c2 :> p2
OneReplica == [c \in Calls |-> p1]

\* The provider of the second row's chain may be missing after a restart.
AllRows == {TxIds}
AllOrFirst == {TxIds, {t1}}
=============================================================================
