----------------------------- MODULE MCExecution -----------------------------
(* Small instances of Execution. *)
EXTENDS Execution, TLC

CONSTANTS t1, t2, c1, c2, p1, p2, w1

OneWallet == [t \in TxIds |-> w1]
TwoReplicas == c1 :> p1 @@ c2 :> p2
OneReplica == c1 :> p1 @@ c2 :> p1
FreshWallets == [w \in Wallets |-> 0]
UsedWallets == [w \in Wallets |-> 1]
=============================================================================
