---------------------------- MODULE StuckTxProofs ----------------------------
(***************************************************************************)
(* Proofs about StuckTx with one replica: its tick and its requests share  *)
(* an event loop, which is what makes a load and the commit that rests on  *)
(* it fit together.  With two replicas the theorems about the rows fail.   *)
(***************************************************************************)
EXTENDS StuckTx, TLAPS

OneReplica == \A p, q \in Procs : p = q

-----------------------------------------------------------------------------
(* The inductive invariant *)

\* A locked row is stuck and its holder awaits the node.
LockShape ==
    /\ \A t \in TxIds : lock[t] # Null => cpc[lock[t]] = "send" /\ row[lock[t]] = t
    /\ \A c \in Calls :
          /\ cpc[c] # "idle" => row[c] \in TxIds /\ kind[c] \in AllKinds
          /\ cpc[c] = "send" => lock[row[c]] = c /\ status[row[c]] = "stuck"

\* A request that has to claim and a worker that has to commit do not coexist.
LoopExclusive ==
    \A c \in Calls, w \in Procs : cpc[c] = "claim" => wpc[w] \notin WorkerSync

\* A row is replaced after it was stuck, and stuck once at most.
RowShape ==
    \A t \in TxIds :
        /\ ~stuckAt[t] => hash[t] = "orig"
        /\ status[t] = "stuck" => stuckAt[t] /\ hash[t] = "orig"

\* Rows a tick has still to poll are as it loaded them.
TodoShape(w) ==
    \A t \in todo[w] :
        /\ loaded[w][t][1] = hash[t]
        /\ \/ wpc[w] \in {"receipt", "tip"} /\ status[t] = "broadcast"
           \/ /\ wpc[w] = "recheck" /\ status[t] = "executed"
              /\ loaded[w][t][2] = block[t]

\* Between the two reads: the row is still to be decided, its receipt valid.
PolledShape(w) ==
    wpc[w] = "tip" =>
        \E t \in todo[w], b \in Heights :
            polled[w] = <<t, b>> /\ (reorgs = 0 => incl[t][hash[t]] = b)

\* What the tick is going to write is still true of the rows it writes.
FoundShape(w) ==
    \A t \in Hits(w) :
        \/ /\ wpc[w] \in {"receipt", "tip", "commit"} /\ status[t] = "broadcast"
           /\ reorgs = 0 => /\ incl[t][hash[t]] = found[w][t]
                            /\ height - found[w][t] >= Conf
        \/ wpc[w] \in {"recheck", "watchCommit"} /\ status[t] = "executed" /\ reorgs > 0
        \/ wpc[w] = "flagCommit" /\ status[t] = "broadcast" /\ ~stuckAt[t]

WorkerShape == \A w \in Procs : TodoShape(w) /\ PolledShape(w) /\ FoundShape(w)

Inv ==
    /\ TypeOK /\ LockShape /\ LoopExclusive
    /\ RowShape /\ WorkerShape /\ ExecutedIsConfirmed

-----------------------------------------------------------------------------
(* Types and locks, for any number of replicas *)

LEMMA TypePreserved ==
    ASSUME TypeOK, LockShape, WorkerShape, [Next]_vars
    PROVE  TypeOK'
<1> DEFINE Pcs == WorkerSync \cup WorkerAwait
           Held == AllKinds \X (Heights \cup {Null})
<1> USE StuckConstants DEF TypeOK, rowVars, chainVars, workerVars, callVars, envVars
<1>a. {"idle", "receipt", "tip", "commit", "watch", "recheck", "watchCommit",
       "flag", "flagCommit"} \subseteq Pcs
  BY DEF WorkerSync, WorkerAwait
<1>b. Nothing \in [TxIds -> Heights \cup {Null}]
  BY DEF Nothing
<1>c. \A S \in SUBSET TxIds : \A t \in TxIds : S \ {t} \in SUBSET TxIds
  OBVIOUS
<1> HIDE DEF Pcs
<1>1. ASSUME NEW w \in Procs, ConfirmLoad(w) \/ WatchLoad(w) PROVE TypeOK'
  <2>1. PICK S \in SUBSET TxIds, n \in {"receipt", "recheck"}, z \in {"watch", "flag"} :
            Load(w, S, n, z)
    BY <1>1 DEF ConfirmLoad, WatchLoad, Batches
  <2>2. [t \in TxIds |-> IF t \in S THEN <<hash[t], block[t]>> ELSE loaded[w][t]]
            \in [TxIds -> Held]
    OBVIOUS
  <2>3. loaded' \in [Procs -> [TxIds -> Held]]
    BY <2>1, <2>2 DEF Load
  <2>4. wpc' \in [Procs -> Pcs] /\ todo' \in [Procs -> SUBSET TxIds]
    BY <2>1, <1>a DEF Load, Pcs
  <2> QED
    BY <1>1, <2>3, <2>4 DEF ConfirmLoad, WatchLoad, Pcs
<1>2. ASSUME NEW w \in Procs, NEW t \in TxIds,
             ConfirmReceipt(w, t) \/ ConfirmError(w, t) \/ WatchReceipt(w, t) \/ WatchError(w, t)
      PROVE  TypeOK'
  <2>1. \A n, z \in {"receipt", "recheck", "commit", "watchCommit"} : Polled(w, t, n, z) =>
            wpc' \in [Procs -> Pcs] /\ todo' \in [Procs -> SUBSET TxIds]
    BY <1>a, <1>c DEF Polled, Pcs
  <2>2. CASE ConfirmReceipt(w, t)
    <3> DEFINE b == incl[t][loaded[w][t][1]]
    <3>1. b \in Heights \cup {Null}
      OBVIOUS
    <3>2. CASE b = Null
      <4>1. Polled(w, t, "receipt", "commit") /\ UNCHANGED polled
        BY <2>2, <3>2 DEF ConfirmReceipt
      <4>2. wpc' \in [Procs -> Pcs] /\ todo' \in [Procs -> SUBSET TxIds]
        BY <2>1, <4>1
      <4> QED
        BY <2>2, <4>1, <4>2 DEF ConfirmReceipt, Pcs
    <3>3. CASE b # Null
      <4>1. /\ polled' = [polled EXCEPT ![w] = <<t, b>>]
            /\ wpc' = [wpc EXCEPT ![w] = "tip"]
            /\ UNCHANGED todo
        BY <2>2, <3>3 DEF ConfirmReceipt
      <4>2. <<t, b>> \in TxIds \X Heights
        BY <3>1, <3>3
      <4>3. polled' \in [Procs -> (TxIds \X Heights) \cup {Null}]
        BY <4>1, <4>2
      <4>4. wpc' \in [Procs -> Pcs]
        BY <4>1, <1>a DEF Pcs
      <4> QED
        BY <2>2, <4>1, <4>3, <4>4 DEF ConfirmReceipt, Pcs
    <3> QED
      BY <3>2, <3>3
  <2>3. CASE ConfirmError(w, t)
    BY <2>1, <2>3 DEF ConfirmError, Pcs
  <2>4. CASE WatchReceipt(w, t)
    BY <2>1, <2>4 DEF WatchReceipt, Pcs
  <2>5. CASE WatchError(w, t)
    BY <2>1, <2>5 DEF WatchError, Pcs
  <2> QED
    BY <1>2, <2>2, <2>3, <2>4, <2>5
<1>3. ASSUME NEW w \in Procs, ConfirmTip(w) PROVE TypeOK'
  <2>1. PICK t \in todo[w], b \in Heights : polled[w] = <<t, b>>
    BY <1>3 DEF ConfirmTip, WorkerShape, PolledShape
  <2>2. wpc' \in [Procs -> Pcs] /\ todo' \in [Procs -> SUBSET TxIds]
    BY <1>3, <2>1, <1>a, <1>c DEF ConfirmTip, Polled, Pcs
  <2>3. found' \in [Procs -> [TxIds -> Heights \cup {Null}]]
    BY <1>3, <2>1 DEF ConfirmTip
  <2> QED
    BY <1>3, <2>2, <2>3 DEF ConfirmTip, Pcs
<1>4. ASSUME NEW w \in Procs, ConfirmCommit(w) \/ WatchCommit(w) \/ FlagCommit(w)
      PROVE  TypeOK'
  <2>1. PICK n \in {"watch", "flag", "idle"} :
            wpc' = [wpc EXCEPT ![w] = n] /\ found' = [found EXCEPT ![w] = Nothing]
    BY <1>4 DEF ConfirmCommit, WatchCommit, FlagCommit
  <2>2. wpc' \in [Procs -> Pcs]
    BY <2>1, <1>a DEF Pcs
  <2>3. found' \in [Procs -> [TxIds -> Heights \cup {Null}]]
    BY <2>1, <1>b
  <2>4. /\ status' \in [TxIds -> {"broadcast", "broadcasting", "executed", "stuck", "reorged"}]
        /\ stuckAt' \in [TxIds -> BOOLEAN]
    <3>1. CASE ConfirmCommit(w)
      BY <3>1 DEF ConfirmCommit
    <3>2. CASE WatchCommit(w)
      BY <3>2 DEF WatchCommit
    <3>3. CASE FlagCommit(w)
      BY <3>3 DEF FlagCommit
    <3> QED
      BY <1>4, <3>1, <3>2, <3>3
  <2>5. block' \in [TxIds -> Heights \cup {Null}]
    <3>1. CASE ConfirmCommit(w)
      <4>1. \A t \in TxIds : found[w][t] \in Heights \cup {Null}
        OBVIOUS
      <4> QED
        BY <3>1, <4>1 DEF ConfirmCommit
    <3> QED
      BY <1>4, <3>1 DEF WatchCommit, FlagCommit
  <2> QED
    BY <1>4, <2>2, <2>3, <2>4, <2>5 DEF ConfirmCommit, WatchCommit, FlagCommit, Pcs
<1>5. ASSUME NEW w \in Procs, FlagLoad(w) PROVE TypeOK'
  <2>1. wpc' \in [Procs -> Pcs] /\ found' \in [Procs -> [TxIds -> Heights \cup {Null}]]
    BY <1>5, <1>a DEF FlagLoad, Batches, Pcs
  <2> QED
    BY <1>5, <2>1 DEF FlagLoad, Pcs
<1>13. ASSUME NEW w \in Procs, TickAborted(w)
       PROVE  /\ wpc' \in [Procs -> Pcs] /\ todo' \in [Procs -> SUBSET TxIds]
              /\ polled' \in [Procs -> (TxIds \X Heights) \cup {Null}]
              /\ found' \in [Procs -> [TxIds -> Heights \cup {Null}]]
  BY <1>13, <1>a, <1>b DEF TickAborted, Pcs
<1>14. ASSUME NEW w \in Procs, TickFails(w) \/ \E t \in TxIds : NoProvider(w, t)
       PROVE  TypeOK'
  BY <1>13, <1>14 DEF TickFails, NoProvider, Pcs
<1>6. ASSUME NEW c \in Calls, Replace(c) PROVE TypeOK'
  <2> USE DEF CallSync, CallAwait
  <2>1. CASE ReplaceScreened(c) \/ ReplaceLost(c)
    <3>1. \/ cpc' = [cpc EXCEPT ![c] = "claim"] /\ UNCHANGED <<row, kind>>
          \/ Done(c)
      BY <2>1 DEF ReplaceScreened, ReplaceLost
    <3>2. /\ cpc' \in [Calls -> CallSync \cup CallAwait]
          /\ row' \in [Calls -> TxIds \cup {Null}]
          /\ kind' \in [Calls -> AllKinds \cup {Null}]
      BY <3>1 DEF Done
    <3>3. UNCHANGED <<rowVars, chainVars, workerVars, envVars>>
      BY <2>1 DEF ReplaceScreened, ReplaceLost
    <3> QED
      BY <3>2, <3>3
  <2>2. CASE ReplaceClaim(c)
    <3>1. row[c] \in TxIds /\ kind[c] \in AllKinds
      BY <2>2 DEF ReplaceClaim, LockShape
    <3>2. posted' \in [TxIds -> SUBSET AllKinds]
      <4>1. posted[row[c]] \cup {kind[c]} \in SUBSET AllKinds
        BY <3>1
      <4>2. [posted EXCEPT ![row[c]] = posted[row[c]] \cup {kind[c]}]
                \in [TxIds -> SUBSET AllKinds]
        BY <4>1
      <4> QED
        BY <2>2, <4>1, <4>2 DEF ReplaceClaim, Post
    <3> QED
      BY <2>2, <3>1, <3>2 DEF ReplaceClaim
  <2>3. CASE ReplaceNoChain(c)
    BY <2>3 DEF ReplaceNoChain, CommitClaim, Done
  <2>4. CASE ReplaceError(c)
    BY <2>4 DEF ReplaceError, CommitClaim, Done
  <2>5. CASE ReplaceOk(c)
    <3>1. kind[c] \in AllKinds
      BY <2>5 DEF ReplaceOk, LockShape
    <3> QED
      BY <2>5, <3>1 DEF ReplaceOk, Done
  <2> QED
    BY <1>6, <2>1, <2>2, <2>3, <2>4, <2>5 DEF Replace
<1>7. ASSUME NEW c \in Calls, NEW t \in TxIds, NEW k \in Kinds,
             NEW mode \in {"rbf", "cancel"}, ReplaceLoad(c, t, mode, k)
      PROVE  TypeOK'
  BY <1>7 DEF ReplaceLoad, CallSync, CallAwait
<1>8. ASSUME NEW t \in TxIds, NEW k \in AllKinds \cup {Null}, NewBlock(t, k) PROVE TypeOK'
  <2>1. height + 1 \in Heights
    BY <1>8 DEF NewBlock, Heights
  <2>2. incl' \in [TxIds -> [AllKinds -> Heights \cup {Null}]]
    <3>1. CASE UNCHANGED incl
      BY <3>1
    <3>2. CASE k \in posted[t] /\ incl' = [incl EXCEPT ![t][k] = height + 1]
      <4>1. k \in AllKinds
        BY <3>2
      <4>2. [incl[t] EXCEPT ![k] = height + 1] \in [AllKinds -> Heights \cup {Null}]
        BY <2>1, <4>1
      <4> QED
        BY <3>2, <4>2
    <3> QED
      BY <1>8, <3>1, <3>2 DEF NewBlock
  <2> QED
    BY <1>8, <2>1, <2>2 DEF NewBlock
<1>9. ASSUME NEW t \in TxIds, NEW k \in AllKinds, Reorg(t, k) PROVE TypeOK'
  BY <1>9 DEF Reorg
<1>10. ASSUME NEW p \in Procs, Crash(p) PROVE TypeOK'
  <2>1. /\ wpc' \in [Procs -> Pcs] /\ todo' \in [Procs -> SUBSET TxIds]
        /\ polled' \in [Procs -> (TxIds \X Heights) \cup {Null}]
        /\ found' \in [Procs -> [TxIds -> Heights \cup {Null}]]
    BY <1>10, <1>13 DEF Crash
  <2>2. /\ cpc' \in [Calls -> CallSync \cup CallAwait]
        /\ row' \in [Calls -> TxIds \cup {Null}]
        /\ kind' \in [Calls -> AllKinds \cup {Null}]
        /\ lock' \in [TxIds -> Calls \cup {Null}]
    BY <1>10 DEF Crash, CallSync, CallAwait
  <2>3. configured' \in [Procs -> Configs] /\ crashes' \in 0..MaxCrashes
    BY <1>10 DEF Crash
  <2> QED
    BY <1>10, <2>1, <2>2, <2>3 DEF Crash, Pcs
<1>11. CASE UNCHANGED vars
  BY <1>11 DEF vars
<1>12. ASSUME NEW w \in Procs, Tick(w) PROVE TypeOK'
  BY <1>1, <1>2, <1>3, <1>4, <1>5, <1>12, <1>14 DEF Tick, Poll
<1> QED
  BY <1>6, <1>7, <1>8, <1>9, <1>10, <1>11, <1>12, <1>14 DEF Next

LEMMA LockPreserved ==
    ASSUME TypeOK, LockShape, [Next]_vars
    PROVE  LockShape'
<1> USE StuckConstants
    DEF LockShape, rowVars, chainVars, workerVars, callVars, envVars
<1>a. /\ lock \in [TxIds -> Calls \cup {Null}] /\ status \in [TxIds -> {"broadcast",
             "broadcasting", "executed", "stuck", "reorged"}]
      /\ DOMAIN cpc = Calls /\ DOMAIN row = Calls /\ DOMAIN kind = Calls
      /\ cpc = [c \in Calls |-> cpc[c]] /\ row = [c \in Calls |-> row[c]]
      /\ kind = [c \in Calls |-> kind[c]]
  BY DEF TypeOK
<1>1. ASSUME NEW w \in Procs, ConfirmCommit(w) \/ WatchCommit(w) \/ FlagCommit(w)
      PROVE  LockShape'
  <2>1. \A t \in TxIds : lock[t] # Null => status'[t] = status[t]
    BY <1>a, <1>1 DEF ConfirmCommit, WatchCommit, FlagCommit, Free, Hits
  <2>2. UNCHANGED <<lock, cpc, row, kind>>
    BY <1>a, <1>1 DEF ConfirmCommit, WatchCommit, FlagCommit
  <2>3. \A c \in Calls : cpc[c] = "send" => row[c] \in TxIds /\ lock[row[c]] # Null
    BY <1>a
  <2>4. \A c \in Calls : cpc[c] = "send" => status'[row[c]] = "stuck"
    BY <2>1, <2>3
  <2> QED
    BY <2>2, <2>4
<1>2. ASSUME NEW c \in Calls, ReplaceScreened(c) \/ ReplaceLost(c) PROVE LockShape'
  <2>1. cpc[c] \in {"screen", "claim"} /\ UNCHANGED <<status, lock>>
    BY <1>a, <1>2 DEF ReplaceScreened, ReplaceLost
  <2>2. \/ cpc' = [cpc EXCEPT ![c] = "claim"] /\ UNCHANGED <<row, kind>>
        \/ Done(c)
    BY <1>a, <1>2 DEF ReplaceScreened, ReplaceLost
  <2>3. \A d \in Calls \ {c} : cpc'[d] = cpc[d] /\ row'[d] = row[d] /\ kind'[d] = kind[d]
    BY <1>a, <2>2 DEF Done
  <2>4. cpc'[c] = "idle" \/ (cpc'[c] = "claim" /\ row'[c] = row[c] /\ kind'[c] = kind[c])
    BY <1>a, <2>2 DEF Done
  <2>5. \A t \in TxIds : lock'[t] # Null => cpc'[lock'[t]] = "send" /\ row'[lock'[t]] = t
    <3> SUFFICES ASSUME NEW t \in TxIds, lock[t] # Null
                 PROVE  cpc'[lock[t]] = "send" /\ row'[lock[t]] = t
      BY <2>1
    <3>1. lock[t] \in Calls
      BY <1>a
    <3>2. cpc[lock[t]] = "send" /\ row[lock[t]] = t
      OBVIOUS
    <3>3. lock[t] # c
      BY <2>1, <3>2
    <3> QED
      BY <2>3, <3>1, <3>2, <3>3
  <2>6. \A d \in Calls : cpc'[d] # "idle" => row'[d] \in TxIds /\ kind'[d] \in AllKinds
    BY <1>a, <2>1, <2>3, <2>4
  <2>7. \A d \in Calls :
            cpc'[d] = "send" => lock'[row'[d]] = d /\ status'[row'[d]] = "stuck"
    BY <1>a, <2>1, <2>3, <2>4
  <2> QED
    BY <2>5, <2>6, <2>7
<1>3. ASSUME NEW c \in Calls, ReplaceClaim(c) PROVE LockShape'
  <2>1. /\ cpc[c] = "claim" /\ row[c] \in TxIds /\ kind[c] \in AllKinds
        /\ lock[row[c]] = Null /\ status[row[c]] = "stuck"
        /\ lock' = [lock EXCEPT ![row[c]] = c] /\ cpc' = [cpc EXCEPT ![c] = "send"]
        /\ UNCHANGED <<row, kind, status>>
    BY <1>a, <1>3 DEF ReplaceClaim
  <2>2. lock'[row[c]] = c /\ \A t \in TxIds \ {row[c]} : lock'[t] = lock[t]
    BY <1>a, <2>1
  <2>3. cpc'[c] = "send" /\ \A d \in Calls \ {c} : cpc'[d] = cpc[d]
    BY <1>a, <2>1
  <2>4. ASSUME NEW t \in TxIds, lock'[t] # Null
        PROVE  cpc'[lock'[t]] = "send" /\ row'[lock'[t]] = t
    <3>1. CASE t = row[c]
      BY <2>1, <2>2, <2>3, <3>1
    <3>2. CASE t # row[c]
      <4>1. lock'[t] = lock[t] /\ lock[t] \in Calls
        BY <1>a, <2>2, <2>4, <3>2
      <4>2. lock[t] # c
        BY <2>1, <2>4, <4>1
      <4> QED
        BY <2>1, <2>3, <2>4, <4>1, <4>2
    <3> QED
      BY <3>1, <3>2
  <2>5. \A d \in Calls : cpc'[d] # "idle" => row'[d] \in TxIds /\ kind'[d] \in AllKinds
    BY <2>1, <2>3
  <2>6. ASSUME NEW d \in Calls, cpc'[d] = "send"
        PROVE  lock'[row'[d]] = d /\ status'[row'[d]] = "stuck"
    <3>1. CASE d = c
      BY <2>1, <2>2, <3>1
    <3>2. CASE d # c
      <4>1. cpc[d] = "send" /\ lock[row[d]] = d /\ row[d] \in TxIds
        BY <2>3, <2>6, <3>2
      <4>2. row[d] # row[c]
        BY <2>1, <4>1
      <4> QED
        BY <2>1, <2>2, <4>1, <4>2
    <3> QED
      BY <3>1, <3>2
  <2> QED
    BY <2>4, <2>5, <2>6
<1>4. ASSUME NEW c \in Calls, ReplaceNoChain(c) \/ ReplaceError(c) \/ ReplaceOk(c)
      PROVE  LockShape'
  <2>1. cpc[c] # "idle" /\ row[c] \in TxIds /\ Done(c)
    BY <1>a, <1>4 DEF ReplaceNoChain, ReplaceError, ReplaceOk
  <2>2. \A t \in TxIds \ {row[c]} : status'[t] = status[t] /\ lock'[t] = lock[t]
    BY <1>a, <1>4, <2>1 DEF ReplaceNoChain, ReplaceError, ReplaceOk, CommitClaim
  <2>3. lock'[row[c]] = Null
    BY <1>a, <1>4, <2>1 DEF ReplaceNoChain, ReplaceError, ReplaceOk
  <2>4. /\ cpc'[c] = "idle"
        /\ \A d \in Calls \ {c} : cpc'[d] = cpc[d] /\ row'[d] = row[d] /\ kind'[d] = kind[d]
    BY <1>a, <2>1 DEF Done
  <2>5. \A d \in Calls \ {c} : cpc[d] = "send" => row[d] # row[c]
    BY <1>a, <1>4, <2>1 DEF ReplaceNoChain, ReplaceError, ReplaceOk
  <2>6. \A t \in TxIds \ {row[c]} : lock[t] # c
    BY <1>a, <2>1
  <2>7. \A t \in TxIds : lock'[t] # Null => cpc'[lock'[t]] = "send" /\ row'[lock'[t]] = t
    <3> SUFFICES ASSUME NEW t \in TxIds, lock'[t] # Null
                 PROVE  cpc'[lock'[t]] = "send" /\ row'[lock'[t]] = t
      OBVIOUS
    <3>1. t # row[c] /\ lock'[t] = lock[t]
      BY <2>2, <2>3
    <3>2. lock[t] \in Calls \ {c}
      BY <1>a, <2>6, <3>1
    <3> QED
      BY <2>4, <3>1, <3>2
  <2>8. \A d \in Calls : cpc'[d] # "idle" => row'[d] \in TxIds /\ kind'[d] \in AllKinds
    BY <1>a, <2>4
  <2>9. \A d \in Calls :
            cpc'[d] = "send" => lock'[row'[d]] = d /\ status'[row'[d]] = "stuck"
    BY <1>a, <2>2, <2>4, <2>5
  <2> QED
    BY <2>7, <2>8, <2>9
<1>6. ASSUME NEW c \in Calls, NEW t \in TxIds, NEW k \in Kinds,
             NEW mode \in {"rbf", "cancel"}, ReplaceLoad(c, t, mode, k)
      PROVE  LockShape'
  <2>1. /\ cpc[c] = "idle" /\ UNCHANGED <<status, lock>>
        /\ cpc'[c] = "screen" /\ row'[c] = t /\ kind'[c] = k /\ k \in AllKinds
        /\ \A d \in Calls \ {c} : cpc'[d] = cpc[d] /\ row'[d] = row[d] /\ kind'[d] = kind[d]
    BY <1>a, <1>6 DEF ReplaceLoad
  <2>2. ASSUME NEW u \in TxIds, lock[u] # Null
        PROVE  cpc'[lock[u]] = "send" /\ row'[lock[u]] = u
    <3>1. lock[u] \in Calls
      BY <1>a, <2>2
    <3>2. cpc[lock[u]] = "send" /\ row[lock[u]] = u
      BY <2>2
    <3>3. lock[u] # c
      BY <2>1, <3>2
    <3> QED
      BY <2>1, <3>1, <3>2, <3>3
  <2>3. ASSUME NEW d \in Calls
        PROVE  /\ cpc'[d] # "idle" => row'[d] \in TxIds /\ kind'[d] \in AllKinds
               /\ cpc'[d] = "send" => lock[row'[d]] = d /\ status[row'[d]] = "stuck"
    <3>1. CASE d = c
      BY <2>1, <3>1
    <3>2. CASE d # c
      BY <2>1, <3>2
    <3> QED
      BY <3>1, <3>2
  <2> QED
    BY <2>1, <2>2, <2>3
<1>7. ASSUME NEW p \in Procs, Crash(p) PROVE LockShape'
  <2>1. /\ cpc' = [c \in Calls |-> IF Proc[c] = p THEN "idle" ELSE cpc[c]]
        /\ row' = [c \in Calls |-> IF Proc[c] = p THEN Null ELSE row[c]]
        /\ kind' = [c \in Calls |-> IF Proc[c] = p THEN Null ELSE kind[c]]
        /\ lock' = [t \in TxIds |-> IF lock[t] # Null /\ Proc[lock[t]] = p
                                    THEN Null ELSE lock[t]]
        /\ UNCHANGED status
    BY <1>7 DEF Crash
  <2>2. ASSUME NEW t \in TxIds, lock'[t] # Null
        PROVE  cpc'[lock'[t]] = "send" /\ row'[lock'[t]] = t
    <3>1. lock'[t] = lock[t] /\ lock[t] \in Calls /\ Proc[lock[t]] # p
      BY <1>a, <2>1, <2>2
    <3> QED
      BY <2>1, <2>2, <3>1
  <2>3. ASSUME NEW d \in Calls, cpc'[d] # "idle"
        PROVE  cpc'[d] = cpc[d] /\ row'[d] = row[d] /\ kind'[d] = kind[d] /\ Proc[d] # p
    BY <2>1, <2>3
  <2>4. ASSUME NEW d \in Calls, cpc'[d] = "send"
        PROVE  lock'[row'[d]] = d /\ status'[row'[d]] = "stuck"
    <3>1. cpc[d] = "send" /\ row'[d] = row[d] /\ Proc[d] # p
      BY <2>3, <2>4
    <3> QED
      BY <2>1, <3>1
  <2> QED
    BY <2>2, <2>3, <2>4
<1>8. CASE UNCHANGED <<status, lock, callVars>>
  BY <1>8
<1>9. ASSUME NEW w \in Procs, Tick(w) PROVE LockShape'
  BY <1>1, <1>8, <1>9
     DEF Tick, Poll, ConfirmLoad, ConfirmReceipt, ConfirmTip, ConfirmError,
         WatchLoad, WatchReceipt, WatchError, NoProvider, FlagLoad
<1>10. ASSUME NEW c \in Calls, Replace(c) PROVE LockShape'
  BY <1>2, <1>3, <1>4, <1>10 DEF Replace
<1>11. ASSUME NEW t \in TxIds, NEW k \in AllKinds \cup {Null}, NewBlock(t, k) \/ Reorg(t, k)
       PROVE  LockShape'
  BY <1>8, <1>11 DEF NewBlock, Reorg
<1> QED
  BY <1>6, <1>7, <1>8, <1>9, <1>10, <1>11 DEF Next, TickFails, vars

LEMMA LoopPreserved ==
    ASSUME TypeOK, LockShape, LoopExclusive, OneReplica, [Next]_vars
    PROVE  LoopExclusive'
<1> USE StuckConstants DEF LoopExclusive, rowVars, chainVars, workerVars, callVars, envVars
<1>a. /\ cpc = [c \in Calls |-> cpc[c]] /\ wpc = [w \in Procs |-> wpc[w]]
  BY DEF TypeOK
<1>b. \A w \in Procs, c \in Calls : Proc[c] = w
  BY DEF OneReplica
<1>1. ASSUME NEW w \in Procs, Tick(w) PROVE LoopExclusive'
  <2>1. \A c \in Calls : cpc[c] = "claim" => ~Tick(w)
    BY <1>b DEF Tick, Poll, ConfirmLoad, ConfirmReceipt, ConfirmTip, ConfirmError,
       ConfirmCommit, WatchLoad, WatchReceipt, WatchError, NoProvider, WatchCommit, FlagLoad, FlagCommit,
       Busy, CallSync, WorkerSync
  <2>2. UNCHANGED cpc
    BY <1>1 DEF Tick, Poll, ConfirmLoad, ConfirmReceipt, ConfirmTip, ConfirmError,
       ConfirmCommit, WatchLoad, WatchReceipt, WatchError, NoProvider, WatchCommit, FlagLoad, FlagCommit
  <2> QED
    BY <1>1, <2>1, <2>2
<1>2. ASSUME NEW c \in Calls, Replace(c) PROVE LoopExclusive'
  <2>1. UNCHANGED wpc
    BY <1>2 DEF Replace, ReplaceScreened, ReplaceClaim, ReplaceLost, ReplaceNoChain,
                ReplaceError, ReplaceOk
  <2>2. \A d \in Calls \ {c} : cpc'[d] = cpc[d]
    BY <1>2, <1>a DEF Replace, ReplaceScreened, ReplaceClaim, ReplaceLost, ReplaceNoChain,
                ReplaceError, ReplaceOk, Done
  <2>3. CASE ReplaceScreened(c)
    <3>1. \A w \in Procs : wpc[w] \notin WorkerSync
      BY <2>3, <1>b DEF ReplaceScreened, Busy
    <3> QED
      BY <2>1, <3>1
  <2>4. CASE ~ReplaceScreened(c)
    <3>1. cpc'[c] # "claim"
      BY <1>2, <1>a, <2>4 DEF Replace, ReplaceClaim, ReplaceLost, ReplaceNoChain,
                ReplaceError, ReplaceOk, Done
    <3> QED
      BY <2>1, <2>2, <3>1
  <2> QED
    BY <2>3, <2>4
<1>3. ASSUME NEW c \in Calls, NEW t \in TxIds, NEW k \in Kinds,
             NEW mode \in {"rbf", "cancel"}, ReplaceLoad(c, t, mode, k)
      PROVE  LoopExclusive'
  BY <1>3, <1>a DEF ReplaceLoad
<1>4. ASSUME NEW t \in TxIds, NEW k \in AllKinds \cup {Null}, NewBlock(t, k) \/ Reorg(t, k)
      PROVE  LoopExclusive'
  BY <1>4 DEF NewBlock, Reorg
<1>5. ASSUME NEW p \in Procs, Crash(p) PROVE LoopExclusive'
  <2>1. \A c \in Calls : cpc'[c] = "claim" => cpc[c] = "claim" /\ Proc[c] # p
    BY <1>5 DEF Crash
  <2> QED
    BY <1>b, <2>1
<1>6. CASE UNCHANGED vars
  BY <1>6 DEF vars
<1>7. ASSUME NEW w \in Procs, TickFails(w) PROVE LoopExclusive'
  <2>1. wpc' = [wpc EXCEPT ![w] = "idle"] /\ UNCHANGED cpc
    BY <1>7 DEF TickFails, TickAborted
  <2> QED
    BY <1>a, <2>1 DEF WorkerSync
<1> QED
  BY <1>1, <1>2, <1>3, <1>4, <1>5, <1>6, <1>7 DEF Next

-----------------------------------------------------------------------------
(* The rows *)

\* What the commit of a tick may write.
LEMMA CommitWrites ==
    ASSUME TypeOK, WorkerShape, NEW w \in Procs, NEW t \in Hits(w)
    PROVE  /\ wpc[w] = "commit" => status[t] = "broadcast"
           /\ wpc[w] = "watchCommit" => status[t] = "executed" /\ reorgs > 0
           /\ wpc[w] = "flagCommit" => status[t] = "broadcast" /\ ~stuckAt[t]
<1> QED
  BY DEF WorkerShape, FoundShape

LEMMA RowPreserved ==
    ASSUME Inv, [Next]_vars
    PROVE  RowShape'
<1> USE StuckConstants DEF Inv, RowShape, rowVars, chainVars, workerVars, callVars, envVars
<1>a. /\ status = [t \in TxIds |-> status[t]] /\ hash = [t \in TxIds |-> hash[t]]
      /\ stuckAt = [t \in TxIds |-> stuckAt[t]]
  BY DEF TypeOK
<1>1. ASSUME NEW w \in Procs, ConfirmCommit(w) \/ WatchCommit(w) PROVE RowShape'
  BY <1>1 DEF ConfirmCommit, WatchCommit
<1>2. ASSUME NEW w \in Procs, FlagCommit(w) PROVE RowShape'
  <2>1. \A t \in Hits(w) : hash[t] = "orig"
    <3>1. wpc[w] = "flagCommit" /\ Hits(w) \subseteq TxIds
      BY <1>2 DEF FlagCommit, Hits
    <3> QED
      BY <3>1, CommitWrites
  <2> QED
    BY <1>2, <2>1 DEF FlagCommit
<1>3. ASSUME NEW c \in Calls, ReplaceNoChain(c) \/ ReplaceError(c) PROVE RowShape'
  BY <1>a, <1>3 DEF ReplaceNoChain, ReplaceError, CommitClaim, LockShape
<1>4. ASSUME NEW c \in Calls, ReplaceOk(c) PROVE RowShape'
  <2>1. row[c] \in TxIds /\ status[row[c]] = "stuck" /\ stuckAt[row[c]]
    BY <1>4 DEF ReplaceOk, LockShape
  <2>2. /\ status'[row[c]] = "broadcast" /\ UNCHANGED stuckAt
        /\ \A t \in TxIds \ {row[c]} : status'[t] = status[t] /\ hash'[t] = hash[t]
    BY <1>a, <1>4, <2>1 DEF ReplaceOk
  <2> QED
    BY <2>1, <2>2
<1>5. CASE UNCHANGED <<status, hash, stuckAt>>
  BY <1>5
<1>6. ASSUME NEW w \in Procs, Tick(w) PROVE RowShape'
  BY <1>1, <1>2, <1>5, <1>6 DEF Tick, Poll, ConfirmLoad, ConfirmReceipt, ConfirmTip,
     ConfirmError, WatchLoad, WatchReceipt, WatchError, NoProvider, FlagLoad
<1>7. ASSUME NEW c \in Calls, Replace(c) PROVE RowShape'
  BY <1>3, <1>4, <1>5, <1>7 DEF Replace, ReplaceScreened, ReplaceClaim, ReplaceLost
<1> QED
  BY <1>5, <1>6, <1>7 DEF Next, ReplaceLoad, NewBlock, Reorg, Crash, TickFails, vars

\* A block only adds to the chain.
LEMMA BlocksAdd ==
    ASSUME TypeOK, NEW t \in TxIds, NEW k \in AllKinds \cup {Null}, NewBlock(t, k)
    PROVE  /\ \A u \in TxIds, j \in AllKinds : incl[u][j] # Null => incl'[u][j] = incl[u][j]
           /\ height' = height + 1
           /\ UNCHANGED <<rowVars, workerVars, callVars, envVars>>
<1>1. CASE UNCHANGED incl
  BY <1>1 DEF NewBlock
<1>2. CASE ~OnChain(t) /\ k \in posted[t] /\ incl' = [incl EXCEPT ![t][k] = height + 1]
  <2>1. k \in AllKinds
    BY <1>2 DEF TypeOK
  <2>2. \A j \in AllKinds : incl[t][j] = Null
    BY <1>2 DEF OnChain
  <2>3. \A u \in TxIds \ {t} : incl'[u] = incl[u]
    BY <1>2 DEF TypeOK
  <2> QED
    BY <2>1, <2>2, <2>3 DEF NewBlock
<1> QED
  BY <1>1, <1>2 DEF NewBlock

\* A request changes no row but one that is stuck, and nothing of the worker.
LEMMA RequestsKeep ==
    ASSUME Inv, NEW c \in Calls,
           \/ Replace(c)
           \/ \E t \in TxIds, k \in Kinds, mode \in {"rbf", "cancel"} : ReplaceLoad(c, t, mode, k)
    PROVE  /\ UNCHANGED <<block, stuckAt, incl, height, reorgs, wpc, todo, loaded, polled, found>>
           /\ \A t \in TxIds : status[t] # "stuck" => status'[t] = status[t] /\ hash'[t] = hash[t]
           /\ \A t \in TxIds : status[t] = "stuck" => status'[t] # "executed"
<1> USE DEF rowVars, chainVars, workerVars, envVars
<1>a. status = [t \in TxIds |-> status[t]] /\ hash = [t \in TxIds |-> hash[t]]
  BY DEF Inv, TypeOK
<1>1. CASE UNCHANGED <<status, hash>>
  BY <1>1 DEF Replace, ReplaceScreened, ReplaceClaim, ReplaceLost, ReplaceNoChain,
              ReplaceError, ReplaceOk, ReplaceLoad
<1>2. CASE ReplaceNoChain(c) \/ ReplaceError(c) \/ ReplaceOk(c)
  <2>1. row[c] \in TxIds /\ status[row[c]] = "stuck"
    BY <1>2 DEF ReplaceNoChain, ReplaceError, ReplaceOk, Inv, LockShape
  <2>2. /\ \A t \in TxIds \ {row[c]} : status'[t] = status[t] /\ hash'[t] = hash[t]
        /\ status'[row[c]] \in {"broadcasting", "broadcast"}
    BY <1>a, <1>2, <2>1 DEF ReplaceNoChain, ReplaceError, ReplaceOk, CommitClaim
  <2>3. UNCHANGED <<block, stuckAt, incl, height, reorgs, wpc, todo, loaded, polled, found>>
    BY <1>2 DEF ReplaceNoChain, ReplaceError, ReplaceOk
  <2> QED
    BY <2>1, <2>2, <2>3
<1> QED
  BY <1>1, <1>2 DEF Replace, ReplaceScreened, ReplaceClaim, ReplaceLost, ReplaceLoad

LEMMA ConfirmedPreserved ==
    ASSUME Inv, [Next]_vars
    PROVE  ExecutedIsConfirmed'
<1> USE StuckConstants DEF ExecutedIsConfirmed, rowVars, chainVars, workerVars, callVars, envVars
<1>i. TypeOK /\ ExecutedIsConfirmed /\ WorkerShape
  BY DEF Inv
<1>a. /\ hash \in [TxIds -> AllKinds] /\ height \in Int /\ reorgs \in Nat
      /\ \A t \in TxIds : block[t] = Null \/ block[t] \in Int
  BY <1>i DEF TypeOK, Heights
<1>1. ASSUME NEW w \in Procs, ConfirmCommit(w) PROVE ExecutedIsConfirmed'
  <2>1. \A t \in Hits(w) : reorgs = 0 =>
            /\ found[w][t] # Null
            /\ incl[t][hash[t]] = found[w][t] /\ height - found[w][t] >= Conf
    BY <1>1, <1>i DEF ConfirmCommit, Hits, WorkerShape, FoundShape
  <2> QED
    BY <1>1, <1>i, <2>1 DEF ConfirmCommit
<1>2. ASSUME NEW w \in Procs, WatchCommit(w) \/ FlagCommit(w) PROVE ExecutedIsConfirmed'
  BY <1>i, <1>2 DEF WatchCommit, FlagCommit
<1>3. ASSUME NEW c \in Calls,
             \/ Replace(c)
             \/ \E t \in TxIds, k \in Kinds, mode \in {"rbf", "cancel"} : ReplaceLoad(c, t, mode, k)
      PROVE  ExecutedIsConfirmed'
  BY <1>i, <1>3, RequestsKeep
<1>4. ASSUME NEW t \in TxIds, NEW k \in AllKinds \cup {Null}, NewBlock(t, k)
      PROVE  ExecutedIsConfirmed'
  BY <1>a, <1>i, <1>4, BlocksAdd
<1>5. ASSUME NEW t \in TxIds, NEW k \in AllKinds, Reorg(t, k) PROVE ExecutedIsConfirmed'
  BY <1>a, <1>5 DEF Reorg
<1>6. CASE UNCHANGED <<status, hash, block, incl, height, reorgs>>
  BY <1>i, <1>6
<1>7. ASSUME NEW w \in Procs, Tick(w) PROVE ExecutedIsConfirmed'
  BY <1>1, <1>2, <1>6, <1>7 DEF Tick, Poll, ConfirmLoad, ConfirmReceipt, ConfirmTip,
     ConfirmError, WatchLoad, WatchReceipt, WatchError, NoProvider, FlagLoad
<1>8. ASSUME NEW p \in Procs, Crash(p) \/ TickFails(p) PROVE ExecutedIsConfirmed'
  BY <1>6, <1>8 DEF Crash, TickFails
<1> QED
  BY <1>3, <1>4, <1>5, <1>6, <1>7, <1>8 DEF Next, vars

-----------------------------------------------------------------------------
(* The tick of the one worker *)

LEMMA LoadPreserved ==
    ASSUME Inv, NEW w \in Procs, ConfirmLoad(w) \/ WatchLoad(w)
    PROVE  TodoShape(w)' /\ PolledShape(w)' /\ FoundShape(w)'
<1> USE StuckConstants DEF rowVars, chainVars, envVars
<1>i. TypeOK /\ FoundShape(w)
  BY DEF Inv, WorkerShape
<1>a. wpc[w] \in {"idle", "watch"}
  BY DEF ConfirmLoad, WatchLoad
<1>1. Hits(w)' = {}
  BY <1>i, <1>a DEF ConfirmLoad, WatchLoad, FoundShape, Hits
<1>2. CASE ConfirmLoad(w)
  <2>0. PICK S \in SUBSET {t \in TxIds : status[t] = "broadcast"} :
            Load(w, S, "receipt", "watch")
    BY <1>2 DEF ConfirmLoad, Batches
  <2>1. /\ todo'[w] = S /\ wpc'[w] \in {"receipt", "watch"} /\ (wpc'[w] = "watch" => S = {})
        /\ \A t \in S : loaded'[w][t] = <<hash[t], block[t]>>
    BY <1>i, <2>0 DEF Load, TypeOK
  <2> QED
    BY <1>1, <1>2, <2>0, <2>1 DEF ConfirmLoad, TodoShape, PolledShape, FoundShape
<1>3. CASE WatchLoad(w)
  <2>0. PICK S \in SUBSET {t \in TxIds : status[t] = "executed"} :
            Load(w, S, "recheck", "flag")
    BY <1>3 DEF WatchLoad, Batches
  <2>1. /\ todo'[w] = S /\ wpc'[w] \in {"recheck", "flag"} /\ (wpc'[w] = "flag" => S = {})
        /\ \A t \in S : loaded'[w][t] = <<hash[t], block[t]>>
    BY <1>i, <2>0 DEF Load, TypeOK
  <2> QED
    BY <1>1, <1>3, <2>0, <2>1 DEF WatchLoad, TodoShape, PolledShape, FoundShape
<1> QED
  BY <1>2, <1>3

LEMMA ConfirmPollPreserved ==
    ASSUME Inv, NEW w \in Procs,
           \/ \E t \in TxIds : ConfirmReceipt(w, t) \/ ConfirmError(w, t)
           \/ ConfirmTip(w)
    PROVE  TodoShape(w)' /\ PolledShape(w)' /\ FoundShape(w)'
<1> USE StuckConstants DEF rowVars, chainVars, envVars
<1>i. TypeOK /\ TodoShape(w) /\ PolledShape(w) /\ FoundShape(w)
  BY DEF Inv, WorkerShape
<1>a. /\ wpc[w] \in {"receipt", "tip"}
      /\ UNCHANGED <<status, hash, block, stuckAt, incl, height, reorgs, loaded>>
  BY DEF ConfirmReceipt, ConfirmError, ConfirmTip
<1>b. \A t \in todo[w] : status[t] = "broadcast" /\ loaded[w][t][1] = hash[t]
  BY <1>i, <1>a DEF TodoShape
\* A row that was polled leaves the rows to poll.
<1>c. ASSUME NEW t \in TxIds, Polled(w, t, "receipt", "commit")
      PROVE  /\ wpc'[w] \in {"receipt", "commit"} /\ todo'[w] = todo[w] \ {t}
             /\ wpc'[w] = "commit" => todo'[w] = {}
  BY <1>i, <1>c DEF Polled, TypeOK
<1>1. ASSUME NEW t \in TxIds, ConfirmReceipt(w, t)
      PROVE  TodoShape(w)' /\ PolledShape(w)' /\ FoundShape(w)'
  <2> DEFINE b == incl[t][loaded[w][t][1]]
  <2>1. t \in todo[w] /\ UNCHANGED found /\ wpc[w] = "receipt"
    BY <1>1 DEF ConfirmReceipt
  <2>2. CASE b = Null
    <3>1. Polled(w, t, "receipt", "commit")
      BY <1>1, <2>2 DEF ConfirmReceipt
    <3> QED
      BY <1>a, <1>b, <1>c, <1>i, <2>1, <3>1 DEF TodoShape, PolledShape, FoundShape, Hits
  <2>3. CASE b # Null
    <3>1. polled'[w] = <<t, b>> /\ wpc'[w] = "tip" /\ todo' = todo
      BY <1>1, <1>i, <2>3 DEF ConfirmReceipt, TypeOK
    <3>2. b = incl[t][hash[t]] /\ b \in Heights
      BY <1>b, <1>i, <2>1, <2>3 DEF TypeOK
    <3>3. PolledShape(w)'
      BY <1>a, <2>1, <3>1, <3>2 DEF PolledShape
    <3> QED
      BY <1>a, <1>b, <1>i, <2>1, <3>1, <3>3 DEF TodoShape, FoundShape, Hits
  <2> QED
    BY <2>2, <2>3
<1>2. ASSUME NEW t \in TxIds, ConfirmError(w, t)
      PROVE  TodoShape(w)' /\ PolledShape(w)' /\ FoundShape(w)'
  <2>1. Polled(w, t, "receipt", "commit") /\ UNCHANGED found
    BY <1>2 DEF ConfirmError
  <2> QED
    BY <1>a, <1>b, <1>c, <1>i, <2>1 DEF TodoShape, PolledShape, FoundShape, Hits
<1>3. ASSUME ConfirmTip(w)
      PROVE  TodoShape(w)' /\ PolledShape(w)' /\ FoundShape(w)'
  <2>1. PICK t \in todo[w], b \in Heights :
            polled[w] = <<t, b>> /\ (reorgs = 0 => incl[t][hash[t]] = b)
    BY <1>3, <1>i DEF ConfirmTip, PolledShape
  <2>2. t \in TxIds /\ status[t] = "broadcast" /\ b # Null
    BY <1>b, <1>i, <2>1 DEF TypeOK, Heights
  <2>3. Polled(w, t, "receipt", "commit")
    BY <1>3, <2>1 DEF ConfirmTip
  <2>4. \/ UNCHANGED found
        \/ height - b >= Conf /\ found' = [found EXCEPT ![w][t] = b]
    BY <1>3, <2>1 DEF ConfirmTip
  <2>5. \A u \in TxIds : \/ found'[w][u] = found[w][u]
                         \/ u = t /\ found'[w][u] = b /\ height - b >= Conf
    BY <1>i, <2>2, <2>4 DEF TypeOK
  <2>6. FoundShape(w)'
    BY <1>a, <1>c, <1>i, <2>1, <2>2, <2>3, <2>5 DEF FoundShape, Hits
  <2> QED
    BY <1>a, <1>b, <1>c, <2>2, <2>3, <2>6 DEF TodoShape, PolledShape
<1> QED
  BY <1>1, <1>2, <1>3

LEMMA WatchPollPreserved ==
    ASSUME Inv, NEW w \in Procs, NEW t \in TxIds, WatchReceipt(w, t) \/ WatchError(w, t)
    PROVE  TodoShape(w)' /\ PolledShape(w)' /\ FoundShape(w)'
<1> USE StuckConstants DEF rowVars, chainVars, envVars
<1>i. TypeOK /\ TodoShape(w) /\ FoundShape(w) /\ ExecutedIsConfirmed
  BY DEF Inv, WorkerShape
<1>a. /\ wpc[w] = "recheck" /\ t \in todo[w] /\ Polled(w, t, "recheck", "watchCommit")
      /\ UNCHANGED <<status, hash, block, stuckAt, incl, height, reorgs, loaded>>
  BY DEF WatchReceipt, WatchError
<1>b. /\ wpc'[w] \in {"recheck", "watchCommit"} /\ todo'[w] = todo[w] \ {t}
      /\ wpc'[w] = "watchCommit" => todo'[w] = {}
  BY <1>a, <1>i DEF Polled, TypeOK
<1>1. \A u \in todo[w] :
          /\ status[u] = "executed"
          /\ loaded[w][u][1] = hash[u] /\ loaded[w][u][2] = block[u]
  BY <1>a, <1>i DEF TodoShape
<1>2. \A u \in TxIds : found'[w][u] # found[w][u] =>
          u = t /\ incl[t][loaded[w][t][1]] # loaded[w][t][2]
  BY <1>i DEF WatchReceipt, WatchError, TypeOK
<1>3. incl[t][loaded[w][t][1]] # loaded[w][t][2] => reorgs > 0
  BY <1>1, <1>a, <1>i DEF ExecutedIsConfirmed, TypeOK
<1>4. FoundShape(w)'
  BY <1>1, <1>2, <1>3, <1>a, <1>b, <1>i DEF FoundShape, Hits
<1> QED
  BY <1>1, <1>4, <1>a, <1>b DEF TodoShape, PolledShape

LEMMA CommitPreserved ==
    ASSUME Inv, NEW w \in Procs,
           ConfirmCommit(w) \/ WatchCommit(w) \/ FlagLoad(w) \/ FlagCommit(w)
    PROVE  TodoShape(w)' /\ PolledShape(w)' /\ FoundShape(w)'
<1> USE StuckConstants DEF rowVars, chainVars, envVars
<1>i. TypeOK /\ TodoShape(w) /\ FoundShape(w)
  BY DEF Inv, WorkerShape
<1>a. wpc[w] \in {"commit", "watchCommit", "flag", "flagCommit"} /\ UNCHANGED todo
  BY DEF ConfirmCommit, WatchCommit, FlagLoad, FlagCommit
<1>b. todo[w] = {}
  BY <1>a, <1>i DEF TodoShape
<1>c. wpc'[w] \in {"watch", "flag", "flagCommit", "idle"}
  BY <1>i DEF ConfirmCommit, WatchCommit, FlagLoad, FlagCommit, TypeOK
<1>1. TodoShape(w)' /\ PolledShape(w)'
  BY <1>a, <1>b, <1>c DEF TodoShape, PolledShape
<1>2. CASE FlagLoad(w)
  <2>1. /\ wpc'[w] = "flagCommit" /\ UNCHANGED <<status, stuckAt>>
        /\ \A t \in TxIds : found'[w][t] # Null => status[t] = "broadcast" /\ ~stuckAt[t]
    BY <1>2, <1>i DEF FlagLoad, Batches, TypeOK
  <2>2. FoundShape(w)'
    BY <2>1 DEF FoundShape, Hits
  <2> QED
    BY <1>1, <2>2
<1>3. CASE ~FlagLoad(w)
  <2>1. \A t \in TxIds : found'[w][t] = Null
    BY <1>3, <1>i DEF ConfirmCommit, WatchCommit, FlagCommit, TypeOK, Nothing
  <2> QED
    BY <1>1, <2>1 DEF FoundShape, Hits
<1> QED
  BY <1>2, <1>3

LEMMA AbortPreserved ==
    ASSUME TypeOK, NEW w \in Procs, TickAborted(w)
    PROVE  TodoShape(w)' /\ PolledShape(w)' /\ FoundShape(w)'
<1>1. todo'[w] = {} /\ wpc'[w] = "idle" /\ \A t \in TxIds : found'[w][t] = Null
  BY DEF TickAborted, TypeOK, Nothing
<1> QED
  BY <1>1 DEF TodoShape, PolledShape, FoundShape, Hits

LEMMA WorkerPreserved ==
    ASSUME Inv, OneReplica, [Next]_vars
    PROVE  WorkerShape'
<1> USE StuckConstants DEF rowVars, chainVars, workerVars, callVars, envVars
<1> SUFFICES ASSUME NEW w \in Procs
             PROVE  TodoShape(w)' /\ PolledShape(w)' /\ FoundShape(w)'
  BY DEF WorkerShape
<1>i. TypeOK /\ TodoShape(w) /\ PolledShape(w) /\ FoundShape(w)
  BY DEF Inv, WorkerShape
<1>t. /\ todo[w] \subseteq TxIds /\ Hits(w) \subseteq TxIds /\ hash \in [TxIds -> AllKinds]
      /\ height \in Int /\ reorgs \in Nat
      /\ \A t \in Hits(w) : found[w][t] \in Int /\ found[w][t] # Null
  BY <1>i DEF TypeOK, Hits, Heights
<1>1. ASSUME NEW p \in Procs, Tick(p) \/ TickFails(p)
      PROVE  TodoShape(w)' /\ PolledShape(w)' /\ FoundShape(w)'
  <2>1. p = w
    BY DEF OneReplica
  <2>2. CASE TickFails(p) \/ \E t \in TxIds : NoProvider(p, t)
    BY <1>i, <2>1, <2>2, AbortPreserved DEF TickFails, NoProvider
  <2> QED
    BY <1>1, <2>1, <2>2, LoadPreserved, ConfirmPollPreserved, WatchPollPreserved,
       CommitPreserved DEF Tick, Poll
<1>2. ASSUME NEW c \in Calls,
             \/ Replace(c)
             \/ \E t \in TxIds, k \in Kinds, mode \in {"rbf", "cancel"} : ReplaceLoad(c, t, mode, k)
      PROVE  TodoShape(w)' /\ PolledShape(w)' /\ FoundShape(w)'
  <2>1. /\ UNCHANGED <<block, stuckAt, incl, height, reorgs, wpc, todo, loaded, polled, found>>
        /\ \A t \in TxIds : status[t] # "stuck" => status'[t] = status[t] /\ hash'[t] = hash[t]
    BY <1>2, RequestsKeep
  <2>2. TodoShape(w)'
    BY <1>i, <1>t, <2>1 DEF TodoShape
  <2>3. PolledShape(w)'
    <3>1. \A t \in todo[w] : status[t] # "stuck"
      BY <1>i DEF TodoShape
    <3> QED
      BY <1>i, <1>t, <2>1, <3>1 DEF PolledShape
  <2>4. FoundShape(w)'
    BY <1>i, <1>t, <2>1 DEF FoundShape, Hits
  <2> QED
    BY <2>2, <2>3, <2>4
<1>3. ASSUME NEW t \in TxIds, NEW k \in AllKinds \cup {Null}, NewBlock(t, k)
      PROVE  TodoShape(w)' /\ PolledShape(w)' /\ FoundShape(w)'
  <2>1. /\ \A u \in TxIds, j \in AllKinds : incl[u][j] # Null => incl'[u][j] = incl[u][j]
        /\ height' = height + 1
        /\ UNCHANGED <<rowVars, workerVars, callVars, envVars>>
    BY <1>3, <1>i, BlocksAdd
  <2>2. TodoShape(w)'
    BY <1>i, <2>1 DEF TodoShape
  <2>3. PolledShape(w)'
    <3>1. \A b \in Heights : b # Null
      BY DEF Heights
    <3> QED
      BY <1>i, <1>t, <2>1, <3>1 DEF PolledShape
  <2>4. FoundShape(w)'
    BY <1>i, <1>t, <2>1 DEF FoundShape, Hits
  <2> QED
    BY <2>2, <2>3, <2>4
<1>4. ASSUME NEW t \in TxIds, NEW k \in AllKinds, Reorg(t, k)
      PROVE  TodoShape(w)' /\ PolledShape(w)' /\ FoundShape(w)'
  <2>1. reorgs' > 0 /\ reorgs' # 0 /\ UNCHANGED <<rowVars, workerVars>>
    BY <1>4, <1>t DEF Reorg
  <2> QED
    BY <1>i, <2>1 DEF TodoShape, PolledShape, FoundShape, Hits
<1>5. ASSUME NEW p \in Procs, Crash(p)
      PROVE  TodoShape(w)' /\ PolledShape(w)' /\ FoundShape(w)'
  <2>1. p = w
    BY DEF OneReplica
  <2> QED
    BY <1>5, <1>i, <2>1, AbortPreserved DEF Crash
<1>6. CASE UNCHANGED vars
  BY <1>6, <1>i DEF vars, TodoShape, PolledShape, FoundShape, Hits
<1> QED
  BY <1>1, <1>2, <1>3, <1>4, <1>5, <1>6 DEF Next

-----------------------------------------------------------------------------
(* The theorems *)

\* Inv is an invariant: what a tick or a request knew before an await still
\* holds after it.
THEOREM Invariance == ASSUME OneReplica PROVE Spec => []Inv
<1>1. Init => Inv
  <2> SUFFICES ASSUME Init PROVE Inv
    OBVIOUS
  <2> USE StuckConstants DEF Init, Nothing
  <2>1. TypeOK
    BY DeployConstants DEF TypeOK, Heights, AllKinds, WorkerSync, WorkerAwait, CallSync, CallAwait
  <2>2. LockShape /\ LoopExclusive /\ RowShape /\ ExecutedIsConfirmed
    BY DEF LockShape, LoopExclusive, RowShape, ExecutedIsConfirmed
  <2>3. WorkerShape
    BY DEF WorkerShape, TodoShape, PolledShape, FoundShape, Hits
  <2> QED
    BY <2>1, <2>2, <2>3 DEF Inv
<1>2. Inv /\ [Next]_vars => Inv'
  BY TypePreserved, LockPreserved, LoopPreserved, RowPreserved, WorkerPreserved,
     ConfirmedPreserved DEF Inv
<1> QED
  BY <1>1, <1>2, PTL DEF Spec

\* Every variable keeps its type.
THEOREM TypeCorrect == ASSUME OneReplica PROVE Spec => []TypeOK
<1>1. Inv => TypeOK
  BY DEF Inv
<1> QED
  BY <1>1, Invariance, PTL

\* With one replica, a row that says `executed` names a payload that the chain
\* includes in the recorded block at the chain's depth (monitor.py).
THEOREM ExecutedIsConfirmedHolds == ASSUME OneReplica PROVE Spec => []ExecutedIsConfirmed
<1>1. Inv => ExecutedIsConfirmed
  BY DEF Inv
<1> QED
  BY <1>1, Invariance, PTL

\* With one replica, a row leaves `executed` for `reorged` and after a reorg
\* only, whatever passes, replacements and crashes overlap (monitor.py).
THEOREM ExecutedIsStableHolds == ASSUME OneReplica PROVE Spec => ExecutedIsStable
<1>1. ASSUME Inv, [Next]_vars, NEW t \in TxIds, status[t] = "executed", status'[t] # "executed"
      PROVE  status'[t] = "reorged" /\ reorgs > 0
  <2> USE DEF rowVars, envVars
  <2>1. ASSUME NEW w \in Procs, ConfirmCommit(w) \/ FlagCommit(w) PROVE FALSE
    BY <1>1, <2>1, CommitWrites DEF ConfirmCommit, FlagCommit, Inv
  <2>2. ASSUME NEW w \in Procs, WatchCommit(w) PROVE status'[t] = "reorged" /\ reorgs > 0
    <3>1. t \in Hits(w) /\ status'[t] = "reorged"
      BY <1>1, <2>2 DEF WatchCommit
    <3> QED
      BY <1>1, <2>2, <3>1, CommitWrites DEF WatchCommit, Inv
  <2>3. ASSUME NEW c \in Calls, Replace(c) PROVE FALSE
    BY <1>1, <2>3, RequestsKeep
  <2>4. status' # status
    BY <1>1
  <2>5. ASSUME NEW w \in Procs, Tick(w) PROVE status'[t] = "reorged" /\ reorgs > 0
    BY <2>1, <2>2, <2>4, <2>5 DEF Tick, Poll, ConfirmLoad, ConfirmReceipt, ConfirmTip,
       ConfirmError, WatchLoad, WatchReceipt, WatchError, NoProvider, FlagLoad
  <2> QED
    BY <1>1, <2>3, <2>4, <2>5 DEF Next, ReplaceLoad, NewBlock, Reorg, Crash, TickFails, vars
<1>2. Inv /\ [Next]_vars =>
          [\A t \in TxIds : (status[t] = "executed" /\ status'[t] # "executed") =>
               status'[t] = "reorged" /\ reorgs > 0]_vars
  BY <1>1
<1> QED
  BY <1>2, Invariance, PTL DEF Spec, ExecutedIsStable

\* With one replica, the hash of a row is replaced once, however many requests
\* were screened while it was stuck (rbf.py: the conditional claim).
THEOREM ReplacedOnceHolds == ASSUME OneReplica PROVE Spec => ReplacedOnce
<1>1. ASSUME Inv, [Next]_vars, NEW t \in TxIds, hash'[t] # hash[t] PROVE hash[t] = "orig"
  <2> USE DEF rowVars
  <2>1. hash' # hash
    BY <1>1
  <2>2. PICK c \in Calls : ReplaceOk(c)
    BY <1>1, <2>1 DEF Next, vars, Tick, Poll, ConfirmLoad, ConfirmReceipt, ConfirmTip,
       ConfirmError, ConfirmCommit, WatchLoad, WatchReceipt, WatchError, NoProvider, WatchCommit,
       FlagLoad, FlagCommit, Replace, ReplaceScreened, ReplaceClaim, ReplaceLost,
       ReplaceNoChain, ReplaceError, ReplaceLoad, NewBlock, Reorg, Crash,
       TickFails
  <2>3. status[row[c]] = "stuck" /\ row[c] \in TxIds
    BY <1>1, <2>2 DEF ReplaceOk, Inv, LockShape
  <2>4. t = row[c]
    BY <1>1, <2>2 DEF ReplaceOk, Inv, TypeOK
  <2> QED
    BY <1>1, <2>3, <2>4 DEF Inv, RowShape
<1>2. Inv /\ [Next]_vars => [\A t \in TxIds : hash'[t] # hash[t] => hash[t] = "orig"]_vars
  BY <1>1
<1> QED
  BY <1>2, Invariance, PTL DEF Spec, ReplacedOnce
=============================================================================
