-------------------------- MODULE AuditAnchorProofs --------------------------
(***************************************************************************)
(* The safety of AuditAnchor for any number of replicas, records, attempts *)
(* and faults: a record is marked only with a batch whose root on the      *)
(* chain covers it.  A worker that has seen its root under its batch id    *)
(* may rely on it, because the contract only appends roots; so the mark it *)
(* makes later, after any number of steps of other replicas, is covered.   *)
(***************************************************************************)
EXTENDS AuditAnchor, SequenceTheorems, TLAPS

Labels == {"idle", "lastId", "estimate", "send", "confirm", "verify", "resolve",
           "anchored", "failed", "upsertAnchored", "upsertFailed", "mark"}

DbOK == /\ written \subseteq Records
        /\ mark \in [Records -> Ids \cup {Null}]
        /\ batches \in [Ids -> Rows \cup {Null}]

ChainOK == roots \in Seq(SUBSET Records) /\ pool \in Seq(Submissions)

\* Past the call that reads the last batch id, the tick has one.
TickOK == /\ pc \in [Procs -> Labels]
          /\ flush \in [Procs -> Flushes]
          /\ \A w \in Procs : pc[w] \notin {"idle", "lastId"} => flush[w].id \in Ids

BoundsOK == faults \in 0..MaxFaults /\ reorgs \in 0..MaxReorgs

\* A row that a worker has loaded is in the table: rows are never deleted.
LoadedRowsExist ==
    \A w \in Procs : flush[w].row # Null =>
        /\ pc[w] \in {"upsertAnchored", "upsertFailed", "mark"}
        /\ batches[flush[w].id] # Null

TypeInv == DbOK /\ ChainOK /\ TickOK /\ BoundsOK /\ LoadedRowsExist

-----------------------------------------------------------------------------
(* Types *)

LEMMA NullIsNoRow == Null \notin Rows
<1> QED
  BY AuditConstants DEF Rows

LEMMA NoFlushType == NoFlush \in Flushes /\ NoFlush.row = Null
<1> QED
  BY AuditConstants DEF NoFlush, Flushes

\* A tick that ends leaves a well-typed empty flush.
LEMMA EndTick ==
    ASSUME TypeInv, NEW w \in Procs, NEW from, End(w, from), UNCHANGED batches
    PROVE  TickOK' /\ LoadedRowsExist'
<1> QED
  BY NoFlushType DEF TypeInv, TickOK, Labels, LoadedRowsExist, End, Go

\* A step that keeps the locals, before the table is read.
LEMMA KeepTick ==
    ASSUME TypeInv, NEW w \in Procs, NEW from \in Labels, NEW to \in Labels,
           Keep(w, from, to), UNCHANGED batches,
           from \notin {"idle", "lastId", "upsertAnchored", "upsertFailed", "mark"}
    PROVE  TickOK' /\ LoadedRowsExist'
<1> QED
  BY DEF TypeInv, TickOK, Labels, LoadedRowsExist, Keep, Go

\* A row that is written has the type of the table, and no row disappears.
LEMMA UpsertedType ==
    ASSUME TypeInv, NEW w \in Procs, flush[w].id \in Ids, Insertable(w),
           NEW status \in {"anchored", "failed"}
    PROVE  /\ Upserted(w, status) \in [Ids -> Rows \cup {Null}]
           /\ \A b \in Ids : batches[b] # Null => Upserted(w, status)[b] # Null
<1> DEFINE new == [root |-> flush[w].batch, status |-> status]
           old == batches[flush[w].id]
<1>1. new \in Rows /\ DOMAIN new = {"root", "status"}
  BY DEF TypeInv, TickOK, Flushes, Rows
<1>2. CASE flush[w].row = Null
  BY <1>1, <1>2, NullIsNoRow DEF TypeInv, DbOK, Upserted
<1>3. CASE flush[w].row # Null
  <2>1. old \in Rows
    BY <1>3 DEF TypeInv, DbOK, LoadedRowsExist
  <2>2. Flushed(old, flush[w].row, new) \in Rows
    BY <1>1, <2>1 DEF Flushed, Rows
  <2> QED
    BY <2>2, <1>1, <1>3, NullIsNoRow DEF TypeInv, DbOK, Upserted
<1> QED
  BY <1>2, <1>3

LEMMA SubmissionType ==
    ASSUME TypeInv, NEW w \in Procs, flush[w].id \in Ids
    PROVE  Submission(w) \in Submissions
<1> QED
  BY DEF TypeInv, TickOK, Flushes, Submission, Submissions

\* A transaction of the wallet keeps its type when its state changes.
LEMMA PoolState ==
    ASSUME TypeInv, NEW n \in DOMAIN pool, NEW state \in {"pending", "ok", "reverted"}
    PROVE  /\ [pool EXCEPT ![n].state = state] \in Seq(Submissions)
           /\ pool[n].root \in SUBSET Records
<1>1. n \in 1 .. Len(pool) /\ pool \in Seq(Submissions)
  BY DEF TypeInv, ChainOK
<1>2. pool[n] \in Submissions
  BY <1>1, ElementOfSeq
<1>3. [pool[n] EXCEPT !.state = state] \in Submissions
  BY <1>2 DEF Submissions
<1>4. [pool EXCEPT ![n] = [pool[n] EXCEPT !.state = state]] \in Seq(Submissions)
  BY <1>1, <1>3, ExceptSeq
<1> QED
  BY <1>2, <1>4 DEF Submissions

THEOREM TypeInvariant == Spec => []TypeInv
<1>1. Init => TypeInv
  <2> SUFFICES ASSUME Init PROVE TypeInv
    OBVIOUS
  <2>1. roots \in Seq(SUBSET Records) /\ pool \in Seq(Submissions)
    BY DEF Init
  <2>2. LoadedRowsExist
    BY NoFlushType DEF Init, LoadedRowsExist
  <2> QED
    BY <2>1, <2>2, NoFlushType, AuditConstants
       DEF Init, TypeInv, DbOK, ChainOK, TickOK, Labels, BoundsOK
<1>2. TypeInv /\ [Next]_vars => TypeInv'
  <2> SUFFICES ASSUME TypeInv, [Next]_vars PROVE TypeInv'
    OBVIOUS
  <2> USE AuditConstants DEF dbVars, chainVars, tickVars, bounds
  <2>1. ASSUME NEW r \in Records, Write(r) PROVE TypeInv'
    BY <2>1 DEF Write, TypeInv, DbOK, ChainOK, TickOK, BoundsOK, LoadedRowsExist
  <2>2. ASSUME NEW w \in Procs, Load(w) PROVE TypeInv'
    <3>1. Oldest(Pending) \in SUBSET Records
      BY DEF Oldest, Pending, TypeInv, DbOK
    <3>2. TickOK' /\ LoadedRowsExist'
      BY <2>2, <3>1 DEF Load, Go, TypeInv, TickOK, Labels, Flushes, LoadedRowsExist
    <3> QED
      BY <2>2, <3>2 DEF Load, TypeInv, DbOK, ChainOK, BoundsOK
  <2>3. ASSUME NEW w \in Procs, ReadLastId(w) PROVE TypeInv'
    <3>1. LastBatchId + 1 \in Ids /\ LastBatchId + 1 \in 0..MaxBatch
      BY <2>3 DEF ReadLastId, LastBatchId, Ids, TypeInv, ChainOK
    <3>2. TickOK' /\ LoadedRowsExist'
      BY <2>3, <3>1 DEF ReadLastId, Go, TypeInv, TickOK, Labels, Flushes, LoadedRowsExist
    <3> QED
      BY <2>3, <3>2 DEF ReadLastId, TypeInv, DbOK, ChainOK, BoundsOK
  <2>4. ASSUME NEW w \in Procs, Estimate(w) PROVE TypeInv'
    <3>1. CASE End(w, "estimate")
      BY <2>4, <3>1, EndTick DEF Estimate, TypeInv, DbOK, ChainOK, BoundsOK
    <3>2. CASE Go(w, "estimate", "send") /\ flush' = [flush EXCEPT ![w].slot = Len(pool) + 1]
      <4>1. Len(pool) + 1 \in Nat
        BY DEF TypeInv, ChainOK
      <4>2. TickOK'
        BY <3>2, <4>1 DEF Go, TypeInv, TickOK, Labels, Flushes
      <4>3. LoadedRowsExist'
        BY <2>4, <3>2 DEF Estimate, Go, TypeInv, TickOK, Labels, Flushes, LoadedRowsExist
      <4> QED
        BY <2>4, <4>2, <4>3 DEF Estimate, TypeInv, DbOK, ChainOK, BoundsOK
    <3> QED
      BY <2>4, <3>1, <3>2 DEF Estimate
  <2>5. ASSUME NEW w \in Procs, Send(w) PROVE TypeInv'
    <3>1. Submission(w) \in Submissions
      BY <2>5, SubmissionType DEF Send, Keep, End, Go, TypeInv, TickOK
    <3>2. pool' \in Seq(Submissions)
      BY <2>5, <3>1, ExceptSeq DEF Send, TypeInv, ChainOK
    <3>3. TickOK' /\ LoadedRowsExist'
      <4>1. UNCHANGED batches
        BY <2>5 DEF Send
      <4>2. CASE Keep(w, "send", "confirm")
        BY <4>1, <4>2, KeepTick DEF Labels
      <4>3. CASE End(w, "send")
        BY <4>1, <4>3, EndTick
      <4> QED
        BY <2>5, <4>2, <4>3 DEF Send
    <3> QED
      BY <2>5, <3>2, <3>3 DEF Send, TypeInv, DbOK, ChainOK, BoundsOK
  <2>6. ASSUME NEW w \in Procs, Confirm(w) \/ ConfirmTimeout(w) \/ Verify(w) \/ Resolve(w)
        PROVE  TypeInv'
    <3>1. UNCHANGED <<batches, written, mark, roots, pool>> /\ BoundsOK'
      BY <2>6 DEF Confirm, ConfirmTimeout, Verify, Resolve, Fault, TypeInv, BoundsOK
    <3>2. \E from \in {"confirm", "verify", "resolve"}, to \in Labels : Keep(w, from, to)
      BY <2>6 DEF Confirm, ConfirmTimeout, Verify, Resolve, Labels
    <3>3. TickOK' /\ LoadedRowsExist'
      BY <3>1, <3>2, KeepTick DEF Labels
    <3> QED
      BY <3>1, <3>3 DEF TypeInv, DbOK, ChainOK
  <2>7. ASSUME NEW w \in Procs, Unresolved(w) PROVE TypeInv'
    <3>1. UNCHANGED <<batches, written, mark, roots, pool>> /\ BoundsOK'
      BY <2>7 DEF Unresolved, Fault, TypeInv, BoundsOK
    <3>2. CASE Keep(w, "resolve", "failed")
      BY <3>1, <3>2, KeepTick DEF Labels, TypeInv, DbOK, ChainOK
    <3>3. CASE /\ flush[w].attempt < MaxAttempts
               /\ Go(w, "resolve", "lastId")
               /\ flush' = [flush EXCEPT ![w].attempt = @ + 1]
      <4>1. flush[w].attempt + 1 \in 1..MaxAttempts
        BY <3>3 DEF TypeInv, TickOK, Flushes
      <4>2. TickOK' /\ LoadedRowsExist'
        BY <3>1, <3>3, <4>1 DEF Go, TypeInv, TickOK, Labels, Flushes, LoadedRowsExist
      <4> QED
        BY <3>1, <4>2 DEF TypeInv, DbOK, ChainOK
    <3> QED
      BY <2>7, <3>2, <3>3 DEF Unresolved
  <2>8. ASSUME NEW w \in Procs, UpsertLoad(w) PROVE TypeInv'
    <3>1. flush[w].id \in Ids
      BY <2>8 DEF UpsertLoad, Go, TypeInv, TickOK
    <3>2. batches[flush[w].id] \in Rows \cup {Null}
      BY <3>1 DEF TypeInv, DbOK
    <3>3. TickOK'
      BY <2>8, <3>1, <3>2 DEF UpsertLoad, Go, TypeInv, TickOK, Labels, Flushes
    <3>4. LoadedRowsExist'
      BY <2>8, <3>1 DEF UpsertLoad, Go, TypeInv, TickOK, Labels, Flushes, LoadedRowsExist
    <3> QED
      BY <2>8, <3>3, <3>4 DEF UpsertLoad, TypeInv, DbOK, ChainOK, BoundsOK
  <2>9. ASSUME NEW w \in Procs, UpsertCommit(w) PROVE TypeInv'
    <3>1. flush[w].id \in Ids
      BY <2>9 DEF UpsertCommit, TypeInv, TickOK
    <3>2. CASE ~Insertable(w)
      BY <2>9, <3>2, EndTick DEF UpsertCommit, TypeInv, DbOK, ChainOK, BoundsOK
    <3>3. CASE Insertable(w)
      <4>1. /\ batches' \in [Ids -> Rows \cup {Null}]
            /\ \A b \in Ids : batches[b] # Null => batches'[b] # Null
        BY <2>9, <3>1, <3>3, UpsertedType DEF UpsertCommit
      <4>2. CASE Keep(w, "upsertAnchored", "mark")
        BY <2>9, <4>1, <4>2
           DEF UpsertCommit, Keep, Go, TypeInv, DbOK, ChainOK, BoundsOK, TickOK, Labels,
               LoadedRowsExist
      <4>3. CASE End(w, "upsertFailed")
        BY <2>9, <4>1, <4>3, NoFlushType
           DEF UpsertCommit, End, Go, TypeInv, DbOK, ChainOK, BoundsOK, TickOK, Labels,
               LoadedRowsExist
      <4> QED
        BY <2>9, <3>3, <4>2, <4>3 DEF UpsertCommit
    <3> QED
      BY <3>2, <3>3
  <2>10. ASSUME NEW w \in Procs, MarkAnchored(w) PROVE TypeInv'
    <3>1. flush[w].id \in Ids
      BY <2>10 DEF MarkAnchored, End, Go, TypeInv, TickOK
    <3>2. TickOK' /\ LoadedRowsExist'
      BY <2>10, EndTick DEF MarkAnchored
    <3> QED
      BY <2>10, <3>1, <3>2 DEF MarkAnchored, TypeInv, DbOK, ChainOK, BoundsOK
  <2>11. ASSUME NEW w \in Procs, Abort(w) PROVE TypeInv'
    <3>1. TickOK' /\ LoadedRowsExist'
      BY <2>11, EndTick DEF Abort
    <3> QED
      BY <2>11, <3>1 DEF Abort, Fault, TypeInv, DbOK, ChainOK, BoundsOK
  <2>12. ASSUME Land PROVE TypeInv'
    <3>1. PICK n \in DOMAIN pool : pool' \in {[pool EXCEPT ![n].state = "ok"],
                                            [pool EXCEPT ![n].state = "reverted"]}
                                 /\ roots' \in {roots, Append(roots, pool[n].root)}
      BY <2>12 DEF Land, Executable
    <3>2. pool' \in Seq(Submissions) /\ pool[n].root \in SUBSET Records
      BY <3>1, PoolState
    <3>3. roots' \in Seq(SUBSET Records)
      <4>1. roots \in Seq(SUBSET Records)
        BY DEF TypeInv, ChainOK
      <4>2. Append(roots, pool[n].root) \in Seq(SUBSET Records)
        BY <3>2, <4>1, AppendProperties
      <4> QED
        BY <3>1, <4>1, <4>2
    <3>4. ChainOK'
      BY <3>2, <3>3 DEF ChainOK
    <3> QED
      BY <2>12, <3>4 DEF Land, TypeInv, DbOK, TickOK, BoundsOK, LoadedRowsExist
  <2>13. ASSUME Reorg PROVE TypeInv'
    <3>1. PICK n \in DOMAIN pool : pool' = [pool EXCEPT ![n].state = "pending"]
                                 /\ roots' \in {roots, SubSeq(roots, 1, LastBatchId - 1)}
      BY <2>13 DEF Reorg, LastExecuted
    <3>2. SubSeq(roots, 1, LastBatchId - 1) \in Seq(SUBSET Records)
      BY DEF TypeInv, ChainOK, LastBatchId
    <3>3. pool' \in Seq(Submissions)
      BY <3>1, PoolState
    <3>4. ChainOK'
      BY <3>1, <3>2, <3>3 DEF TypeInv, ChainOK
    <3> QED
      BY <2>13, <3>4 DEF Reorg, TypeInv, DbOK, TickOK, BoundsOK, LoadedRowsExist
  <2>14. CASE UNCHANGED vars
    BY <2>14 DEF vars, TypeInv, DbOK, ChainOK, TickOK, BoundsOK, LoadedRowsExist
  <2> QED
    BY <2>1, <2>2, <2>3, <2>4, <2>5, <2>6, <2>7, <2>8, <2>9, <2>10, <2>11, <2>12, <2>13,
       <2>14 DEF Next, Tick
<1> QED
  BY <1>1, <1>2, PTL DEF Spec

\* Every variable keeps its type, for any number of replicas.
THEOREM TypeCorrect == Spec => []TypeOK
<1>1. TypeInv => TypeOK
  BY DEF TypeInv, TypeOK, DbOK, ChainOK, TickOK, BoundsOK, Labels
<1> QED
  BY <1>1, TypeInvariant, PTL

-----------------------------------------------------------------------------
(* The mark *)

\* A worker that goes on to record its batch has seen its root on the chain.
SeenIsAnchored ==
    reorgs = 0 => \A w \in Procs :
        pc[w] \in {"anchored", "upsertAnchored", "mark"}
            => Anchored(flush[w].id, flush[w].batch)

CoverInv == SeenIsAnchored /\ MarkedIsCovered

\* Without a reorganisation the contract only appends roots.
LEMMA RootsKept ==
    ASSUME TypeInv, [Next]_vars, reorgs' = 0, NEW b \in 1..LastBatchId
    PROVE  reorgs = 0 /\ b \in 1..LastBatchId' /\ roots'[b] = roots[b]
<1> USE AuditConstants DEF dbVars, chainVars, tickVars, bounds
<1>1. reorgs = 0 /\ ~Reorg
  <2>1. reorgs \in Nat /\ (reorgs' = reorgs \/ reorgs' = reorgs + 1)
    BY DEF TypeInv, BoundsOK, Next, vars, Write, Tick, Load, ReadLastId, Estimate, Send,
           Confirm, ConfirmTimeout, Verify, Resolve, Unresolved, UpsertLoad, UpsertCommit,
           MarkAnchored, Abort, Land, Reorg
  <2> QED
    BY <2>1 DEF TypeInv, BoundsOK, Reorg
<1>2. CASE Land
  <2>1. PICK n \in DOMAIN pool : roots' \in {roots, Append(roots, pool[n].root)}
    BY <1>2 DEF Land, Executable
  <2>2. pool[n].root \in SUBSET Records
    BY PoolState
  <2> QED
    BY <1>1, <2>1, <2>2 DEF TypeInv, ChainOK, LastBatchId
<1>3. CASE ~Land
  <2>1. UNCHANGED roots
    BY <1>1, <1>3
       DEF Next, vars, Write, Tick, Load, ReadLastId, Estimate, Send,
           Confirm, ConfirmTimeout, Verify, Resolve, Unresolved, UpsertLoad, UpsertCommit,
           MarkAnchored, Abort
  <2> QED
    BY <1>1, <2>1 DEF LastBatchId
<1> QED
  BY <1>2, <1>3

LEMMA AnchoredKept ==
    ASSUME TypeInv, [Next]_vars, reorgs' = 0, NEW b, NEW S, Anchored(b, S)
    PROVE  b \in 1..LastBatchId' /\ roots'[b] = S
<1> QED
  BY RootsKept DEF Anchored

\* What a worker has seen stays so; a worker comes to have seen its root only
\* by finding it (verify, resolve) or by having found it before.
LEMMA SeenStep ==
    ASSUME TypeInv, CoverInv, [Next]_vars
    PROVE  SeenIsAnchored'
<1> SUFFICES ASSUME reorgs' = 0, NEW v \in Procs,
                    pc'[v] \in {"anchored", "upsertAnchored", "mark"}
             PROVE  (Anchored(flush[v].id, flush[v].batch))'
  BY DEF SeenIsAnchored
<1> USE DEF dbVars, chainVars, tickVars, bounds
<1>1. \/ pc[v] \in {"anchored", "upsertAnchored", "mark"}
      \/ Anchored(flush[v].id, flush[v].batch)
  BY DEF TypeInv, TickOK, Next, vars, Write, Tick, Load, ReadLastId, Estimate, Send,
         Confirm, ConfirmTimeout, Verify, Resolve, Unresolved, UpsertLoad, UpsertCommit,
         MarkAnchored, Abort, Land, Reorg, Keep, End, Go
<1>2. flush'[v].id = flush[v].id /\ flush'[v].batch = flush[v].batch
  BY DEF TypeInv, TickOK, Flushes, Next, vars, Write, Tick, Load, ReadLastId, Estimate, Send,
         Confirm, ConfirmTimeout, Verify, Resolve, Unresolved, UpsertLoad, UpsertCommit,
         MarkAnchored, Abort, Land, Reorg, Keep, End, Go
<1>3. reorgs = 0
  BY AuditConstants
     DEF TypeInv, BoundsOK, Next, vars, Write, Tick, Load, ReadLastId, Estimate, Send,
         Confirm, ConfirmTimeout, Verify, Resolve, Unresolved, UpsertLoad, UpsertCommit,
         MarkAnchored, Abort, Land, Reorg
<1>4. Anchored(flush[v].id, flush[v].batch)
  BY <1>1, <1>3 DEF CoverInv, SeenIsAnchored
<1> QED
  BY <1>2, <1>4, AnchoredKept DEF Anchored

LEMMA CoveredStep ==
    ASSUME TypeInv, CoverInv, [Next]_vars
    PROVE  MarkedIsCovered'
<1> SUFFICES ASSUME reorgs' = 0, NEW r \in Records, mark'[r] # Null
             PROVE  mark'[r] <= LastBatchId' /\ r \in roots'[mark'[r]]
  BY DEF MarkedIsCovered
<1> USE DEF dbVars, chainVars, tickVars, bounds
<1>1. reorgs = 0
  BY AuditConstants
     DEF TypeInv, BoundsOK, Next, vars, Write, Tick, Load, ReadLastId, Estimate, Send,
         Confirm, ConfirmTimeout, Verify, Resolve, Unresolved, UpsertLoad, UpsertCommit,
         MarkAnchored, Abort, Land, Reorg
<1>2. CASE mark'[r] = mark[r]
  <2>1. mark[r] \in 1..LastBatchId /\ r \in roots[mark[r]]
    BY <1>1, <1>2, AuditConstants
       DEF CoverInv, MarkedIsCovered, TypeInv, DbOK, ChainOK, Ids, LastBatchId
  <2> QED
    BY <1>2, <2>1, RootsKept
<1>3. CASE mark'[r] # mark[r]
  <2>1. PICK w \in Procs : MarkAnchored(w)
    BY <1>3 DEF Next, vars, Write, Tick, Load, ReadLastId, Estimate, Send,
         Confirm, ConfirmTimeout, Verify, Resolve, Unresolved, UpsertLoad, UpsertCommit,
         Abort, Land, Reorg
  <2>2. r \in flush[w].batch /\ mark'[r] = flush[w].id
    BY <1>3, <2>1 DEF MarkAnchored, TypeInv, DbOK
  <2>3. Anchored(flush[w].id, flush[w].batch)
    BY <1>1, <2>1 DEF MarkAnchored, End, Go, CoverInv, SeenIsAnchored
  <2>4. mark'[r] \in 1..LastBatchId' /\ roots'[mark'[r]] = flush[w].batch
    BY <2>2, <2>3, AnchoredKept
  <2> QED
    BY <2>2, <2>4
<1> QED
  BY <1>2, <1>3

\* A marked record is covered by the root the contract holds for its batch,
\* whatever the other replicas do (worker.py, tick).
THEOREM MarkedCovered == Spec => []MarkedIsCovered
<1>1. Init => CoverInv
  BY DEF Init, CoverInv, SeenIsAnchored, MarkedIsCovered
<1>2. TypeInv /\ CoverInv /\ [Next]_vars => CoverInv'
  BY SeenStep, CoveredStep DEF CoverInv
<1>3. CoverInv => MarkedIsCovered
  BY DEF CoverInv
<1> QED
  BY <1>1, <1>2, <1>3, TypeInvariant, PTL DEF Spec

-----------------------------------------------------------------------------
(* The proof path, with one worker *)

Alone == \A v, w \in Procs : v = w

\* No record of the batch under way is marked: only its own worker marks.
BatchUnmarked == \A w \in Procs : \A r \in flush[w].batch : mark[r] = Null

\* The batch id of an attempt is newer than every marked one.
IdFresh ==
    reorgs = 0 => \A w \in Procs : pc[w] \notin {"idle", "lastId"} =>
        \A r \in Records : mark[r] # flush[w].id

\* The row a worker has loaded is the table's, and what it has written of its
\* batch when it comes to mark it is the batch's root.
LoadedIsCurrent ==
    \A w \in Procs : pc[w] \in {"upsertAnchored", "upsertFailed"} =>
        flush[w].row = batches[flush[w].id]

WrittenIsBatch ==
    \A w \in Procs : pc[w] = "mark" =>
        /\ batches[flush[w].id] # Null
        /\ batches[flush[w].id].root = flush[w].batch

\* What ProofReachesChain says, with one worker.
PathsReach ==
    reorgs = 0 => \A r \in Records : mark[r] # Null =>
        /\ batches[mark[r]] # Null /\ batches[mark[r]].root = Siblings(mark[r])
        /\ Anchored(mark[r], Siblings(mark[r]))

PathInv == BatchUnmarked /\ IdFresh /\ LoadedIsCurrent /\ WrittenIsBatch /\ PathsReach

\* An upsert over the row that is in the table leaves the batch's root in it.
LEMMA UpsertedRoot ==
    ASSUME TypeInv, NEW w \in Procs, flush[w].id \in Ids,
           flush[w].row = batches[flush[w].id],
           NEW status \in {"anchored", "failed"}
    PROVE  /\ Upserted(w, status)[flush[w].id] # Null
           /\ Upserted(w, status)[flush[w].id].root = flush[w].batch
           /\ \A b \in Ids \ {flush[w].id} : Upserted(w, status)[b] = batches[b]
<1> DEFINE new == [root |-> flush[w].batch, status |-> status]
<1>1. new \in Rows /\ new.root = flush[w].batch /\ DOMAIN new = {"root", "status"}
  BY DEF TypeInv, TickOK, Flushes, Rows
<1>2. batches \in [Ids -> Rows \cup {Null}]
  BY DEF TypeInv, DbOK
<1>3. CASE flush[w].row = Null
  BY <1>1, <1>2, <1>3, NullIsNoRow DEF Upserted
<1>4. CASE flush[w].row # Null
  <2>1. batches[flush[w].id] \in Rows
    BY <1>2, <1>4
  <2>2. Flushed(batches[flush[w].id], flush[w].row, new) \in Rows
    BY <1>1, <2>1 DEF Flushed, Rows
  <2>3. Flushed(batches[flush[w].id], flush[w].row, new).root = flush[w].batch
    BY <1>1 DEF Flushed
  <2> QED
    BY <1>1, <1>2, <1>4, <2>2, <2>3, NullIsNoRow DEF Upserted
<1> QED
  BY <1>3, <1>4

\* A step that keeps the two tables, and leads no worker to the mark.
LEMMA QuietPath ==
    ASSUME TypeInv, PathInv, [Next]_vars,
           UNCHANGED <<mark, batches>>,
           \A w \in Procs : \A r \in flush'[w].batch : mark[r] = Null,
           reorgs' = 0 => \A w \in Procs : pc'[w] \notin {"idle", "lastId"} =>
               \A r \in Records : mark[r] # flush'[w].id,
           \A w \in Procs : pc'[w] \in {"upsertAnchored", "upsertFailed"} =>
               flush'[w].row = batches[flush'[w].id],
           \A w \in Procs : pc'[w] # "mark" \/ (pc'[w] = pc[w] /\ flush'[w] = flush[w])
    PROVE  PathInv'
<1>1. BatchUnmarked' /\ IdFresh' /\ LoadedIsCurrent' /\ WrittenIsBatch'
  BY DEF PathInv, BatchUnmarked, IdFresh, LoadedIsCurrent, WrittenIsBatch
<1>2. ASSUME reorgs' = 0, NEW r \in Records, mark[r] # Null
      PROVE  /\ batches[mark[r]] # Null /\ batches[mark[r]].root = Siblings(mark[r])
             /\ Anchored(mark[r], Siblings(mark[r]))'
  <2>1. reorgs = 0
    BY <1>2, AuditConstants
       DEF dbVars, chainVars, tickVars, bounds,
           TypeInv, BoundsOK, Next, vars, Write, Tick, Load, ReadLastId, Estimate, Send,
           Confirm, ConfirmTimeout, Verify, Resolve, Unresolved, UpsertLoad, UpsertCommit,
           MarkAnchored, Abort, Land, Reorg
  <2>2. /\ batches[mark[r]] # Null /\ batches[mark[r]].root = Siblings(mark[r])
        /\ Anchored(mark[r], Siblings(mark[r]))
    BY <1>2, <2>1 DEF PathInv, PathsReach
  <2>3. /\ mark[r] \in 1..LastBatchId'
        /\ roots'[mark[r]] = Siblings(mark[r])
    BY <1>2, <2>2, AnchoredKept
  <2>4. Siblings(mark[r])' = Siblings(mark[r])
    BY DEF Siblings
  <2> QED
    BY <2>2, <2>3, <2>4 DEF Anchored, LastBatchId
<1>3. PathsReach'
  BY <1>2 DEF PathsReach, Siblings
<1> QED
  BY <1>1, <1>3 DEF PathInv

\* The upsert is the only step that writes the table of batches.
LEMMA UpsertPath ==
    ASSUME TypeInv, Alone, PathInv, IdFresh', [Next]_vars,
           NEW w \in Procs, UpsertCommit(w), Insertable(w)
    PROVE  PathInv'
<1> DEFINE b == flush[w].id
<1> USE DEF TypeInv, DbOK, TickOK
<1>1. b \in Ids /\ flush[w].row = batches[b]
  BY DEF UpsertCommit, PathInv, LoadedIsCurrent
<1>2. PICK status \in {"anchored", "failed"} : batches' = Upserted(w, status)
  BY DEF UpsertCommit
<1>3. /\ batches'[b] # Null /\ batches'[b].root = flush[w].batch
      /\ \A c \in Ids \ {b} : batches'[c] = batches[c]
  BY <1>1, <1>2, UpsertedRoot
<1>4. UNCHANGED <<mark, roots, reorgs>> /\ \A v \in Procs : v = w
  BY DEF UpsertCommit, Alone, chainVars, bounds
<1>5. \/ pc'[w] = "mark" /\ flush' = flush
      \/ pc'[w] = "idle" /\ flush'[w] = NoFlush
  BY DEF UpsertCommit, Keep, End, Go
<1>6. BatchUnmarked' /\ LoadedIsCurrent' /\ WrittenIsBatch'
  BY <1>3, <1>4, <1>5
     DEF PathInv, BatchUnmarked, LoadedIsCurrent, WrittenIsBatch, NoFlush
<1>7. PathsReach'
  <2> SUFFICES ASSUME reorgs = 0, NEW r \in Records, mark[r] # Null
               PROVE  /\ batches'[mark[r]] # Null /\ batches'[mark[r]].root = Siblings(mark[r])
                      /\ Anchored(mark[r], Siblings(mark[r]))
    BY <1>4 DEF PathsReach, Siblings, Anchored, LastBatchId
  <2>1. mark[r] \in Ids /\ mark[r] # b
    BY DEF PathInv, IdFresh, UpsertCommit
  <2> QED
    BY <1>3, <2>1 DEF PathInv, PathsReach
<1> QED
  BY <1>6, <1>7 DEF PathInv

\* The mark makes the batch the siblings of its id: none of its records was
\* marked, and no other record carries the id.
LEMMA MarkPath ==
    ASSUME TypeInv, CoverInv, Alone, PathInv, [Next]_vars,
           NEW w \in Procs, MarkAnchored(w)
    PROVE  PathInv'
<1> DEFINE b == flush[w].id
<1> USE DEF TypeInv, DbOK, TickOK
<1>1. /\ pc[w] = "mark" /\ pc'[w] = "idle" /\ flush'[w] = NoFlush
      /\ UNCHANGED <<batches, roots, reorgs>> /\ \A v \in Procs : v = w
  BY DEF MarkAnchored, End, Go, Alone, chainVars, bounds
<1>2. b \in Ids /\ flush[w].batch \subseteq Records
  BY <1>1 DEF Flushes
<1>3. \A r \in Records : mark'[r] = IF r \in flush[w].batch THEN b ELSE mark[r]
  BY DEF MarkAnchored
<1>4. BatchUnmarked' /\ IdFresh' /\ LoadedIsCurrent' /\ WrittenIsBatch'
  BY <1>1 DEF BatchUnmarked, IdFresh, LoadedIsCurrent, WrittenIsBatch, NoFlush
<1>5. ASSUME reorgs = 0, NEW r \in Records, mark'[r] # Null
      PROVE  LET S == {q \in Records : mark'[q] = mark'[r]}
             IN  /\ batches[mark'[r]] # Null /\ batches[mark'[r]].root = S
                 /\ Anchored(mark'[r], S)
  <2> DEFINE S == {q \in Records : mark'[q] = mark'[r]}
  <2>1. \A q \in Records : mark[q] # b
    BY <1>1, <1>5 DEF PathInv, IdFresh
  <2>2. CASE r \in flush[w].batch
    <3>1. mark'[r] = b /\ S = flush[w].batch
      BY <1>2, <1>3, <2>1, <2>2
    <3>2. batches[b] # Null /\ batches[b].root = flush[w].batch
      BY <1>1 DEF PathInv, WrittenIsBatch
    <3>3. Anchored(b, flush[w].batch)
      BY <1>1, <1>5 DEF CoverInv, SeenIsAnchored
    <3> QED
      BY <3>1, <3>2, <3>3
  <2>3. CASE r \notin flush[w].batch
    <3>1. mark'[r] = mark[r] /\ mark[r] # b
      BY <1>3, <2>1, <2>3
    <3>2. \A q \in flush[w].batch : mark[q] = Null
      BY DEF PathInv, BatchUnmarked
    <3>3. S = Siblings(mark[r])
      BY <1>2, <1>3, <1>5, <3>1, <3>2 DEF Siblings
    <3> QED
      BY <1>5, <3>1, <3>3 DEF PathInv, PathsReach
  <2> QED
    BY <2>2, <2>3
<1>6. PathsReach'
  <2> SUFFICES ASSUME reorgs = 0, NEW r \in Records, mark'[r] # Null
               PROVE  LET S == {q \in Records : mark'[q] = mark'[r]}
                      IN  /\ batches'[mark'[r]] # Null /\ batches'[mark'[r]].root = S
                          /\ mark'[r] \in 1..Len(roots') /\ roots'[mark'[r]] = S
    BY <1>1 DEF PathsReach, Siblings, Anchored, LastBatchId
  <2> QED
    BY <1>1, <1>5 DEF Anchored, LastBatchId
<1> QED
  BY <1>4, <1>6 DEF PathInv

LEMMA PathStep ==
    ASSUME TypeInv, CoverInv, Alone, PathInv, [Next]_vars
    PROVE  PathInv'
<1> USE DEF dbVars, chainVars, tickVars, bounds
<1>1. ASSUME NEW w \in Procs, Load(w) PROVE PathInv'
  <2>1. \A r \in Oldest(Pending) : mark[r] = Null
    BY DEF Oldest, Pending
  <2>2. UNCHANGED <<mark, batches, reorgs>> /\ pc'[w] = "lastId" /\ \A v \in Procs : v = w
    BY <1>1 DEF Load, Go, TypeInv, TickOK, Alone
  <2>3. flush'[w].batch = Oldest(Pending)
    BY <1>1 DEF Load, TypeInv, TickOK, Flushes
  <2> QED
    BY <2>1, <2>2, <2>3, QuietPath
<1>2. ASSUME NEW w \in Procs, ReadLastId(w) PROVE PathInv'
  <2>1. UNCHANGED <<mark, batches, reorgs>> /\ pc'[w] = "estimate" /\ \A v \in Procs : v = w
    BY <1>2 DEF ReadLastId, Go, TypeInv, TickOK, Alone
  <2>2. flush'[w].batch = flush[w].batch /\ flush'[w].id = LastBatchId + 1
    BY <1>2 DEF ReadLastId, TypeInv, TickOK, Flushes
  <2>3. ASSUME reorgs = 0, NEW r \in Records PROVE mark[r] # LastBatchId + 1
    <3>1. LastBatchId \in Nat /\ LastBatchId + 1 # Null
      BY AuditConstants DEF TypeInv, ChainOK, LastBatchId
    <3>2. mark[r] # Null => mark[r] <= LastBatchId
      BY <2>3 DEF CoverInv, MarkedIsCovered
    <3> QED
      BY <3>1, <3>2
  <2> QED
    BY <2>1, <2>2, <2>3, QuietPath DEF PathInv, BatchUnmarked
<1>3. ASSUME NEW w \in Procs, UpsertLoad(w) PROVE PathInv'
  <2>1. /\ UNCHANGED <<mark, batches, reorgs>> /\ \A v \in Procs : v = w
        /\ pc[w] \notin {"idle", "lastId"} /\ pc'[w] \in {"upsertAnchored", "upsertFailed"}
    BY <1>3 DEF UpsertLoad, Go, TypeInv, TickOK, Alone
  <2>2. /\ flush'[w].batch = flush[w].batch /\ flush'[w].id = flush[w].id
        /\ flush'[w].row = batches[flush[w].id]
    BY <1>3 DEF UpsertLoad, TypeInv, TickOK, Flushes
  <2> QED
    BY <2>1, <2>2, QuietPath DEF PathInv, BatchUnmarked, IdFresh
<1>4. ASSUME NEW w \in Procs, UpsertCommit(w), Insertable(w) PROVE PathInv'
  <2>1. IdFresh'
    BY <1>4 DEF UpsertCommit, Keep, End, Go, TypeInv, TickOK, Alone, PathInv, IdFresh
  <2> QED
    BY <1>4, <2>1, UpsertPath
<1>5. ASSUME NEW w \in Procs, MarkAnchored(w) PROVE PathInv'
  BY <1>5, MarkPath
<1>6. ASSUME NEW w \in Procs, \E from \in Labels : End(w, from), UNCHANGED <<mark, batches, reorgs>>
      PROVE  PathInv'
  <2>1. pc'[w] = "idle" /\ flush'[w] = NoFlush /\ \A v \in Procs : v = w
    BY <1>6 DEF End, Go, TypeInv, TickOK, Alone
  <2> QED
    BY <1>6, <2>1, QuietPath DEF NoFlush
<1>7. ASSUME NEW w \in Procs, UNCHANGED <<mark, batches, reorgs>>,
             pc[w] \notin {"idle", "lastId"}, pc'[w] \notin {"upsertAnchored", "upsertFailed", "mark"},
             flush'[w].batch = flush[w].batch, flush'[w].id = flush[w].id
      PROVE  PathInv'
  <2>1. \A v \in Procs : v = w
    BY DEF Alone
  <2> QED
    BY <1>7, <2>1, QuietPath DEF PathInv, BatchUnmarked, IdFresh
<1>8. ASSUME NEW w \in Procs, Estimate(w) \/ Send(w) PROVE PathInv'
  <2>1. CASE End(w, "estimate") \/ End(w, "send")
    BY <1>6, <1>8, <2>1 DEF Estimate, Send, Labels
  <2>2. CASE ~(End(w, "estimate") \/ End(w, "send"))
    BY <1>7, <1>8, <2>2 DEF Estimate, Send, Keep, Go, TypeInv, TickOK, Flushes
  <2> QED
    BY <2>1, <2>2
<1>9. ASSUME NEW w \in Procs,
             Confirm(w) \/ ConfirmTimeout(w) \/ Verify(w) \/ Resolve(w) \/ Unresolved(w)
      PROVE  PathInv'
  BY <1>7, <1>9 DEF Confirm, ConfirmTimeout, Verify, Resolve, Unresolved, Keep, Go,
                    TypeInv, TickOK, Flushes
<1>10. ASSUME NEW w \in Procs, UpsertCommit(w), ~Insertable(w) PROVE PathInv'
  BY <1>6, <1>10 DEF UpsertCommit, Labels
<1>11. ASSUME NEW w \in Procs, Abort(w) PROVE PathInv'
  BY <1>6, <1>11 DEF Abort, TypeInv, TickOK
<1>12. ASSUME UNCHANGED <<mark, batches, tickVars>>, reorgs' = 0 => reorgs = 0 PROVE PathInv'
  BY <1>12, QuietPath DEF PathInv, BatchUnmarked, IdFresh, LoadedIsCurrent
<1>13. ASSUME (\E r \in Records : Write(r)) \/ Land \/ Reorg \/ UNCHANGED vars PROVE PathInv'
  BY <1>12, <1>13, AuditConstants DEF Write, Land, Reorg, vars, TypeInv, BoundsOK
<1> QED
  BY <1>1, <1>2, <1>3, <1>4, <1>5, <1>8, <1>9, <1>10, <1>11, <1>13 DEF Next, Tick

\* With one worker, and a chain that takes nothing back, the proof the gateway
\* builds for a marked record leads to the chain (audit.py, record_proof).
THEOREM ProofReachesChainHolds == Spec => []ProofReachesChain
<1>1. Init => PathInv
  BY DEF Init, PathInv, BatchUnmarked, IdFresh, LoadedIsCurrent, WrittenIsBatch, NoFlush,
         PathsReach
<1>2. Init => CoverInv
  BY DEF Init, CoverInv, SeenIsAnchored, MarkedIsCovered
<1>3. TypeInv /\ CoverInv /\ [Next]_vars => CoverInv'
  BY SeenStep, CoveredStep DEF CoverInv
<1>4. TypeInv /\ CoverInv /\ (Alone => PathInv) /\ [Next]_vars => (Alone => PathInv)'
  <2>1. (Alone => PathInv)' = (Alone => PathInv')
    BY DEF Alone
  <2> QED
    BY <2>1, PathStep
<1>5. TypeInv /\ (Alone => PathInv) => ProofReachesChain
  <2>1. TypeInv /\ OneWorker => Alone
    BY DEF TypeInv, TickOK, OneWorker, Alone
  <2> QED
    BY <2>1 DEF PathInv, PathsReach, ProofReachesChain
<1> QED
  BY <1>1, <1>2, <1>3, <1>4, <1>5, TypeInvariant, PTL DEF Spec

\* No record that is marked is moved to another batch.
MarksStand == \A r \in Records : mark[r] # Null => mark'[r] = mark[r]

\* With one worker, a record stays in the batch it was anchored with, whatever
\* is retried, given up or reorganised: the proof path an auditor was given is
\* not replaced by another (worker.py, mark_anchored).
THEOREM MarksStandHolds == ASSUME Alone PROVE Spec => [][MarksStand]_vars
<1>1. Init => PathInv
  BY DEF Init, PathInv, BatchUnmarked, IdFresh, LoadedIsCurrent, WrittenIsBatch, NoFlush,
         PathsReach
<1>2. Init => CoverInv
  BY DEF Init, CoverInv, SeenIsAnchored, MarkedIsCovered
<1>3. TypeInv /\ CoverInv /\ [Next]_vars => CoverInv'
  BY SeenStep, CoveredStep DEF CoverInv
<1>4. TypeInv /\ CoverInv /\ PathInv /\ [Next]_vars => PathInv'
  BY PathStep
<1>5. PathInv /\ [Next]_vars => [MarksStand]_vars
  <2> SUFFICES ASSUME PathInv, Next PROVE MarksStand
    BY DEF vars
  <2>1. ASSUME NEW w \in Procs, MarkAnchored(w) PROVE MarksStand
    BY <2>1 DEF MarkAnchored, MarksStand, PathInv, BatchUnmarked
  <2>2. CASE mark' = mark
    BY <2>2 DEF MarksStand
  <2>3. ASSUME NEW w \in Procs, Tick(w), ~MarkAnchored(w) PROVE mark' = mark
    BY <2>3 DEF Tick, Load, ReadLastId, Estimate, Send, Confirm, ConfirmTimeout, Verify,
                Resolve, Unresolved, UpsertLoad, UpsertCommit, dbVars
  <2>4. ASSUME NEW w \in Procs, Abort(w) PROVE mark' = mark
    BY <2>4 DEF Abort, dbVars
  <2>5. ASSUME (\E r \in Records : Write(r)) \/ Land \/ Reorg PROVE mark' = mark
    BY <2>5 DEF Write, Land, Reorg, dbVars
  <2> QED
    BY <2>1, <2>2, <2>3, <2>4, <2>5 DEF Next
<1> QED
  BY <1>1, <1>2, <1>3, <1>4, <1>5, TypeInvariant, PTL DEF Spec
=============================================================================
