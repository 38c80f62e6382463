----------------------------- MODULE AuditAnchor -----------------------------
(***************************************************************************)
(* The audit service: the worker of every replica folds the records that   *)
(* are not anchored yet into one batch, has the AuditAnchor contract store *)
(* the batch's Merkle root under the next batch id, and then records the   *)
(* batch and marks its records.  All replicas sign with the same wallet.   *)
(*                                                                         *)
(* A Merkle root is abstracted to the set of records it covers: the leaves *)
(* are always ordered by (created_at, id), so equal sets give equal roots. *)
(* Records are numbered in that order; they may be committed in any order. *)
(***************************************************************************)
EXTENDS Integers, Sequences, FiniteSets

CONSTANTS
    Records,      \* audit records, numbered by (created_at, id)
    Procs,        \* replicas of the audit service, one worker each
    MaxRecords,   \* anchor_batch_max_records
    MaxAttempts,  \* anchor_max_attempts
    MaxBatch,     \* bound: batch ids
    MaxFaults,    \* bound: timeouts, RPC errors, database errors and crashes
    MaxReorgs,    \* bound: reorgs of the chain's last transaction
    Null

ASSUME AuditConstants ==
    /\ Records \subseteq Nat
    /\ MaxRecords \in Nat \ {0} /\ MaxAttempts \in Nat \ {0}
    /\ MaxBatch \in Nat /\ MaxFaults \in Nat /\ MaxReorgs \in Nat
    /\ Null \notin Nat \cup [root : SUBSET Records, status : {"anchored", "failed"}]

VARIABLES
    written,  \* committed audit records
    mark,     \* committed column anchored_batch_id
    batches,  \* table anchor_batches by batch id: root and status, or Null
    roots,    \* the contract: roots[b] is batchRoots[b], its length lastBatchId
    pool,     \* the wallet's transactions, by nonce
    pc,       \* where a worker's tick is
    flush,    \* the locals of the tick: the batch, the batch id, nonce and number
              \* of the current attempt, and the anchor_batches row it has loaded
    faults, reorgs

dbVars == <<written, mark, batches>>
chainVars == <<roots, pool>>
tickVars == <<pc, flush>>
bounds == <<faults, reorgs>>
vars == <<dbVars, chainVars, tickVars, bounds>>

Ids == 1..MaxBatch
Rows == [root : SUBSET Records, status : {"anchored", "failed"}]
Submissions == [id : Ids, root : SUBSET Records, by : Procs,
                state : {"pending", "ok", "reverted"}]
Flushes == [batch : SUBSET Records, id : 0..MaxBatch, slot : Nat,
            attempt : 1..MaxAttempts, row : Rows \cup {Null}]
NoFlush == [batch |-> {}, id |-> 0, slot |-> 0, attempt |-> 1, row |-> Null]

TypeOK ==
    /\ written \subseteq Records
    /\ mark \in [Records -> Ids \cup {Null}]
    /\ batches \in [Ids -> Rows \cup {Null}]
    /\ roots \in Seq(SUBSET Records)
    /\ pool \in Seq(Submissions)
    /\ pc \in [Procs -> {"idle", "lastId", "estimate", "send", "confirm", "verify",
                         "resolve", "anchored", "failed", "upsertAnchored",
                         "upsertFailed", "mark"}]
    /\ flush \in [Procs -> Flushes]
    /\ faults \in 0..MaxFaults
    /\ reorgs \in 0..MaxReorgs

Init ==
    /\ written = {}
    /\ mark = [r \in Records |-> Null]
    /\ batches = [b \in Ids |-> Null]
    /\ roots = <<>>
    /\ pool = <<>>
    /\ pc = [w \in Procs |-> "idle"]
    /\ flush = [w \in Procs |-> NoFlush]
    /\ faults = 0 /\ reorgs = 0

Go(w, from, to) ==
    /\ pc[w] = from
    /\ pc' = [pc EXCEPT ![w] = to]

\* The step keeps the tick's locals, or ends the tick and drops them.
Keep(w, from, to) == Go(w, from, to) /\ UNCHANGED flush
End(w, from) == Go(w, from, "idle") /\ flush' = [flush EXCEPT ![w] = NoFlush]

Fault == faults < MaxFaults /\ faults' = faults + 1

LastBatchId == Len(roots)

\* getBatchRoot: the root stored for batch b is that of the records S.
Anchored(b, S) == b \in 1..LastBatchId /\ roots[b] = S

-----------------------------------------------------------------------------
(* Records and the load of a batch *)

\* The gateway commits an audit record.
Write(r) ==
    /\ r \in Records \ written
    /\ written' = written \cup {r}
    /\ UNCHANGED <<mark, batches, chainVars, tickVars, bounds>>

Pending == {r \in written : mark[r] = Null}

\* ORDER BY created_at, id LIMIT MaxRecords
Oldest(S) == {r \in S : Cardinality({q \in S : q < r}) < MaxRecords}

\* Mutant: only a full batch is due, the interval is forgotten.
LoadMutant(w) ==
    /\ Cardinality(Pending) >= MaxRecords
    /\ Go(w, "idle", "lastId")
    /\ flush' = [flush EXCEPT ![w].batch = Oldest(Pending)]
    /\ UNCHANGED <<dbVars, chainVars, bounds>>

\* A tick that finds records, and either a full batch or the interval elapsed.
Load(w) ==
    /\ Pending # {}
    /\ Go(w, "idle", "lastId")
    /\ flush' = [flush EXCEPT ![w].batch = Oldest(Pending)]
    /\ UNCHANGED <<dbVars, chainVars, bounds>>

-----------------------------------------------------------------------------
(* AnchorBatcher.flush: one attempt is lastBatchId, submit, verify *)

ReadLastId(w) ==
    /\ LastBatchId < MaxBatch
    /\ Go(w, "lastId", "estimate")
    /\ flush' = [flush EXCEPT ![w].id = LastBatchId + 1]
    /\ UNCHANGED <<dbVars, chainVars, bounds>>

\* The wallet's pending nonce, and a gas estimate that fails the tick when the
\* contract would revert by now.
Estimate(w) ==
    /\ \/ /\ flush[w].id = LastBatchId + 1
          /\ Go(w, "estimate", "send")
          /\ flush' = [flush EXCEPT ![w].slot = Len(pool) + 1]
       \/ flush[w].id # LastBatchId + 1 /\ End(w, "estimate")
    /\ UNCHANGED <<dbVars, chainVars, bounds>>

Submission(w) ==
    [id |-> flush[w].id, root |-> flush[w].batch, by |-> w, state |-> "pending"]

\* eth_sendRawTransaction.  A nonce another replica has used since is rejected,
\* unless that transaction is pending and this one outbids it.
Send(w) ==
    LET n == flush[w].slot IN
    /\ \/ n = Len(pool) + 1 /\ Keep(w, "send", "confirm") /\ pool' = Append(pool, Submission(w))
       \/ /\ Keep(w, "send", "confirm")
          /\ n \in DOMAIN pool /\ pool[n].state = "pending"
          /\ pool' = [pool EXCEPT ![n] = Submission(w)]
       \/ n \in DOMAIN pool /\ End(w, "send") /\ UNCHANGED pool
    /\ UNCHANGED <<dbVars, roots, bounds>>

\* The worker's transaction was not replaced, and its receipt says `state`.
Receipt(w, state) ==
    flush[w].slot \in DOMAIN pool /\ pool[flush[w].slot].by = w
                                  /\ pool[flush[w].slot].state = state

\* One confirmation, or a revert: then the batch id is looked up.
Confirm(w) ==
    /\ \/ Receipt(w, "ok") /\ Keep(w, "confirm", "verify")
       \/ Receipt(w, "reverted") /\ Keep(w, "confirm", "resolve")
    /\ UNCHANGED <<dbVars, chainVars, bounds>>

\* confirm_timeout_seconds: the transaction is late, or was replaced and has
\* no receipt at all.
ConfirmTimeout(w) ==
    /\ Keep(w, "confirm", "resolve")
    /\ ~Receipt(w, "ok") /\ ~Receipt(w, "reverted")
    /\ IF Receipt(w, "pending") THEN Fault ELSE UNCHANGED faults
    /\ UNCHANGED <<dbVars, chainVars, reorgs>>

\* The root must be the one submitted; it need not be after a reorg.
Verify(w) ==
    /\ IF Anchored(flush[w].id, flush[w].batch)
         THEN Keep(w, "verify", "anchored")
         ELSE Keep(w, "verify", "resolve")
    /\ UNCHANGED <<dbVars, chainVars, bounds>>

\* Mutant: any root under the batch id counts as the submitted one.
ResolveMutant(w) ==
    /\ flush[w].id \in 1..LastBatchId
    /\ Keep(w, "resolve", "anchored")
    /\ UNCHANGED <<dbVars, chainVars, bounds>>

\* _resolved found the root: the attempt had succeeded after all.
Resolve(w) ==
    /\ Anchored(flush[w].id, flush[w].batch)
    /\ Keep(w, "resolve", "anchored")
    /\ UNCHANGED <<dbVars, chainVars, bounds>>

\* It did not, or could not ask: back off and try again, or give up.
Unresolved(w) ==
    /\ IF Anchored(flush[w].id, flush[w].batch) THEN Fault ELSE UNCHANGED faults
    /\ \/ /\ flush[w].attempt < MaxAttempts
          /\ Go(w, "resolve", "lastId")
          /\ flush' = [flush EXCEPT ![w].attempt = @ + 1]
       \/ /\ flush[w].attempt = MaxAttempts
          /\ Keep(w, "resolve", "failed")
    /\ UNCHANGED <<dbVars, chainVars, reorgs>>

-----------------------------------------------------------------------------
(* upsert_batch and mark_anchored: a transaction each *)

UpsertLoad(w) ==
    /\ \/ Go(w, "anchored", "upsertAnchored")
       \/ Go(w, "failed", "upsertFailed")
    /\ flush' = [flush EXCEPT ![w].row = batches[flush[w].id]]
    /\ UNCHANGED <<dbVars, chainVars, bounds>>

\* The flush of a loaded row writes the columns it changes.
Flushed(old, loaded, new) ==
    [f \in DOMAIN new |-> IF new[f] = loaded[f] THEN old[f] ELSE new[f]]

\* The row the upsert leaves: an update of the loaded one, or an insert.
Upserted(w, status) ==
    LET new == [root |-> flush[w].batch, status |-> status]
    IN  [batches EXCEPT ![flush[w].id] =
            IF flush[w].row = Null THEN new ELSE Flushed(@, flush[w].row, new)]

\* batch_id is unique: an insert fails when another replica was first.
Insertable(w) == flush[w].row # Null \/ batches[flush[w].id] = Null

UpsertCommit(w) ==
    /\ pc[w] \in {"upsertAnchored", "upsertFailed"}
    /\ \/ /\ Insertable(w)
          /\ \/ Keep(w, "upsertAnchored", "mark") /\ batches' = Upserted(w, "anchored")
             \/ End(w, "upsertFailed") /\ batches' = Upserted(w, "failed")
       \/ ~Insertable(w) /\ End(w, pc[w]) /\ UNCHANGED batches
    /\ UNCHANGED <<written, mark, chainVars, bounds>>

\* Mutant: marks every record that is still unmarked, not the batch's.
MarkAnchoredMutant(w) ==
    /\ End(w, "mark")
    /\ mark' = [r \in Records |-> IF r \in Pending THEN flush[w].id ELSE mark[r]]
    /\ UNCHANGED <<written, batches, chainVars, bounds>>

MarkAnchored(w) ==
    /\ End(w, "mark")
    /\ mark' = [r \in Records |-> IF r \in flush[w].batch THEN flush[w].id ELSE mark[r]]
    /\ UNCHANGED <<written, batches, chainVars, bounds>>

\* An RPC or database error the tick does not catch, or the process's end: the
\* next tick starts over.
Abort(w) ==
    /\ Fault
    /\ pc[w] # "idle"
    /\ End(w, pc[w])
    /\ UNCHANGED <<dbVars, chainVars, reorgs>>

-----------------------------------------------------------------------------
(* The chain: transactions of the wallet execute in nonce order *)

Executable == {n \in DOMAIN pool : pool[n].state = "pending"
                              /\ \A k \in 1..(n - 1) : pool[k].state # "pending"}

\* AuditAnchor.anchorBatch: the next id is stored, any other reverts.
Land ==
    /\ \E n \in Executable :
         IF pool[n].id = LastBatchId + 1
           THEN /\ roots' = Append(roots, pool[n].root)
                /\ pool' = [pool EXCEPT ![n].state = "ok"]
           ELSE /\ pool' = [pool EXCEPT ![n].state = "reverted"]
                /\ UNCHANGED roots
    /\ UNCHANGED <<dbVars, tickVars, bounds>>

LastExecuted == {n \in DOMAIN pool : pool[n].state # "pending"
                              /\ \A k \in DOMAIN pool : k > n => pool[k].state = "pending"}

\* anchor_confirmations is 1: the block of the last transaction may go.
Reorg ==
    /\ reorgs < MaxReorgs
    /\ reorgs' = reorgs + 1
    /\ \E n \in LastExecuted :
         /\ pool' = [pool EXCEPT ![n].state = "pending"]
         /\ roots' = IF pool[n].state = "ok" THEN SubSeq(roots, 1, LastBatchId - 1) ELSE roots
    /\ UNCHANGED <<dbVars, tickVars, faults>>

-----------------------------------------------------------------------------
Tick(w) ==
    \/ Load(w) \/ ReadLastId(w) \/ Estimate(w) \/ Send(w)
    \/ Confirm(w) \/ ConfirmTimeout(w) \/ Verify(w) \/ Resolve(w) \/ Unresolved(w)
    \/ UpsertLoad(w) \/ UpsertCommit(w) \/ MarkAnchored(w)

Next ==
    \/ \E r \in Records : Write(r)
    \/ \E w \in Procs : Tick(w) \/ Abort(w)
    \/ Land \/ Reorg

Spec == Init /\ [][Next]_vars

\* The loop ticks forever, and the chain executes what its node has taken.
FairSpec == Spec /\ WF_vars(Land) /\ \A w \in Procs : WF_vars(Tick(w))

-----------------------------------------------------------------------------
(* Properties; the first two speak of a chain that takes nothing back *)

Siblings(b) == {r \in Records : mark[r] = b}

\* A marked record is covered by the root that the contract holds for its
\* batch id, whatever the other replicas do (worker.py, tick).
MarkedIsCovered ==
    reorgs = 0 => \A r \in Records :
        mark[r] # Null => mark[r] <= LastBatchId /\ r \in roots[mark[r]]

\* One replica runs.
OneWorker == \A v, w \in DOMAIN pc : v = w

\* The proof the gateway builds for a marked record leads to the chain: the
\* records that carry its batch id are exactly those under the root stored in
\* anchor_batches, and the contract holds that root under the same id
\* (audit.py, record_proof; models/audit.py: every record gets a proof path).
\* Two workers may move a record to a later batch, and break the proofs of its
\* siblings in the former.
ProofReachesChain ==
    reorgs = 0 /\ OneWorker => \A r \in Records : mark[r] # Null =>
        /\ batches[mark[r]] # Null /\ batches[mark[r]].root = Siblings(mark[r])
        /\ Anchored(mark[r], Siblings(mark[r]))

\* A failed flush only retains its records: every committed record is
\* anchored and marked in the end (batcher.py: no record is silently dropped).
NothingLost == \A r \in Records : r \in written ~> mark[r] # Null
=============================================================================
