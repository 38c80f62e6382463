------------------------------- MODULE StuckTx -------------------------------
(***************************************************************************)
(* What happens to a transaction after its broadcast: the execution        *)
(* worker of every replica confirms it, watches it for reorgs and flags it *)
(* stuck, and a client replaces a stuck one (RBF or cancel) with a newly   *)
(* signed payload that is screened again before it is sent.                *)
(*                                                                         *)
(* Time is counted in blocks: `height - sentAt[t]` is the age of a         *)
(* broadcast.  A worker's SQLAlchemy session keeps the rows as they were   *)
(* loaded and flushes UPDATE ... WHERE id at its commit, awaits having     *)
(* passed in between.  The single-use token of a replacement is an input:  *)
(* every replace request here is one whose token was live.                 *)
(*                                                                         *)
(* A process reads the RPC providers of its chains from its environment    *)
(* when it starts, so a restart may find another set of them configured.   *)
(***************************************************************************)
EXTENDS Integers, FiniteSets

CONSTANTS
    TxIds,        \* rows that were broadcast
    Procs,        \* replicas of the execution service, one worker each
    Calls,        \* slots for replace requests
    Proc,         \* [Calls -> Procs]
    Kinds,        \* payloads a client may sign to replace a row, by what they do
    Configs,      \* the rows whose chain has a provider, per way of deploying
    Limit,        \* rows that one pass of a tick takes (200)
    Conf,         \* confirmations of the chain
    StuckAfter,   \* stuck_after_seconds, in blocks
    MaxHeight,    \* bound: blocks of the chain
    MaxReorgs,    \* bound: reorgs
    MaxReplaces,  \* bound: replace requests
    MaxCrashes,   \* bound: crashes and failed ticks
    Null

\* A payload for a row's nonce: the one first broadcast, the same intent at a
\* higher price, the same `to` and `value` with other calldata, or the
\* zero-value transfer to self.
AllKinds == {"orig", "rbf", "altered", "cancel"}

ASSUME StuckConstants ==
    /\ Proc \in [Calls -> Procs]
    /\ Kinds \subseteq AllKinds \ {"orig"}
    /\ Conf \in Nat /\ StuckAfter \in Nat
    /\ MaxHeight \in Nat /\ MaxReorgs \in Nat
    /\ MaxReplaces \in Nat /\ MaxCrashes \in Nat
    /\ Null \notin Nat /\ Null \notin Calls /\ Null \notin AllKinds

\* Every row was broadcast, so one way of deploying has all the providers.
ASSUME DeployConstants ==
    /\ TxIds \in Configs /\ Configs \subseteq SUBSET TxIds
    /\ Limit \in Nat \ {0}

VARIABLES
    status,    \* committed column status
    hash,      \* committed column tx_hash: the kind of payload it names
    block,     \* committed column block_number
    sentAt,    \* committed column broadcast_at, as a height
    stuckAt,   \* committed column stuck_at is not NULL
    lock,      \* row locks: the replace whose open transaction holds the row
    posted,    \* posted[t]: kinds of payload of row t that a node has taken
    incl,      \* incl[t][k]: block that includes payload k of row t
    height,    \* the chain's tip
    wpc,       \* where a worker's tick is
    todo,      \* rows the worker has loaded and not polled yet
    loaded,    \* what the worker's session holds: hash and block of a row
    polled,    \* the row and the receipt block between the two RPC reads
    found,     \* rows the tick will write, with the block it saw
    cpc,       \* where a replace request is
    row,       \* the row it replaces
    kind,      \* the payload it carries
    configured,  \* configured[p]: rows for whose chain replica p has a provider
    reorgs, replaces, crashes

rowVars == <<status, hash, block, sentAt, stuckAt, lock>>
chainVars == <<posted, incl, height>>
workerVars == <<wpc, todo, loaded, polled, found>>
callVars == <<cpc, row, kind>>
envVars == <<configured, reorgs, replaces, crashes>>
vars == <<rowVars, chainVars, workerVars, callVars, envVars>>

Heights == 0..MaxHeight
WorkerSync == {"commit", "watch", "watchCommit", "flag", "flagCommit"}
WorkerAwait == {"idle", "receipt", "tip", "recheck"}
CallAwait == {"idle", "screen", "send"}
CallSync == {"claim"}

TypeOK ==
    /\ status \in [TxIds -> {"broadcast", "broadcasting", "executed", "stuck", "reorged"}]
    /\ hash \in [TxIds -> AllKinds]
    /\ block \in [TxIds -> Heights \cup {Null}]
    /\ sentAt \in [TxIds -> Heights]
    /\ stuckAt \in [TxIds -> BOOLEAN]
    /\ lock \in [TxIds -> Calls \cup {Null}]
    /\ posted \in [TxIds -> SUBSET AllKinds]
    /\ incl \in [TxIds -> [AllKinds -> Heights \cup {Null}]]
    /\ height \in Heights
    /\ wpc \in [Procs -> WorkerSync \cup WorkerAwait]
    /\ todo \in [Procs -> SUBSET TxIds]
    /\ loaded \in [Procs -> [TxIds -> AllKinds \X (Heights \cup {Null})]]
    /\ polled \in [Procs -> (TxIds \X Heights) \cup {Null}]
    /\ found \in [Procs -> [TxIds -> Heights \cup {Null}]]
    /\ cpc \in [Calls -> CallSync \cup CallAwait]
    /\ row \in [Calls -> TxIds \cup {Null}]
    /\ kind \in [Calls -> AllKinds \cup {Null}]
    /\ configured \in [Procs -> Configs]
    /\ reorgs \in 0..MaxReorgs
    /\ replaces \in 0..MaxReplaces
    /\ crashes \in 0..MaxCrashes

Nothing == [t \in TxIds |-> Null]

Init ==
    /\ status = [t \in TxIds |-> "broadcast"]
    /\ hash = [t \in TxIds |-> "orig"]
    /\ block = Nothing
    /\ sentAt = [t \in TxIds |-> 0]
    /\ stuckAt = [t \in TxIds |-> FALSE]
    /\ lock = Nothing
    /\ posted = [t \in TxIds |-> {"orig"}]
    /\ incl = [t \in TxIds |-> [k \in AllKinds |-> Null]]
    /\ height = 0
    /\ wpc = [w \in Procs |-> "idle"]
    /\ todo = [w \in Procs |-> {}]
    /\ loaded = [w \in Procs |-> [t \in TxIds |-> <<"orig", Null>>]]
    /\ polled = [w \in Procs |-> Null]
    /\ found = [w \in Procs |-> Nothing]
    /\ cpc = [c \in Calls |-> "idle"]
    /\ row = [c \in Calls |-> Null]
    /\ kind = [c \in Calls |-> Null]
    /\ configured = [p \in Procs |-> TxIds]
    /\ reorgs = 0 /\ replaces = 0 /\ crashes = 0

-----------------------------------------------------------------------------
(* One event loop per replica, shared by its worker and its requests *)

Busy(p) ==
    \/ wpc[p] \in WorkerSync
    \/ \E c \in Calls : Proc[c] = p /\ cpc[c] \in CallSync

\* Rows the tick is about to write.
Hits(w) == {t \in TxIds : found[w][t] # Null}

\* The flush waits for the lock of every row it writes.
Free(S) == \A t \in S : lock[t] = Null

\* What a query with LIMIT returns of the rows that match it.
Batches(S) ==
    {T \in SUBSET S : IF Cardinality(S) <= Limit THEN T = S ELSE Cardinality(T) = Limit}

\* The session loads the rows of S and the tick goes on to `next`, or to
\* `none` when there is nothing to poll.
Load(w, S, next, none) ==
    /\ todo' = [todo EXCEPT ![w] = S]
    /\ loaded' = [loaded EXCEPT ![w] =
                     [t \in TxIds |-> IF t \in S THEN <<hash[t], block[t]>> ELSE @[t]]]
    /\ wpc' = [wpc EXCEPT ![w] = IF S = {} THEN none ELSE next]

\* Row t has been polled; after the last one the tick writes what it found.
Polled(w, t, next, last) ==
    /\ todo' = [todo EXCEPT ![w] = @ \ {t}]
    /\ wpc' = [wpc EXCEPT ![w] = IF todo[w] = {t} THEN last ELSE next]

\* The tick is given up and its open transaction rolled back: nothing that it
\* has found in the pass under way is written, and no later pass runs.
TickAborted(w) ==
    /\ wpc' = [wpc EXCEPT ![w] = "idle"]
    /\ todo' = [todo EXCEPT ![w] = {}]
    /\ polled' = [polled EXCEPT ![w] = Null]
    /\ found' = [found EXCEPT ![w] = Nothing]

-----------------------------------------------------------------------------
(* ConfirmMonitor.confirm_broadcasts *)

ConfirmLoad(w) ==
    /\ wpc[w] = "idle"
    /\ ~Busy(w)
    /\ \E T \in Batches({t \in TxIds : status[t] = "broadcast"}) :
          Load(w, T, "receipt", "watch")
    /\ UNCHANGED <<rowVars, chainVars, polled, found, callVars, envVars>>

\* eth_getTransactionReceipt for the hash the session holds.
ConfirmReceipt(w, t) ==
    /\ wpc[w] = "receipt"
    /\ ~Busy(w)
    /\ t \in todo[w] \cap configured[w]
    /\ LET b == incl[t][loaded[w][t][1]] IN
       IF b = Null
       THEN /\ Polled(w, t, "receipt", "commit")
            /\ UNCHANGED polled
       ELSE /\ polled' = [polled EXCEPT ![w] = <<t, b>>]
            /\ wpc' = [wpc EXCEPT ![w] = "tip"]
            /\ UNCHANGED todo
    /\ UNCHANGED <<rowVars, chainVars, loaded, found, callVars, envVars>>

\* Mutant: the transaction counts as confirmed one block early.
ConfirmTipMutant(w) ==
    /\ wpc[w] = "tip"
    /\ ~Busy(w)
    /\ LET t == polled[w][1]
           b == polled[w][2] IN
       /\ found' = IF height - b >= Conf - 1
                   THEN [found EXCEPT ![w][t] = b] ELSE found
       /\ Polled(w, t, "receipt", "commit")
    /\ polled' = [polled EXCEPT ![w] = Null]
    /\ UNCHANGED <<rowVars, chainVars, loaded, callVars, envVars>>

\* eth_blockNumber, a read of its own: the receipt may be out of date by now.
ConfirmTip(w) ==
    /\ wpc[w] = "tip"
    /\ ~Busy(w)
    /\ LET t == polled[w][1]
           b == polled[w][2] IN
       /\ found' = IF height - b >= Conf
                   THEN [found EXCEPT ![w][t] = b] ELSE found
       /\ Polled(w, t, "receipt", "commit")
    /\ polled' = [polled EXCEPT ![w] = Null]
    /\ UNCHANGED <<rowVars, chainVars, loaded, callVars, envVars>>

\* An RPCError of either read leaves the row for the next tick; one pass polls
\* with the chain's providers throughout.
ConfirmError(w, t) ==
    /\ \/ wpc[w] = "receipt" /\ t \in todo[w] \cap configured[w]
       \/ wpc[w] = "tip" /\ t = polled[w][1]
    /\ ~Busy(w)
    /\ Polled(w, t, "receipt", "commit")
    /\ polled' = [polled EXCEPT ![w] = Null]
    /\ UNCHANGED <<rowVars, chainVars, loaded, found, callVars, envVars>>

\* The flush: status and block of the confirmed rows, by primary key.
ConfirmCommit(w) ==
    /\ wpc[w] = "commit"
    /\ Free(Hits(w))
    /\ status' = [t \in TxIds |-> IF t \in Hits(w) THEN "executed" ELSE status[t]]
    /\ block' = [t \in TxIds |-> IF t \in Hits(w) THEN found[w][t] ELSE block[t]]
    /\ found' = [found EXCEPT ![w] = Nothing]
    /\ wpc' = [wpc EXCEPT ![w] = "watch"]
    /\ UNCHANGED <<hash, sentAt, stuckAt, lock, chainVars, todo, loaded,
                   polled, callVars, envVars>>

-----------------------------------------------------------------------------
(* ConfirmMonitor.detect_reorgs; no row leaves the watch window (6 hours) *)

WatchLoad(w) ==
    /\ wpc[w] = "watch"
    /\ \E T \in Batches({t \in TxIds : status[t] = "executed"}) :
          Load(w, T, "recheck", "flag")
    /\ UNCHANGED <<rowVars, chainVars, polled, found, callVars, envVars>>

\* Mutant: a receipt that is gone is taken for an unanswered poll.
WatchReceiptMutant(w, t) ==
    /\ wpc[w] = "recheck"
    /\ ~Busy(w)
    /\ t \in todo[w] \cap configured[w]
    /\ found' = IF incl[t][loaded[w][t][1]] \notin {loaded[w][t][2], Null}
                THEN [found EXCEPT ![w][t] = height] ELSE found
    /\ Polled(w, t, "recheck", "watchCommit")
    /\ UNCHANGED <<rowVars, chainVars, loaded, polled, callVars, envVars>>

\* The receipt is gone or its block is not the recorded one.
WatchReceipt(w, t) ==
    /\ wpc[w] = "recheck"
    /\ ~Busy(w)
    /\ t \in todo[w] \cap configured[w]
    /\ found' = IF incl[t][loaded[w][t][1]] # loaded[w][t][2]
                THEN [found EXCEPT ![w][t] = height] ELSE found
    /\ Polled(w, t, "recheck", "watchCommit")
    /\ UNCHANGED <<rowVars, chainVars, loaded, polled, callVars, envVars>>

WatchError(w, t) ==
    /\ wpc[w] = "recheck"
    /\ ~Busy(w)
    /\ t \in todo[w] \cap configured[w]
    /\ Polled(w, t, "recheck", "watchCommit")
    /\ UNCHANGED <<rowVars, chainVars, loaded, polled, found, callVars, envVars>>

WatchCommit(w) ==
    /\ wpc[w] = "watchCommit"
    /\ Free(Hits(w))
    /\ status' = [t \in TxIds |-> IF t \in Hits(w) THEN "reorged" ELSE status[t]]
    /\ found' = [found EXCEPT ![w] = Nothing]
    /\ wpc' = [wpc EXCEPT ![w] = "flag"]
    /\ UNCHANGED <<hash, block, sentAt, stuckAt, lock, chainVars, todo, loaded,
                   polled, callVars, envVars>>

-----------------------------------------------------------------------------
(* flag_stuck *)

\* The broadcast is older than the threshold.
Old(t) == height - sentAt[t] > StuckAfter

\* Mutant: rows whose confirmation is still counting down are swept up too.
FlagLoadMutant(w) ==
    /\ wpc[w] = "flag"
    /\ \E T \in Batches({t \in TxIds : status[t] \in {"broadcast", "executed"} /\ Old(t) /\ ~stuckAt[t]}) :
          found' = [found EXCEPT ![w] = [t \in TxIds |-> IF t \in T THEN height ELSE Null]]
    /\ wpc' = [wpc EXCEPT ![w] = "flagCommit"]
    /\ UNCHANGED <<rowVars, chainVars, todo, loaded, polled, callVars, envVars>>

FlagLoad(w) ==
    /\ wpc[w] = "flag"
    /\ \E T \in Batches({t \in TxIds : status[t] = "broadcast" /\ Old(t) /\ ~stuckAt[t]}) :
          found' = [found EXCEPT ![w] = [t \in TxIds |-> IF t \in T THEN height ELSE Null]]
    /\ wpc' = [wpc EXCEPT ![w] = "flagCommit"]
    /\ UNCHANGED <<rowVars, chainVars, todo, loaded, polled, callVars, envVars>>

\* Mutant: the flag is stamped and the status is forgotten.
FlagCommitMutant(w) ==
    /\ wpc[w] = "flagCommit"
    /\ Free(Hits(w))
    /\ stuckAt' = [t \in TxIds |-> t \in Hits(w) \/ stuckAt[t]]
    /\ found' = [found EXCEPT ![w] = Nothing]
    /\ wpc' = [wpc EXCEPT ![w] = "idle"]
    /\ UNCHANGED <<status, hash, block, sentAt, lock, chainVars, todo, loaded,
                   polled, callVars, envVars>>

FlagCommit(w) ==
    /\ wpc[w] = "flagCommit"
    /\ Free(Hits(w))
    /\ status' = [t \in TxIds |-> IF t \in Hits(w) THEN "stuck" ELSE status[t]]
    /\ stuckAt' = [t \in TxIds |-> t \in Hits(w) \/ stuckAt[t]]
    /\ found' = [found EXCEPT ![w] = Nothing]
    /\ wpc' = [wpc EXCEPT ![w] = "idle"]
    /\ UNCHANGED <<hash, block, sentAt, lock, chainVars, todo, loaded,
                   polled, callVars, envVars>>

-----------------------------------------------------------------------------
(* ExecutionWorker.run: what a tick does not survive *)

\* A row whose chain has no provider in this process: NoProviderConfiguredError
\* is no RPCError, so it ends the tick and not just the row's poll.
NoProvider(w, t) ==
    /\ wpc[w] \in {"receipt", "recheck"}
    /\ ~Busy(w)
    /\ t \in todo[w] \ configured[w]
    /\ TickAborted(w)
    /\ UNCHANGED <<rowVars, chainVars, loaded, callVars, envVars>>

\* Any other exception, the database's among them, at any point of the tick.
TickFails(w) ==
    /\ wpc[w] # "idle"
    /\ wpc[w] \in WorkerAwait => ~Busy(w)
    /\ crashes < MaxCrashes
    /\ crashes' = crashes + 1
    /\ TickAborted(w)
    /\ UNCHANGED <<rowVars, chainVars, loaded, callVars, configured, reorgs, replaces>>

-----------------------------------------------------------------------------
(* StuckTxHandler.replace *)

\* _validate_replacement: same sender and nonce; `cancel` must be a zero-value
\* transfer to self, `rbf` must keep `to` and `value`.
ValidReplacement(mode, k) ==
    IF mode = "cancel" THEN k = "cancel" ELSE k \in {"rbf", "altered"}

Done(c) ==
    /\ cpc' = [cpc EXCEPT ![c] = "idle"]
    /\ row' = [row EXCEPT ![c] = Null]
    /\ kind' = [kind EXCEPT ![c] = Null]

\* The row is read as stuck, the payload is valid, and the handler awaits the
\* screening of the replacement.
ReplaceLoad(c, t, mode, k) ==
    /\ cpc[c] = "idle"
    /\ ~Busy(Proc[c])
    /\ replaces < MaxReplaces
    /\ status[t] = "stuck"
    /\ ValidReplacement(mode, k)
    /\ replaces' = replaces + 1
    /\ cpc' = [cpc EXCEPT ![c] = "screen"]
    /\ row' = [row EXCEPT ![c] = t]
    /\ kind' = [kind EXCEPT ![c] = k]
    /\ UNCHANGED <<rowVars, chainVars, workerVars, configured, reorgs, crashes>>

\* The pipeline answers; anything but an approval ends the request.
ReplaceScreened(c) ==
    /\ cpc[c] = "screen"
    /\ ~Busy(Proc[c])
    /\ \/ /\ cpc' = [cpc EXCEPT ![c] = "claim"]
          /\ UNCHANGED <<row, kind>>
       \/ Done(c)
    /\ UNCHANGED <<rowVars, chainVars, workerVars, envVars>>

\* Payloads of a row share its nonce: at most one of them is on the chain.
OnChain(t) == \E k \in AllKinds : incl[t][k] # Null

\* eth_sendRawTransaction: the payload is lost, or the node takes it, which it
\* does only while the nonce is unused.
Post(t, k) ==
    \/ UNCHANGED posted
    \/ ~OnChain(t) /\ posted' = [posted EXCEPT ![t] = @ \cup {k}]

\* Mutant: the claim trusts the status that was read before the screening.
ReplaceClaimMutant(c) ==
    LET t == row[c] IN
    /\ cpc[c] = "claim"
    /\ lock[t] = Null
    /\ t \in configured[Proc[c]]
    /\ lock' = [lock EXCEPT ![t] = c]
    /\ Post(t, kind[c])
    /\ cpc' = [cpc EXCEPT ![c] = "send"]
    /\ UNCHANGED <<status, hash, block, sentAt, stuckAt, incl, height,
                   workerVars, row, kind, envVars>>

\* UPDATE ... SET status = 'broadcasting' WHERE status = 'stuck', uncommitted;
\* then the payload leaves the process and the handler awaits the node.
ReplaceClaim(c) ==
    LET t == row[c] IN
    /\ cpc[c] = "claim"
    /\ lock[t] = Null
    /\ status[t] = "stuck"
    /\ t \in configured[Proc[c]]
    /\ lock' = [lock EXCEPT ![t] = c]
    /\ Post(t, kind[c])
    /\ cpc' = [cpc EXCEPT ![c] = "send"]
    /\ UNCHANGED <<status, hash, block, sentAt, stuckAt, incl, height,
                   workerVars, row, kind, envVars>>

\* The conditional UPDATE matches no row.
ReplaceLost(c) ==
    LET t == row[c] IN
    /\ cpc[c] = "claim"
    /\ lock[t] = Null
    /\ status[t] # "stuck"
    /\ Done(c)
    /\ UNCHANGED <<rowVars, chainVars, workerVars, envVars>>

\* What the error paths commit.  `tx.status = "stuck"` assigns the value the
\* session already holds (the claim ran with synchronize_session=False), so
\* the unit of work emits no UPDATE and the claim itself is committed.
CommitClaim(t) == status' = [status EXCEPT ![t] = "broadcasting"]

\* No RPC provider is configured for the chain.
ReplaceNoChain(c) ==
    LET t == row[c] IN
    /\ cpc[c] = "claim"
    /\ lock[t] = Null
    /\ status[t] = "stuck"
    /\ t \notin configured[Proc[c]]
    /\ CommitClaim(t)
    /\ Done(c)
    /\ UNCHANGED <<hash, block, sentAt, stuckAt, lock, chainVars, workerVars, envVars>>

\* RPCError: the node refused the payload or its answer was lost.
ReplaceError(c) ==
    LET t == row[c] IN
    /\ cpc[c] = "send"
    /\ ~Busy(Proc[c])
    /\ CommitClaim(t)
    /\ lock' = [lock EXCEPT ![t] = Null]
    /\ Done(c)
    /\ UNCHANGED <<hash, block, sentAt, stuckAt, chainVars, workerVars, envVars>>

\* The node took the payload: the row is `broadcast` again, under a new hash.
\* stuck_at keeps its old value.
ReplaceOk(c) ==
    LET t == row[c] IN
    /\ cpc[c] = "send"
    /\ ~Busy(Proc[c])
    /\ kind[c] \in posted[t]
    /\ status' = [status EXCEPT ![t] = "broadcast"]
    /\ hash' = [hash EXCEPT ![t] = kind[c]]
    /\ sentAt' = [sentAt EXCEPT ![t] = height]
    /\ lock' = [lock EXCEPT ![t] = Null]
    /\ Done(c)
    /\ UNCHANGED <<block, stuckAt, chainVars, workerVars, envVars>>

-----------------------------------------------------------------------------
(* The chain and the processes *)

\* A block that includes payload k of row t, or, with k = Null, none of ours.
NewBlock(t, k) ==
    /\ height < MaxHeight
    /\ height' = height + 1
    /\ \/ k = Null /\ UNCHANGED incl
       \/ /\ k \in posted[t]
          /\ ~OnChain(t)
          /\ incl' = [incl EXCEPT ![t][k] = height + 1]
    /\ UNCHANGED <<rowVars, posted, workerVars, callVars, envVars>>

\* The block that included the payload is orphaned.
Reorg(t, k) ==
    /\ reorgs < MaxReorgs
    /\ incl[t][k] # Null
    /\ reorgs' = reorgs + 1
    /\ incl' = [incl EXCEPT ![t][k] = Null]
    /\ UNCHANGED <<rowVars, posted, height, workerVars, callVars, configured,
                   replaces, crashes>>

\* A replica restarts, perhaps with other providers configured: its tick and
\* its requests are gone, their open transactions are rolled back.
Crash(p) ==
    LET Dead(c) == Proc[c] = p IN
    /\ crashes < MaxCrashes
    /\ crashes' = crashes + 1
    /\ TickAborted(p)
    /\ \E cfg \in Configs : configured' = [configured EXCEPT ![p] = cfg]
    /\ cpc' = [c \in Calls |-> IF Dead(c) THEN "idle" ELSE cpc[c]]
    /\ row' = [c \in Calls |-> IF Dead(c) THEN Null ELSE row[c]]
    /\ kind' = [c \in Calls |-> IF Dead(c) THEN Null ELSE kind[c]]
    /\ lock' = [t \in TxIds |-> IF lock[t] # Null /\ Dead(lock[t]) THEN Null ELSE lock[t]]
    /\ UNCHANGED <<status, hash, block, sentAt, stuckAt, chainVars, loaded,
                   reorgs, replaces>>

-----------------------------------------------------------------------------
Poll(w) ==
    \E t \in TxIds :
        \/ ConfirmReceipt(w, t) \/ ConfirmError(w, t)
        \/ WatchReceipt(w, t) \/ WatchError(w, t)
        \/ NoProvider(w, t)

\* The worker's tick, up to the errors of its RPC reads.
Tick(w) ==
    \/ ConfirmLoad(w) \/ ConfirmTip(w) \/ ConfirmCommit(w)
    \/ WatchLoad(w) \/ WatchCommit(w)
    \/ FlagLoad(w) \/ FlagCommit(w)
    \/ Poll(w)

Replace(c) ==
    \/ ReplaceScreened(c) \/ ReplaceClaim(c) \/ ReplaceLost(c)
    \/ ReplaceNoChain(c) \/ ReplaceError(c) \/ ReplaceOk(c)

Next ==
    \/ \E w \in Procs : Tick(w) \/ TickFails(w)
    \/ \E c \in Calls : Replace(c)
    \/ \E c \in Calls, t \in TxIds, k \in Kinds, mode \in {"rbf", "cancel"} :
          ReplaceLoad(c, t, mode, k)
    \/ \E t \in TxIds, k \in AllKinds \cup {Null} : NewBlock(t, k)
    \/ \E t \in TxIds, k \in AllKinds : Reorg(t, k)
    \/ \E p \in Procs : Crash(p)

Spec == Init /\ [][Next]_vars

\* The worker's loop never ends, its reads have timeouts, and a row whose receipt
\* is polled again and again is answered in the end; a claim is not suspended.
FairSpec ==
    /\ Spec
    /\ \A w \in Procs :
          /\ SF_vars(Tick(w))
          /\ \A t \in TxIds : SF_vars(WatchReceipt(w, t))
    /\ WF_vars(\E c \in Calls : Replace(c))

-----------------------------------------------------------------------------
(* Properties *)

\* A row that says `executed` names a payload that the chain includes, in the
\* recorded block, at the confirmation depth (as long as nothing is orphaned).
ExecutedIsConfirmed ==
    \A t \in TxIds :
        (status[t] = "executed" /\ reorgs = 0) =>
            /\ block[t] # Null
            /\ incl[t][hash[t]] = block[t]
            /\ height - block[t] >= Conf

\* Once confirmed, a row leaves `executed` only because a reorg happened.
ExecutedIsStable ==
    [][\A t \in TxIds :
          (status[t] = "executed" /\ status'[t] # "executed") =>
              status'[t] = "reorged" /\ reorgs > 0]_vars

\* Of the requests that replace a row, all of them screened while it was stuck,
\* one goes through, however their screenings and broadcasts overlap.
ReplacedOnce == [][\A t \in TxIds : hash'[t] # hash[t] => hash[t] = "orig"]_vars

\* A request waits for the row lock of another request of its own replica: the
\* claim is a synchronous UPDATE, so the event loop that the holder needs to go
\* on is blocked until the process is restarted.
SelfBlocked ==
    \E c \in Calls :
        /\ cpc[c] = "claim"
        /\ lock[row[c]] # Null
        /\ Proc[lock[row[c]]] = Proc[c]

\* Every replica goes on with its ticks and gets to the end of them: none has
\* blocked itself, and none polls a row whose chain it has no provider for.
TicksEnd ==
    /\ ~SelfBlocked
    /\ \A t \in TxIds, p \in Procs :
          status[t] \in {"broadcast", "executed"} => t \in configured[p]

\* The confirmed rows fit in one pass.
PassFits == Cardinality({t \in TxIds : status[t] = "executed"}) <= Limit

\* Once the ticks get to their end, an orphaned confirmation is flagged, unless
\* the payload is back in the very block that was recorded.  Without the
\* premise it is not: one row of a chain without a provider ends every tick.
ReorgIsFlagged ==
    \A t \in TxIds :
        <>[](TicksEnd /\ PassFits) =>
            ((status[t] = "executed" /\ incl[t][hash[t]] # block[t])
                 ~> (status[t] # "executed" \/ incl[t][hash[t]] = block[t]))

\* Once the ticks get to their end, a row that still names the payload first
\* broadcast is flagged when it stays unconfirmed past the threshold, whatever
\* happens to the other rows.  A replaced row never is.
OldIsFlagged ==
    \A t \in TxIds :
        <>[]TicksEnd =>
            ((status[t] = "broadcast" /\ Old(t) /\ hash[t] = "orig")
                 ~> status[t] # "broadcast")

\* `broadcasting` is transient: nobody ever reads it in the database, or at
\* most while the request that wrote it is still running.
BroadcastingIsTransient ==
    \A t \in TxIds : status[t] = "broadcasting" => \E c \in Calls : row[c] = t
=============================================================================
