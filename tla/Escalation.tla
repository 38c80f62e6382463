------------------------------ MODULE Escalation ------------------------------
(***************************************************************************)
(* The human approval queue.  A screening that escalates leaves an         *)
(* `escalated` transaction and a pending approval.  Approvers decide it    *)
(* through the gateway, whose endpoints run in a thread pool; the gateway, *)
(* on every read of the queue and before every decision, and the worker of *)
(* each notification replica expire what is overdue; the execution service *)
(* broadcasts what is approved.                                            *)
(*                                                                         *)
(* No request locks the rows it reads.  A session keeps the rows as they   *)
(* were loaded and its commit writes, by primary key, the columns whose    *)
(* value differs from the loaded one.                                      *)
(***************************************************************************)
EXTENDS Integers, FiniteSets

CONSTANTS
    Txs,       \* escalated transactions, each with its approval
    Deciders,  \* requests that approve or reject
    Outcome,   \* [Deciders -> {"approved", "rejected"}]
    Target,    \* [Deciders -> Txs]
    Notifiers, \* notification workers: they expire some of what is overdue
    Readers,   \* reads of the queue: they expire all of it
    SweepLimit,   \* rows that a notification worker takes at a time (500)
    MaxFailures,  \* bound: sessions that fail
    Null

EscalationConstants ==
    /\ Outcome \in [Deciders -> {"approved", "rejected"}]
    /\ Target \in [Deciders -> Txs]
    /\ Deciders \cap (Notifiers \cup Readers) = {}
    /\ SweepLimit \in Nat \ {0} /\ MaxFailures \in Nat
    /\ Null \notin {"escalated", "approved", "rejected", "broadcast", "cancelled"}

VARIABLES
    approval,  \* committed column approvals.status
    tx,        \* committed column transactions.status
    overdue,   \* approvals past their expires_at
    pc,        \* where a session is
    held,      \* approvals it has loaded as pending and is changing
    seen,      \* seen[a][t]: the transaction status it has loaded, or Null
    sent,      \* transactions whose payload has been broadcast
    contested, \* approvals that a second session has written as well
    failures   \* sessions that have failed

rows == <<approval, tx, overdue, sent, contested>>
sessions == <<pc, held, seen>>
vars == <<rows, sessions, failures>>

Actors == Deciders \cup Notifiers \cup Readers
TxStatuses == {"escalated", "approved", "rejected", "broadcast", "cancelled"}

TypeOK ==
    /\ approval \in [Txs -> {"pending", "approved", "rejected", "expired"}]
    /\ tx \in [Txs -> TxStatuses]
    /\ overdue \subseteq Txs
    /\ pc \in [Actors -> {"idle", "sweep", "load", "decide", "done", "conflict",
                         "failed"}]
    /\ held \in [Actors -> SUBSET Txs]
    /\ seen \in [Actors -> [Txs -> TxStatuses \cup {Null}]]
    /\ sent \subseteq Txs
    /\ contested \subseteq Txs
    /\ failures \in 0..MaxFailures

Unread == [t \in Txs |-> Null]

Init ==
    /\ approval = [t \in Txs |-> "pending"]
    /\ tx = [t \in Txs |-> "escalated"]
    /\ overdue = {}
    /\ pc = [a \in Actors |-> "idle"]
    /\ held = [a \in Actors |-> {}]
    /\ seen = [a \in Actors |-> Unread]
    /\ sent = {} /\ contested = {}
    /\ failures = 0

Pending == {t \in Txs : approval[t] = "pending"}

\* Where a sweep leads: a decider goes on to load the approval it decides.
AfterSweep(a) == IF a \in Deciders THEN "load" ELSE "idle"

-----------------------------------------------------------------------------
(* One session: load the approvals, read their transactions, commit *)

\* What a sweep takes of the overdue rows: all of them, or as many as a
\* notification worker may.
Taken(a, found) ==
    IF a \in Notifiers /\ Cardinality(found) > SweepLimit
    THEN {T \in SUBSET found : Cardinality(T) = SweepLimit}
    ELSE {found}

\* The session has loaded the approvals of T; with none it has nothing to commit.
Sweeps(a, T) ==
    /\ pc[a] = "idle"
    /\ pc' = [pc EXCEPT ![a] = IF T = {} THEN AfterSweep(a) ELSE "sweep"]
    /\ held' = [held EXCEPT ![a] = T]
    /\ UNCHANGED <<rows, seen, failures>>

\* Mutant: the comparison with expires_at is the wrong way round.
SweepLoadMutant(a) == \E T \in Taken(a, Pending \ overdue) : Sweeps(a, T)

\* The overdue pending approvals are loaded, and changed in memory.
SweepLoad(a) == \E T \in Taken(a, Pending \cap overdue) : Sweeps(a, T)

\* A transaction is read after the approval that names it was.
ReadTx(a, t) ==
    /\ pc[a] \in {"sweep", "decide"}
    /\ t \in held[a] /\ seen[a][t] = Null
    /\ seen' = [seen EXCEPT ![a][t] = tx[t]]
    /\ UNCHANGED <<rows, pc, held, failures>>

AllRead(a) == \A t \in held[a] : seen[a][t] # Null

\* The session is over, or goes on without any row it has loaded.
Forgets(a) ==
    /\ held' = [held EXCEPT ![a] = {}]
    /\ seen' = [seen EXCEPT ![a] = Unread]

\* The flush: every held approval gets `new`, and its transaction `status`
\* unless the session has loaded just that.
Flush(a, new, status) ==
    /\ approval' = [t \in Txs |-> IF t \in held[a] THEN new ELSE approval[t]]
    /\ tx' = [t \in Txs |-> IF t \in held[a] /\ seen[a][t] # status THEN status ELSE tx[t]]
    /\ contested' = contested \cup (held[a] \ Pending)
    /\ Forgets(a)
    /\ UNCHANGED <<overdue, sent, failures>>

\* Mutant: the default is to approve.
SweepApproveMutant(a) ==
    /\ pc[a] = "sweep" /\ AllRead(a)
    /\ pc' = [pc EXCEPT ![a] = AfterSweep(a)]
    /\ Flush(a, "expired", "approved")

\* The default is to reject.
SweepCommit(a) ==
    /\ pc[a] = "sweep" /\ AllRead(a)
    /\ pc' = [pc EXCEPT ![a] = AfterSweep(a)]
    /\ Flush(a, "expired", "rejected")

\* Mutant: the approval is committed before its transaction is read.
DecideLoadMutant(d) ==
    /\ pc[d] = "load"
    /\ approval[Target[d]] = "pending"
    /\ approval' = [approval EXCEPT ![Target[d]] = Outcome[d]]
    /\ pc' = [pc EXCEPT ![d] = "decide"]
    /\ held' = [held EXCEPT ![d] = {Target[d]}]
    /\ UNCHANGED <<tx, overdue, sent, contested, seen, failures>>

\* An approval that is not pending is answered 409.
DecideLoad(d) ==
    /\ pc[d] = "load"
    /\ IF approval[Target[d]] = "pending"
         THEN /\ pc' = [pc EXCEPT ![d] = "decide"]
              /\ held' = [held EXCEPT ![d] = {Target[d]}]
         ELSE pc' = [pc EXCEPT ![d] = "conflict"] /\ UNCHANGED held
    /\ UNCHANGED <<rows, seen, failures>>

DecideCommit(d) ==
    /\ pc[d] = "decide" /\ AllRead(d)
    /\ pc' = [pc EXCEPT ![d] = "done"]
    /\ Flush(d, Outcome[d], Outcome[d])

\* The database fails the session, at its commit or before: all it has changed
\* is rolled back.  A worker logs the failure and sweeps again at its next
\* tick; a request ends with an error.
SessionFails(a) ==
    /\ pc[a] \in {"sweep", "load", "decide"}
    /\ failures < MaxFailures
    /\ failures' = failures + 1
    /\ pc' = [pc EXCEPT ![a] = IF a \in Deciders THEN "failed" ELSE "idle"]
    /\ Forgets(a)
    /\ UNCHANGED rows

-----------------------------------------------------------------------------
(* The clock and the execution service *)

BecomeOverdue(t) ==
    /\ t \notin overdue
    /\ overdue' = overdue \cup {t}
    /\ UNCHANGED <<approval, tx, sent, contested, sessions, failures>>

\* The execution service submits an approved transaction.
Broadcast(t) ==
    /\ tx[t] = "approved"
    /\ tx' = [tx EXCEPT ![t] = "broadcast"]
    /\ sent' = sent \cup {t}
    /\ UNCHANGED <<approval, overdue, contested, sessions, failures>>

\* Or it cancels it, in a conditional UPDATE that leaves the approval alone.
Cancel(t) ==
    /\ tx[t] = "approved"
    /\ tx' = [tx EXCEPT ![t] = "cancelled"]
    /\ UNCHANGED <<approval, overdue, sent, contested, sessions, failures>>

-----------------------------------------------------------------------------
Sweep(a) == SweepLoad(a) \/ (\E t \in Txs : ReadTx(a, t)) \/ SweepCommit(a)
Decide(d) == DecideLoad(d) \/ DecideCommit(d)

Next ==
    \/ \E a \in Actors : Sweep(a) \/ SessionFails(a)
    \/ \E d \in Deciders : Decide(d)
    \/ \E t \in Txs : BecomeOverdue(t) \/ Broadcast(t) \/ Cancel(t)

Spec == Init /\ [][Next]_vars

\* A notification worker ticks forever, its failed sweeps included, and time
\* passes; nobody need ever read the queue.
FairSpec ==
    /\ Spec
    /\ \A t \in Txs : WF_vars(BecomeOverdue(t))
    /\ \A a \in Notifiers : WF_vars(Sweep(a))

-----------------------------------------------------------------------------
(* Properties *)

\* An approved approval has an approved transaction, or what the execution
\* service has made of it since; a rejected or expired one a rejected one.
Agree(t) ==
    /\ approval[t] = "approved" => tx[t] \in {"approved", "broadcast", "cancelled"}
    /\ approval[t] \in {"rejected", "expired"} => tx[t] = "rejected"

\* The approval and its transaction flip together, whoever overlaps (expire.py:
\* never half-applied; approvals.py: written atomically).
NeverHalfApplied == \A t \in Txs : Agree(t)

\* What does hold, for any number of sessions: an approval that one session
\* only has written agrees with its transaction, even if others have loaded
\* either of the two meanwhile; one that none has written leaves it escalated.
UncontestedAgrees ==
    \A t \in Txs \ contested :
        Agree(t) /\ (approval[t] = "pending" => tx[t] = "escalated")

\* Nothing is broadcast unless an approver has approved it: silence rejects.
SilenceRejects ==
    \A t \in sent : \E d \in Deciders :
        Target[d] = t /\ Outcome[d] = "approved" /\ pc[d] = "done"

\* An escalation nobody acts on does not stay pending for ever, however many
\* are due and although sweeps fail.
Resolves == \A t \in Txs : <>(approval[t] # "pending" /\ tx[t] # "escalated")
=============================================================================
