------------------------------- MODULE Outbox -------------------------------
(***************************************************************************)
(* Delivery of escalation notifications: the worker of every notification  *)
(* replica claims the escalations that are due, sends each to its          *)
(* organisation's channel and records the result on the approval row.      *)
(* Each store operation is a session of its own: it loads a row, and its   *)
(* commit writes the columns whose value differs from the loaded one.      *)
(* Expiry of the approvals is in Escalation; here a decision may take an   *)
(* approval out of the queue at any time.                                  *)
(***************************************************************************)
EXTENDS Integers, FiniteSets

CONSTANTS
    Approvals,    \* escalations
    Channelled,   \* those of an organisation with a webhook
    Procs,        \* replicas of the notification service, one worker each
    MaxAttempts,  \* notify_max_attempts
    Lease,        \* lease_seconds
    Backoff,      \* backoff_base_seconds
    MaxFaults,    \* bound: failed deliveries and crashes
    Null

OutboxConstants ==
    /\ Channelled \subseteq Approvals
    /\ MaxAttempts \in Nat \ {0} /\ Lease \in Nat \ {0} /\ Backoff \in Nat \ {0}
    /\ MaxFaults \in Nat
    /\ Null \notin Nat \cup Approvals

VARIABLES
    open,       \* approvals whose committed status is pending
    notified,   \* committed column notified_at is set
    attempts,   \* committed column notify_attempts
    wait,       \* committed column notify_next_attempt_at, as the time to it
    pc,         \* where a worker's tick is
    queue,      \* approvals its claim returned and it has not sent yet
    current,    \* the approval it is delivering
    loaded,     \* rows as its session has loaded them, by approval
    delivered,  \* deliveries the channel has taken, by approval
    faults

rowVars == <<open, notified, attempts, wait>>
tickVars == <<pc, queue, current, loaded>>
vars == <<rowVars, tickVars, delivered, faults>>

NoRow == [attempts |-> 0, wait |-> Null]
NothingLoaded == [a \in Approvals |-> NoRow]

Init ==
    /\ open = Approvals
    /\ notified = {}
    /\ attempts = [a \in Approvals |-> 0]
    /\ wait = [a \in Approvals |-> Null]
    /\ pc = [w \in Procs |-> "idle"]
    /\ queue = [w \in Procs |-> {}]
    /\ current = [w \in Procs |-> Null]
    /\ loaded = [w \in Procs |-> NothingLoaded]
    /\ delivered = [a \in Approvals |-> 0]
    /\ faults = 0

Fault == faults < MaxFaults /\ faults' = faults + 1

Go(w, from, to) == pc[w] = from /\ pc' = [pc EXCEPT ![w] = to]

\* The session loads the rows of S.
LoadRows(w, S) ==
    loaded' = [loaded EXCEPT ![w] = [a \in Approvals |->
                 IF a \in S THEN [attempts |-> attempts[a], wait |-> wait[a]] ELSE NoRow]]

-----------------------------------------------------------------------------
(* claim_due *)

\* Mutant: a scheduled retry is never due.
DueFreshMutant(a) ==
    /\ a \in open \ notified
    /\ attempts[a] < MaxAttempts
    /\ wait[a] = Null

Due(a) ==
    /\ a \in open \ notified
    /\ attempts[a] < MaxAttempts
    /\ wait[a] \in {Null, 0}

ClaimLoad(w) ==
    LET due == {a \in Approvals : Due(a)} IN
    /\ due # {}
    /\ Go(w, "idle", "claim")
    /\ queue' = [queue EXCEPT ![w] = due]
    /\ LoadRows(w, due)
    /\ UNCHANGED <<rowVars, current, delivered, faults>>

\* One attempt more than was loaded; a fresh row also gets a lease.
ClaimCommit(w) ==
    /\ Go(w, "claim", "take")
    /\ attempts' = [a \in Approvals |->
                       IF a \in queue[w] THEN loaded[w][a].attempts + 1 ELSE attempts[a]]
    /\ wait' = [a \in Approvals |->
                   IF a \in queue[w] /\ loaded[w][a].wait = Null THEN Lease ELSE wait[a]]
    /\ loaded' = [loaded EXCEPT ![w] = NothingLoaded]
    /\ UNCHANGED <<open, notified, queue, current, delivered, faults>>

-----------------------------------------------------------------------------
(* Delivery *)

\* The next approval of the claim; without a channel there is nothing to send.
Take(w) ==
    /\ \/ \E a \in queue[w] :
             /\ Go(w, "take", IF a \in Channelled THEN "send" ELSE "mark")
             /\ current' = [current EXCEPT ![w] = a]
             /\ queue' = [queue EXCEPT ![w] = @ \ {a}]
       \/ /\ queue[w] = {}
          /\ Go(w, "take", "idle")
          /\ UNCHANGED <<current, queue>>
    /\ UNCHANGED <<rowVars, loaded, delivered, faults>>

Count(f, w) == [f EXCEPT ![current[w]] = @ + 1]

Send(w) ==
    /\ Go(w, "send", "mark")
    /\ delivered' = Count(delivered, w)
    /\ UNCHANGED <<rowVars, queue, current, loaded, faults>>

\* DeliveryError: an answer that is not a success, or none in time although
\* the channel may have taken the notification.
SendFails(w) ==
    /\ Fault
    /\ Go(w, "send", "retry")
    /\ delivered' \in {delivered, Count(delivered, w)}
    /\ UNCHANGED <<rowVars, queue, current, loaded>>

Done(w) == current' = [current EXCEPT ![w] = Null]

\* Mutant: the delivery is not committed.
MarkDeliveredMutant(w) ==
    /\ Go(w, "mark", "take")
    /\ Done(w)
    /\ UNCHANGED <<rowVars, queue, loaded, delivered, faults>>

\* mark_delivered: the row is loaded and written without an await between.
MarkDelivered(w) ==
    /\ Go(w, "mark", "take")
    /\ Done(w)
    /\ notified' = notified \cup ({current[w]} \cap open)
    /\ UNCHANGED <<open, attempts, wait, queue, loaded, delivered, faults>>

\* schedule_retry, of an approval that is still pending
RetryLoad(w) ==
    /\ IF current[w] \in open
         THEN Go(w, "retry", "retryCommit") /\ LoadRows(w, {current[w]}) /\ UNCHANGED current
         ELSE Go(w, "retry", "take") /\ Done(w) /\ UNCHANGED loaded
    /\ UNCHANGED <<rowVars, queue, delivered, faults>>

\* No next attempt once the attempts are used up, else one after the backoff.
RetryAfter(n) == IF n >= MaxAttempts THEN Null ELSE Backoff * 2 ^ (n - 1)

RetryCommit(w) ==
    LET row == loaded[w][current[w]]
        after == RetryAfter(row.attempts)
    IN
    /\ Go(w, "retryCommit", "take")
    /\ Done(w)
    /\ wait' = IF after = Null /\ row.wait = Null THEN wait ELSE [wait EXCEPT ![current[w]] = after]
    /\ loaded' = [loaded EXCEPT ![w] = NothingLoaded]
    /\ UNCHANGED <<open, notified, attempts, queue, delivered, faults>>

-----------------------------------------------------------------------------
(* Around the worker *)

\* The process ends, or an error the tick does not catch ends the tick.
Crash(w) ==
    /\ Fault
    /\ pc[w] # "idle"
    /\ pc' = [pc EXCEPT ![w] = "idle"]
    /\ queue' = [queue EXCEPT ![w] = {}]
    /\ Done(w)
    /\ loaded' = [loaded EXCEPT ![w] = NothingLoaded]
    /\ UNCHANGED <<rowVars, delivered>>

\* An approver decides, or the escalation expires.
Close(a) ==
    /\ a \in open
    /\ open' = open \ {a}
    /\ UNCHANGED <<notified, attempts, wait, tickVars, delivered, faults>>

Clock ==
    /\ \E a \in Approvals : wait[a] \notin {Null, 0}
    /\ wait' = [a \in Approvals |-> IF wait[a] \in {Null, 0} THEN wait[a] ELSE wait[a] - 1]
    /\ UNCHANGED <<open, notified, attempts, tickVars, delivered, faults>>

-----------------------------------------------------------------------------
Tick(w) ==
    \/ ClaimLoad(w) \/ ClaimCommit(w) \/ Take(w) \/ Send(w) \/ SendFails(w)
    \/ MarkDelivered(w) \/ RetryLoad(w) \/ RetryCommit(w)

Next ==
    \/ \E w \in Procs : Tick(w) \/ Crash(w)
    \/ \E a \in Approvals : Close(a)
    \/ Clock

Spec == Init /\ [][Next]_vars

\* The worker polls forever and time passes.
FairSpec == Spec /\ WF_vars(Clock) /\ \A w \in Procs : WF_vars(Tick(w))

-----------------------------------------------------------------------------
(* Properties *)

\* What the channel has taken is delivered again only after a fault, one
\* repetition a fault: neither the lease nor a retry that falls due while the
\* worker is busy makes it deliver an escalation twice (outbox.py, claim_due).
DeliveredOnce == \A a \in Approvals : delivered[a] <= 1 + faults

\* Every escalation is notified, closed, or out of attempts in the end.
EveryoneIsTold ==
    \A a \in Approvals : <>(a \in notified \/ a \notin open \/ attempts[a] = MaxAttempts)
=============================================================================
