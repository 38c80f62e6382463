---------------------------- MODULE GatewayProofs ----------------------------
(***************************************************************************)
(* The safety of the parts of Gateway, for any number of their actors and  *)
(* any bounds.  The parts share no state, so a behaviour of the whole is,  *)
(* seen through the variables of one part, a behaviour of that part; each  *)
(* section proves an invariant of one.                                     *)
(***************************************************************************)
EXTENDS Gateway, FiniteSetTheorems, TLAPS

\* Seen through its own variables, every part behaves as its module says.
LEMMA PartsBehave ==
    GatewaySpec => /\ Bucket!Init /\ [][Bucket!Next]_bVars
                   /\ Client!Init /\ [][Client!Next]_sVars
                   /\ Queue!Init /\ [][Queue!Next]_qVars
                   /\ Told!Init /\ [][Told!Next]_oVars
                   /\ Breaker!Init /\ [][Breaker!Next]_cVars
<1>1. GatewayInit => Bucket!Init /\ Client!Init /\ Queue!Init /\ Told!Init /\ Breaker!Init
  BY DEF GatewayInit
<1>2. [GatewayNext]_<<part, vars, bVars, sVars, qVars, oVars, cVars>> =>
          /\ [Bucket!Next]_bVars /\ [Client!Next]_sVars /\ [Queue!Next]_qVars
          /\ [Told!Next]_oVars /\ [Breaker!Next]_cVars
  BY DEF GatewayNext
<1> QED
  BY <1>1, <1>2, PTL DEF GatewaySpec

-----------------------------------------------------------------------------
(* The token bucket *)

\* The assumptions on its size.
LEMMA BucketSizes ==
    /\ Skew \in Nat /\ Offset \in [Callers -> 0 .. Skew]
    /\ Cost \in Nat \ {0} /\ Second \in Nat \ {0} /\ MaxTime \in Nat
    /\ Capacity \in Nat /\ Cost <= Capacity
    /\ Ttl \in Nat /\ Capacity <= Ttl - Skew
  BY PartConstants DEF Bucket!BucketSized

\* While the key exists, spending and what is left are covered by the refill.
Conserved ==
    bStored => /\ bTokens <= Capacity
               /\ bSpent > 0 => bSpent + bTokens <= Capacity + (bTs - bStart)

\* The expiry is Ttl after the last draw, and the draw left the bucket's
\* tokens at zero or more.
LastDraw ==
    bSpent > 0 => /\ bSpent <= Capacity + (bExpires - Ttl + Skew - bStart)
                  /\ bExpires - Ttl <= bNow
                  /\ ~bStored => bExpires <= bNow

QuotaInv == Bucket!TypeOK /\ Conserved /\ LastDraw

\* A caller finds at most a full bucket, and at most what was left and the
\* refill since; its clock is ahead of Redis by no more than the skew.
LEMMA AvailableBound ==
    ASSUME Bucket!TypeOK, NEW c \in Callers
    PROVE  /\ Bucket!Available(c) \in Int
           /\ Bucket!Available(c) <= Capacity
           /\ bStored => Bucket!Available(c) <= bTokens + (Bucket!Clock(c) - bTs)
           /\ ~bStored => Bucket!Available(c) = Capacity
           /\ Bucket!Clock(c) \in Nat /\ bNow <= Bucket!Clock(c) /\ Bucket!Clock(c) <= bNow + Skew
<1>1. Offset[c] \in 0 .. Skew
  BY BucketSizes
<1> QED
  BY <1>1, BucketSizes DEF Bucket!TypeOK, Bucket!Available, Bucket!Clock

\* A draw keeps the three parts, whether the caller hears of it or not.
LEMMA TakePreserves ==
    ASSUME QuotaInv, NEW c \in Callers, Bucket!Take(c), bSpent' = bSpent + Cost \/ bSpent' = bSpent
    PROVE  QuotaInv'
<1> USE BucketSizes
<1>1. /\ Bucket!Available(c) \in Int
      /\ Bucket!Available(c) <= Capacity
      /\ bStored => Bucket!Available(c) <= bTokens + (Bucket!Clock(c) - bTs)
      /\ ~bStored => Bucket!Available(c) = Capacity
      /\ Bucket!Clock(c) \in Nat /\ bNow <= Bucket!Clock(c) /\ Bucket!Clock(c) <= bNow + Skew
  BY AvailableBound DEF QuotaInv
<1>2. Bucket!TypeOK'
  BY <1>1 DEF QuotaInv, Bucket!TypeOK, Bucket!Take
<1>3. bSpent' + bTokens' <= Capacity + (bTs' - bStart')
  <2>1. CASE bSpent = 0
    BY <2>1, <1>1 DEF QuotaInv, Bucket!TypeOK, Bucket!Take
  <2>2. CASE bSpent > 0 /\ bStored
    BY <2>2, <1>1 DEF QuotaInv, Bucket!TypeOK, Conserved, Bucket!Take
  <2>3. CASE bSpent > 0 /\ ~bStored
    BY <2>3, <1>1 DEF QuotaInv, Bucket!TypeOK, LastDraw, Bucket!Take
  <2> QED
    BY <2>1, <2>2, <2>3 DEF QuotaInv, Bucket!TypeOK
<1>4. Conserved'
  BY <1>1, <1>3 DEF QuotaInv, Bucket!TypeOK, Conserved, Bucket!Take
<1>5. LastDraw'
  BY <1>1, <1>3 DEF QuotaInv, Bucket!TypeOK, LastDraw, Bucket!Take
<1> QED
  BY <1>2, <1>4, <1>5 DEF QuotaInv

THEOREM QuotaInvariant == GatewaySpec => []QuotaInv
<1> USE BucketSizes
<1>1. Bucket!Init => QuotaInv
  <2> SUFFICES ASSUME Bucket!Init PROVE QuotaInv
    OBVIOUS
  <2>1. bPromises \subseteq [caller : Callers, due : Nat]
    BY Zenon DEF Bucket!Init
  <2>2. bStored \in BOOLEAN
    BY Zenon DEF Bucket!Init
  <2>3. Bucket!TypeOK
    BY <2>1, <2>2 DEF Bucket!Init, Bucket!TypeOK
  <2>4. Conserved /\ LastDraw
    BY DEF Bucket!Init, Conserved, LastDraw
  <2> QED
    BY <2>3, <2>4 DEF QuotaInv
<1>2. QuotaInv /\ [Bucket!Next]_bVars => QuotaInv'
  <2> SUFFICES ASSUME QuotaInv, [Bucket!Next]_bVars PROVE QuotaInv'
    OBVIOUS
  <2>1. ASSUME NEW c \in Callers, Bucket!Admit(c) PROVE QuotaInv'
    BY <2>1, TakePreserves DEF Bucket!Admit
  <2>2. ASSUME NEW c \in Callers, Bucket!Outage(c) PROVE QuotaInv'
    BY <2>2, TakePreserves DEF Bucket!Outage
  <2>3. ASSUME NEW c \in Callers, Bucket!Refuse(c) PROVE QuotaInv'
    <3>1. /\ Bucket!Available(c) \in Int
          /\ Bucket!Available(c) <= Capacity
          /\ bStored => Bucket!Available(c) <= bTokens + (Bucket!Clock(c) - bTs)
          /\ ~bStored => Bucket!Available(c) = Capacity
          /\ Bucket!Clock(c) \in Nat
      BY AvailableBound DEF QuotaInv
    <3>2. bStored
      BY <2>3, <3>1 DEF Bucket!Refuse
    <3>3. Bucket!Clock(c) + Second * Bucket!RetryAfter(c) \in Nat
      <4>1. Bucket!RetryAfter(c) \in Nat
        BY <2>3, <3>1 DEF Bucket!RetryAfter, Bucket!Refuse
      <4>2. Second * Bucket!RetryAfter(c) \in Nat
        BY <4>1
      <4> QED
        BY <3>1, <4>2
    <3>4. Bucket!TypeOK'
      BY <2>3, <3>1, <3>3 DEF QuotaInv, Bucket!TypeOK, Bucket!Refuse
    <3>5. Conserved' /\ LastDraw'
      BY <2>3, <3>1, <3>2 DEF QuotaInv, Bucket!TypeOK, Conserved, LastDraw, Bucket!Refuse
    <3> QED
      BY <3>4, <3>5 DEF QuotaInv
  <2>4. CASE Bucket!Tick
    BY <2>4 DEF Bucket!Tick, QuotaInv, Bucket!TypeOK, Conserved, LastDraw
  <2>5. CASE Bucket!StartWindow
    BY <2>5 DEF Bucket!StartWindow, Bucket!bucket, QuotaInv, Bucket!TypeOK, Conserved, LastDraw
  <2>6. CASE UNCHANGED bVars
    BY <2>6 DEF bVars, Bucket!bucket, QuotaInv, Bucket!TypeOK, Conserved, LastDraw
  <2> QED
    BY <2>1, <2>2, <2>3, <2>4, <2>5, <2>6 DEF Bucket!Next
<1> QED
  BY <1>1, <1>2, PartsBehave, PTL

\* In any window the rate limiter admits no more than a full bucket and what
\* the time has refilled (FR throttle).
THEOREM QuotaHolds == GatewaySpec => []Quota
<1>1. QuotaInv => Quota
  BY BucketSizes DEF Quota, QuotaInv, Bucket!TypeOK, LastDraw, Bucket!Quota
<1> QED
  BY <1>1, QuotaInvariant, PTL

-----------------------------------------------------------------------------
\* What a refused caller was told makes up for what the bucket lacked.
PromisesKept == \A p \in bPromises : bStored => p.due - bTs + bTokens >= Cost

\* Rounding up loses nothing.
LEMMA RoundedUp ==
    ASSUME NEW x \in Int
    PROVE  /\ (x + Second - 1) \div Second \in Int
           /\ Second * ((x + Second - 1) \div Second) >= x
<1>1. Second \in Nat /\ Second > 0
  BY BucketSizes
<1> QED
  BY <1>1

\* A caller that comes back in time finds what it was promised.
LEMMA PromiseFound ==
    ASSUME QuotaInv, PromisesKept
    PROVE  RetryAfterHonest
<1> SUFFICES ASSUME NEW p \in bPromises, Bucket!Clock(p.caller) >= p.due
             PROVE  Bucket!Available(p.caller) >= Cost
  BY DEF RetryAfterHonest, Bucket!RetryAfterHonest
<1>1. p.caller \in Callers /\ p.due \in Nat
  BY DEF QuotaInv, Bucket!TypeOK
<1>2. Bucket!Clock(p.caller) \in Nat
  BY <1>1, AvailableBound DEF QuotaInv
<1>3. bStored => p.due - bTs + bTokens >= Cost
  BY DEF PromisesKept
<1> QED
  BY <1>1, <1>2, <1>3, BucketSizes DEF QuotaInv, Bucket!TypeOK, Bucket!Available

\* The seconds a refused caller is told to wait are enough, for any capacity,
\* cost and clocks: nobody else drawing, it is admitted (rate_limit.py: the
\* Retry-After of a refusal).
THEOREM RetryAfterHolds == GatewaySpec => []RetryAfterHonest
<1>1. Bucket!Init => PromisesKept
  BY DEF Bucket!Init, PromisesKept
<1>2. QuotaInv /\ PromisesKept /\ [Bucket!Next]_bVars => PromisesKept'
  <2> SUFFICES ASSUME QuotaInv, PromisesKept, [Bucket!Next]_bVars PROVE PromisesKept'
    OBVIOUS
  <2>1. ASSUME NEW c \in Callers, Bucket!Take(c) PROVE PromisesKept'
    BY <2>1 DEF Bucket!Take, PromisesKept
  <2>2. ASSUME NEW c \in Callers, Bucket!Refuse(c) PROVE PromisesKept'
    <3>1. /\ Bucket!Available(c) \in Int /\ Bucket!Clock(c) \in Nat
          /\ bTs \in Nat /\ bTokens \in Int
          /\ Bucket!Available(c) < Cost
      BY <2>2, AvailableBound DEF Bucket!Refuse, QuotaInv, Bucket!TypeOK
    <3>2. bStored /\ Bucket!Available(c) = bTokens + (Bucket!Clock(c) - bTs)
      BY <2>2, <3>1, BucketSizes DEF Bucket!Refuse, Bucket!Available
    <3>3. /\ Second * Bucket!RetryAfter(c) >= Cost - Bucket!Available(c)
          /\ Second * Bucket!RetryAfter(c) \in Int
      <4>1. /\ Bucket!RetryAfter(c) \in Int
            /\ Second * Bucket!RetryAfter(c) >= Cost - Bucket!Available(c)
        BY <3>1, RoundedUp, BucketSizes DEF Bucket!RetryAfter
      <4> QED
        BY <4>1, BucketSizes
    <3> SUFFICES ASSUME NEW p \in bPromises' PROVE p.due - bTs' + bTokens' >= Cost
      BY DEF PromisesKept
    <3>4. bTokens' = Bucket!Available(c) /\ bTs' = Bucket!Clock(c)
      BY <2>2 DEF Bucket!Refuse
    <3>5. CASE p \in bPromises
      <4>1. p.due \in Nat /\ p.due - bTs + bTokens >= Cost
        BY <3>2, <3>5 DEF QuotaInv, Bucket!TypeOK, PromisesKept
      <4> QED
        BY <4>1, <3>1, <3>2, <3>4
    <3>6. CASE p = [caller |-> c, due |-> Bucket!Clock(c) + Second * Bucket!RetryAfter(c)]
      <4>1. p.due = Bucket!Clock(c) + Second * Bucket!RetryAfter(c)
        BY <3>6
      <4> QED
        BY <4>1, <3>1, <3>3, <3>4, BucketSizes
    <3> QED
      BY <2>2, <3>5, <3>6 DEF Bucket!Refuse
  <2>3. CASE Bucket!Tick
    BY <2>3 DEF Bucket!Tick, PromisesKept
  <2>4. CASE Bucket!StartWindow \/ UNCHANGED bVars
    BY <2>4 DEF Bucket!StartWindow, bVars, Bucket!bucket, PromisesKept
  <2> QED
    BY <2>1, <2>2, <2>3, <2>4 DEF Bucket!Next, Bucket!Admit, Bucket!Outage
<1> QED
  BY <1>1, <1>2, QuotaInvariant, PromiseFound, PartsBehave, PTL

-----------------------------------------------------------------------------
(* The approval queue *)

Places == {"idle", "sweep", "load", "decide", "done", "conflict", "failed"}

\* An approver has approved t.
Authorised(t) ==
    \E d \in Deciders : Target[d] = t /\ Outcome[d] = "approved" /\ qPc[d] = "done"

\* A session that decides holds the approval it was asked about.
HoldsTarget == \A d \in Deciders : qPc[d] = "decide" => qHeld[d] = {Target[d]}

\* A sweep is all that a session of the notification service does.
OnlyDecidersDecide == \A a \in Queue!Actors : qPc[a] \notin {"idle", "sweep"} => a \in Deciders

ApprovedIsAuthorised ==
    \A t \in Txs : (qTx[t] \in {"approved", "broadcast"} \/ t \in qSent) => Authorised(t)

SilenceInv == Queue!TypeOK /\ HoldsTarget /\ OnlyDecidersDecide /\ ApprovedIsAuthorised

\* A sweep takes nothing but what it has found.
LEMMA TakenIsFound ==
    ASSUME NEW a, NEW found, NEW T \in Queue!Taken(a, found)
    PROVE  T \subseteq found
BY DEF Queue!Taken

\* A flush leaves every row it does not hold, and writes no other status than
\* the given one.
LEMMA FlushWrites ==
    ASSUME SilenceInv, NEW a \in Queue!Actors,
           NEW new \in {"approved", "rejected", "expired"},
           NEW status \in {"approved", "rejected"},
           Queue!Flush(a, new, status)
    PROVE  /\ qApproval' \in [Txs -> {"pending", "approved", "rejected", "expired"}]
           /\ qTx' \in [Txs -> Queue!TxStatuses]
           /\ qHeld' \in [Queue!Actors -> SUBSET Txs]
           /\ qSeen' \in [Queue!Actors -> [Txs -> Queue!TxStatuses \cup {Null}]]
           /\ \A t \in Txs : qTx'[t] = qTx[t] \/ (t \in qHeld[a] /\ qTx'[t] = status)
           /\ \A d \in Queue!Actors \ {a} : qHeld'[d] = qHeld[d]
           /\ qOverdue' = qOverdue /\ qSent' = qSent
           /\ qContested' \subseteq Txs /\ qFailures' = qFailures
<1>1. Queue!Unread \in [Txs -> Queue!TxStatuses \cup {Null}]
  BY DEF Queue!Unread
<1> QED
  BY <1>1 DEF Queue!Flush, Queue!Forgets, SilenceInv, Queue!TypeOK, Queue!TxStatuses

\* What was decided stays decided.
LEMMA DecidedStays ==
    ASSUME SilenceInv, [Queue!Next]_qVars, NEW d \in Deciders, qPc[d] = "done"
    PROVE  qPc'[d] = "done"
<1> QED
  BY DEF SilenceInv, Queue!TypeOK, Queue!Actors, Queue!sessions, qVars,
         Queue!Next, Queue!Sweep, Queue!SweepLoad, Queue!Sweeps, Queue!ReadTx,
         Queue!SweepCommit, Queue!AfterSweep, Queue!Decide, Queue!DecideLoad,
         Queue!DecideCommit, Queue!SessionFails, Queue!BecomeOverdue, Queue!Broadcast,
         Queue!Cancel

LEMMA TypePreserved ==
    ASSUME Queue!EscalationConstants, SilenceInv, [Queue!Next]_qVars
    PROVE  Queue!TypeOK'
<1> USE DEF SilenceInv, Queue!TypeOK, Queue!rows, Queue!sessions
<1>1. ASSUME NEW a \in Queue!Actors, Queue!SweepLoad(a) PROVE Queue!TypeOK'
  <2>1. PICK T \in Queue!Taken(a, Queue!Pending \cap qOverdue) : Queue!Sweeps(a, T)
    BY <1>1 DEF Queue!SweepLoad
  <2>2. T \subseteq Txs
    BY <2>1, TakenIsFound
  <2> QED
    BY <2>1, <2>2 DEF Queue!Sweeps, Queue!AfterSweep
<1>2. ASSUME NEW a \in Queue!Actors, NEW t \in Txs, Queue!ReadTx(a, t) PROVE Queue!TypeOK'
  BY <1>2 DEF Queue!ReadTx
<1>3. ASSUME NEW a \in Queue!Actors, Queue!SweepCommit(a) PROVE Queue!TypeOK'
  <2>1. qPc' \in [Queue!Actors -> Places]
    BY <1>3 DEF Queue!SweepCommit, Queue!AfterSweep, Places
  <2> QED
    BY <1>3, <2>1, FlushWrites DEF Queue!SweepCommit, Places
<1>4. ASSUME NEW d \in Deciders, Queue!DecideLoad(d) PROVE Queue!TypeOK'
  BY <1>4 DEF Queue!DecideLoad, Queue!EscalationConstants, Queue!Actors
<1>5. ASSUME NEW d \in Deciders, Queue!DecideCommit(d) PROVE Queue!TypeOK'
  <2>1. d \in Queue!Actors /\ Outcome[d] \in {"approved", "rejected"}
    BY DEF Queue!EscalationConstants, Queue!Actors
  <2>2. qPc' \in [Queue!Actors -> Places]
    BY <1>5 DEF Queue!DecideCommit, Places
  <2>3. Queue!Flush(d, Outcome[d], Outcome[d])
    BY <1>5 DEF Queue!DecideCommit
  <2> QED
    BY <2>1, <2>2, <2>3, FlushWrites DEF Places
<1>6. ASSUME NEW t \in Txs, Queue!BecomeOverdue(t) \/ Queue!Broadcast(t) \/ Queue!Cancel(t)
      PROVE  Queue!TypeOK'
  BY <1>6 DEF Queue!BecomeOverdue, Queue!Broadcast, Queue!Cancel, Queue!TxStatuses
<1>7. ASSUME NEW a \in Queue!Actors, Queue!SessionFails(a) PROVE Queue!TypeOK'
  <2>1. Queue!Unread \in [Txs -> Queue!TxStatuses \cup {Null}]
    BY DEF Queue!Unread
  <2>2. qFailures' \in 0 .. MaxFailures
    BY <1>7 DEF Queue!SessionFails, Queue!EscalationConstants
  <2> QED
    BY <1>7, <2>1, <2>2 DEF Queue!SessionFails, Queue!Forgets
<1>8. CASE UNCHANGED qVars
  BY <1>8 DEF qVars
<1> QED
  BY <1>1, <1>2, <1>3, <1>4, <1>5, <1>6, <1>7, <1>8 DEF Queue!Next, Queue!Sweep, Queue!Decide

LEMMA TargetsPreserved ==
    ASSUME Queue!EscalationConstants, SilenceInv, [Queue!Next]_qVars
    PROVE  HoldsTarget' /\ OnlyDecidersDecide'
<1> USE DEF SilenceInv, Queue!TypeOK, HoldsTarget, OnlyDecidersDecide, Queue!Actors,
            Queue!rows, Queue!sessions
<1>1. ASSUME NEW a \in Queue!Actors, Queue!SweepLoad(a) PROVE HoldsTarget' /\ OnlyDecidersDecide'
  BY <1>1 DEF Queue!SweepLoad, Queue!Sweeps, Queue!AfterSweep
<1>2. ASSUME NEW a \in Queue!Actors, NEW t \in Txs, Queue!ReadTx(a, t)
      PROVE  HoldsTarget' /\ OnlyDecidersDecide'
  BY <1>2 DEF Queue!ReadTx
<1>3. ASSUME NEW a \in Queue!Actors, Queue!SweepCommit(a) PROVE HoldsTarget' /\ OnlyDecidersDecide'
  <2>1. \A d \in Queue!Actors \ {a} : qHeld'[d] = qHeld[d]
    BY <1>3, FlushWrites DEF Queue!SweepCommit
  <2> QED
    BY <1>3, <2>1 DEF Queue!SweepCommit, Queue!AfterSweep
<1>4. ASSUME NEW d \in Deciders, Queue!DecideLoad(d) PROVE HoldsTarget' /\ OnlyDecidersDecide'
  BY <1>4 DEF Queue!DecideLoad
<1>5. ASSUME NEW d \in Deciders, Queue!DecideCommit(d) PROVE HoldsTarget' /\ OnlyDecidersDecide'
  <2>1. \A q \in Queue!Actors \ {d} : qHeld'[q] = qHeld[q]
    BY <1>5, FlushWrites DEF Queue!DecideCommit, Queue!EscalationConstants
  <2> QED
    BY <1>5, <2>1 DEF Queue!DecideCommit
<1>6. CASE UNCHANGED <<qPc, qHeld>>
  BY <1>6
<1>7. ASSUME NEW a \in Queue!Actors, Queue!SessionFails(a)
      PROVE  HoldsTarget' /\ OnlyDecidersDecide'
  BY <1>7 DEF Queue!SessionFails, Queue!Forgets
<1> QED
  BY <1>1, <1>2, <1>3, <1>4, <1>5, <1>6, <1>7
     DEF Queue!Next, Queue!Sweep, Queue!Decide, Queue!BecomeOverdue, Queue!Broadcast,
         Queue!Cancel, qVars

LEMMA AuthorisedPreserved ==
    ASSUME Queue!EscalationConstants, SilenceInv, [Queue!Next]_qVars
    PROVE  ApprovedIsAuthorised'
<1> SUFFICES ASSUME NEW t \in Txs, qTx'[t] \in {"approved", "broadcast"} \/ t \in qSent'
             PROVE  Authorised(t)'
  BY DEF ApprovedIsAuthorised
<1>1. Authorised(t) => Authorised(t)'
  BY DecidedStays DEF Authorised
<1>2. ASSUME NEW a \in Queue!Actors, Queue!SweepCommit(a) PROVE Authorised(t)
  <2>1. (qTx'[t] = qTx[t] \/ qTx'[t] = "rejected") /\ qSent' = qSent
    BY <1>2, FlushWrites DEF Queue!SweepCommit
  <2> QED
    BY <2>1 DEF SilenceInv, ApprovedIsAuthorised
<1>3. ASSUME NEW d \in Deciders, Queue!DecideCommit(d) PROVE Authorised(t)'
  <2>1. Outcome[d] \in {"approved", "rejected"} /\ d \in Queue!Actors
    BY DEF Queue!EscalationConstants, Queue!Actors
  <2>2. /\ qTx'[t] = qTx[t] \/ (t \in qHeld[d] /\ qTx'[t] = Outcome[d])
        /\ qSent' = qSent
    BY <1>3, <2>1, FlushWrites DEF Queue!DecideCommit
  <2>3. CASE qTx'[t] = qTx[t]
    BY <2>2, <2>3, <1>1 DEF SilenceInv, ApprovedIsAuthorised
  <2>4. CASE t \in qHeld[d] /\ qTx'[t] = Outcome[d] /\ Outcome[d] = "approved"
    <3>1. Target[d] = t
      BY <1>3, <2>4 DEF Queue!DecideCommit, SilenceInv, HoldsTarget
    <3>2. qPc'[d] = "done"
      BY <1>3, <2>1 DEF Queue!DecideCommit, SilenceInv, Queue!TypeOK
    <3> QED
      BY <2>4, <3>1, <3>2 DEF Authorised
  <2>5. CASE qTx'[t] = Outcome[d] /\ Outcome[d] = "rejected"
    BY <2>2, <2>5, <1>1 DEF SilenceInv, ApprovedIsAuthorised
  <2> QED
    BY <2>1, <2>2, <2>3, <2>4, <2>5
<1>4. ASSUME NEW u \in Txs, Queue!Broadcast(u) PROVE Authorised(t)
  BY <1>4 DEF Queue!Broadcast, SilenceInv, Queue!TypeOK, ApprovedIsAuthorised
<1>5. CASE UNCHANGED <<qTx, qSent>>
  BY <1>1, <1>5 DEF SilenceInv, ApprovedIsAuthorised
<1>6. ASSUME NEW u \in Txs, Queue!Cancel(u) PROVE Authorised(t)
  BY <1>6 DEF Queue!Cancel, SilenceInv, Queue!TypeOK, ApprovedIsAuthorised
<1> QED
  BY <1>1, <1>2, <1>3, <1>4, <1>5, <1>6
     DEF Queue!Next, Queue!Sweep, Queue!SweepLoad, Queue!Sweeps, Queue!ReadTx, Queue!Decide,
         Queue!DecideLoad, Queue!SessionFails, Queue!BecomeOverdue, Queue!rows, qVars

THEOREM SilenceInvariant == GatewaySpec => []SilenceInv
<1>1. Queue!Init => SilenceInv
  <2> SUFFICES ASSUME Queue!Init PROVE SilenceInv
    OBVIOUS
  <2>1. Queue!TypeOK
    BY PartConstants
       DEF Queue!Init, Queue!TypeOK, Queue!Unread, Queue!TxStatuses, Queue!EscalationConstants
  <2>2. HoldsTarget /\ OnlyDecidersDecide
    BY DEF Queue!Init, HoldsTarget, OnlyDecidersDecide, Queue!Actors
  <2>3. ApprovedIsAuthorised
    BY DEF Queue!Init, ApprovedIsAuthorised
  <2> QED
    BY <2>1, <2>2, <2>3 DEF SilenceInv
<1>2. SilenceInv /\ [Queue!Next]_qVars => SilenceInv'
  BY PartConstants, TypePreserved, TargetsPreserved, AuthorisedPreserved DEF SilenceInv
<1> QED
  BY <1>1, <1>2, PartsBehave, PTL

\* Every variable keeps its type.
THEOREM QueueTypeCorrect == GatewaySpec => []Queue!TypeOK
<1>1. SilenceInv => Queue!TypeOK
  BY DEF SilenceInv
<1> QED
  BY <1>1, SilenceInvariant, PTL

\* Nothing is broadcast unless an approver has approved it, for any number of
\* approvers, sweeps and escalations (expire.py: the default is to reject).
THEOREM SilenceRejectsHolds == GatewaySpec => []SilenceRejects
<1>1. SilenceInv => SilenceRejects
  BY DEF SilenceRejects, Queue!SilenceRejects, SilenceInv, Queue!TypeOK,
         ApprovedIsAuthorised, Authorised
<1> QED
  BY <1>1, SilenceInvariant, PTL

-----------------------------------------------------------------------------
(* Both tables *)

\* While no session has written an approval, its transaction is escalated, and
\* so every session has read it, if at all.
UntouchedIsEscalated ==
    \A t \in Txs \ qContested : qApproval[t] = "pending" =>
        /\ qTx[t] = "escalated"
        /\ \A a \in Queue!Actors : qSeen[a][t] \in {Null, "escalated"}

UncontestedAgree == \A t \in Txs \ qContested : Queue!Agree(t)

TablesInv == UntouchedIsEscalated /\ UncontestedAgree

\* A flush that does not contest an approval has read its transaction as
\* escalated, so it leaves out neither column.
LEMMA FlushAgrees ==
    ASSUME SilenceInv, TablesInv, NEW a \in Queue!Actors, Queue!AllRead(a),
           NEW new \in {"approved", "rejected", "expired"},
           NEW status \in {"approved", "rejected"},
           Queue!Flush(a, new, status),
           new = "approved" <=> status = "approved"
    PROVE  TablesInv'
<1> USE DEF SilenceInv, Queue!TypeOK
<1> SUFFICES ASSUME NEW t \in Txs \ qContested'
             PROVE  /\ qApproval'[t] = "pending" =>
                           /\ qTx'[t] = "escalated"
                           /\ \A b \in Queue!Actors : qSeen'[b][t] \in {Null, "escalated"}
                    /\ Queue!Agree(t)'
  BY DEF TablesInv, UntouchedIsEscalated, UncontestedAgree
<1>1. t \notin qContested /\ (t \in qHeld[a] => qApproval[t] = "pending")
  BY DEF Queue!Flush, Queue!Pending
<1>2. CASE t \in qHeld[a]
  <2>1. qSeen[a][t] = "escalated"
    BY <1>1, <1>2 DEF TablesInv, UntouchedIsEscalated, Queue!AllRead
  <2>2. qApproval'[t] = new /\ qTx'[t] = status
    BY <1>2, <2>1 DEF Queue!Flush
  <2> QED
    BY <2>2 DEF Queue!Agree
<1>3. CASE t \notin qHeld[a]
  <2>1. qApproval'[t] = qApproval[t] /\ qTx'[t] = qTx[t]
    BY <1>3 DEF Queue!Flush
  <2>2. \A b \in Queue!Actors : qSeen'[b][t] \in {Null, qSeen[b][t]}
    BY DEF Queue!Flush, Queue!Forgets, Queue!Unread
  <2> QED
    BY <1>1, <2>1, <2>2 DEF TablesInv, UntouchedIsEscalated, UncontestedAgree, Queue!Agree
<1> QED
  BY <1>2, <1>3

LEMMA TablesStep ==
    ASSUME Queue!EscalationConstants, SilenceInv, TablesInv, [Queue!Next]_qVars
    PROVE  TablesInv'
<1> USE DEF SilenceInv, Queue!TypeOK, Queue!rows, Queue!sessions
<1>1. ASSUME NEW a \in Queue!Actors, NEW t \in Txs, Queue!ReadTx(a, t) PROVE TablesInv'
  <2>1. \A b \in Queue!Actors, u \in Txs : qSeen'[b][u] \in {qSeen[b][u], qTx[u]}
    BY <1>1 DEF Queue!ReadTx
  <2> QED
    BY <1>1, <2>1
       DEF Queue!ReadTx, TablesInv, UntouchedIsEscalated, UncontestedAgree, Queue!Agree
<1>2. ASSUME NEW a \in Queue!Actors, Queue!SweepCommit(a) PROVE TablesInv'
  BY <1>2, FlushAgrees DEF Queue!SweepCommit
<1>3. ASSUME NEW d \in Deciders, Queue!DecideCommit(d) PROVE TablesInv'
  <2>1. d \in Queue!Actors /\ Outcome[d] \in {"approved", "rejected"}
    BY DEF Queue!EscalationConstants, Queue!Actors
  <2>2. Queue!Flush(d, Outcome[d], Outcome[d]) /\ Queue!AllRead(d)
    BY <1>3 DEF Queue!DecideCommit
  <2> QED
    BY <2>1, <2>2, FlushAgrees
<1>4. ASSUME NEW t \in Txs, Queue!Broadcast(t) \/ Queue!Cancel(t) PROVE TablesInv'
  BY <1>4 DEF Queue!Broadcast, Queue!Cancel, TablesInv, UntouchedIsEscalated,
              UncontestedAgree, Queue!Agree
<1>5. ASSUME NEW a \in Queue!Actors, Queue!SessionFails(a) PROVE TablesInv'
  <2>1. \A b \in Queue!Actors, u \in Txs : qSeen'[b][u] \in {Null, qSeen[b][u]}
    BY <1>5 DEF Queue!SessionFails, Queue!Forgets, Queue!Unread
  <2> QED
    BY <1>5, <2>1
       DEF Queue!SessionFails, TablesInv, UntouchedIsEscalated, UncontestedAgree, Queue!Agree
<1>6. CASE UNCHANGED <<qApproval, qTx, qSeen, qContested>>
  BY <1>6 DEF TablesInv, UntouchedIsEscalated, UncontestedAgree, Queue!Agree
<1> QED
  BY <1>1, <1>2, <1>3, <1>4, <1>5, <1>6
     DEF Queue!Next, Queue!Sweep, Queue!SweepLoad, Queue!Sweeps, Queue!Decide,
         Queue!DecideLoad, Queue!BecomeOverdue, qVars

\* An approval that a single session has written agrees with its transaction,
\* for any number of requests, sweeps, failures and escalations (expire.py:
\* never half-applied, which holds no further than this).
THEOREM UncontestedAgreesHolds == GatewaySpec => []UncontestedAgrees
<1>1. Queue!Init => TablesInv
  BY DEF Queue!Init, Queue!Unread, TablesInv, UntouchedIsEscalated, UncontestedAgree,
         Queue!Agree
<1>2. SilenceInv /\ TablesInv /\ [Queue!Next]_qVars => TablesInv'
  BY PartConstants, TablesStep
<1>3. TablesInv => UncontestedAgrees
  BY DEF UncontestedAgrees, Queue!UncontestedAgrees, TablesInv, UntouchedIsEscalated,
         UncontestedAgree
<1> QED
  BY <1>1, <1>2, <1>3, SilenceInvariant, PartsBehave, PTL

-----------------------------------------------------------------------------
(* The SDK *)

Attempts == [ask : Asks, n : Nat]
CallStages == Client!Sending \cup {"closed", "transport", "signed", "escalated", "rejected",
                                   "unauthorized", "unavailable"}
Screened == {r.of : r \in sRows}

\* Attempts whose outcome the call never learnt.
Known == sMissed \cup sMangled

CallsShape ==
    /\ sStage \in [Asks -> CallStages] /\ sAttempt \in [Asks -> Nat]
    /\ sWire \subseteq Attempts /\ Known \subseteq Attempts
    /\ sRows \subseteq [of : Attempts, decision : Client!Judged]
    /\ sReplies \subseteq [of : Attempts, answer : Client!Judged \cup Client!Refusals]

\* Only what a call has attempted is under way, was answered or was screened.
AttemptsOK ==
    /\ \A m \in sWire \cup Screened : m.n <= sAttempt[m.ask]
    /\ \A r \in sReplies : r.of.n <= sAttempt[r.of.ask]

\* An approval is answered after its row was committed.
ApprovalIsCommitted ==
    \A r \in sReplies : r.answer = "approve" => [of |-> r.of, decision |-> "approve"] \in sRows

\* An attempt is screened and answered once.
AnsweredOnce ==
    /\ sWire \cap Screened = {}
    /\ \A q \in sReplies : q.of \notin sWire

\* The answer to a screened attempt is its row's, unless it is mangled.
AnswersAreTrue ==
    \A q \in sReplies, r \in sRows : q.of = r.of => q.answer = r.decision \/ r.of \in sMangled

\* The call has gone beyond an attempt, or has not made it yet.
Behind(m) == m.n < sAttempt[m.ask] \/ sStage[m.ask] \in {"new", "send"}

BehindIsKnown == \A m \in sWire \cup Screened : Behind(m) => m \in Known

\* A request that outlives its call is one the call has given up on.
OutlivedIsKnown == \A m \in sWire : sStage[m.ask] \notin Client!Sending => m \in Known

ClientInv ==
    /\ CallsShape /\ AttemptsOK /\ ApprovalIsCommitted /\ AnsweredOnce /\ AnswersAreTrue
    /\ BehindIsKnown /\ OutlivedIsKnown
    /\ Client!SignedIsApproved /\ Client!InVainForLoss

\* Two attempts with the same call and number are the same.
LEMMA SameAttempt ==
    ASSUME NEW m \in Attempts, NEW a \in Asks, NEW k \in Nat, m.ask = a, m.n = k
    PROVE  m = [ask |-> a, n |-> k]
  BY DEF Attempts

\* What an attempt of a call is: the latest, or one before it.
LEMMA LatestOrEarlier ==
    ASSUME ClientInv, NEW m \in sWire \cup Screened
    PROVE  m \in Attempts /\ (m = Client!This(m.ask) \/ m.n < sAttempt[m.ask])
<1>1. m \in Attempts /\ m.n <= sAttempt[m.ask]
  BY DEF ClientInv, CallsShape, AttemptsOK, Screened
<1>2. sAttempt[m.ask] \in Nat /\ m.n \in Nat /\ m.ask \in Asks
  BY <1>1 DEF ClientInv, CallsShape, Attempts
<1>3. m.n = sAttempt[m.ask] \/ m.n < sAttempt[m.ask]
  BY <1>1, <1>2
<1> QED
  BY <1>1, <1>2, <1>3, SameAttempt DEF Client!This

\* The request of the next attempt leaves, or the client is closed.
LEMMA SendKeeps ==
    ASSUME ClientInv, NEW a \in Asks, Client!Send(a)
    PROVE  ClientInv'
<1> USE DEF ClientInv, CallsShape
<1>0. /\ UNCHANGED <<sReplies, sMissed, sMangled, sRows>> /\ Screened' = Screened /\ Known' = Known
      /\ sStage[a] \in {"new", "send"}
  BY DEF Client!Send, Screened, Known
<1>1. CASE UNCHANGED <<sAttempt, sWire>> /\ sStage' = [sStage EXCEPT ![a] = "closed"]
  <2>1. \A b \in Asks \ {a} : sStage'[b] = sStage[b]
    BY <1>1
  <2>2. CallsShape' /\ AttemptsOK' /\ ApprovalIsCommitted' /\ AnsweredOnce' /\ AnswersAreTrue'
    BY <1>0, <1>1 DEF CallStages, AttemptsOK, ApprovalIsCommitted, AnsweredOnce, AnswersAreTrue
  <2>3. \A m \in sWire \cup Screened : m.ask = a => m \in Known
    BY <1>0 DEF BehindIsKnown, Behind
  <2>4. \A m \in sWire \cup Screened : m.ask \in Asks
    BY DEF Screened, Attempts
  <2>5. BehindIsKnown' /\ OutlivedIsKnown'
    BY <1>0, <1>1, <2>1, <2>3, <2>4 DEF BehindIsKnown, Behind, OutlivedIsKnown
  <2>6. Client!SignedIsApproved'
    BY <1>0, <1>1 DEF Client!SignedIsApproved, Client!This
  <2>7. Client!InVainForLoss'
    <3> SUFFICES ASSUME NEW r \in sRows, r.decision = "approve",
                        sStage'[r.of.ask] \notin Client!Sending
                 PROVE  \/ r.of = Client!This(r.of.ask)' /\ sStage'[r.of.ask] = "signed"
                        \/ r.of \in Known'
      BY <1>0 DEF Client!InVainForLoss, Known
    <3>1. r.of \in Screened /\ r.of.ask \in Asks
      BY <2>4 DEF Screened
    <3>2. CASE r.of.ask = a
      BY <1>0, <2>3, <3>1, <3>2
    <3>3. CASE r.of.ask # a
      BY <1>0, <1>1, <2>1, <3>1, <3>3 DEF Client!InVainForLoss, Client!This, Known
    <3> QED
      BY <3>2, <3>3
  <2> QED
    BY <2>2, <2>5, <2>6, <2>7
<1>2. CASE /\ sAttempt' = [sAttempt EXCEPT ![a] = sAttempt[a] + 1]
           /\ sWire' = sWire \cup {[ask |-> a, n |-> sAttempt[a] + 1]}
           /\ sStage' = [sStage EXCEPT ![a] = "wait"]
  <2> DEFINE new == [ask |-> a, n |-> sAttempt[a] + 1]
  <2>2. new \in Attempts /\ new.ask = a /\ new.n = sAttempt[a] + 1
    BY DEF Attempts
  <2> HIDE DEF new
  <2>4. sWire' = sWire \cup {new}
    BY <1>2 DEF new
  <2>5. Screened \subseteq Attempts
    BY DEF Screened
  <2>6. CallsShape'
    BY <1>0, <1>2, <2>2, <2>4 DEF CallStages, Client!Sending
  <2>7. \A b \in Asks : sAttempt[b] <= sAttempt'[b] /\ sAttempt[b] \in Nat /\ sAttempt'[b] \in Nat
    BY <1>2
  <2>8. AttemptsOK'
    <3>1. \A m \in sWire \cup Screened : m.n <= sAttempt'[m.ask]
      BY <2>5, <2>7 DEF AttemptsOK, Attempts
    <3>2. \A r \in sReplies : r.of.n <= sAttempt'[r.of.ask]
      BY <2>7 DEF AttemptsOK, Attempts
    <3>3. new.n <= sAttempt'[new.ask]
      BY <1>2, <2>2
    <3> QED
      BY <1>0, <2>4, <3>1, <3>2, <3>3 DEF AttemptsOK
  <2>9. new \notin sWire \cup Screened /\ \A r \in sReplies : r.of # new
    BY <2>2, <2>7 DEF AttemptsOK
  <2>10. AnsweredOnce' /\ ApprovalIsCommitted' /\ AnswersAreTrue'
    BY <1>0, <2>4, <2>9 DEF AnsweredOnce, ApprovalIsCommitted, AnswersAreTrue
  <2>11. BehindIsKnown' /\ OutlivedIsKnown'
    <3> SUFFICES ASSUME NEW m \in sWire \cup Screened \cup {new}
                 PROVE  /\ Behind(m)' => m \in Known
                        /\ m \in sWire' /\ sStage'[m.ask] \notin Client!Sending => m \in Known
      BY <1>0, <2>4 DEF BehindIsKnown, OutlivedIsKnown
    <3>1. CASE m = new
      BY <1>2, <2>2, <3>1 DEF Behind, Client!Sending
    <3>2. CASE m.ask = a /\ m # new
      BY <1>0, <3>2 DEF BehindIsKnown, Behind
    <3>3. CASE m.ask # a
      BY <1>2, <2>2, <2>4, <2>5, <3>3 DEF BehindIsKnown, Behind, OutlivedIsKnown, Attempts
    <3> QED
      BY <3>1, <3>2, <3>3
  <2>12. Client!SignedIsApproved'
    BY <1>0, <1>2 DEF Client!SignedIsApproved, Client!This
  <2>13. Client!InVainForLoss'
    <3>1. \A r \in sRows : r.of.ask \in Asks
      BY DEF Attempts
    <3>2. \A b \in Asks \ {a} : sStage'[b] = sStage[b] /\ sAttempt'[b] = sAttempt[b]
      BY <1>2
    <3>3. sStage'[a] \in Client!Sending
      BY <1>2 DEF Client!Sending
    <3> QED
      BY <1>0, <3>1, <3>2, <3>3 DEF Client!InVainForLoss, Client!This
  <2> QED
    BY <2>6, <2>8, <2>10, <2>11, <2>12, <2>13
<1> QED
  BY <1>1, <1>2 DEF Client!Send

\* The call leaves an attempt whose outcome it knows of, or remembers that it
\* does not.
LEMMA MovesOn ==
    ASSUME ClientInv, NEW a \in Asks, NEW to \in CallStages \ {"new", "wait", "signed"},
           sStage' = [sStage EXCEPT ![a] = to],
           UNCHANGED <<sAttempt, sWire, sRows>>, sReplies' \subseteq sReplies,
           sMissed \subseteq sMissed', UNCHANGED sMangled, Known' \subseteq Attempts,
           Client!This(a) \in sWire => Client!This(a) \in Known',
           Client!This(a) \in Screened =>
               \/ Client!This(a) \in Known'
               \/ to # "send" /\ [of |-> Client!This(a), decision |-> "approve"] \notin sRows
    PROVE  ClientInv'
<1> USE DEF ClientInv, CallsShape
<1>1. Screened' = Screened /\ Known \subseteq Known'
  BY DEF Screened, Known
<1>2. /\ CallsShape' /\ AttemptsOK' /\ ApprovalIsCommitted' /\ AnsweredOnce' /\ AnswersAreTrue'
  BY <1>1 DEF AttemptsOK, ApprovalIsCommitted, AnsweredOnce, AnswersAreTrue
<1>3. \A m \in sWire \cup Screened :
         m.ask = a => m = Client!This(a) \/ m.n < sAttempt[a]
  BY LatestOrEarlier
<1>4. \A b \in Asks \ {a} : sStage'[b] = sStage[b] /\ Client!This(b)' = Client!This(b)
  BY DEF Client!This
<1>5. \A m \in sWire \cup Screened : m.ask \in Asks
  BY DEF Screened, Attempts
<1>6. \A m \in sWire : m.ask = a => m \in Known'
  BY <1>1, <1>3 DEF BehindIsKnown, Behind
<1>7. BehindIsKnown'
  BY <1>1, <1>3, <1>4, <1>5, <1>6 DEF BehindIsKnown, Behind
<1>8. OutlivedIsKnown'
  BY <1>1, <1>4, <1>5, <1>6 DEF OutlivedIsKnown
<1>9. Client!SignedIsApproved'
  BY DEF Client!SignedIsApproved, Client!This
<1>10. Client!InVainForLoss'
  <2> SUFFICES ASSUME NEW r \in sRows, r.decision = "approve",
                      sStage'[r.of.ask] \notin Client!Sending
               PROVE  \/ r.of = Client!This(r.of.ask)' /\ sStage'[r.of.ask] = "signed"
                      \/ r.of \in Known'
    BY DEF Client!InVainForLoss, Known
  <2>1. r.of \in Screened /\ r.of.ask \in Asks
    BY <1>5 DEF Screened
  <2>2. CASE r.of.ask # a
    BY <1>1, <1>4, <2>1, <2>2 DEF Client!InVainForLoss, Known
  <2>3. CASE r.of.ask = a /\ r.of.n < sAttempt[a]
    BY <1>1, <2>1, <2>3 DEF BehindIsKnown, Behind
  <2>4. CASE r.of = Client!This(a)
    <3>1. r = [of |-> Client!This(a), decision |-> "approve"]
      BY <2>4
    <3> QED
      BY <2>1, <2>4, <3>1
  <2> QED
    BY <1>3, <2>1, <2>2, <2>3, <2>4
<1> QED
  BY <1>2, <1>7, <1>8, <1>9, <1>10

\* The call gives an attempt up, and remembers that it did.
LEMMA GiveUpKeeps ==
    ASSUME ClientInv, NEW a \in Asks, Client!GiveUp(a)
    PROVE  ClientInv'
<1>1. /\ UNCHANGED <<sAttempt, sWire, sReplies, sRows, sMangled>>
      /\ sMissed' = sMissed \cup {Client!This(a)}
      /\ sStage' = [sStage EXCEPT ![a] = Client!Again(a)]
      /\ Client!Again(a) \in CallStages \ {"new", "wait", "signed"}
  BY DEF Client!GiveUp, Client!Again, CallStages, Client!Sending
<1>2. Client!This(a) \in Attempts
  BY DEF Client!This, Attempts, ClientInv, CallsShape
<1>3. Known' = Known \cup {Client!This(a)}
  BY <1>1 DEF Known
<1>4. Known' \subseteq Attempts
  BY <1>2, <1>3 DEF ClientInv, CallsShape
<1> QED
  BY <1>1, <1>3, <1>4, MovesOn

\* An answer ends the call, or was mangled, or one of an attempt never screened.
LEMMA ReceiveKeeps ==
    ASSUME ClientInv, NEW a \in Asks, Client!Receive(a)
    PROVE  ClientInv'
<1> DEFINE m == Client!This(a)
<1>1. PICK answer \in Client!Judged \cup Client!Refusals :
        /\ [of |-> m, answer |-> answer] \in sReplies
        /\ sReplies' = sReplies \ {[of |-> m, answer |-> answer]}
        /\ sStage' = [sStage EXCEPT ![a] = IF answer \in Client!Judged
                                          THEN Client!SignIfApproved(answer)
                                          ELSE Client!Refused(a, answer)]
  BY DEF Client!Receive
<1>2. UNCHANGED <<sAttempt, sWire, sMissed, sMangled, sRows>> /\ sReplies' \subseteq sReplies
  BY <1>1 DEF Client!Receive
<1>3. m \notin sWire
  BY <1>1 DEF ClientInv, AnsweredOnce
<1>4. \A r \in sRows : r.of = m => r.decision = answer \/ m \in sMangled
  BY <1>1 DEF ClientInv, AnswersAreTrue
<1>5. Known' = Known /\ Known \subseteq Attempts
  BY <1>2 DEF Known, ClientInv, CallsShape
<1>6. CASE answer = "approve"
  <2>1. sStage' = [sStage EXCEPT ![a] = "signed"]
    BY <1>1, <1>6 DEF Client!Judged, Client!SignIfApproved
  <2>2. [of |-> m, decision |-> "approve"] \in sRows
    BY <1>1, <1>6 DEF ClientInv, ApprovalIsCommitted
  <2>3. Screened' = Screened /\ \A b \in Asks : Client!This(b)' = Client!This(b)
    BY <1>2 DEF Screened, Client!This
  <2>4. \A b \in Asks \ {a} : sStage'[b] = sStage[b]
    BY <2>1 DEF ClientInv, CallsShape
  <2>5. sStage'[a] = "signed"
    BY <2>1 DEF ClientInv, CallsShape
  <2>6. \A p \in sWire \cup Screened :
           p.ask \in Asks /\ (p.ask = a => p = m \/ (p.n < sAttempt[a] /\ p \in Known))
    BY LatestOrEarlier DEF ClientInv, BehindIsKnown, Behind, Attempts
  <2>7. CallsShape'
    BY <1>2, <2>1, <1>5 DEF ClientInv, CallsShape, CallStages
  <2>8. AttemptsOK' /\ ApprovalIsCommitted' /\ AnsweredOnce' /\ AnswersAreTrue'
    BY <1>2, <2>3 DEF ClientInv, AttemptsOK, ApprovalIsCommitted, AnsweredOnce, AnswersAreTrue
  <2>9. BehindIsKnown' /\ OutlivedIsKnown'
    BY <1>2, <1>3, <1>5, <2>3, <2>4, <2>5, <2>6
       DEF ClientInv, BehindIsKnown, Behind, OutlivedIsKnown
  <2>10. Client!SignedIsApproved'
    BY <1>2, <2>2, <2>3, <2>4, <2>5 DEF ClientInv, Client!SignedIsApproved
  <2>11. Client!InVainForLoss'
    <3>1. \A r \in sRows : r.of \in Screened
      BY DEF Screened
    <3> QED
      BY <1>2, <1>5, <2>3, <2>4, <2>5, <2>6, <3>1 DEF ClientInv, Client!InVainForLoss, Known
  <2> QED
    BY <2>7, <2>8, <2>9, <2>10, <2>11 DEF ClientInv
<1>7. CASE answer # "approve"
  <2> DEFINE to == IF answer \in Client!Judged THEN Client!SignIfApproved(answer)
                                               ELSE Client!Refused(a, answer)
  <2>1. /\ to \in CallStages \ {"new", "wait", "signed"}
        /\ to = "send" => answer \notin Client!Judged
    BY <1>1, <1>7 DEF Client!SignIfApproved, Client!Refused, Client!Again, Client!Judged,
       Client!Refusals, CallStages, Client!Sending
  <2> HIDE DEF to
  <2>2. sStage' = [sStage EXCEPT ![a] = to]
    BY <1>1 DEF to
  <2>3. m \in Screened => \/ m \in Known'
                          \/ to # "send" /\ [of |-> m, decision |-> "approve"] \notin sRows
    <3> SUFFICES ASSUME NEW r \in sRows, r.of = m, m \notin sMangled
                 PROVE  /\ to # "send"
                        /\ [of |-> m, decision |-> "approve"] \notin sRows
      BY <1>5 DEF Screened, Known
    <3>1. r.decision = answer /\ r.decision \in Client!Judged
      BY <1>4 DEF ClientInv, CallsShape
    <3>2. [of |-> m, decision |-> "approve"] \notin sRows
      BY <1>4, <1>7
    <3> QED
      BY <2>1, <3>1, <3>2
  <2> QED
    BY <1>2, <1>3, <1>5, <2>1, <2>2, <2>3, MovesOn
<1> QED
  BY <1>6, <1>7

\* An attempt is screened: it leaves the wire, and its row comes before its
\* answer.
LEMMA ScreenKeeps ==
    ASSUME ClientInv, NEW m \in sWire, Client!Screen(m) \/ Client!Refuse(m)
    PROVE  ClientInv'
<1> USE DEF ClientInv, CallsShape
<1>1. m \in Attempts /\ m \notin Screened /\ \A q \in sReplies : q.of # m
  BY DEF AnsweredOnce
<1>2. UNCHANGED <<sStage, sAttempt, sMissed>> /\ sWire' = sWire \ {m}
  BY DEF Client!Screen, Client!Refuse
<1>3. PICK answer \in Client!Judged \cup Client!Refusals :
        /\ sReplies' = sReplies \cup {[of |-> m, answer |-> answer]}
        /\ \/ \E d \in Client!Judged :
                 /\ sRows' = sRows \cup {[of |-> m, decision |-> d]}
                 /\ \/ answer = d /\ sMangled' = sMangled
                    \/ answer \in Client!Refusals /\ sMangled' = sMangled \cup {m}
           \/ sRows' = sRows /\ answer # "approve" /\ sMangled' = sMangled
  BY DEF Client!Screen, Client!Refuse, Client!Judged, Client!Refusals
<1>4. /\ sRows \subseteq sRows' /\ Screened' \subseteq Screened \cup {m}
      /\ \A r \in sRows' \ sRows : r.of = m /\ r.decision \in Client!Judged
  BY <1>3 DEF Screened
<1>5. sMangled \subseteq sMangled' /\ Known \subseteq Known' /\ Known' \subseteq Attempts
  BY <1>1, <1>2, <1>3 DEF Known
<1>6. answer = "approve" => [of |-> m, decision |-> answer] \in sRows'
  BY <1>3 DEF Client!Judged, Client!Refusals
<1>7. \A r \in sRows' : r.of = m => r.decision = answer \/ m \in sMangled'
  BY <1>1, <1>3 DEF Screened
<1> DEFINE reply == [of |-> m, answer |-> answer]
<1>8. reply.of = m /\ reply.answer = answer
  OBVIOUS
<1>9. CallsShape'
  <2>1. sRows' \subseteq [of : Attempts, decision : Client!Judged]
    BY <1>1, <1>3
  <2> QED
    BY <1>1, <1>2, <1>3, <1>5, <2>1
<1> HIDE DEF reply
<1>10. sReplies' = sReplies \cup {reply}
  BY <1>3 DEF reply
<1>11. AttemptsOK' /\ BehindIsKnown' /\ OutlivedIsKnown'
  BY <1>2, <1>4, <1>5, <1>8, <1>10 DEF AttemptsOK, BehindIsKnown, Behind, OutlivedIsKnown
<1>12. ApprovalIsCommitted'
  BY <1>4, <1>6, <1>8, <1>10 DEF ApprovalIsCommitted
<1>13. AnsweredOnce'
  BY <1>1, <1>2, <1>4, <1>8, <1>10 DEF AnsweredOnce
<1>14. AnswersAreTrue'
  BY <1>1, <1>4, <1>5, <1>7, <1>8, <1>10 DEF AnswersAreTrue
<1>15. Client!SignedIsApproved'
  BY <1>2, <1>4 DEF Client!SignedIsApproved, Client!This
<1>16. Client!InVainForLoss'
  <2> SUFFICES ASSUME NEW r \in sRows', r.decision = "approve",
                      sStage[r.of.ask] \notin Client!Sending
               PROVE  \/ r.of = Client!This(r.of.ask) /\ sStage[r.of.ask] = "signed"
                      \/ r.of \in Known'
    BY <1>2 DEF Client!InVainForLoss, Client!This, Known
  <2>1. CASE r \in sRows
    BY <1>5, <2>1 DEF Client!InVainForLoss, Known
  <2>2. CASE r \notin sRows
    BY <1>4, <1>5, <2>2 DEF OutlivedIsKnown
  <2> QED
    BY <2>1, <2>2
<1> QED
  BY <1>9, <1>11, <1>12, <1>13, <1>14, <1>15, <1>16

THEOREM ClientInvariant == GatewaySpec => []ClientInv
<1>1. Client!Init => ClientInv
  BY DEF Client!Init, ClientInv, CallsShape, CallStages, Client!Sending, AttemptsOK, Screened,
     ApprovalIsCommitted, AnsweredOnce, AnswersAreTrue, BehindIsKnown, OutlivedIsKnown, Known,
     Client!SignedIsApproved, Client!InVainForLoss
<1>2. ClientInv /\ [Client!Next]_sVars => ClientInv'
  <2> SUFFICES ASSUME ClientInv, [Client!Next]_sVars PROVE ClientInv'
    OBVIOUS
  <2>1. CASE Client!Lose
    <3>1. /\ UNCHANGED <<sStage, sAttempt, sMissed, sMangled, sRows>>
          /\ Screened' = Screened /\ Known' = Known
          /\ sWire' \subseteq sWire /\ sReplies' \subseteq sReplies
      BY <2>1 DEF Client!Lose, Screened, Known
    <3> QED
      BY <3>1 DEF ClientInv, CallsShape, AttemptsOK, ApprovalIsCommitted, AnsweredOnce,
         AnswersAreTrue, BehindIsKnown, Behind, OutlivedIsKnown, Client!SignedIsApproved,
         Client!InVainForLoss, Client!This
  <2>2. CASE Client!Close \/ UNCHANGED sVars
    <3>1. /\ UNCHANGED <<sStage, sAttempt, sMissed, sMangled, sRows, sWire, sReplies>>
          /\ Screened' = Screened /\ Known' = Known
      BY <2>2 DEF Client!Close, sVars, Screened, Known
    <3> QED
      BY <3>1 DEF ClientInv, CallsShape, AttemptsOK, ApprovalIsCommitted, AnsweredOnce,
         AnswersAreTrue, BehindIsKnown, Behind, OutlivedIsKnown, Client!SignedIsApproved,
         Client!InVainForLoss, Client!This
  <2> QED
    BY <2>1, <2>2, SendKeeps, GiveUpKeeps, ReceiveKeeps, ScreenKeeps DEF Client!Next
<1> QED
  BY <1>1, <1>2, PartsBehave, PTL

\* SR-04: whatever is lost, late, refused or mangled, a call signs only under a
\* committed approval of the attempt that was answered; for any number of calls
\* and retries.
THEOREM SignedIsApprovedHolds == GatewaySpec => []SignedIsApproved
<1>1. ClientInv => SignedIsApproved
  BY DEF ClientInv, SignedIsApproved
<1> QED
  BY <1>1, ClientInvariant, PTL

\* An approval is in vain only if its answer was lost, late or mangled, for any
\* number of calls and retries.
THEOREM InVainForLossHolds == GatewaySpec => []InVainForLoss
<1>1. ClientInv => InVainForLoss
  BY DEF ClientInv, InVainForLoss
<1> QED
  BY <1>1, ClientInvariant, PTL

-----------------------------------------------------------------------------
(* The circuit breaker *)

\* The assumptions on it.
LEMMA BreakerBounds ==
    Threshold \in Nat \ {0} /\ Cooldown \in Nat \ {0} /\ Null \notin Int
  BY PartConstants DEF Breaker!BreakerConstants

Outcomes == -1 .. Cooldown

BreakerType ==
    /\ cFailures \in 0 .. Threshold
    /\ cOutcomes \in Seq(Outcomes) /\ Len(cOutcomes) <= Threshold
    /\ cOpened \in (0 .. Cooldown) \cup {Null}

\* The count is the length of the run of failures the log begins with.
CountsTheRun ==
    /\ cFailures <= Len(cOutcomes)
    /\ \A i \in 1 .. cFailures : cOutcomes[i] # Breaker!Success
    /\ cFailures < Threshold =>
         cFailures = Len(cOutcomes) \/ cOutcomes[cFailures + 1] = Breaker!Success

\* The breaker is open since the last failure of a full run.
OpenSinceLast ==
    IF cFailures = Threshold THEN cOpened = cOutcomes[1] ELSE cOpened = Null

BreakerInv == BreakerType /\ CountsTheRun /\ OpenSinceLast

\* A new outcome is the first of the log, the others move one place down, and
\* the log keeps the last Threshold of them.
LEMMA Logged ==
    ASSUME NEW o \in Outcomes, BreakerType, Breaker!Log(o)
    PROVE  /\ cOutcomes' \in Seq(Outcomes)
           /\ Len(cOutcomes') = IF Len(cOutcomes) < Threshold THEN Len(cOutcomes) + 1 ELSE Threshold
           /\ cOutcomes'[1] = o
           /\ \A i \in 1 .. Len(cOutcomes') : i > 1 => cOutcomes'[i] = cOutcomes[i - 1]
<1> USE BreakerBounds
<1> DEFINE long == <<o>> \o cOutcomes
           kept == IF Len(cOutcomes) + 1 < Threshold THEN Len(cOutcomes) + 1 ELSE Threshold
<1>1. cOutcomes' = SubSeq(long, 1, kept)
  BY DEF Breaker!Log, Breaker!AtMost
<1>2. /\ long \in Seq(Outcomes) /\ Len(long) = Len(cOutcomes) + 1 /\ long[1] = o
      /\ \A i \in 2 .. Len(long) : long[i] = cOutcomes[i - 1]
  BY DEF BreakerType
<1>3. kept \in 1 .. Len(long) /\ Len(cOutcomes) \in Nat
  BY <1>2 DEF BreakerType
<1> HIDE DEF long
<1>4. SubSeq(long, 1, kept) \in Seq(Outcomes) /\ Len(SubSeq(long, 1, kept)) = kept
  BY <1>2, <1>3
<1>5. \A i \in 1 .. kept : SubSeq(long, 1, kept)[i] = long[i]
  BY <1>2, <1>3
<1>6. kept = IF Len(cOutcomes) < Threshold THEN Len(cOutcomes) + 1 ELSE Threshold
  BY <1>3
<1> HIDE DEF kept
<1>7. cOutcomes' \in Seq(Outcomes) /\ Len(cOutcomes') = kept
  BY <1>1, <1>4
<1>8. \A i \in 1 .. kept : cOutcomes'[i] = long[i]
  BY <1>1, <1>5
<1>9. cOutcomes'[1] = o
  BY <1>2, <1>3, <1>8
<1>10. ASSUME NEW i \in 1 .. kept, i > 1 PROVE cOutcomes'[i] = cOutcomes[i - 1]
  <2>1. i \in 2 .. Len(long)
    BY <1>2, <1>3, <1>10
  <2>2. long[i] = cOutcomes[i - 1]
    BY <1>2, <2>1
  <2> QED
    BY <1>8, <2>2
<1>11. Len(cOutcomes') = IF Len(cOutcomes) < Threshold THEN Len(cOutcomes) + 1 ELSE Threshold
  BY <1>6, <1>7
<1>12. \A i \in 1 .. Len(cOutcomes') : i > 1 => cOutcomes'[i] = cOutcomes[i - 1]
  BY <1>7, <1>10
<1> QED
  BY <1>7, <1>9, <1>11, <1>12, Zenon

LEMMA BreakerStarts == Breaker!Init => BreakerInv
  BY BreakerBounds
  DEF Breaker!Init, BreakerInv, BreakerType, CountsTheRun, OpenSinceLast

LEMMA SucceedPreserves ==
    ASSUME BreakerInv, NEW w \in Workers, Breaker!Succeed(w)
    PROVE  BreakerInv'
<1> USE BreakerBounds
<1>1. Breaker!Success \in Outcomes /\ Breaker!Log(Breaker!Success)
  BY DEF Breaker!Succeed, Breaker!Success, Outcomes
<1>2. /\ cOutcomes' \in Seq(Outcomes) /\ cOutcomes'[1] = Breaker!Success
      /\ Len(cOutcomes') = IF Len(cOutcomes) < Threshold THEN Len(cOutcomes) + 1 ELSE Threshold
  BY <1>1, Logged DEF BreakerInv
<1>3. cFailures' = 0 /\ cOpened' = Null
  BY DEF Breaker!Succeed
<1> QED
  BY <1>2, <1>3 DEF BreakerInv, BreakerType, CountsTheRun, OpenSinceLast

LEMMA FailPreserves ==
    ASSUME BreakerInv, NEW w \in Workers, Breaker!Fail(w)
    PROVE  BreakerInv'
<1> USE BreakerBounds
<1>1. 0 \in Outcomes /\ Breaker!Log(0)
  BY DEF Breaker!Fail, Outcomes
<1>2. /\ cOutcomes' \in Seq(Outcomes)
      /\ Len(cOutcomes') = IF Len(cOutcomes) < Threshold THEN Len(cOutcomes) + 1 ELSE Threshold
      /\ cOutcomes'[1] = 0
      /\ \A i \in 1 .. Len(cOutcomes') : i > 1 => cOutcomes'[i] = cOutcomes[i - 1]
  BY <1>1, Logged DEF BreakerInv
<1>3. Len(cOutcomes) \in Nat
  BY DEF BreakerInv, BreakerType
<1>4. /\ cFailures' = IF cFailures + 1 < Threshold THEN cFailures + 1 ELSE Threshold
      /\ cOpened' = IF cFailures + 1 >= Threshold THEN 0 ELSE cOpened
  BY DEF Breaker!Fail, Breaker!AtMost, Breaker!Trips
<1>5. BreakerType'
  BY <1>2, <1>3, <1>4 DEF BreakerInv, BreakerType
<1>6. CountsTheRun'
  <2>1. cFailures' <= Len(cOutcomes')
    BY <1>2, <1>3, <1>4 DEF BreakerInv, BreakerType, CountsTheRun
  <2>2. ASSUME NEW i \in 1 .. cFailures' PROVE cOutcomes'[i] # Breaker!Success
    <3>1. CASE i = 1
      BY <3>1, <1>2 DEF Breaker!Success
    <3>2. CASE i > 1
      <4>1. i \in 1 .. Len(cOutcomes') /\ i - 1 \in 1 .. cFailures
        BY <3>2, <2>1, <1>2, <1>3, <1>4 DEF BreakerInv, BreakerType
      <4> QED
        BY <4>1, <3>2, <1>2 DEF BreakerInv, CountsTheRun
    <3> QED
      BY <3>1, <3>2, <1>4 DEF BreakerInv, BreakerType
  <2>3. ASSUME cFailures' < Threshold, cFailures' # Len(cOutcomes')
        PROVE  cOutcomes'[cFailures' + 1] = Breaker!Success
    <3>1. cFailures' = cFailures + 1 /\ cFailures + 2 \in 1 .. Len(cOutcomes')
          /\ cFailures # Len(cOutcomes)
      BY <2>3, <2>1, <1>2, <1>3, <1>4 DEF BreakerInv, BreakerType, CountsTheRun
    <3>2. cOutcomes'[cFailures + 2] = cOutcomes[cFailures + 1]
      BY <3>1, <1>2 DEF BreakerInv, BreakerType
    <3>3. cOutcomes[cFailures + 1] = Breaker!Success
      BY <2>3, <3>1 DEF BreakerInv, BreakerType, CountsTheRun
    <3> QED
      BY <3>1, <3>2, <3>3 DEF BreakerInv, BreakerType
  <2> QED
    BY <2>1, <2>2, <2>3 DEF CountsTheRun
<1>7. OpenSinceLast'
  BY <1>2, <1>4 DEF BreakerInv, BreakerType, OpenSinceLast
<1> QED
  BY <1>5, <1>6, <1>7 DEF BreakerInv

\* A failure ages with the time since the breaker opened.
LEMMA TickPreserves ==
    ASSUME BreakerInv, Breaker!Tick
    PROVE  BreakerInv'
<1> USE BreakerBounds
<1>1. cOpened \in 0 .. Cooldown /\ cOpened < Cooldown /\ cOpened' = cOpened + 1
  BY DEF Breaker!Tick, BreakerInv, BreakerType
<1>2. cOutcomes' = [i \in DOMAIN cOutcomes |-> Breaker!Aged(cOutcomes[i])] /\ cFailures' = cFailures
  BY DEF Breaker!Tick
<1>3. \A o \in Outcomes : /\ Breaker!Aged(o) \in Outcomes
                          /\ Breaker!Aged(o) = Breaker!Success <=> o = Breaker!Success
                          /\ o = cOpened => Breaker!Aged(o) = o + 1
  BY <1>1 DEF Outcomes, Breaker!Aged, Breaker!AtMost, Breaker!Success
<1>4. /\ DOMAIN cOutcomes = 1 .. Len(cOutcomes)
      /\ \A i \in 1 .. Len(cOutcomes) : cOutcomes[i] \in Outcomes
  BY DEF BreakerInv, BreakerType
<1>5. cOutcomes' \in Seq(Outcomes) /\ Len(cOutcomes') = Len(cOutcomes)
  <2>1. Len(cOutcomes) \in Nat
    BY DEF BreakerInv, BreakerType
  <2>2. cOutcomes' \in [1 .. Len(cOutcomes) -> Outcomes]
    BY <1>2, <1>3, <1>4
  <2> QED
    BY <2>1, <2>2
<1>6. \A i \in 1 .. Len(cOutcomes) : cOutcomes'[i] = Breaker!Aged(cOutcomes[i])
  BY <1>2, <1>4
<1>7. BreakerType'
  BY <1>1, <1>2, <1>5 DEF BreakerInv, BreakerType
<1>8. CountsTheRun'
  <2>1. ASSUME NEW i \in 1 .. cFailures PROVE cOutcomes'[i] # Breaker!Success
    <3>1. i \in 1 .. Len(cOutcomes) /\ cOutcomes[i] # Breaker!Success
      BY DEF BreakerInv, BreakerType, CountsTheRun
    <3> QED
      BY <3>1, <1>3, <1>4, <1>6
  <2>2. ASSUME cFailures < Threshold, cFailures # Len(cOutcomes)
        PROVE  cOutcomes'[cFailures + 1] = Breaker!Success
    <3>1. cFailures + 1 \in 1 .. Len(cOutcomes) /\ cOutcomes[cFailures + 1] = Breaker!Success
      BY <2>2 DEF BreakerInv, BreakerType, CountsTheRun
    <3> QED
      BY <3>1, <1>3, <1>4, <1>6
  <2> QED
    BY <2>1, <2>2, <1>2, <1>5 DEF BreakerInv, CountsTheRun
<1>9. OpenSinceLast'
  <2>1. cFailures = Threshold /\ cOpened = cOutcomes[1] /\ 1 \in 1 .. Len(cOutcomes)
    BY <1>1 DEF BreakerInv, BreakerType, CountsTheRun, OpenSinceLast
  <2>2. cOutcomes'[1] = cOpened + 1
    BY <2>1, <1>3, <1>4, <1>6
  <2> QED
    BY <2>1, <2>2, <1>1, <1>2 DEF OpenSinceLast
<1> QED
  BY <1>7, <1>8, <1>9 DEF BreakerInv

THEOREM BreakerInvariant == GatewaySpec => []BreakerInv
<1>1. BreakerInv /\ [Breaker!Next]_cVars => BreakerInv'
  <2> SUFFICES ASSUME BreakerInv, [Breaker!Next]_cVars PROVE BreakerInv'
    OBVIOUS
  <2>1. ASSUME UNCHANGED <<cFailures, cOpened, cOutcomes>> PROVE BreakerInv'
    BY <2>1 DEF BreakerInv, BreakerType, CountsTheRun, OpenSinceLast
  <2>2. ASSUME NEW w \in Workers, Breaker!Begin(w) PROVE BreakerInv'
    BY <2>1, <2>2 DEF Breaker!Begin
  <2>3. CASE Breaker!Turn
    BY <2>1, <2>3 DEF Breaker!Turn
  <2>4. CASE UNCHANGED cVars
    BY <2>1, <2>4 DEF cVars
  <2> QED
    BY <2>2, <2>3, <2>4, SucceedPreserves, FailPreserves, TickPreserves DEF Breaker!Next
<1> QED
  BY <1>1, BreakerStarts, PartsBehave, PTL

\* Calls to the provider are refused only while the last Threshold outcomes were
\* failures and the latest of them lies within the cooldown, in whatever order
\* the calls of several threads end (CircuitBreaker.is_open).
THEOREM RefusesForCauseHolds == GatewaySpec => []RefusesForCause
<1>1. BreakerInv => RefusesForCause
  <2> SUFFICES ASSUME BreakerInv, Breaker!IsOpen PROVE Breaker!Tripped
    BY DEF RefusesForCause, Breaker!RefusesForCause
  <2> USE BreakerBounds
  <2>1. DOMAIN cOutcomes = 1 .. Len(cOutcomes) /\ Len(cOutcomes) \in Nat
    BY DEF BreakerInv, BreakerType
  <2>2. cFailures = Threshold
    BY DEF BreakerInv, OpenSinceLast, Breaker!IsOpen
  <2>3. Len(cOutcomes) = Threshold
    <3>1. Len(cOutcomes) <= Threshold /\ Threshold <= Len(cOutcomes)
      BY <2>2, Zenon DEF BreakerInv, BreakerType, CountsTheRun
    <3>2. Len(cOutcomes) \in Int /\ Threshold \in Int
      BY <2>1
    <3> QED
      BY <3>1, <3>2
  <2>4. \A i \in 1 .. Len(cOutcomes) : cOutcomes[i] # Breaker!Success
    BY <2>2, <2>3 DEF BreakerInv, CountsTheRun
  <2>5. cOpened = cOutcomes[1]
    BY <2>2 DEF BreakerInv, OpenSinceLast
  <2> QED
    BY <2>1, <2>3, <2>4, <2>5 DEF Breaker!IsOpen, Breaker!Tripped
<1> QED
  BY <1>1, BreakerInvariant, PTL

-----------------------------------------------------------------------------
(* The outbox *)

OutboxType ==
    /\ oPc \in [Procs -> {"idle", "claim", "take", "send", "mark", "retry", "retryCommit"}]
    /\ oQueue \in [Procs -> SUBSET Approvals]
    /\ oCurrent \in [Procs -> Approvals \cup {Null}]
    /\ oDelivered \in [Approvals -> Nat] /\ oFaults \in Nat

\* The approval a worker is at is none that it has still to take.
OneAtATime ==
    \A w \in Procs : /\ oPc[w] \in {"idle", "claim", "take"} <=> oCurrent[w] = Null
                     /\ oCurrent[w] \notin oQueue[w]

Marking(a) == \E w \in Procs : oPc[w] = "mark" /\ oCurrent[w] = a
Sending(a) == \E w \in Procs : oPc[w] = "send" /\ oCurrent[w] = a
Claimed(a) == \E w \in Procs : a \in oQueue[w]

\* The approval may be sent without a new fault: it is in the queue of the
\* store and not just taken by its channel, or a worker is about to send it.
Sendable(a) == (a \in oOpen \ oNotified /\ ~Marking(a)) \/ Claimed(a) \/ Sending(a)

\* Every delivery of what may be sent is one that a fault has hidden.
HiddenByFaults ==
    \A a \in Approvals : /\ oDelivered[a] <= 1 + oFaults
                         /\ Sendable(a) => oDelivered[a] <= oFaults

OutboxInv == OutboxType /\ OneAtATime /\ HiddenByFaults

\* A step that delivers nothing, and lets nothing be sent that could not be
\* sent before, leaves the deliveries covered.
LEMMA NothingNew ==
    ASSUME HiddenByFaults, UNCHANGED <<oDelivered, oFaults>>,
           \A a \in Approvals : Sendable(a)' => Sendable(a)
    PROVE  HiddenByFaults'
  BY DEF HiddenByFaults

LEMMA OutboxStarts == Told!Init => OutboxInv
<1> SUFFICES ASSUME Told!Init PROVE OutboxInv
  OBVIOUS
<1>1. Null \notin Approvals
  BY PartConstants DEF Told!OutboxConstants
<1>2. OutboxType /\ OneAtATime
  BY <1>1 DEF Told!Init, OutboxType, OneAtATime
<1>3. HiddenByFaults
  BY DEF Told!Init, HiddenByFaults
<1> QED
  BY <1>2, <1>3 DEF OutboxInv

\* One worker's tick; the other workers, if there are any, are the same one.
LEMMA TickDelivers ==
    ASSUME OutboxInv, \A v, u \in Procs : v = u, NEW w \in Procs, Told!Tick(w) \/ Told!Crash(w)
    PROVE  OutboxInv'
<1> USE DEF Told!Go, Told!Done, Told!rowVars
<1>1. /\ Null \notin Approvals
      /\ \A v \in Procs : v = w
      /\ oPc[w] \in {"idle", "claim", "take"} <=> oCurrent[w] = Null
      /\ oCurrent[w] \notin oQueue[w] /\ oCurrent[w] \in Approvals \cup {Null}
  BY PartConstants DEF Told!OutboxConstants, OutboxInv, OutboxType, OneAtATime
<1>2. CASE Told!ClaimLoad(w)
  <2>1. PICK due \in SUBSET Approvals :
          /\ due \subseteq oOpen \ oNotified
          /\ oPc[w] = "idle" /\ oPc' = [oPc EXCEPT ![w] = "claim"]
          /\ oQueue' = [oQueue EXCEPT ![w] = due]
          /\ UNCHANGED <<oOpen, oNotified, oCurrent, oDelivered, oFaults>>
    BY <1>2, Zenon DEF Told!ClaimLoad, Told!Due
  <2>2. OutboxType' /\ OneAtATime'
    BY <2>1, <1>1 DEF OutboxInv, OutboxType, OneAtATime
  <2>3. \A a \in Approvals : Sendable(a)' => Sendable(a)
    BY <2>1, <1>1 DEF OutboxInv, OutboxType, Sendable, Marking, Sending, Claimed
  <2> QED
    BY <2>1, <2>2, <2>3, NothingNew DEF OutboxInv
<1>3. CASE Told!ClaimCommit(w)
  <2>1. /\ oPc[w] = "claim" /\ oPc' = [oPc EXCEPT ![w] = "take"]
        /\ UNCHANGED <<oOpen, oNotified, oQueue, oCurrent, oDelivered, oFaults>>
    BY <1>3 DEF Told!ClaimCommit
  <2>2. OutboxType' /\ OneAtATime'
    BY <2>1, <1>1 DEF OutboxInv, OutboxType, OneAtATime
  <2>3. \A a \in Approvals : Sendable(a)' => Sendable(a)
    BY <2>1, <1>1 DEF OutboxInv, OutboxType, Sendable, Marking, Sending, Claimed
  <2> QED
    BY <2>1, <2>2, <2>3, NothingNew DEF OutboxInv
<1>4. ASSUME NEW a \in oQueue[w], oPc[w] = "take",
             oPc' = [oPc EXCEPT ![w] = IF a \in Channelled THEN "send" ELSE "mark"],
             oCurrent' = [oCurrent EXCEPT ![w] = a],
             oQueue' = [oQueue EXCEPT ![w] = @ \ {a}],
             UNCHANGED <<oOpen, oNotified, oDelivered, oFaults>>
      PROVE  OutboxInv'
  <2>1. a \in Approvals
    BY DEF OutboxInv, OutboxType
  <2>2. OutboxType' /\ OneAtATime'
    BY <2>1, <1>1, <1>4 DEF OutboxInv, OutboxType, OneAtATime
  <2>3. \A b \in Approvals : Sendable(b)' => Sendable(b)
    BY <2>1, <1>1, <1>4 DEF OutboxInv, OutboxType, Sendable, Marking, Sending, Claimed
  <2> QED
    BY <1>4, <2>2, <2>3, NothingNew DEF OutboxInv
<1>5. ASSUME oQueue[w] = {}, oPc[w] = "take", oPc' = [oPc EXCEPT ![w] = "idle"],
             UNCHANGED <<oOpen, oNotified, oCurrent, oQueue, oDelivered, oFaults>>
      PROVE  OutboxInv'
  <2>1. OutboxType' /\ OneAtATime'
    BY <1>1, <1>5 DEF OutboxInv, OutboxType, OneAtATime
  <2>2. \A b \in Approvals : Sendable(b)' => Sendable(b)
    BY <1>1, <1>5 DEF OutboxInv, OutboxType, Sendable, Marking, Sending, Claimed
  <2> QED
    BY <1>5, <2>1, <2>2, NothingNew DEF OutboxInv
<1>6. CASE Told!Send(w)
  <2>1. /\ oPc[w] = "send" /\ oPc' = [oPc EXCEPT ![w] = "mark"]
        /\ oDelivered' = [oDelivered EXCEPT ![oCurrent[w]] = @ + 1]
        /\ UNCHANGED <<oOpen, oNotified, oQueue, oCurrent, oFaults>>
    BY <1>6 DEF Told!Send, Told!Count
  <2>2. OutboxType' /\ OneAtATime'
    BY <2>1, <1>1 DEF OutboxInv, OutboxType, OneAtATime
  <2>3. oCurrent[w] \in Approvals /\ oDelivered[oCurrent[w]] <= oFaults
    BY <2>1, <1>1 DEF OutboxInv, HiddenByFaults, Sendable, Sending
  <2>4. ~ Sendable(oCurrent[w])'
    BY <2>1, <1>1 DEF OutboxInv, OutboxType, Sendable, Marking, Sending, Claimed
  <2>5. \A a \in Approvals \ {oCurrent[w]} : Sendable(a)' => Sendable(a)
    BY <2>1, <1>1 DEF OutboxInv, OutboxType, Sendable, Marking, Sending, Claimed
  <2>6. HiddenByFaults'
    BY <2>1, <2>3, <2>4, <2>5 DEF OutboxInv, OutboxType, HiddenByFaults
  <2> QED
    BY <2>2, <2>6 DEF OutboxInv
<1>7. CASE Told!SendFails(w)
  <2>1. /\ oPc[w] = "send" /\ oPc' = [oPc EXCEPT ![w] = "retry"]
        /\ oDelivered' \in {oDelivered, [oDelivered EXCEPT ![oCurrent[w]] = @ + 1]}
        /\ oFaults' = oFaults + 1
        /\ UNCHANGED <<oOpen, oNotified, oQueue, oCurrent>>
    BY <1>7 DEF Told!SendFails, Told!Count, Told!Fault
  <2>2. oCurrent[w] \in Approvals /\ oDelivered[oCurrent[w]] <= oFaults
    BY <2>1, <1>1 DEF OutboxInv, HiddenByFaults, Sendable, Sending
  <2>3. OutboxType' /\ OneAtATime'
    BY <2>1, <2>2, <1>1 DEF OutboxInv, OutboxType, OneAtATime
  <2>4. HiddenByFaults'
    BY <2>1, <2>2 DEF OutboxInv, OutboxType, HiddenByFaults
  <2> QED
    BY <2>3, <2>4 DEF OutboxInv
<1>8. CASE Told!MarkDelivered(w)
  <2>1. /\ oPc[w] = "mark" /\ oPc' = [oPc EXCEPT ![w] = "take"]
        /\ oCurrent' = [oCurrent EXCEPT ![w] = Null]
        /\ oNotified' = oNotified \cup ({oCurrent[w]} \cap oOpen)
        /\ UNCHANGED <<oOpen, oQueue, oDelivered, oFaults>>
    BY <1>8 DEF Told!MarkDelivered
  <2>2. OutboxType' /\ OneAtATime'
    BY <2>1, <1>1 DEF OutboxInv, OutboxType, OneAtATime
  <2>3. \A a \in Approvals : Sendable(a)' => Sendable(a)
    BY <2>1, <1>1 DEF OutboxInv, OutboxType, Sendable, Marking, Sending, Claimed
  <2> QED
    BY <2>1, <2>2, <2>3, NothingNew DEF OutboxInv
<1>9. CASE Told!RetryLoad(w) \/ Told!RetryCommit(w)
  <2>1. /\ oPc[w] \in {"retry", "retryCommit"}
        /\ \/ oPc' = [oPc EXCEPT ![w] = "retryCommit"] /\ UNCHANGED oCurrent
           \/ oPc' = [oPc EXCEPT ![w] = "take"] /\ oCurrent' = [oCurrent EXCEPT ![w] = Null]
        /\ UNCHANGED <<oOpen, oNotified, oQueue, oDelivered, oFaults>>
    BY <1>9 DEF Told!RetryLoad, Told!RetryCommit
  <2>2. OutboxType' /\ OneAtATime'
    BY <2>1, <1>1 DEF OutboxInv, OutboxType, OneAtATime
  <2>3. \A a \in Approvals : Sendable(a)' => Sendable(a)
    BY <2>1, <1>1 DEF OutboxInv, OutboxType, Sendable, Marking, Sending, Claimed
  <2> QED
    BY <2>1, <2>2, <2>3, NothingNew DEF OutboxInv
<1>10. CASE Told!Crash(w)
  <2>1. /\ oPc' = [oPc EXCEPT ![w] = "idle"] /\ oQueue' = [oQueue EXCEPT ![w] = {}]
        /\ oCurrent' = [oCurrent EXCEPT ![w] = Null]
        /\ oFaults' = oFaults + 1 /\ UNCHANGED oDelivered
    BY <1>10 DEF Told!Crash, Told!Fault
  <2>2. OutboxType' /\ OneAtATime'
    BY <2>1, <1>1 DEF OutboxInv, OutboxType, OneAtATime
  <2>3. HiddenByFaults'
    BY <2>1 DEF OutboxInv, OutboxType, HiddenByFaults
  <2> QED
    BY <2>2, <2>3 DEF OutboxInv
<1>11. CASE Told!Take(w)
  BY <1>11, <1>4, <1>5, Zenon DEF Told!Take
<1> QED
  BY <1>2, <1>3, <1>6, <1>7, <1>8, <1>9, <1>10, <1>11 DEF Told!Tick

\* A single worker delivers an escalation again only after a fault, one
\* repetition a fault: neither the lease nor a retry that falls due while it
\* is busy makes it repeat itself (outbox.py, claim_due).
THEOREM DeliveredOnceHolds ==
    ASSUME \A v, w \in Procs : v = w
    PROVE  GatewaySpec => []DeliveredOnce
<1>1. OutboxInv /\ [Told!Next]_oVars => OutboxInv'
  <2> SUFFICES ASSUME OutboxInv, [Told!Next]_oVars PROVE OutboxInv'
    OBVIOUS
  <2>1. ASSUME UNCHANGED <<oNotified, oPc, oQueue, oCurrent, oDelivered, oFaults>>,
               oOpen' \subseteq oOpen
        PROVE  OutboxInv'
    <3>1. \A a \in Approvals : Sendable(a)' => Sendable(a)
      BY <2>1 DEF Sendable, Marking, Sending, Claimed
    <3>2. OutboxType' /\ OneAtATime'
      BY <2>1 DEF OutboxInv, OutboxType, OneAtATime
    <3> QED
      BY <2>1, <3>1, <3>2, NothingNew DEF OutboxInv
  <2>2. ASSUME NEW a \in Approvals, Told!Close(a) PROVE OutboxInv'
    BY <2>1, <2>2 DEF Told!Close, Told!tickVars
  <2>3. CASE Told!Clock
    BY <2>1, <2>3 DEF Told!Clock, Told!tickVars
  <2>4. CASE UNCHANGED oVars
    BY <2>1, <2>4 DEF oVars
  <2> QED
    BY <2>2, <2>3, <2>4, TickDelivers DEF Told!Next
<1>2. OutboxInv => DeliveredOnce
  BY DEF OutboxInv, HiddenByFaults, DeliveredOnce, Told!DeliveredOnce
<1> QED
  BY <1>1, <1>2, OutboxStarts, PartsBehave, PTL
=============================================================================
