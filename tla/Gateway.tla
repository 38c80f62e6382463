------------------------------- MODULE Gateway -------------------------------
(***************************************************************************)
(* What surrounds the screening: PolicyVersions, and, each with variables  *)
(* of its own, the token bucket of the gateway, the SDK in front of it,    *)
(* the approval queue, the outbox of the notifications and the circuit     *)
(* breaker of the advisory agents.  The parts share no state, and a        *)
(* behaviour is one of a single part.                                      *)
(***************************************************************************)
EXTENDS PolicyVersions

CONSTANTS
    Parts,                                                       \* the parts a run looks at
    Callers, Offset, Skew, Capacity, Cost, Second, Ttl, MaxTime, \* of TokenBucket
    Asks, MaxRetries, MaxLost,                                   \* of SdkClient
    Txs, Deciders, Outcome, Target, Notifiers, Readers, SweepLimit, MaxFailures,  \* of Escalation
    Approvals, Channelled, Procs, MaxAttempts, Lease, Backoff, MaxFaults,  \* of Outbox
    Workers, Threshold, Cooldown                                 \* of CircuitBreaker

VARIABLES
    part,
    bStored, bTokens, bTs, bExpires, bNow, bStart, bSpent, bPromises,
    sSdk, sStage, sAttempt, sWire, sReplies, sMissed, sMangled, sRows, sClosed, sLost,
    qApproval, qTx, qOverdue, qPc, qHeld, qSeen, qSent, qContested, qFailures,
    oOpen, oNotified, oAttempts, oWait, oPc, oQueue, oCurrent, oLoaded, oDelivered, oFaults,
    cFailures, cOpened, cSaw, cHealthy, cOutcomes

bVars == <<bStored, bTokens, bTs, bExpires, bNow, bStart, bSpent, bPromises>>
sVars == <<sSdk, sStage, sAttempt, sWire, sReplies, sMissed, sMangled, sRows, sClosed, sLost>>
qVars == <<qApproval, qTx, qOverdue, qPc, qHeld, qSeen, qSent, qContested, qFailures>>
oVars == <<oOpen, oNotified, oAttempts, oWait, oPc, oQueue, oCurrent, oLoaded,
           oDelivered, oFaults>>
cVars == <<cFailures, cOpened, cSaw, cHealthy, cOutcomes>>

Bucket == INSTANCE TokenBucket WITH
    stored <- bStored, tokens <- bTokens, ts <- bTs, expires <- bExpires, now <- bNow,
    start <- bStart, spent <- bSpent, promises <- bPromises

Client == INSTANCE SdkClient WITH
    sdk <- sSdk, stage <- sStage, attempt <- sAttempt, wire <- sWire, replies <- sReplies,
    missed <- sMissed, mangled <- sMangled, rows <- sRows, closed <- sClosed, lost <- sLost

Queue == INSTANCE Escalation WITH
    approval <- qApproval, tx <- qTx, overdue <- qOverdue, pc <- qPc,
    held <- qHeld, seen <- qSeen, sent <- qSent, contested <- qContested,
    failures <- qFailures

Told == INSTANCE Outbox WITH
    open <- oOpen, notified <- oNotified, attempts <- oAttempts, wait <- oWait, pc <- oPc,
    queue <- oQueue, current <- oCurrent, loaded <- oLoaded, delivered <- oDelivered,
    faults <- oFaults

Breaker == INSTANCE CircuitBreaker WITH
    failures <- cFailures, opened <- cOpened, saw <- cSaw, healthy <- cHealthy,
    outcomes <- cOutcomes

ASSUME PartConstants ==
    /\ Bucket!BucketSized /\ Client!ClientConstants /\ Queue!EscalationConstants
    /\ Told!OutboxConstants /\ Breaker!BreakerConstants

-----------------------------------------------------------------------------
GatewayInit ==
    /\ part \in Parts
    /\ Init /\ Bucket!Init /\ Client!Init /\ Queue!Init /\ Told!Init /\ Breaker!Init
    /\ part # "breaker" => cHealthy

GatewayNext ==
    /\ UNCHANGED part
    /\ \/ part = "policies" /\ Next /\ UNCHANGED <<bVars, sVars, qVars, oVars, cVars>>
       \/ part = "bucket" /\ Bucket!Next /\ UNCHANGED <<vars, sVars, qVars, oVars, cVars>>
       \/ part = "client" /\ Client!Next /\ UNCHANGED <<vars, bVars, qVars, oVars, cVars>>
       \/ part = "queue" /\ Queue!Next /\ UNCHANGED <<vars, bVars, sVars, oVars, cVars>>
       \/ part = "outbox" /\ Told!Next /\ UNCHANGED <<vars, bVars, sVars, qVars, cVars>>
       \/ part = "breaker" /\ Breaker!Next /\ UNCHANGED <<vars, bVars, sVars, qVars, oVars>>

\* The fairness of each part, see its module.
GatewayFairness ==
    /\ \A a \in Asks :
         WF_sVars(part = "client" /\ (Client!Send(a) \/ Client!GiveUp(a) \/ Client!Receive(a)))
    /\ \A t \in Txs : WF_qVars(part = "queue" /\ Queue!BecomeOverdue(t))
    /\ \A a \in Notifiers : WF_qVars(part = "queue" /\ Queue!Sweep(a))
    /\ WF_oVars(part = "outbox" /\ Told!Clock)
    /\ \A w \in Procs : WF_oVars(part = "outbox" /\ Told!Tick(w))
    /\ WF_cVars(part = "breaker" /\ Breaker!Tick)
    /\ \A w \in Workers : WF_cVars(part = "breaker" /\ (Breaker!Succeed(w) \/ Breaker!Fail(w)))

GatewaySpec ==
    /\ GatewayInit /\ [][GatewayNext]_<<part, vars, bVars, sVars, qVars, oVars, cVars>>
    /\ GatewayFairness

-----------------------------------------------------------------------------
(* The properties of the parts, see their modules *)

\* Whatever is admitted in any window fits the bucket and its refill.
Quota == Bucket!Quota

\* The wait a refused caller is told is long enough.
RetryAfterHonest == Bucket!RetryAfterHonest

\* Nothing is signed without a committed approval of that very attempt.
SignedIsApproved == Client!SignedIsApproved

\* An approval is left unsigned only if its answer was lost, late or mangled.
InVainForLoss == Client!InVainForLoss
CallsEnd == part = "client" => Client!CallsEnd

\* An approval and its transaction change together: claimed, and what holds.
NeverHalfApplied == Queue!NeverHalfApplied
UncontestedAgrees == Queue!UncontestedAgrees

\* Nothing is broadcast that no approver has approved.
SilenceRejects == Queue!SilenceRejects
Resolves == part = "queue" => Queue!Resolves

\* A delivery is repeated only after a fault.
DeliveredOnce == Told!DeliveredOnce
EveryoneIsTold == part = "outbox" => Told!EveryoneIsTold

\* Calls are refused only while the breaker is tripped.
RefusesForCause == Breaker!RefusesForCause
Recovers == part = "breaker" => Breaker!Recovers
=============================================================================
