CONSTANTS
    Null = Null
    Parts = {"policies", "bucket", "client", "queue", "outbox", "breaker"}
    Requests = {"r1", "r2"}
    Minutes = {1, 2}
    Thresholds = {50, 70}
    DefaultThreshold = 70
    MaxRows = 3
    \* two replicas, clocks a tick apart, two tokens of three parts
    c1 = c1  c2 = c2
    Callers = {c1, c2}  Offset <- Ahead
    Skew = 1  Capacity = 6  Cost = 3  Second = 2  Ttl = 7  MaxTime = 10
    \* a call from either SDK, with two retries
    Asks = {k1}  MaxRetries = 2  MaxLost = 2
    \* two approvers of one escalation, a worker that takes one row at a time; no
    \* other reader
    t1 = t1  d1 = d1  d2 = d2
    Txs = {t1, t2}  Deciders = {d1, d2}  Outcome <- Outcomes  Target <- TheFirst
    Notifiers = {s1}  Readers = {}  SweepLimit = 1  MaxFailures = 1
    \* one worker, two escalations of which one has a channel
    Approvals = {a1, a2}  Channelled = {a1}  Procs = {p1}
    MaxAttempts = 3  Lease = 3  Backoff = 1  MaxFaults = 3
    \* three threads, as many failures as open the breaker
    Workers = {w1, w2, w3}  Threshold = 3  Cooldown = 2
SPECIFICATION GatewaySpec
INVARIANTS
    SequentialUpdatesStand Quota RetryAfterHonest SignedIsApproved InVainForLoss
    UncontestedAgrees SilenceRejects DeliveredOnce RefusesForCause
PROPERTIES NeverOlder CallsEnd Resolves EveryoneIsTold Recovers
CHECK_DEADLOCK FALSE
