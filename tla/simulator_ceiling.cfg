CONSTANTS
    Null = Null
    Parts = {"forks"}
    r1 = r1  r2 = r2  r3 = r3  friend = friend  stranger = stranger
    Addresses = {friend, stranger}
    Requests = {r1, r2, r3}
    To <- OneToStranger
    Usd <- OneEach
    Policy <- Limits
    KnownBefore = {friend}
    Confs = {100}
    Risks = {"critical"}
    Scores = {50}
    Threshold = 60
    MaxInFlight = 2
    \* one field of the policy is set at a time
    x1 = x1  x2 = x2
    Contacts = {x1, x2}  Amounts = {0, 1}  Counts = {0, 1}  Minutes = {0, 1}
    Gases = {1, 2}  Thresholds = {1, 2}  MaxRules = 1
    \* two concurrent screenings of one agent, and one failure
    Screenings = {k1, k2}  Fresh = 1  Stale = 2  Window = 3  MaxTime = 4  MaxFaults = 1
    \* values on both sides of the mean and far out; histories around the five
    \* transactions that the score needs
    Histories = {0, 1, 4, 5}  Means = {0, 5}  Stds = {0, 1}  Days = 90
    Shares = {0, 20, 100}  Values = {0, 4, 5, 6, 50, 1000}  MaxRecent = 4
    \* two simulations, two ports; the buffer takes the gas over the ceiling
    Sims = {s1, s2}  Ports = {q1, q2}  RawGases = {10}  Ceilings = {Null, 11}
SPECIFICATION PartsSpec
INVARIANT CeilingNeverPassed
CHECK_DEADLOCK FALSE
