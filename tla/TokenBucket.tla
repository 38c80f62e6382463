----------------------------- MODULE TokenBucket -----------------------------
(***************************************************************************)
(* One key of the rate limiter: a hash {tokens, ts} in Redis, read and     *)
(* written by one Lua script that every gateway and MCP replica calls with *)
(* the time of its own clock.  A missing key is a full bucket; the key     *)
(* expires a minute after the last admission, by the clock of Redis.       *)
(*                                                                         *)
(* Time is counted in ticks and tokens in parts, a part being what a tick  *)
(* refills: a token costs Cost parts, a second is Second ticks.            *)
(***************************************************************************)
EXTENDS Integers

CONSTANTS
    Callers,   \* replicas that call the script
    Offset,    \* [Callers -> 0 .. Skew]: how far a caller's clock is ahead
    Skew,
    Capacity,  \* of the bucket, in parts
    Cost,      \* parts of a token
    Second,    \* ticks of a second
    Ttl,       \* EXPIRE, in ticks
    MaxTime    \* bound: the clock

\* The last assumption makes the missing key of an expired bucket no gift: by
\* then it would have refilled.  It holds of 200 tokens at 10 a second and 60
\* at 10, and of the login bucket, 60 at 1, while the clocks agree.
BucketSized ==
    /\ Skew \in Nat /\ Offset \in [Callers -> 0 .. Skew]
    /\ Cost \in Nat \ {0} /\ Second \in Nat \ {0} /\ MaxTime \in Nat
    /\ Capacity \in Nat /\ Cost <= Capacity
    /\ Ttl \in Nat /\ Capacity <= Ttl - Skew

VARIABLES
    stored,    \* whether the key exists
    tokens,    \* its field tokens, in parts; negative when a clock is behind
    ts,        \* its field ts
    expires,   \* when Redis drops it
    now,       \* the clock of Redis
    start,     \* the start of an arbitrary window
    spent,     \* what callers were admitted in it have cost
    promises   \* [caller, due]: refusals since the script last took a token

bucket == <<stored, tokens, ts, expires>>
vars == <<bucket, now, start, spent, promises>>

TypeOK ==
    /\ stored \in BOOLEAN
    /\ tokens \in Int /\ ts \in Nat /\ expires \in Nat
    /\ now \in Nat /\ start \in Nat /\ spent \in Nat
    /\ start <= now
    /\ promises \subseteq [caller : Callers, due : Nat]

Init ==
    /\ stored = FALSE /\ tokens = 0 /\ ts = 0 /\ expires = 0
    /\ now = 0 /\ start = 0 /\ spent = 0
    /\ promises = {}

-----------------------------------------------------------------------------
Clock(c) == now + Offset[c]

\* What the script finds in the bucket.
Available(c) ==
    LET refilled == tokens + (Clock(c) - ts)
    IN  IF ~stored THEN Capacity
        ELSE IF refilled < Capacity THEN refilled ELSE Capacity

\* Mutant: the refill is not capped.
TakeMutant(c) ==
    LET refilled == IF stored THEN tokens + (Clock(c) - ts) ELSE Capacity IN
    /\ refilled >= Cost
    /\ stored' = TRUE
    /\ tokens' = refilled - Cost
    /\ ts' = Clock(c)
    /\ expires' = now + Ttl
    /\ promises' = {}
    /\ UNCHANGED <<now, start>>

\* The script takes a token and sets the expiry.
Take(c) ==
    /\ Available(c) >= Cost
    /\ stored' = TRUE
    /\ tokens' = Available(c) - Cost
    /\ ts' = Clock(c)
    /\ expires' = now + Ttl
    /\ promises' = {}
    /\ UNCHANGED <<now, start>>

Admit(c) == Take(c) /\ spent' = spent + Cost

\* The answer of the script is lost: the request is refused with 503.
Outage(c) == Take(c) /\ UNCHANGED spent

\* Mutant: the seconds to wait are rounded down.
RetryAfterMutant(c) == (Cost - Available(c)) \div Second

\* The seconds to wait, rounded up.
RetryAfter(c) == (Cost - Available(c) + Second - 1) \div Second

\* A refusal writes the bucket back, and leaves its expiry alone.
Refuse(c) ==
    /\ Available(c) < Cost
    /\ tokens' = Available(c)
    /\ ts' = Clock(c)
    /\ promises' = promises \cup {[caller |-> c, due |-> Clock(c) + Second * RetryAfter(c)]}
    /\ UNCHANGED <<stored, expires, now, start, spent>>

Tick ==
    /\ now < MaxTime
    /\ now' = now + 1
    /\ stored' = (stored /\ now' < expires)
    /\ UNCHANGED <<tokens, ts, expires, start, spent, promises>>

\* The window the quota is claimed of may start at any time.
StartWindow ==
    /\ start' = now
    /\ spent' = 0
    /\ UNCHANGED <<bucket, now, promises>>

Next ==
    \/ \E c \in Callers : Admit(c) \/ Outage(c) \/ Refuse(c)
    \/ Tick
    \/ StartWindow

Spec == Init /\ [][Next]_vars

-----------------------------------------------------------------------------
(* Properties *)

\* In any window no more is admitted than a full bucket and what the time has
\* refilled, whichever replicas are asked and however often the key expires.
Quota == spent <= Capacity + (now + Skew - start)

\* A caller that waits the seconds it was told is admitted, unless the bucket
\* was drawn from in between.
RetryAfterHonest ==
    \A p \in promises : Clock(p.caller) >= p.due => Available(p.caller) >= Cost
=============================================================================
