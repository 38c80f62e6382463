-------------------------------- MODULE Scorer --------------------------------
(***************************************************************************)
(* The rule-based anomaly score (anomaly_scorer/scorer.py) over the        *)
(* features of a baseline, in hundredths of a point; the factors and the   *)
(* total are rounded down.  A step makes the transaction more unusual: its *)
(* value farther from the mean, one transaction more in the window, or a   *)
(* counterparty never seen.                                                *)
(***************************************************************************)
EXTENDS Integers, FiniteSetsExt

CONSTANTS
    Counts,    \* transactions of the baseline
    Means,     \* mean values
    Stds,      \* standard deviations
    Days,      \* of the baseline's window (90)
    Shares,    \* per cent of the baseline that go to its top counterparty
    Values,    \* values of the transaction
    MaxRecent  \* bound on the transactions in the window

ScorerConstants ==
    /\ Counts \subseteq Nat /\ Means \subseteq Nat /\ Stds \subseteq Nat /\ Days \in Nat \ {0}
    /\ Shares \subseteq 0..100 /\ Values \subseteq Nat /\ MaxRecent \in Nat

VARIABLES baseline, value, recent, isNew
vars == <<baseline, value, recent, isNew>>

\* aggregate: no history, no features; one transaction has no deviation.
Baselines ==
    {b \in [count : Counts, mean : Means, std : Stds, share : Shares] :
        /\ b.count = 0 => b.mean = 0 /\ b.std = 0 /\ b.share = 0
        /\ b.count = 1 => b.std = 0}

Init ==
    /\ baseline \in Baselines
    /\ value \in Values
    /\ recent = 0
    /\ isNew \in BOOLEAN

Distance(b, v) == IF v < b.mean THEN b.mean - v ELSE v - b.mean

\* x / (1 + |x|) of the deviation d / s, times the weight: _sigmoid_like.
Squashed(weight, d, s) == (weight * d) \div (s + IF d < 0 THEN -d ELSE d)

\* Mutant: only a value above the mean is an outlier.
OutlierMutant(b, v) ==
    IF b.count >= 5 /\ b.std > 0 THEN Max({0, Squashed(6000, v - b.mean, b.std)}) ELSE 0

Outlier(b, v) ==
    IF b.count >= 5 /\ b.std > 0 THEN Squashed(6000, Distance(b, v), b.std) ELSE 0

Stranger(new) == IF new THEN 2500 ELSE 0

\* The transactions in the window beyond the expected count / Days, in units
\* of these.
Spike(b, n) ==
    IF b.count > 0 THEN Max({0, Squashed(1000, Days * n - b.count, b.count)}) ELSE 0

Concentration(b) == IF b.count >= 5 THEN (150 * b.share) \div 100 ELSE 0

Score(b, v, n, new) == Outlier(b, v) + Stranger(new) + Spike(b, n) + Concentration(b)

-----------------------------------------------------------------------------
Farther ==
    /\ \E v \in Values : Distance(baseline, v) > Distance(baseline, value) /\ value' = v
    /\ UNCHANGED <<baseline, recent, isNew>>

Busier == recent < MaxRecent /\ recent' = recent + 1 /\ UNCHANGED <<baseline, value, isNew>>

Unknown == ~isNew /\ isNew' = TRUE /\ UNCHANGED <<baseline, value, recent>>

Next == Farther \/ Busier \/ Unknown
Spec == Init /\ [][Next]_vars

-----------------------------------------------------------------------------
(* Properties *)

Current == Score(baseline, value, recent, isNew)

\* No transaction gets away with a lower score by being more unusual: farther
\* from the mean, whichever side of it, in a busier window, or to a stranger.
UnusualScoresNoLess == Current' >= Current
=============================================================================
