------------------------ MODULE ScreeningPartsProofs ------------------------
(***************************************************************************)
(* The safety of what the screening rests on, for any inputs, any number   *)
(* of screenings and simulations and any bounds: the policy engine, the    *)
(* baseline, the anomaly score and the simulator, a section for each.      *)
(* Screening itself is in ScreeningProofs.                                 *)
(***************************************************************************)
EXTENDS ScreeningParts, TLAPS

\* A step is, seen through the variables of one part, a step of that part.
LEMMA PartsStep ==
    [PartsNext]_<<part, vars, eVars, bVars, aVars, fVars>> =>
        /\ UNCHANGED part
        /\ [Engine!Next]_eVars /\ [Profile!Next]_bVars
        /\ [Anomaly!Next]_aVars /\ [Forks!Next]_fVars
  BY DEF PartsNext

-----------------------------------------------------------------------------
(* The policy engine: the first rule that applies is the harshest *)

PolicyType ==
    [spend : Engine!OrNull(Amounts), daily : Engine!OrNull(Amounts), rate : Engine!OrNull(Counts),
     gas : Engine!OrNull(Gases), allow : SUBSET Contacts, deny : SUBSET Contacts,
     from : Engine!OrNull(Minutes), to : Engine!OrNull(Minutes), threshold : Thresholds]

EngineType ==
    /\ ePolicy \in PolicyType
    /\ eRequest \in Engine!RequestInputs /\ eContext \in Engine!Contexts

Hits(p, r, c) == Engine!Applying(Engine!Rules(p, r, c))

LEMMA RulesAre ==
    ASSUME NEW p, NEW r, NEW c
    PROVE  /\ DOMAIN Engine!Rules(p, r, c) = 1..9
           /\ \A i \in 1..7 : Engine!Rules(p, r, c)[i].decision = "reject"
           /\ \A i \in 8..9 : Engine!Rules(p, r, c)[i].decision = "escalate"
<1> QED
  BY DEF Engine!Rules, Engine!Rule

\* A set of rule numbers that is not empty has a first element.
LEMMA FirstExists ==
    ASSUME NEW S \in SUBSET (1..9), S # {}
    PROVE  \E i \in S : \A j \in S : i <= j
<1>1. ASSUME \A i \in S : \E j \in S : j < i
      PROVE  FALSE
  <2>1. \A i \in 1..9 : i \in S => \E j \in 1..9 : j \in S /\ j < i
    BY <1>1
  <2>2. 1 \notin S
    BY <2>1
  <2>3. 2 \notin S
    BY <2>1, <2>2
  <2>4. 3 \notin S
    BY <2>1, <2>2, <2>3
  <2>5. 4 \notin S
    BY <2>1, <2>2, <2>3, <2>4
  <2>6. 5 \notin S
    BY <2>1, <2>2, <2>3, <2>4, <2>5
  <2>7. 6 \notin S
    BY <2>1, <2>2, <2>3, <2>4, <2>5, <2>6
  <2>8. 7 \notin S
    BY <2>1, <2>2, <2>3, <2>4, <2>5, <2>6, <2>7
  <2>9. 8 \notin S
    BY <2>1, <2>2, <2>3, <2>4, <2>5, <2>6, <2>7, <2>8
  <2>10. 9 \notin S
    BY <2>1, <2>2, <2>3, <2>4, <2>5, <2>6, <2>7, <2>8, <2>9
  <2>11. \A i \in 1..9 : i \in {1, 2, 3, 4, 5, 6, 7, 8, 9}
    OBVIOUS
  <2>12. PICK i \in S : i \in 1..9
    OBVIOUS
  <2> QED
    BY <2>2, <2>3, <2>4, <2>5, <2>6, <2>7, <2>8, <2>9, <2>10, <2>11, <2>12
<1> QED
  BY <1>1

\* The engine rejects if one of the first seven rules applies, escalates if one
\* of the last two does alone, and approves otherwise.
LEMMA EvaluateIs ==
    ASSUME NEW p, NEW r, NEW c
    PROVE  /\ Hits(p, r, c) \subseteq 1..9
           /\ Hits(p, r, c) = {} => Engine!Evaluate(p, r, c) = "approve"
           /\ Hits(p, r, c) # {} /\ Hits(p, r, c) \cap 1..7 = {}
               => Engine!Evaluate(p, r, c) = "escalate"
           /\ Hits(p, r, c) \cap 1..7 # {} => Engine!Evaluate(p, r, c) = "reject"
<1> DEFINE H == Hits(p, r, c)
           first == CHOOSE i \in H : \A j \in H : i <= j
<1>1. H \in SUBSET (1..9)
  BY RulesAre DEF Hits, Engine!Applying
<1>2. H = {} => Engine!Evaluate(p, r, c) = "approve"
  BY DEF Engine!Evaluate, Hits
<1>3. ASSUME H # {}
      PROVE  /\ first \in H /\ \A j \in H : first <= j
             /\ Engine!Evaluate(p, r, c) = Engine!Rules(p, r, c)[first].decision
  BY <1>1, <1>3, FirstExists DEF Engine!Evaluate, Hits
<1>4. ASSUME H # {}, H \cap 1..7 = {} PROVE Engine!Evaluate(p, r, c) = "escalate"
  BY <1>1, <1>3, <1>4, RulesAre
<1>5. ASSUME H \cap 1..7 # {} PROVE Engine!Evaluate(p, r, c) = "reject"
  <2>1. first \in 1..7
    BY <1>1, <1>3, <1>5
  <2>2. Engine!Evaluate(p, r, c) = Engine!Rules(p, r, c)[first].decision
    BY <1>3, <1>5
  <2> HIDE DEF first
  <2> QED
    BY <2>1, <2>2, RulesAre
<1> QED
  BY <1>1, <1>2, <1>4, <1>5

LEMMA Ranks ==
    Engine!Rank["approve"] = 0 /\ Engine!Rank["escalate"] = 1 /\ Engine!Rank["reject"] = 2
<1> QED
  BY DEF Engine!Rank, Engine!Decisions

\* The decision of the engine is the harshest of the rules that apply, for
\* every policy, request and context (engine.py: the harshest wins).
THEOREM HarshestWinsHolds == PartsSpec => []HarshestWins
<1>1. Engine!HarshestWins
  <2> DEFINE rules == Engine!Rules(ePolicy, eRequest, eContext)
             H == Hits(ePolicy, eRequest, eContext)
  <2>1. ASSUME NEW i \in H
      PROVE Engine!Rank[rules[i].decision] <= Engine!Rank[Engine!Verdict]
    <3>1. CASE i \in 1..7
      <4>1. rules[i].decision = "reject"
        BY <3>1, RulesAre
      <4>2. H \cap 1..7 # {}
        BY <2>1, <3>1
      <4>3. Engine!Verdict = "reject"
        BY <4>2, EvaluateIs DEF Engine!Verdict
      <4> QED
        BY <4>1, <4>3, Ranks
    <3>2. CASE i \in 8..9
      BY <2>1, <3>2, EvaluateIs, RulesAre, Ranks DEF Engine!Verdict
    <3> QED
      BY <2>1, <3>1, <3>2, EvaluateIs
  <2>2. H = {} <=> Engine!Verdict = "approve"
    BY EvaluateIs DEF Engine!Verdict
  <2> QED
    BY <2>1, <2>2 DEF Engine!HarshestWins, Hits
<1>2. HarshestWins
  BY <1>1 DEF HarshestWins
<1> QED
  BY <1>2, PTL

-----------------------------------------------------------------------------
(* The policy engine: a tightened input makes no fewer rules apply *)

\* Where more rules apply, the decision is not milder.
LEMMA MoreRulesHarsher ==
    ASSUME NEW p, NEW r, NEW c, NEW q, NEW s, NEW d,
           Hits(p, r, c) \subseteq Hits(q, s, d)
    PROVE  Engine!Rank[Engine!Evaluate(q, s, d)] >= Engine!Rank[Engine!Evaluate(p, r, c)]
<1> QED
  BY EvaluateIs, Ranks

LEMMA InitType == Engine!Init => EngineType
<1> SUFFICES ASSUME Engine!Init PROVE EngineType
  OBVIOUS
<1>1. PICK fields \in SUBSET Engine!Fields : ePolicy \in Engine!PoliciesSetting(fields)
  BY DEF Engine!Init
<1>2. ePolicy \in PolicyType
  BY <1>1 DEF Engine!PoliciesSetting, PolicyType, Engine!Some, Engine!OrNull
<1> QED
  BY <1>2 DEF Engine!Init, EngineType

LEMMA TypeStep == EngineType /\ [Engine!Next]_eVars => EngineType'
<1> SUFFICES ASSUME EngineType, [Engine!Next]_eVars PROVE EngineType'
  OBVIOUS
<1> USE DEF EngineType, Engine!OrNull,
           Engine!LowerLimit, Engine!RestrictAllow, Engine!ExtendDeny, Engine!LowerThreshold,
           Engine!Harsher, Engine!Forget, Engine!RaiseValue
<1>1. CASE UNCHANGED <<eRequest, eContext>>
  BY <1>1 DEF PolicyType, Engine!Next, eVars
<1>2. CASE UNCHANGED <<ePolicy, eRequest>>
  BY <1>2 DEF Engine!Contexts, Engine!Next, eVars
<1>3. CASE UNCHANGED <<ePolicy, eContext>>
  BY <1>3 DEF Engine!RequestInputs, Engine!Next, eVars
<1> QED
  BY <1>1, <1>2, <1>3 DEF Engine!Next, eVars

\* Each rule that applies to p, r, c also applies to q, s, d.
Tighter(p, r, c, q, s, d) ==
    /\ r.to \in p.deny => s.to \in q.deny
    /\ p.allow # {} /\ r.to # Null /\ r.to \notin p.allow
           => q.allow # {} /\ s.to # Null /\ s.to \notin q.allow
    /\ Engine!Exceeds(r.usd, p.spend) => Engine!Exceeds(s.usd, q.spend)
    /\ Engine!Exceeds(c.used + r.usd, p.daily) => Engine!Exceeds(d.used + s.usd, q.daily)
    /\ Engine!RateReached(p, c) => Engine!RateReached(q, d)
    /\ Engine!OutsideWindow(p, c) => Engine!OutsideWindow(q, d)
    /\ r.gas # Null /\ Engine!Exceeds(r.gas, p.gas)
        => s.gas # Null /\ Engine!Exceeds(s.gas, q.gas)
    /\ c.anomaly # Null /\ c.anomaly >= p.threshold
           => d.anomaly # Null /\ d.anomaly >= q.threshold
    /\ r.usd > 0 /\ r.to # Null /\ r.to \notin c.known
           => s.usd > 0 /\ s.to # Null /\ s.to \notin d.known

LEMMA TighterKeepsHits ==
    ASSUME NEW p, NEW r, NEW c, NEW q, NEW s, NEW d, Tighter(p, r, c, q, s, d)
    PROVE  Hits(p, r, c) \subseteq Hits(q, s, d)
<1> DEFINE Keeps(i) == Engine!Rules(p, r, c)[i].applies => Engine!Rules(q, s, d)[i].applies
<1>1. Keeps(1)
  BY Zenon DEF Tighter, Engine!Rules, Engine!Rule
<1>2. Keeps(2)
  BY Zenon DEF Tighter, Engine!Rules, Engine!Rule
<1>3. Keeps(3)
  BY Zenon DEF Tighter, Engine!Rules, Engine!Rule
<1>4. Keeps(4)
  BY Zenon DEF Tighter, Engine!Rules, Engine!Rule
<1>5. Keeps(5)
  BY Zenon DEF Tighter, Engine!Rules, Engine!Rule
<1>6. Keeps(6)
  BY Zenon DEF Tighter, Engine!Rules, Engine!Rule
<1>7. Keeps(7)
  BY Zenon DEF Tighter, Engine!Rules, Engine!Rule
<1>8. Keeps(8)
  BY Zenon DEF Tighter, Engine!Rules, Engine!Rule
<1>9. Keeps(9)
  BY Zenon DEF Tighter, Engine!Rules, Engine!Rule
<1> HIDE DEF Keeps
<1>10. \A i \in 1..9 : Keeps(i)
  BY <1>1, <1>2, <1>3, <1>4, <1>5, <1>6, <1>7, <1>8, <1>9
<1> QED
  BY <1>10, RulesAre DEF Keeps, Hits, Engine!Applying

\* A limit that is lowered, or set for the first time, is exceeded by what
\* exceeded it.
LEMMA LowerLimitExceeded ==
    ASSUME NEW S \in SUBSET Nat, NEW was \in Engine!OrNull(S), NEW x \in S,
           was # Null => x < was, NEW n \in Nat
    PROVE  /\ Engine!Exceeds(n, was) => Engine!Exceeds(n, x)
           /\ was # Null /\ n >= was => x # Null /\ n >= x
<1>1. x # Null /\ x \in Nat
  BY NullIsApart
<1>2. CASE was = Null
  BY <1>2 DEF Engine!Exceeds
<1>3. CASE was # Null
  <2>1. was \in Nat
    BY <1>3 DEF Engine!OrNull
  <2> QED
    BY <1>1, <1>3, <2>1 DEF Engine!Exceeds
<1> QED
  BY <1>2, <1>3

\* What exceeds a limit still does when it grows.
LEMMA MoreExceeds ==
    ASSUME NEW S \in SUBSET Nat, NEW limit \in Engine!OrNull(S),
           NEW n \in Nat, NEW m \in Nat, n <= m
    PROVE  /\ Engine!Exceeds(n, limit) => Engine!Exceeds(m, limit)
           /\ limit # Null /\ n >= limit => m >= limit
<1>1. CASE limit = Null
  BY <1>1 DEF Engine!Exceeds
<1>2. CASE limit # Null
  BY <1>2 DEF Engine!Exceeds, Engine!OrNull
<1> QED
  BY <1>1, <1>2

\* Every step of a tightening keeps every rule that applies.
LEMMA StepIsTighter ==
    ASSUME EngineType, Engine!Next
    PROVE  Tighter(ePolicy, eRequest, eContext, ePolicy', eRequest', eContext')
<1>1. /\ eRequest.usd \in Nat /\ eContext.used \in Nat /\ eContext.recent \in Nat
      /\ eContext.used + eRequest.usd \in Nat
      /\ Amounts \in SUBSET Nat /\ Counts \in SUBSET Nat /\ Gases \in SUBSET Nat
      /\ Thresholds \in SUBSET Nat
      /\ ePolicy.spend \in Engine!OrNull(Amounts)
      /\ ePolicy.daily \in Engine!OrNull(Amounts)
      /\ ePolicy.rate \in Engine!OrNull(Counts) /\ ePolicy.gas \in Engine!OrNull(Gases)
      /\ ePolicy.threshold \in Nat
      /\ eRequest.gas # Null => eRequest.gas \in Nat
      /\ eContext.anomaly \in Engine!OrNull(Thresholds)
  <2>1. /\ eRequest.usd \in Amounts /\ eContext.used \in Amounts
        /\ eContext.recent \in Counts
        /\ ePolicy.spend \in Engine!OrNull(Amounts)
        /\ ePolicy.daily \in Engine!OrNull(Amounts)
        /\ ePolicy.rate \in Engine!OrNull(Counts) /\ ePolicy.gas \in Engine!OrNull(Gases)
        /\ ePolicy.threshold \in Thresholds /\ eRequest.gas \in Engine!OrNull(Gases)
        /\ eContext.anomaly \in Engine!OrNull(Thresholds)
    BY DEF EngineType, PolicyType, Engine!RequestInputs, Engine!Contexts
  <2>2. /\ Amounts \in SUBSET Nat /\ Counts \in SUBSET Nat /\ Gases \in SUBSET Nat
        /\ Thresholds \in SUBSET Nat
    BY PartConstants DEF Engine!InputsAreNumbers
  <2>3. /\ eRequest.usd \in Nat /\ eContext.used \in Nat /\ eContext.recent \in Nat
        /\ ePolicy.threshold \in Nat
    BY <2>1, <2>2
  <2>4. eContext.used + eRequest.usd \in Nat
    BY <2>3
  <2>5. eRequest.gas # Null => eRequest.gas \in Nat
    BY <2>1, <2>2 DEF Engine!OrNull
  <2> QED
    BY <2>1, <2>2, <2>3, <2>4, <2>5
<1>2. CASE Engine!LowerLimit("spend", Amounts)
  <2>1. PICK x \in Amounts : (ePolicy["spend"] # Null => x < ePolicy["spend"])
                             /\ ePolicy' = [ePolicy EXCEPT !["spend"] = x]
    BY <1>2, Zenon DEF Engine!LowerLimit
  <2>2. eRequest' = eRequest /\ eContext' = eContext
    BY <1>2, Zenon DEF Engine!LowerLimit
  <2>3. /\ ePolicy'.spend = x
        /\ ePolicy'.daily = ePolicy.daily /\ ePolicy'.rate = ePolicy.rate
        /\ ePolicy'.gas = ePolicy.gas /\ ePolicy'.allow = ePolicy.allow
        /\ ePolicy'.deny = ePolicy.deny /\ ePolicy'.from = ePolicy.from
        /\ ePolicy'.to = ePolicy.to /\ ePolicy'.threshold = ePolicy.threshold
    BY <2>1 DEF EngineType, PolicyType
  <2>4. Engine!Exceeds(eRequest.usd, ePolicy.spend) => Engine!Exceeds(eRequest.usd, x)
    BY <1>1, <2>1, LowerLimitExceeded
  <2> QED
    BY <2>2, <2>3, <2>4, Zenon DEF Tighter, Engine!RateReached, Engine!OutsideWindow
<1>3. CASE Engine!LowerLimit("daily", Amounts)
  <2>1. PICK x \in Amounts : (ePolicy["daily"] # Null => x < ePolicy["daily"])
                             /\ ePolicy' = [ePolicy EXCEPT !["daily"] = x]
    BY <1>3, Zenon DEF Engine!LowerLimit
  <2>2. eRequest' = eRequest /\ eContext' = eContext
    BY <1>3, Zenon DEF Engine!LowerLimit
  <2>3. /\ ePolicy'.daily = x
        /\ ePolicy'.spend = ePolicy.spend /\ ePolicy'.rate = ePolicy.rate
        /\ ePolicy'.gas = ePolicy.gas /\ ePolicy'.allow = ePolicy.allow
        /\ ePolicy'.deny = ePolicy.deny /\ ePolicy'.from = ePolicy.from
        /\ ePolicy'.to = ePolicy.to /\ ePolicy'.threshold = ePolicy.threshold
    BY <2>1 DEF EngineType, PolicyType
  <2>4. Engine!Exceeds(eContext.used + eRequest.usd, ePolicy.daily)
            => Engine!Exceeds(eContext.used + eRequest.usd, x)
    BY <1>1, <2>1, LowerLimitExceeded
  <2> QED
    BY <2>2, <2>3, <2>4, Zenon DEF Tighter, Engine!RateReached, Engine!OutsideWindow
<1>4. CASE Engine!LowerLimit("rate", Counts)
  <2>1. PICK x \in Counts : (ePolicy["rate"] # Null => x < ePolicy["rate"])
                             /\ ePolicy' = [ePolicy EXCEPT !["rate"] = x]
    BY <1>4, Zenon DEF Engine!LowerLimit
  <2>2. eRequest' = eRequest /\ eContext' = eContext
    BY <1>4, Zenon DEF Engine!LowerLimit
  <2>3. /\ ePolicy'.rate = x
        /\ ePolicy'.spend = ePolicy.spend /\ ePolicy'.daily = ePolicy.daily
        /\ ePolicy'.gas = ePolicy.gas /\ ePolicy'.allow = ePolicy.allow
        /\ ePolicy'.deny = ePolicy.deny /\ ePolicy'.from = ePolicy.from
        /\ ePolicy'.to = ePolicy.to /\ ePolicy'.threshold = ePolicy.threshold
    BY <2>1 DEF EngineType, PolicyType
  <2>4. ePolicy.rate # Null /\ eContext.recent >= ePolicy.rate
      => x # Null /\ eContext.recent >= x
    BY <1>1, <2>1, LowerLimitExceeded
  <2> QED
    BY <2>2, <2>3, <2>4, Zenon DEF Tighter, Engine!RateReached, Engine!OutsideWindow
<1>5. CASE Engine!LowerLimit("gas", Gases)
  <2>1. PICK x \in Gases : (ePolicy["gas"] # Null => x < ePolicy["gas"])
                             /\ ePolicy' = [ePolicy EXCEPT !["gas"] = x]
    BY <1>5, Zenon DEF Engine!LowerLimit
  <2>2. eRequest' = eRequest /\ eContext' = eContext
    BY <1>5, Zenon DEF Engine!LowerLimit
  <2>3. /\ ePolicy'.gas = x
        /\ ePolicy'.spend = ePolicy.spend /\ ePolicy'.daily = ePolicy.daily
        /\ ePolicy'.rate = ePolicy.rate /\ ePolicy'.allow = ePolicy.allow
        /\ ePolicy'.deny = ePolicy.deny /\ ePolicy'.from = ePolicy.from
        /\ ePolicy'.to = ePolicy.to /\ ePolicy'.threshold = ePolicy.threshold
    BY <2>1 DEF EngineType, PolicyType
  <2>4. eRequest.gas # Null /\ Engine!Exceeds(eRequest.gas, ePolicy.gas)
            => eRequest.gas # Null /\ Engine!Exceeds(eRequest.gas, x)
    BY <1>1, <2>1, LowerLimitExceeded
  <2> QED
    BY <2>2, <2>3, <2>4, Zenon DEF Tighter, Engine!RateReached, Engine!OutsideWindow
<1>6. CASE Engine!RestrictAllow
  <2>1. PICK S \in (SUBSET Contacts) \ {{}} :
          /\ ePolicy.allow # {} => S \subseteq ePolicy.allow
          /\ ePolicy' = [ePolicy EXCEPT !.allow = S]
    BY <1>6, Zenon DEF Engine!RestrictAllow
  <2>2. eRequest' = eRequest /\ eContext' = eContext
    BY <1>6, Zenon DEF Engine!RestrictAllow
  <2>3. /\ ePolicy'.allow = S
        /\ ePolicy'.spend = ePolicy.spend /\ ePolicy'.daily = ePolicy.daily
        /\ ePolicy'.rate = ePolicy.rate /\ ePolicy'.gas = ePolicy.gas
        /\ ePolicy'.deny = ePolicy.deny /\ ePolicy'.from = ePolicy.from
        /\ ePolicy'.to = ePolicy.to /\ ePolicy'.threshold = ePolicy.threshold
    BY <2>1 DEF EngineType, PolicyType
  <2>4. ePolicy.allow # {} /\ eRequest.to \notin ePolicy.allow
      => S # {} /\ eRequest.to \notin S
    BY <2>1
  <2> QED
    BY <2>2, <2>3, <2>4, Zenon DEF Tighter, Engine!RateReached, Engine!OutsideWindow
<1>7. CASE Engine!ExtendDeny
  BY <1>7 DEF Engine!ExtendDeny, EngineType, PolicyType, Tighter, Engine!RateReached,
              Engine!OutsideWindow
<1>8. CASE Engine!LowerThreshold
  <2>1. PICK x \in Thresholds : x < ePolicy.threshold
      /\ ePolicy' = [ePolicy EXCEPT !.threshold = x]
    BY <1>8, Zenon DEF Engine!LowerThreshold
  <2>2. eRequest' = eRequest /\ eContext' = eContext
    BY <1>8, Zenon DEF Engine!LowerThreshold
  <2>3. /\ ePolicy'.threshold = x
        /\ ePolicy'.spend = ePolicy.spend /\ ePolicy'.daily = ePolicy.daily
        /\ ePolicy'.rate = ePolicy.rate /\ ePolicy'.gas = ePolicy.gas
        /\ ePolicy'.allow = ePolicy.allow /\ ePolicy'.deny = ePolicy.deny
        /\ ePolicy'.from = ePolicy.from /\ ePolicy'.to = ePolicy.to
    BY <2>1 DEF EngineType, PolicyType
  <2>4. eContext.anomaly # Null /\ eContext.anomaly >= ePolicy.threshold
      => eContext.anomaly >= x
    BY <1>1, <2>1 DEF Engine!OrNull
  <2> QED
    BY <2>2, <2>3, <2>4, Zenon DEF Tighter, Engine!RateReached, Engine!OutsideWindow
<1>9. CASE Engine!Harsher("used", Amounts)
  <2>1. PICK x \in Amounts : (eContext["used"] # Null => x > eContext["used"])
                             /\ eContext' = [eContext EXCEPT !["used"] = x]
    BY <1>9, Zenon DEF Engine!Harsher
  <2>2. eRequest' = eRequest /\ ePolicy' = ePolicy
    BY <1>9, Zenon DEF Engine!Harsher
  <2>3. /\ eContext'.used = x /\ eContext'.recent = eContext.recent
        /\ eContext'.known = eContext.known /\ eContext'.anomaly = eContext.anomaly
        /\ eContext'.minute = eContext.minute
    BY <2>1 DEF EngineType, Engine!Contexts
  <2>4. x + eRequest.usd \in Nat /\ eContext.used + eRequest.usd <= x + eRequest.usd
    BY <1>1, <2>1, NullIsApart
  <2>5. Engine!Exceeds(eContext.used + eRequest.usd, ePolicy.daily)
      => Engine!Exceeds(x + eRequest.usd, ePolicy.daily)
    BY <1>1, <2>4, MoreExceeds
  <2> QED
    BY <2>2, <2>3, <2>5, Zenon DEF Tighter, Engine!RateReached, Engine!OutsideWindow
<1>10. CASE Engine!Harsher("recent", Counts)
  <2>1. PICK x \in Counts : (eContext["recent"] # Null => x > eContext["recent"])
                             /\ eContext' = [eContext EXCEPT !["recent"] = x]
    BY <1>10, Zenon DEF Engine!Harsher
  <2>2. eRequest' = eRequest /\ ePolicy' = ePolicy
    BY <1>10, Zenon DEF Engine!Harsher
  <2>3. /\ eContext'.recent = x /\ eContext'.used = eContext.used
        /\ eContext'.known = eContext.known /\ eContext'.anomaly = eContext.anomaly
        /\ eContext'.minute = eContext.minute
    BY <2>1 DEF EngineType, Engine!Contexts
  <2>4. x \in Nat /\ eContext.recent <= x
    BY <1>1, <2>1, NullIsApart
  <2>5. ePolicy.rate # Null /\ eContext.recent >= ePolicy.rate => x >= ePolicy.rate
    BY <1>1, <2>4, MoreExceeds
  <2> QED
    BY <2>2, <2>3, <2>5, Zenon DEF Tighter, Engine!RateReached, Engine!OutsideWindow
<1>11. CASE Engine!Harsher("anomaly", Thresholds)
  <2>1. PICK x \in Thresholds : (eContext["anomaly"] # Null => x > eContext["anomaly"])
                             /\ eContext' = [eContext EXCEPT !["anomaly"] = x]
    BY <1>11, Zenon DEF Engine!Harsher
  <2>2. eRequest' = eRequest /\ ePolicy' = ePolicy
    BY <1>11, Zenon DEF Engine!Harsher
  <2>3. /\ eContext'.anomaly = x /\ eContext'.used = eContext.used
        /\ eContext'.known = eContext.known /\ eContext'.recent = eContext.recent
        /\ eContext'.minute = eContext.minute
    BY <2>1 DEF EngineType, Engine!Contexts
  <2>4. eContext.anomaly # Null /\ eContext.anomaly >= ePolicy.threshold
            => x # Null /\ x >= ePolicy.threshold
    <3>1. x \in Nat /\ x # Null
      BY <1>1, <2>1, NullIsApart
    <3>2. ASSUME eContext.anomaly # Null
          PROVE  eContext.anomaly \in Nat /\ x > eContext.anomaly
      <4>1. eContext["anomaly"] = eContext.anomaly
        OBVIOUS
      <4> QED
        BY <1>1, <2>1, <3>2, <4>1 DEF Engine!OrNull
    <3> QED
      BY <1>1, <3>1, <3>2
  <2> QED
    BY <2>2, <2>3, <2>4, Zenon DEF Tighter, Engine!RateReached, Engine!OutsideWindow
<1>12. CASE Engine!Forget
  BY <1>12 DEF Engine!Forget, EngineType, Engine!Contexts, Tighter, Engine!RateReached,
               Engine!OutsideWindow
<1>13. CASE Engine!RaiseValue
  <2>1. PICK x \in Amounts : x > eRequest.usd /\ eRequest' = [eRequest EXCEPT !.usd = x]
    BY <1>13, Zenon DEF Engine!RaiseValue
  <2>2. ePolicy' = ePolicy /\ eContext' = eContext
    BY <1>13, Zenon DEF Engine!RaiseValue
  <2>3. eRequest'.usd = x /\ eRequest'.to = eRequest.to /\ eRequest'.gas = eRequest.gas
    BY <2>1 DEF EngineType, Engine!RequestInputs
  <2>4. /\ x \in Nat /\ eRequest.usd <= x
        /\ eContext.used + x \in Nat /\ eContext.used + eRequest.usd <= eContext.used + x
        /\ eRequest.usd > 0 => x > 0
    BY <1>1, <2>1
  <2>5. Engine!Exceeds(eRequest.usd, ePolicy.spend) => Engine!Exceeds(x, ePolicy.spend)
    BY <1>1, <2>4, MoreExceeds
  <2>6. Engine!Exceeds(eContext.used + eRequest.usd, ePolicy.daily)
      => Engine!Exceeds(eContext.used + x, ePolicy.daily)
    BY <1>1, <2>4, MoreExceeds
  <2> QED
    BY <2>2, <2>3, <2>4, <2>5, <2>6, Zenon DEF Tighter, Engine!RateReached,
                                               Engine!OutsideWindow
<1> QED
  BY <1>2, <1>3, <1>4, <1>5, <1>6, <1>7, <1>8, <1>9, <1>10, <1>11, <1>12, <1>13
     DEF Engine!Next

\* A stricter policy, more spending, more transactions, a higher anomaly score
\* or a forgotten counterparty never earns a milder decision, whatever the
\* policy, the request and the context (engine.py, evaluate).
THEOREM NeverMilderHolds == PartsSpec => NeverMilder
<1> DEFINE Inv == part = "engine" => EngineType
<1>1. PartsInit => Inv
  BY InitType DEF PartsInit
<1>2. Inv /\ UNCHANGED part /\ [Engine!Next]_eVars => Inv'
  BY TypeStep
<1>3. Inv /\ [Engine!Next]_eVars => [NoMilder]_eVars
  <2> SUFFICES ASSUME EngineType, Engine!Next PROVE Engine!NoMilder
    BY DEF NoMilder
  <2>1. Hits(ePolicy, eRequest, eContext) \subseteq Hits(ePolicy', eRequest', eContext')
    BY StepIsTighter, TighterKeepsHits
  <2>2. Engine!Rank[Engine!Evaluate(ePolicy', eRequest', eContext')]
            >= Engine!Rank[Engine!Evaluate(ePolicy, eRequest, eContext)]
    BY <2>1, MoreRulesHarsher
  <2> QED
    BY <2>2 DEF Engine!NoMilder, Engine!Verdict
<1> HIDE DEF Inv
<1> QED
  BY <1>1, <1>2, <1>3, PartsStep, PTL DEF PartsSpec, NeverMilder

-----------------------------------------------------------------------------
(* The baseline *)

\* No clock or commit lies in the future, and a transaction is there from its
\* commit on.
BaselineType ==
    /\ bNow \in Nat
    /\ bPc \in [Screenings -> {"idle", "compute", "judge", "refresh", "save", "done"}]
    /\ \A p \in bProfiles : p.at \in Nat /\ p.at <= bNow
    /\ \A t \in bTxs : /\ t.of \in Screenings /\ t.at \in Nat /\ t.at <= bNow
                       /\ bPc[t.of] \in {"refresh", "save", "done"}

\* The transactions of the window from before a reading was made are in it.
Complete(of, at) ==
    /\ at \in Nat /\ at <= bNow
    /\ \A t \in bTxs : t.at < at /\ t.at >= bNow - Window => t \in of

ReadingsComplete ==
    /\ bSeen = [s \in Screenings |-> bSeen[s]]
    /\ \A s \in Screenings : Complete(bSeen[s].of, bSeen[s].at)
    /\ \A p \in bProfiles : Complete(p.of, p.read)

\* A reading stays complete: what is committed after it is not from before it.
LEMMA StaysComplete ==
    ASSUME BaselineType, bNow' \in Nat, bNow <= bNow', \A t \in bTxs' \ bTxs : t.at = bNow,
           NEW of, NEW at, Complete(of, at)
    PROVE  Complete(of, at)'
<1>1. Window \in Nat
  BY PartConstants DEF Profile!BaselineConstants
<1>2. ASSUME NEW t \in bTxs', t.at < at, t.at >= bNow' - Window PROVE t \in of
  <2>1. CASE t \in bTxs
    BY <1>1, <1>2, <2>1 DEF BaselineType, Complete
  <2>2. CASE t \notin bTxs
    BY <1>2, <2>2 DEF BaselineType, Complete
  <2> QED
    BY <2>1, <2>2
<1> QED
  BY <1>2 DEF BaselineType, Complete

\* A step writes no profile but from a reading, and reads no less than there is.
LEMMA ReadingsStep ==
    ASSUME BaselineType, ReadingsComplete, [Profile!Next]_bVars
    PROVE  ReadingsComplete'
<1> DEFINE now == [of |-> Profile!History, at |-> bNow]
           Moves(s) == bSeen' \in {bSeen, [bSeen EXCEPT ![s] = now],
                                  [bSeen EXCEPT ![s] = Profile!Unread]}
           FromReadings == \A p \in bProfiles' :
               p \in bProfiles \/ \E s \in Screenings : p.of = bSeen[s].of /\ p.read = bSeen[s].at
           Passes == /\ bNow' \in Nat /\ bNow <= bNow'
                     /\ \A t \in bTxs' \ bTxs : t.at = bNow
<1>1. Complete(now.of, now.at) /\ Complete(Profile!Unread.of, Profile!Unread.at)
  BY DEF BaselineType, Complete, Profile!History, Profile!Unread
<1>2. ASSUME NEW s \in Screenings, Moves(s), FromReadings, Passes PROVE ReadingsComplete'
  <2>1. \A of, at : Complete(of, at) => Complete(of, at)'
    BY <1>2, StaysComplete
  <2>2. \A r \in Screenings : bSeen'[r] \in {bSeen[r], now, Profile!Unread}
    BY <1>2 DEF ReadingsComplete
  <2>3. \A r \in Screenings : Complete(bSeen'[r].of, bSeen'[r].at)
    BY <1>1, <2>2 DEF ReadingsComplete
  <2>4. \A p \in bProfiles' : Complete(p.of, p.read)
    BY <1>2 DEF ReadingsComplete
  <2>5. bSeen' = [r \in Screenings |-> bSeen'[r]]
    BY <1>2 DEF ReadingsComplete
  <2> QED
    BY <2>1, <2>3, <2>4, <2>5 DEF ReadingsComplete
<1>3. ASSUME NEW s \in Screenings, Profile!Load(s) \/ Profile!Refresh(s) PROVE ReadingsComplete'
  <2>1. Moves(s) /\ UNCHANGED <<bProfiles, bNow, bTxs>>
    BY <1>3 DEF Profile!Load, Profile!Refresh, Profile!Read
  <2> QED
    BY <1>2, <2>1 DEF BaselineType
<1>4. ASSUME NEW s \in Screenings, Profile!Compute(s) \/ Profile!Save(s) PROVE ReadingsComplete'
  <2>1. Moves(s) /\ UNCHANGED <<bNow, bTxs>> /\ bProfiles' = Profile!Written(s)
    BY <1>4 DEF Profile!Compute, Profile!Save, Profile!Drop
  <2>2. FromReadings
    BY <2>1 DEF Profile!Written, Profile!Row
  <2> QED
    BY <1>2, <2>1, <2>2 DEF BaselineType
<1>5. ASSUME NEW s \in Screenings,
             Profile!Commit(s) \/ Profile!LoadFails(s) \/ Profile!RefreshFails(s)
      PROVE  ReadingsComplete'
  <2>1. /\ UNCHANGED <<bSeen, bProfiles, bNow>>
        /\ bTxs' = bTxs \/ bTxs' = bTxs \cup {[of |-> s, at |-> bNow]}
    BY <1>5 DEF Profile!Commit, Profile!LoadFails, Profile!RefreshFails
  <2>2. \A t \in bTxs' \ bTxs : t.at = bNow
    BY <2>1
  <2> QED
    BY <1>2, <2>1, <2>2 DEF BaselineType
<1>6. CASE Profile!Tick \/ UNCHANGED bVars
  <2>1. /\ UNCHANGED <<bSeen, bProfiles, bTxs>> /\ bNow' \in Nat /\ bNow <= bNow'
    BY <1>6 DEF Profile!Tick, bVars, BaselineType
  <2>2. \A of, at : Complete(of, at) => Complete(of, at)'
    BY <2>1, StaysComplete
  <2> QED
    BY <2>1, <2>2 DEF ReadingsComplete
<1> QED
  BY <1>3, <1>4, <1>5, <1>6 DEF Profile!Next

\* Some profile is not Fresh or more behind the transaction.
UpToDate(t) == \E p \in bProfiles : t.at < p.at + Fresh

\* A screening ends with a profile that is recent enough for its transaction,
\* unless its refresh failed.
EndsUpToDate == \A t \in bTxs : bPc[t.of] = "done" /\ t.of \notin bMissed => UpToDate(t)

RefreshedInv == BaselineType /\ EndsUpToDate

BaselineInv == RefreshedInv /\ ReadingsComplete

\* A profile that is written is the newest; none is lost but to a newer one.
LEMMA WrittenIsNewest ==
    ASSUME BaselineType, NEW s \in Screenings, bProfiles' = Profile!Written(s), bNow' = bNow
    PROVE  /\ \E p \in bProfiles' : p.at = bNow
           /\ \A p \in bProfiles' : p.at \in Nat /\ p.at <= bNow
           /\ \A t \in bTxs : UpToDate(t)'
<1>1. Fresh \in Nat \ {0}
  BY PartConstants DEF Profile!BaselineConstants
<1> DEFINE new == [id |-> IF bRow[s] = Null THEN s ELSE bRow[s], at |-> bNow, of |-> bSeen[s].of, read |-> bSeen[s].at]
<1>2. new \in bProfiles' /\ new.at = bNow /\ \A p \in bProfiles' : p = new \/ p \in bProfiles
  BY DEF Profile!Written, Profile!Row
<1> HIDE DEF new
<1>3. \A p \in bProfiles' : p.at \in Nat /\ p.at <= bNow
  BY <1>2 DEF BaselineType
<1>4. ASSUME NEW t \in bTxs PROVE \E p \in bProfiles' : t.at < p.at + Fresh
  BY <1>1, <1>2 DEF BaselineType
<1> QED
  BY <1>2, <1>3, <1>4 DEF UpToDate

\* With the profiles as they are, a step keeps what holds if the screenings it
\* moves are up to date when it ends them.
LEMMA ProfilesStay ==
    ASSUME RefreshedInv, bProfiles' = bProfiles, bNow' = bNow, bTxs' = bTxs,
           bMissed \subseteq bMissed',
           bPc' \in [Screenings -> {"idle", "compute", "judge", "refresh", "save", "done"}],
           \A t \in bTxs : /\ bPc'[t.of] \in {"refresh", "save", "done"}
                           /\ bPc'[t.of] = "done" /\ t.of \notin bMissed' =>
                                  bPc[t.of] = "done" \/ UpToDate(t)
    PROVE  RefreshedInv'
<1>1. BaselineType'
  BY DEF RefreshedInv, BaselineType
<1>2. ASSUME NEW t \in bTxs, bPc'[t.of] = "done", t.of \notin bMissed' PROVE UpToDate(t)
  BY <1>2 DEF RefreshedInv, EndsUpToDate
<1>3. EndsUpToDate'
  BY <1>2 DEF EndsUpToDate, UpToDate
<1> QED
  BY <1>1, <1>3 DEF RefreshedInv

\* One screening's step.
LEMMA ScreeningStep ==
    ASSUME RefreshedInv, NEW s \in Screenings,
           \/ Profile!Load(s) \/ Profile!Compute(s) \/ Profile!LoadFails(s) \/ Profile!Commit(s)
           \/ Profile!Refresh(s) \/ Profile!Save(s) \/ Profile!RefreshFails(s)
    PROVE  RefreshedInv'
<1>1. /\ Fresh \in Nat \ {0}
      /\ bPc \in [Screenings -> {"idle", "compute", "judge", "refresh", "save", "done"}]
      /\ \A t \in bTxs : t.of \in Screenings /\ bPc[t.of] \in {"refresh", "save", "done"}
  BY PartConstants DEF Profile!BaselineConstants, RefreshedInv, BaselineType
<1>2. CASE Profile!Load(s)
  <2>1. /\ bPc[s] = "idle"
        /\ bPc' = [bPc EXCEPT ![s] = "compute"] \/ bPc' = [bPc EXCEPT ![s] = "judge"]
        /\ UNCHANGED <<bNow, bTxs, bProfiles, bMissed>>
    BY <1>2 DEF Profile!Load, Profile!Goto
  <2> QED
    BY <1>1, <2>1, ProfilesStay
<1>3. CASE Profile!LoadFails(s)
  <2>1. /\ bPc[s] \in {"compute", "judge"} /\ bPc' = [bPc EXCEPT ![s] = "done"]
        /\ UNCHANGED <<bNow, bTxs, bProfiles, bMissed>>
    BY <1>3 DEF Profile!LoadFails, Profile!Goto
  <2> QED
    BY <1>1, <2>1, ProfilesStay
<1>4. CASE Profile!RefreshFails(s)
  <2>1. /\ bPc[s] \in {"refresh", "save"} /\ bPc' = [bPc EXCEPT ![s] = "done"]
        /\ bMissed' = bMissed \cup {s} /\ UNCHANGED <<bNow, bTxs, bProfiles>>
    BY <1>4 DEF Profile!RefreshFails, Profile!Goto
  <2> QED
    BY <1>1, <2>1, ProfilesStay
<1>5. CASE Profile!Refresh(s)
  <2>1. /\ bPc[s] = "refresh" /\ UNCHANGED <<bNow, bTxs, bProfiles, bMissed>>
        /\ \/ bPc' = [bPc EXCEPT ![s] = "save"]
           \/ /\ bPc' = [bPc EXCEPT ![s] = "done"]
              /\ \E p \in bProfiles : ~ (bNow - p.at >= Fresh)
    BY <1>5 DEF Profile!Refresh, Profile!Goto, Profile!Newest, Profile!Due
  <2>2. CASE bPc' = [bPc EXCEPT ![s] = "save"]
    BY <1>1, <2>1, <2>2, ProfilesStay
  <2>3. CASE /\ bPc' = [bPc EXCEPT ![s] = "done"]
             /\ \E p \in bProfiles : ~ (bNow - p.at >= Fresh)
    <3>1. \A t \in bTxs : UpToDate(t)
      BY <1>1, <2>3 DEF RefreshedInv, BaselineType, UpToDate
    <3> QED
      BY <1>1, <2>1, <2>3, <3>1, ProfilesStay
  <2> QED
    BY <2>1, <2>2, <2>3
<1>6. CASE Profile!Commit(s)
  <2>1. /\ bPc[s] = "judge" /\ bPc' = [bPc EXCEPT ![s] = "refresh"]
        /\ bTxs' = bTxs \cup {[of |-> s, at |-> bNow]}
        /\ UNCHANGED <<bNow, bProfiles, bMissed>>
    BY <1>6 DEF Profile!Commit, Profile!Goto
  <2>2. BaselineType'
    BY <1>1, <2>1 DEF RefreshedInv, BaselineType
  <2>3. \A t \in bTxs' : bPc'[t.of] = "done" => t \in bTxs /\ bPc[t.of] = "done"
    BY <1>1, <2>1
  <2>4. EndsUpToDate'
    BY <2>1, <2>3 DEF RefreshedInv, EndsUpToDate, UpToDate
  <2> QED
    BY <2>2, <2>4 DEF RefreshedInv
<1>7. CASE Profile!Compute(s) \/ Profile!Save(s)
  <2>1. /\ \/ bPc[s] = "compute" /\ bPc' = [bPc EXCEPT ![s] = "judge"]
           \/ bPc[s] = "save" /\ bPc' = [bPc EXCEPT ![s] = "done"]
        /\ bProfiles' = Profile!Written(s) /\ UNCHANGED <<bNow, bTxs, bMissed>>
    BY <1>7 DEF Profile!Compute, Profile!Save, Profile!Goto
  <2>2. (\A p \in bProfiles' : p.at \in Nat /\ p.at <= bNow) /\ \A t \in bTxs : UpToDate(t)'
    BY <2>1, WrittenIsNewest DEF RefreshedInv
  <2>3. BaselineType'
    BY <1>1, <2>1, <2>2 DEF RefreshedInv, BaselineType
  <2>4. EndsUpToDate'
    BY <2>1, <2>2 DEF EndsUpToDate
  <2> QED
    BY <2>3, <2>4 DEF RefreshedInv
<1> QED
  BY <1>2, <1>3, <1>4, <1>5, <1>6, <1>7

\* FR-DATA-02: what the newest profile lacks was committed after its history
\* was read, and less than Fresh after its date, once the screening that
\* committed it has ended and its refresh did not fail (baseline.py,
\* refresh_baseline); for any number of screenings, whichever readings overlap.
THEOREM FreshOrRecentHolds == PartsSpec => []FreshOrRecent
<1>1. PartsInit => BaselineInv
  BY DEF PartsInit, Profile!Init, Profile!Unread, BaselineInv, RefreshedInv, BaselineType,
         EndsUpToDate, ReadingsComplete, Complete
<1>2. BaselineInv /\ [Profile!Next]_bVars => BaselineInv'
  <2> SUFFICES ASSUME BaselineInv, [Profile!Next]_bVars PROVE RefreshedInv'
    BY ReadingsStep DEF BaselineInv, RefreshedInv
  <2>1. CASE Profile!Tick
    BY <2>1 DEF Profile!Tick, BaselineInv, RefreshedInv, BaselineType, EndsUpToDate, UpToDate
  <2>2. CASE UNCHANGED bVars
    BY <2>2 DEF bVars, BaselineInv, RefreshedInv, BaselineType, EndsUpToDate, UpToDate
  <2> QED
    BY <2>1, <2>2, ScreeningStep DEF Profile!Next, BaselineInv
<1>3. BaselineInv => FreshOrRecent
  <2> SUFFICES ASSUME BaselineInv, NEW p \in Profile!Newest, NEW t \in bTxs,
                      t.at >= bNow - Window, t \notin p.of,
                      bPc[t.of] = "done", t.of \notin bMissed
               PROVE  p.read <= t.at /\ t.at < p.at + Fresh
    BY DEF FreshOrRecent, Profile!FreshOrRecent, Profile!History
  <2> USE DEF BaselineInv, RefreshedInv
  <2>1. PICK q \in bProfiles : t.at < q.at + Fresh
    BY DEF EndsUpToDate, UpToDate
  <2>2. q.at <= p.at /\ p \in bProfiles
    BY DEF Profile!Newest
  <2>3. t.at < p.at + Fresh
    BY <2>1, <2>2, PartConstants DEF Profile!BaselineConstants, BaselineType
  <2>4. Complete(p.of, p.read) /\ t.at \in Nat
    BY <2>2 DEF ReadingsComplete, BaselineType
  <2>5. p.read <= t.at
    BY <2>4 DEF Complete
  <2> QED
    BY <2>3, <2>5
<1> QED
  BY <1>1, <1>2, <1>3, PartsStep, PTL DEF PartsSpec

-----------------------------------------------------------------------------
(* The anomaly score *)

ScorerType ==
    /\ aBaseline \in Anomaly!Baselines /\ aValue \in Values
    /\ aRecent \in Nat /\ aIsNew \in BOOLEAN

\* What is squashed grows with the deviation, though every value is rounded
\* down.
LEMMA SquashedGrows ==
    ASSUME NEW w \in Nat, NEW s \in Nat \ {0}, NEW d \in Nat, NEW e \in Nat, d <= e
    PROVE  Anomaly!Squashed(w, d, s) <= Anomaly!Squashed(w, e, s)
<1> DEFINE p == (w * d) \div (s + d)
           q == (w * e) \div (s + e)
<1>1. s + d \in Nat \ {0} /\ s + e \in Nat \ {0} /\ w * d \in Nat /\ w * e \in Nat
  OBVIOUS
<1>2. p \in Int /\ (s + d) * p <= w * d
  BY <1>1
<1>3. q \in Int /\ w * e < (s + e) * (q + 1)
  BY <1>1
<1>4. p <= w
  <2>1. w * d <= w * (s + d)
    BY <1>1
  <2> QED
    BY <1>1, <1>2, <2>1
<1> HIDE DEF p, q
<1>5. PICK k \in Nat : e = d + k
  BY <1>1
<1>6. k * p <= k * w
  BY <1>2, <1>4
<1>7. (s + e) * p = (s + d) * p + k * p /\ w * e = w * d + k * w
  BY <1>2, <1>5
<1>8. (s + e) * p < (s + e) * (q + 1)
  <2> DEFINE a1 == (s + e) * p
             a2 == (s + d) * p
             a3 == k * p
             a4 == w * e
             a5 == w * d
             a6 == k * w
             a7 == (s + e) * (q + 1)
  <2>1. /\ a1 \in Int /\ a2 \in Int /\ a3 \in Int /\ a4 \in Int /\ a5 \in Int
        /\ a6 \in Int /\ a7 \in Int
    BY <1>2, <1>3
  <2>2. a2 <= a5 /\ a4 < a7 /\ a3 <= a6 /\ a1 = a2 + a3 /\ a4 = a5 + a6
    BY <1>2, <1>3, <1>6, <1>7
  <2> HIDE DEF a1, a2, a3, a4, a5, a6, a7
  <2>3. a1 < a7
    BY <2>1, <2>2
  <2> QED
    BY <2>3 DEF a1, a7
<1>9. p < q + 1
  BY <1>1, <1>2, <1>3, <1>8
<1> QED
  BY <1>2, <1>3, <1>9 DEF Anomaly!Squashed, p, q

\* What is squashed has the sign of the deviation.
LEMMA SquashedSign ==
    ASSUME NEW w \in Nat, NEW s \in Nat \ {0}, NEW d \in Int
    PROVE  /\ Anomaly!Squashed(w, d, s) \in Int
           /\ d >= 0 => Anomaly!Squashed(w, d, s) >= 0
           /\ d <= 0 => Anomaly!Squashed(w, d, s) <= 0
<1> DEFINE size == IF d < 0 THEN -d ELSE d
           q == (w * d) \div (s + size)
<1>1. s + size \in Nat \ {0} /\ w * d \in Int /\ (d <= 0 => w * d <= 0) /\ (d >= 0 => w * d >= 0)
  OBVIOUS
<1>2. q \in Int /\ (s + size) * q <= w * d /\ w * d < (s + size) * (q + 1)
  BY <1>1
<1>3. ASSUME d <= 0 PROVE q <= 0
  BY <1>1, <1>2, <1>3
<1>4. ASSUME d >= 0 PROVE q >= 0
  BY <1>1, <1>2, <1>4
<1> QED
  BY <1>2, <1>3, <1>4 DEF Anomaly!Squashed

\* Two parts of it, as they are cited.
LEMMA SquashedNumber ==
    ASSUME NEW w, NEW s, NEW d, w \in Nat, s \in Nat \ {0}, d \in Int
    PROVE  Anomaly!Squashed(w, d, s) \in Int
  BY SquashedSign

\* The part for a window below the expected count.
LEMMA SquashedNegative ==
    ASSUME NEW w \in Nat, NEW s \in Nat \ {0}, NEW d \in Int, d <= 0
    PROVE  Anomaly!Squashed(w, d, s) <= 0
  BY SquashedSign

\* The larger of 0 and a number.
LEMMA PositivePart ==
    ASSUME NEW x \in Int
    PROVE  Anomaly!Max({0, x}) = IF x > 0 THEN x ELSE 0
  BY DEF Anomaly!Max

\* The outlier's share of the score grows with the distance.
LEMMA OutlierGrows ==
    ASSUME NEW b \in Anomaly!Baselines, NEW u \in Nat, NEW v \in Nat,
           Anomaly!Distance(b, u) <= Anomaly!Distance(b, v)
    PROVE  /\ Anomaly!Outlier(b, u) \in Int /\ Anomaly!Outlier(b, v) \in Int
           /\ Anomaly!Outlier(b, u) <= Anomaly!Outlier(b, v)
<1>1. b.mean \in Nat /\ b.std \in Nat /\ b.count \in Nat
  BY PartConstants DEF Anomaly!ScorerConstants, Anomaly!Baselines
<1>2. Anomaly!Distance(b, u) \in Nat /\ Anomaly!Distance(b, v) \in Nat
  BY <1>1 DEF Anomaly!Distance
<1>3. CASE b.count >= 5 /\ b.std > 0
  <2>1. b.std \in Nat \ {0} /\ 6000 \in Nat
    BY <1>1, <1>3
  <2>2. /\ Anomaly!Squashed(6000, Anomaly!Distance(b, u), b.std) \in Int
        /\ Anomaly!Squashed(6000, Anomaly!Distance(b, v), b.std) \in Int
    <3>1. Anomaly!Distance(b, u) \in Int /\ Anomaly!Distance(b, v) \in Int
      BY <1>2
    <3>2. Anomaly!Squashed(6000, Anomaly!Distance(b, u), b.std) \in Int
      BY <2>1, <3>1, SquashedNumber
    <3>3. Anomaly!Squashed(6000, Anomaly!Distance(b, v), b.std) \in Int
      BY <2>1, <3>1, SquashedNumber
    <3> QED
      BY <3>2, <3>3
  <2>3. Anomaly!Squashed(6000, Anomaly!Distance(b, u), b.std)
          <= Anomaly!Squashed(6000, Anomaly!Distance(b, v), b.std)
    BY <1>2, <2>1, SquashedGrows
  <2> QED
    BY <1>3, <2>2, <2>3 DEF Anomaly!Outlier
<1>4. CASE ~ (b.count >= 5 /\ b.std > 0)
  BY <1>4 DEF Anomaly!Outlier
<1> QED
  BY <1>3, <1>4

\* The spike's share grows with the transactions in the window.
LEMMA SpikeGrows ==
    ASSUME NEW b \in Anomaly!Baselines, NEW m \in Nat, NEW n \in Nat, m <= n
    PROVE  /\ Anomaly!Spike(b, m) \in Int /\ Anomaly!Spike(b, n) \in Int
           /\ Anomaly!Spike(b, m) <= Anomaly!Spike(b, n)
<1>1. b.count \in Nat /\ Days \in Nat \ {0}
  BY PartConstants DEF Anomaly!ScorerConstants, Anomaly!Baselines
<1>2. CASE b.count > 0
  <2> DEFINE d == Days * m - b.count
             e == Days * n - b.count
             x == Anomaly!Squashed(1000, d, b.count)
             y == Anomaly!Squashed(1000, e, b.count)
  <2>1. d \in Int /\ e \in Int /\ d <= e
    <3>1. Days * m \in Int /\ Days * n \in Int /\ Days * m <= Days * n
      BY <1>1
    <3> QED
      BY <1>1, <3>1
  <2>2. b.count \in Nat \ {0} /\ 1000 \in Nat
    BY <1>1, <1>2
  <2> HIDE DEF d, e
  <2>3. x \in Int /\ y \in Int /\ (d <= 0 => x <= 0)
    <3>1. x \in Int
      BY <2>1, <2>2, SquashedNumber
    <3>2. y \in Int
      BY <2>1, <2>2, SquashedNumber
    <3>3. d <= 0 => x <= 0
      BY <2>1, <2>2, SquashedNegative
    <3> QED
      BY <3>1, <3>2, <3>3
  <2>4. d >= 0 => x <= y
    BY <2>1, <2>2, SquashedGrows
  <2>5. Anomaly!Spike(b, m) = Anomaly!Max({0, x}) /\ Anomaly!Spike(b, n) = Anomaly!Max({0, y})
    BY <1>2 DEF Anomaly!Spike, d, e
  <2> HIDE DEF x, y
  <2>6. /\ Anomaly!Spike(b, m) = IF x > 0 THEN x ELSE 0
        /\ Anomaly!Spike(b, n) = IF y > 0 THEN y ELSE 0
    BY <2>3, <2>5, PositivePart
  <2> QED
    BY <2>1, <2>3, <2>4, <2>6
<1>3. CASE ~ (b.count > 0)
  BY <1>3 DEF Anomaly!Spike
<1> QED
  BY <1>2, <1>3

\* The factors are added up; the concentration is the same.
LEMMA SumGrows ==
    ASSUME NEW a \in Int, NEW b \in Int, NEW c \in Int, NEW d \in Int,
           NEW u \in Int, NEW v \in Int, NEW w \in Int, a <= u, b <= v, c <= w
    PROVE  u + v + w + d >= a + b + c + d
  OBVIOUS

\* A more unusual transaction scores no less (scorer.py, score_transaction:
\* both tails are anomalous); for every history, value and rate.
THEOREM NeverScoresLessHolds == PartsSpec => NeverScoresLess
<1> DEFINE Inv == part = "anomaly" => ScorerType
<1>1. PartsInit => Inv
  BY DEF PartsInit, Anomaly!Init, ScorerType
<1>2. Inv /\ UNCHANGED part /\ [Anomaly!Next]_aVars => Inv'
  <2> SUFFICES ASSUME ScorerType, [Anomaly!Next]_aVars PROVE ScorerType'
    OBVIOUS
  <2>1. CASE Anomaly!Farther
    BY <2>1, Zenon DEF Anomaly!Farther, ScorerType
  <2>2. CASE Anomaly!Busier
    <3>1. aRecent' \in Nat
      BY <2>2 DEF Anomaly!Busier, ScorerType
    <3> QED
      BY <2>2, <3>1, Zenon DEF Anomaly!Busier, ScorerType
  <2>3. CASE Anomaly!Unknown
    BY <2>3, Zenon DEF Anomaly!Unknown, ScorerType
  <2>4. CASE UNCHANGED aVars
    BY <2>4, Zenon DEF aVars, ScorerType
  <2> QED
    BY <2>1, <2>2, <2>3, <2>4 DEF Anomaly!Next
<1>3. Inv /\ UNCHANGED part /\ [Anomaly!Next]_aVars => [UnusualScoresNoLess]_aVars
  <2> SUFFICES ASSUME ScorerType, Anomaly!Next PROVE Anomaly!Current' >= Anomaly!Current
    BY DEF UnusualScoresNoLess, Anomaly!UnusualScoresNoLess
  <2> DEFINE far == Anomaly!Outlier(aBaseline, aValue)
             new == Anomaly!Stranger(aIsNew)
             busy == Anomaly!Spike(aBaseline, aRecent)
             share == Anomaly!Concentration(aBaseline)
  <2>1. aBaseline \in Anomaly!Baselines /\ aValue \in Nat /\ aRecent \in Nat
    BY PartConstants DEF Anomaly!ScorerConstants, ScorerType
  <2>2. share \in Int
    <3>1. aBaseline.share \in 0 .. 100
      BY <2>1, PartConstants DEF Anomaly!ScorerConstants, Anomaly!Baselines
    <3>2. (150 * aBaseline.share) \div 100 \in Int
      BY <3>1
    <3> QED
      BY <3>2 DEF Anomaly!Concentration
  <2>3. far \in Int /\ busy \in Int
    <3>1. Anomaly!Distance(aBaseline, aValue) <= Anomaly!Distance(aBaseline, aValue)
      <4>1. aBaseline.mean \in Nat
        BY <2>1, PartConstants DEF Anomaly!ScorerConstants, Anomaly!Baselines
      <4>2. Anomaly!Distance(aBaseline, aValue) \in Int
        BY <2>1, <4>1 DEF Anomaly!Distance
      <4> QED
        BY <4>2
    <3>2. far \in Int
      BY <2>1, <3>1, OutlierGrows
    <3>3. aRecent <= aRecent
      BY <2>1
    <3>4. busy \in Int
      BY <2>1, <3>3, SpikeGrows
    <3> QED
      BY <3>2, <3>4
  <2>4. new \in Int
    BY DEF Anomaly!Stranger
  <2>5. aBaseline' = aBaseline /\ share' = share
    BY DEF Anomaly!Next, Anomaly!Farther, Anomaly!Busier, Anomaly!Unknown
  <2>6. far' \in Int /\ far <= far' /\ busy' \in Int /\ busy <= busy'
        /\ new' \in Int /\ new <= new'
    <3>1. CASE Anomaly!Farther
      <4>1. /\ aValue' \in Nat /\ UNCHANGED <<aRecent, aIsNew>>
            /\ Anomaly!Distance(aBaseline, aValue') > Anomaly!Distance(aBaseline, aValue)
        BY <3>1, PartConstants DEF Anomaly!Farther, Anomaly!ScorerConstants
      <4>2. /\ Anomaly!Distance(aBaseline, aValue') \in Int
            /\ Anomaly!Distance(aBaseline, aValue) \in Int
        <5>1. aBaseline.mean \in Nat
          BY <2>1, PartConstants DEF Anomaly!ScorerConstants, Anomaly!Baselines
        <5> QED
          BY <2>1, <4>1, <5>1 DEF Anomaly!Distance
      <4>3. far' \in Int /\ far <= far'
        BY <2>1, <2>5, <4>1, <4>2, OutlierGrows
      <4>4. busy' = busy /\ new' = new
        BY <2>5, <4>1
      <4> QED
        BY <2>3, <2>4, <4>3, <4>4
    <3>2. CASE Anomaly!Busier
      <4>1. aRecent' \in Nat /\ aRecent <= aRecent' /\ UNCHANGED <<aValue, aIsNew>>
        BY <2>1, <3>2 DEF Anomaly!Busier
      <4>2. busy' \in Int /\ busy <= busy'
        BY <2>1, <2>5, <4>1, SpikeGrows
      <4>3. far' = far /\ new' = new
        BY <2>5, <4>1
      <4> QED
        BY <2>3, <2>4, <4>2, <4>3
    <3>3. CASE Anomaly!Unknown
      <4>1. new' \in Int /\ new <= new'
        BY <3>3 DEF Anomaly!Unknown, Anomaly!Stranger
      <4>2. far' = far /\ busy' = busy
        BY <2>5, <3>3 DEF Anomaly!Unknown
      <4> QED
        BY <2>3, <4>1, <4>2
    <3> QED
      BY <3>1, <3>2, <3>3 DEF Anomaly!Next
  <2>7. /\ Anomaly!Current = far + new + busy + share
        /\ Anomaly!Current' = far' + new' + busy' + share'
    BY DEF Anomaly!Current, Anomaly!Score
  <2> HIDE DEF far, new, busy, share
  <2>8. far' + new' + busy' + share >= far + new + busy + share
    BY <2>2, <2>3, <2>4, <2>6, SumGrows
  <2> QED
    BY <2>5, <2>7, <2>8
<1> HIDE DEF Inv
<1> QED
  BY <1>1, <1>2, <1>3, PartsStep, PTL DEF PartsSpec, NeverScoresLess

-----------------------------------------------------------------------------
(* The simulator *)

\* A process runs only for a simulation under way, and only a process that
\* runs listens.
OwnedByRunning ==
    /\ fPc \in [Sims -> {"idle", "ready", "call", "gas", "trace", "reap", "cut", "done"}]
    /\ fAlive \subseteq Sims
    /\ \A s \in fAlive : fPc[s] \notin {"idle", "done"}
    /\ fListener \in [Ports -> fAlive \cup {Null}]

ForksInv == part = "forks" => OwnedByRunning

LEMMA ForksStep ==
    ASSUME OwnedByRunning, NEW s \in Sims,
           \/ Forks!Start(s) \/ Forks!NoBackend(s) \/ Forks!Bind(s) \/ Forks!Dies(s)
           \/ Forks!Ready(s) \/ Forks!NotReady(s) \/ Forks!EthCall(s) \/ Forks!EstimateGas(s)
           \/ Forks!Report(s) \/ Forks!Cancel(s)
           \/ Forks!Exits(s) \/ Forks!Reaped(s) \/ Forks!Kill(s) \/ Forks!CancelReap(s)
    PROVE  OwnedByRunning'
<1> USE DEF OwnedByRunning, Forks!Goto
<1>1. CASE Forks!Start(s)
  BY <1>1 DEF Forks!Start
<1>2. CASE Forks!NoBackend(s)
  BY <1>2 DEF Forks!NoBackend
<1>3. CASE Forks!Bind(s)
  <2>1. fPc' = fPc /\ s \in fAlive /\ \A p \in Ports : fListener[p] # s
    BY <1>3 DEF Forks!Bind
  <2>2. CASE fListener' = [fListener EXCEPT ![fPort[s]] = s] /\ fAlive' = fAlive
    BY <2>1, <2>2
  <2>3. CASE fAlive' = fAlive \ {s} /\ fListener' = fListener
    BY <2>1, <2>3
  <2> QED
    BY <1>3, <2>2, <2>3 DEF Forks!Bind
<1>4. ASSUME fAlive' = fAlive \ {s}, fListener' = Forks!Freed(s),
             fPc' = fPc \/ fPc' = [fPc EXCEPT ![s] = "done"]
      PROVE  OwnedByRunning'
  BY <1>4 DEF Forks!Freed
<1>5. CASE Forks!Dies(s) \/ Forks!Exits(s) \/ Forks!Kill(s)
  BY <1>4, <1>5 DEF Forks!Dies, Forks!Exits, Forks!Kill
<1>6. ASSUME UNCHANGED <<fAlive, fListener>>, fPc[s] \notin {"idle", "done"},
             NEW q \in {"call", "gas", "trace", "reap", "cut"}, fPc' = [fPc EXCEPT ![s] = q]
      PROVE  OwnedByRunning'
  BY <1>6
<1>7. CASE Forks!Ready(s) \/ Forks!NotReady(s)
  BY <1>6, <1>7 DEF Forks!Ready, Forks!NotReady
<1>8. CASE Forks!EthCall(s) \/ Forks!EstimateGas(s)
  BY <1>6, <1>8 DEF Forks!EthCall, Forks!EstimateGas
<1>9. CASE Forks!Report(s) \/ Forks!Cancel(s) \/ Forks!CancelReap(s)
  BY <1>6, <1>9 DEF Forks!Report, Forks!Cancel, Forks!CancelReap
<1>10. CASE Forks!Reaped(s)
  BY <1>10 DEF Forks!Reaped
<1> QED
  BY <1>1, <1>2, <1>3, <1>5, <1>7, <1>8, <1>9, <1>10

\* A simulation that is over leaves its process running or its port taken only
\* if the budget ended its wait in `finally`, whether it was answered, failed or
\* was cancelled before, and whoever else picked its port (simulator.py,
\* simulate); for any number of both.
THEOREM ForkLeftOnlyIfCutHolds == PartsSpec => []ForkLeftOnlyIfCut
<1>1. PartsInit => ForksInv
  BY DEF PartsInit, Forks!Init, ForksInv, OwnedByRunning
<1>2. ForksInv /\ UNCHANGED part /\ [Forks!Next]_fVars => ForksInv'
  <2> SUFFICES ASSUME OwnedByRunning, [Forks!Next]_fVars PROVE OwnedByRunning'
    BY DEF ForksInv
  <2>1. CASE UNCHANGED fVars
    BY <2>1 DEF fVars, OwnedByRunning
  <2> QED
    BY <2>1, ForksStep DEF Forks!Next
<1>3. ForksInv => ForkLeftOnlyIfCut
  <2> SUFFICES ASSUME OwnedByRunning, NEW s \in Sims, fPc[s] = "done"
               PROVE  s \notin fAlive /\ \A p \in Ports : fListener[p] # s
    BY DEF ForksInv, ForkLeftOnlyIfCut, Forks!ForkLeftOnlyIfCut
  <2>1. Null \notin Sims
    BY PartConstants DEF Forks!SimulatorConstants
  <2> QED
    BY <2>1 DEF OwnedByRunning
<1> QED
  BY <1>1, <1>2, <1>3, PartsStep, PTL DEF PartsSpec
=============================================================================
