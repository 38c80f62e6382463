--------------------------- MODULE ScreeningProofs ---------------------------
(***************************************************************************)
(* What a screening may never do, for any number of requests, any policy   *)
(* and any signals: approve what was not verified, approve a first         *)
(* contact, answer anything but a rejection while the agent is halted, or  *)
(* approve what takes the spending it was sent with over a limit.  The     *)
(* last rests on sums over the ledger, whose laws are proved here from the *)
(* recursion that defines them, by way of a least counterexample.          *)
(***************************************************************************)
EXTENDS Screening, FiniteSetTheorems, WellFoundedInduction, TLAPS

Signals == DOMAIN NoSignals
Simulations == {"trivial", "diff", "reverted", "error"}
Decided == {"persist", "reply"}
Read == {"used", "recent", "known", "decide"}

ShapeOK ==
    /\ halted \in BOOLEAN
    /\ ledger \in Seq([req : Requests, decision : Decisions])
    /\ pc \in [Requests -> Stages]
    /\ answer \in [Requests -> Answers]
    /\ haltedSince \in [Requests -> BOOLEAN]
    /\ old \in 0..Len(ledger) /\ before \in [Requests -> 0..Len(ledger)]

\* The signals that weigh on the confidence are in the range of what computes
\* them.
SignalsOK ==
    /\ DOMAIN sig = Requests
    /\ \A r \in Requests :
           /\ DOMAIN sig[r] = Signals
           /\ sig[r].conf \in 0..100
           /\ sig[r].anomaly \in Scores \cup {Null}
           /\ sig[r].risk \in Risks \cup {Null}

\* Nothing is decided before its stage, or answered before the end.
StageOK ==
    \A r \in Requests :
        /\ pc[r] \in Read => sig[r].sim \in Simulations
        /\ pc[r] \notin Decided \cup {"done"} => sig[r].decision = Null
        /\ pc[r] \in Decided => sig[r].decision \in Decisions
        /\ pc[r] # "done" => answer[r] = Null

\* A row is what its request decided.
LedgerOK ==
    \A i \in Rows : /\ pc[ledger[i].req] \in {"reply", "done"}
                    /\ sig[ledger[i].req].decision = ledger[i].decision

StageInv == ShapeOK /\ SignalsOK /\ StageOK /\ LedgerOK

\* What an approval rests on.
Verified(s) ==
    /\ s.sim \in {"trivial", "diff"}
    /\ s.risk \notin {"critical", "drain"}
    /\ s.anomaly # Null => 100 - s.anomaly >= Threshold

VerifiedOK == \A r \in Requests : sig[r].decision = "approve" => Verified(sig[r])

\* Requests sent to a halted agent get no further than its kill switch.
HaltedOK ==
    \A r \in Requests : haltedSince[r] =>
        /\ halted
        /\ pc[r] \in {"agent", "done"}
        /\ answer[r] \in {"reject", "unavailable", Null}
        /\ \A i \in Rows : ledger[i].req # r

\* A counterparty that was read as known, or approved, is in the ledger.
FirstOK ==
    /\ \A r \in Requests :
           /\ pc[r] = "decide" => sig[r].known \subseteq Known
           /\ pc[r] = "persist" /\ sig[r].decision = "approve" /\ Usd[r] > 0
                => To[r] \in Known
    /\ FirstContactWaits

-----------------------------------------------------------------------------
(* The policy engine and the decision *)

\* The rule that decides is one of the nine, and none of them approves.
LEMMA EvaluateApproves ==
    ASSUME NEW p, NEW r, NEW c
    PROVE  /\ Evaluate(p, r, c) \in Decisions
           /\ Evaluate(p, r, c) = "approve" => Applying(Rules(p, r, c)) = {}
<1> DEFINE rules == Rules(p, r, c)
           hits == Applying(rules)
<1>1. DOMAIN rules = 1..9
  BY DEF Rules
<1>2. \A i \in 1..9 : rules[i].decision \in {"reject", "escalate"}
  BY DEF Rules, Rule
<1>3. hits \subseteq 1..9
  BY <1>1 DEF Applying
<1> HIDE DEF rules
<1>4. ASSUME hits # {} PROVE \E i \in hits : \A j \in hits : i <= j
  <2> HIDE DEF hits
  <2> DEFINE From(n) == \A j \in hits : n <= j
  <2> SUFFICES ASSUME \A i \in hits : ~From(i) PROVE FALSE
    OBVIOUS
  <2>1. ASSUME NEW n \in 1..9, From(n) PROVE From(n + 1)
    BY <2>1, <1>3
  <2>2. From(1)
    BY <1>3
  <2> HIDE DEF From
  <2>3. From(1 + 1 + 1 + 1 + 1)
    BY <2>1, <2>2
  <2>4. From(10)
    BY <2>1, <2>3
  <2>5. PICK i \in hits : i \in 1..9
    BY <1>3, <1>4
  <2>6. 10 <= i
    BY <2>4 DEF From
  <2> QED
    BY <2>5, <2>6
<1>5. ASSUME hits # {}
      PROVE  rules[CHOOSE i \in hits : \A j \in hits : i <= j].decision
                 \in {"reject", "escalate"}
  <2>1. (CHOOSE i \in hits : \A j \in hits : i <= j) \in hits
    BY <1>4, <1>5
  <2> QED
    BY <2>1, <1>2, <1>3
<1> QED
  BY <1>5 DEF Evaluate, rules, Decisions

\* An approved transfer of value goes to a known counterparty.
LEMMA ApprovedIsKnown ==
    ASSUME NEW r \in Requests, Verdict(r) = "approve", Usd[r] > 0
    PROVE  To[r] \in sig[r].known
<1> DEFINE req == RequestOf(r)
           ctx == [used |-> sig[r].used, recent |-> sig[r].recent, known |-> sig[r].known,
                   anomaly |-> sig[r].anomaly, minute |-> 0]
           rules == Rules(Policy, req, ctx)
<1>1. Applying(rules) = {}
  BY EvaluateApproves DEF Verdict
<1>2. 9 \in DOMAIN rules /\ rules[9].applies
        = (req.usd > 0 /\ req.to # Null /\ req.to \notin ctx.known)
  BY DEF Rules, Rule
<1> HIDE DEF rules
<1>3. ~rules[9].applies
  BY <1>1, <1>2 DEF Applying
<1>4. To[r] # Null
  BY NullIsApart, ScreeningConstants
<1> QED
  BY <1>2, <1>3, <1>4 DEF RequestOf

\* A confidence at the threshold rules out the gravest risks, and an anomaly
\* that comes within the threshold of certainty.
LEMMA ConfidenceBound ==
    ASSUME NEW c \in 0..100, NEW a \in 0..100, NEW f \in 0..100, NEW t \in Nat,
           ((100 + c) * (100 - a) * f + 100) \div 200 >= 100 * t
    PROVE  100 - a >= t /\ f >= t
<1> DEFINE x == 100 + c
           y == 100 - a
<1>1. x \in 0..200 /\ y \in 0..100
  OBVIOUS
<1> HIDE DEF x, y
<1>2. x * y \in Nat /\ x * y <= 200 * y
  BY <1>1
<1>3. (x * y) * f \in Nat /\ (x * y) * f <= (200 * y) * f
  BY <1>1, <1>2
<1>4. y * f \in Nat /\ y * f <= 100 * y /\ y * f <= 100 * f
  BY <1>1
<1>5. (200 * y) * f = 200 * (y * f)
  BY <1>1
<1>6. (x * y) * f + 100 >= 200 * (100 * t)
  <2> DEFINE z == (x * y) * f + 100
  <2>1. z \in Nat /\ z \div 200 >= 100 * t
    BY <1>3 DEF x, y
  <2> HIDE DEF z
  <2>2. z \div 200 \in Nat /\ z >= 200 * (z \div 200)
    BY <2>1
  <2>3. z >= 200 * (100 * t)
    BY <2>1, <2>2
  <2> QED
    BY <2>3 DEF z
<1>7. 200 * (y * f) + 100 >= 200 * (100 * t)
  BY <1>3, <1>4, <1>5, <1>6
<1>8. y * f >= 100 * t
  BY <1>4, <1>7
<1>9. y >= t /\ f >= t
  BY <1>1, <1>4, <1>8
<1> QED
  BY <1>9 DEF y

LEMMA ApprovalVerified ==
    ASSUME Threshold > 30, NEW v, NEW s,
           s.conf \in 0..100, s.anomaly \in Scores \cup {Null}, s.risk \in Risks \cup {Null},
           s.sim \in Simulations, Final(v, s) = "approve"
    PROVE  Verified(s) /\ v = "approve"
<1> DEFINE a == IF s.anomaly = Null THEN 0 ELSE s.anomaly
           f == IF s.risk = Null THEN 100 ELSE RiskFactor[s.risk]
<1>1. s.sim \in {"trivial", "diff"} /\ v = "approve" /\ ~(Confidence(s) < 100 * Threshold)
  BY DEF Final, Simulations
<1>2. a \in 0..100
  <2>1. CASE s.anomaly = Null
    BY <2>1
  <2>2. CASE s.anomaly # Null
    <3>1. s.anomaly \in Scores
      BY <2>2
    <3>2. s.anomaly \in 0..100
      BY <3>1, ScreeningConstants
    <3> QED
      BY <3>2, <2>2
  <2> QED
    BY <2>1, <2>2
<1>3. f \in 0..100 /\ (s.risk \in {"critical", "drain"} => f <= 30)
  <2>1. CASE s.risk = Null
    BY <2>1, ScreeningConstants DEF RiskFactor
  <2>2. CASE s.risk # Null
    <3>1. s.risk \in {"low", "medium", "high", "critical", "drain"}
      BY <2>2, ScreeningConstants DEF RiskFactor
    <3>2. /\ RiskFactor["low"] = 100 /\ RiskFactor["medium"] = 85 /\ RiskFactor["high"] = 60
          /\ RiskFactor["critical"] = 30 /\ RiskFactor["drain"] = 0
      BY DEF RiskFactor
    <3>3. f = RiskFactor[s.risk]
      BY <2>2
    <3> QED
      BY <3>1, <3>2, <3>3
  <2> QED
    BY <2>1, <2>2
<1>4. Confidence(s) = ((100 + s.conf) * (100 - a) * f + 100) \div 200
  BY DEF Confidence
<1> HIDE DEF a, f
<1>5. Confidence(s) \in Int
  <2>1. (100 + s.conf) * (100 - a) \in Int
    BY <1>2
  <2>2. (100 + s.conf) * (100 - a) * f \in Int
    BY <2>1, <1>3
  <2> QED
    BY <2>2, <1>4
<1>6. Threshold \in Nat
  BY ScreeningConstants
<1>7. 100 - a >= Threshold /\ f >= Threshold
  <2>1. Confidence(s) >= 100 * Threshold
    BY <1>1, <1>5, <1>6
  <2>2. ((100 + s.conf) * (100 - a) * f + 100) \div 200 >= 100 * Threshold
    BY <2>1, <1>4
  <2> QED
    <3> DEFINE k == s.conf
    <3>1. k \in 0..100 /\ ((100 + k) * (100 - a) * f + 100) \div 200 >= 100 * Threshold
      BY <2>2
    <3> HIDE DEF k
    <3> QED
      BY <3>1, <1>2, <1>3, <1>6, ConfidenceBound
<1>8. s.anomaly # Null => 100 - s.anomaly >= Threshold
  BY <1>7 DEF a
<1>9. s.risk \notin {"critical", "drain"}
  BY <1>3, <1>6, <1>7
<1> QED
  BY <1>1, <1>8, <1>9 DEF Verified

-----------------------------------------------------------------------------
(* The stages *)

\* The decision of a request is one of the three.
LEMMA FinalType ==
    ASSUME NEW v \in Decisions, NEW s
    PROVE  Final(v, s) \in Decisions
<1> QED
  BY DEF Final, Decisions

\* A step of one request changes the signals and the place of no other.
LEMMA Others ==
    ASSUME StageInv, NEW r \in Requests, Send(r) \/ Step(r), NEW q \in Requests, q # r
    PROVE  sig'[q] = sig[q] /\ pc'[q] = pc[q] /\ answer'[q] = answer[q]
<1> QED
  BY DEF StageInv, ShapeOK, SignalsOK, Send, Step, LoadAgent, Advise, ReadUsed, ReadRecent,
         ReadKnown, Decide, FailClosed, Persist, PersistFails, Respond, Reply, Goto, Note,
         vars, tables, history

\* The deciding stage, in terms of what it leaves to the request.
LEMMA DecideEffect ==
    ASSUME StageInv, NEW r \in Requests, Decide(r)
    PROVE  \E s : /\ s.conf = sig[r].conf /\ s.anomaly = sig[r].anomaly /\ s.sim = sig[r].sim
                  /\ s.risk \in Risks \cup {Null}
                  /\ Final(Verdict(r), s) \in Decisions
                  /\ sig'[r].decision = Final(Verdict(r), s)
                  /\ DOMAIN sig' = Requests /\ DOMAIN sig'[r] = Signals
                  /\ IF Final(Verdict(r), s) = "approve"
                     THEN /\ sig'[r].conf = s.conf /\ sig'[r].anomaly = s.anomaly
                          /\ sig'[r].sim = s.sim /\ sig'[r].risk = s.risk
                     ELSE sig'[r] = [NoSignals EXCEPT !.decision = Final(Verdict(r), s)]
<1>1. PICK risk \in Risks \cup {Null} :
        LET s == [sig[r] EXCEPT !.risk = risk]
            d == Final(Verdict(r), s)
        IN  sig' = [sig EXCEPT ![r] =
                   IF d = "approve"
                   THEN [s EXCEPT !.decision = d,
                                  !.used = 0, !.recent = 0, !.known = {}]
                   ELSE [NoSignals EXCEPT !.decision = d]]
  BY DEF Decide
<1> DEFINE s == [sig[r] EXCEPT !.risk = risk]
           d == Final(Verdict(r), s)
<1>2. DOMAIN sig[r] = Signals /\ DOMAIN sig = Requests
  BY DEF StageInv, SignalsOK
<1>3. /\ s.conf = sig[r].conf /\ s.anomaly = sig[r].anomaly /\ s.sim = sig[r].sim
      /\ s.risk = risk /\ DOMAIN s = Signals
  BY <1>2 DEF Signals, NoSignals
<1>4. d \in Decisions
  BY EvaluateApproves, FinalType DEF Verdict
<1>5. sig'[r] = IF d = "approve"
                THEN [s EXCEPT !.decision = d, !.used = 0, !.recent = 0, !.known = {}]
                ELSE [NoSignals EXCEPT !.decision = d]
  BY <1>1, <1>2
<1> HIDE DEF s, d
<1>6. CASE d = "approve"
  <2>1. /\ sig'[r].conf = s.conf /\ sig'[r].anomaly = s.anomaly
        /\ sig'[r].sim = s.sim /\ sig'[r].risk = s.risk
        /\ sig'[r].decision = d /\ DOMAIN sig'[r] = Signals
    BY <1>3, <1>5, <1>6 DEF Signals, NoSignals
  <2> QED
    BY <2>1, <1>1, <1>2, <1>3, <1>4, <1>6 DEF d
<1>7. CASE d # "approve"
  <2>1. sig'[r].decision = d /\ DOMAIN sig'[r] = Signals
    BY <1>5, <1>7 DEF Signals, NoSignals
  <2> QED
    BY <2>1, <1>1, <1>2, <1>3, <1>4, <1>5, <1>7 DEF d
<1> QED
  BY <1>6, <1>7

\* A step that keeps one request's signals in range keeps all.
LEMMA SignalsUpdated ==
    ASSUME StageInv, NEW r \in Requests,
           DOMAIN sig' = Requests, DOMAIN sig'[r] = Signals,
           sig'[r].conf \in 0..100, sig'[r].anomaly \in Scores \cup {Null},
           sig'[r].risk \in Risks \cup {Null},
           \A q \in Requests \ {r} : sig'[q] = sig[q]
    PROVE  SignalsOK'
<1> QED
  BY DEF StageInv, SignalsOK

\* The request of a row, and where it is.
LEMMA RowOf ==
    ASSUME StageInv, NEW i \in Rows
    PROVE  /\ ledger[i].req \in Requests
           /\ pc[ledger[i].req] \in {"reply", "done"}
           /\ sig[ledger[i].req].decision = ledger[i].decision
<1> DEFINE Row == [req : Requests, decision : Decisions]
<1>1. ledger \in Seq(Row)
  BY DEF StageInv, ShapeOK
<1> HIDE DEF Row
<1>2. ledger[i] \in Row
  BY <1>1 DEF Rows
<1> QED
  BY <1>2 DEF StageInv, LedgerOK, Row

\* The signals of every request stay in their ranges.
LEMMA SignalsPreserved ==
    ASSUME StageInv, [Next]_vars
    PROVE  SignalsOK'
<1> USE ScreeningConstants DEF StageInv, ShapeOK, SignalsOK, Signals, NoSignals
<1>1. ASSUME NEW r \in Requests, Advise(r) PROVE SignalsOK'
  <2>1. PICK conf \in Confs \cup {100}, sim \in {"trivial", "diff", "reverted", "error"} :
            sig' = [sig EXCEPT ![r].conf = conf, ![r].sim = sim]
    BY <1>1 DEF Advise
  <2>2. /\ DOMAIN sig' = Requests /\ DOMAIN sig'[r] = Signals
        /\ sig'[r].conf = conf
        /\ sig'[r].anomaly = sig[r].anomaly /\ sig'[r].risk = sig[r].risk
        /\ \A q \in Requests \ {r} : sig'[q] = sig[q]
    BY <2>1
  <2>3. conf \in 0..100
    OBVIOUS
  <2>4. /\ sig'[r].conf \in 0..100 /\ sig'[r].anomaly \in Scores \cup {Null}
        /\ sig'[r].risk \in Risks \cup {Null}
    BY <2>2, <2>3
  <2> HIDE DEF StageInv, SignalsOK, Signals
  <2> QED
    BY <2>2, <2>4, SignalsUpdated
<1>2. ASSUME NEW r \in Requests, ReadUsed(r) \/ ReadRecent(r) PROVE SignalsOK'
  <2>1. \/ sig' = [sig EXCEPT ![r].used = Spent]
        \/ sig' = [sig EXCEPT ![r].recent = Len(ledger) - old]
    BY <1>2 DEF ReadUsed, ReadRecent, Note
  <2>2. /\ DOMAIN sig' = Requests /\ DOMAIN sig'[r] = Signals
        /\ sig'[r].conf = sig[r].conf
        /\ sig'[r].anomaly = sig[r].anomaly /\ sig'[r].risk = sig[r].risk
        /\ \A q \in Requests \ {r} : sig'[q] = sig[q]
    BY <2>1
  <2> QED
    BY <2>2
<1>3. ASSUME NEW r \in Requests, ReadKnown(r) PROVE SignalsOK'
  <2>1. PICK a \in Scores \cup {Null} :
            sig' = [sig EXCEPT ![r].known = Known, ![r].anomaly = a]
    BY <1>3 DEF ReadKnown
  <2>2. /\ DOMAIN sig' = Requests /\ DOMAIN sig'[r] = Signals
        /\ sig'[r].anomaly = a
        /\ sig'[r].conf = sig[r].conf /\ sig'[r].risk = sig[r].risk
        /\ \A q \in Requests \ {r} : sig'[q] = sig[q]
    BY <2>1
  <2> QED
    BY <2>2
<1>4. ASSUME NEW r \in Requests, Decide(r) PROVE SignalsOK'
  <2>1. ASSUME NEW q \in Requests, q # r PROVE sig'[q] = sig[q]
    BY <1>4, <2>1, Others DEF Step
  <2>2. PICK s : /\ s.conf = sig[r].conf /\ s.anomaly = sig[r].anomaly
                 /\ s.risk \in Risks \cup {Null}
                 /\ DOMAIN sig' = Requests /\ DOMAIN sig'[r] = Signals
                 /\ IF Final(Verdict(r), s) = "approve"
                    THEN /\ sig'[r].conf = s.conf /\ sig'[r].anomaly = s.anomaly
                         /\ sig'[r].risk = s.risk
                    ELSE sig'[r] = [NoSignals EXCEPT !.decision = Final(Verdict(r), s)]
    <3> HIDE DEF StageInv, ShapeOK, SignalsOK, Signals, NoSignals
    <3> QED
      BY <1>4, DecideEffect
  <2>3. /\ sig'[r].conf \in 0..100
        /\ sig'[r].anomaly \in Scores \cup {Null} /\ sig'[r].risk \in Risks \cup {Null}
    BY <2>2
  <2> QED
    BY <2>1, <2>2, <2>3
<1>5. ASSUME NEW r \in Requests, FailClosed(r) PROVE SignalsOK'
  BY <1>5 DEF FailClosed
<1>6. CASE UNCHANGED sig
  BY <1>6
<1> QED
  BY <1>1, <1>2, <1>3, <1>4, <1>5, <1>6
     DEF Next, Step, Send, LoadAgent, Persist, PersistFails, Respond, Halt, Resume, Age, vars

\* A decision is taken in its stage, and answered at the end.
LEMMA StagePreserved ==
    ASSUME StageInv, [Next]_vars
    PROVE  StageOK'
<1> USE DEF StageInv, ShapeOK, SignalsOK, StageOK, Signals, NoSignals, Read, Decided,
            Simulations, Goto, Stages
<1>1. ASSUME NEW r \in Requests, Send(r) \/ LoadAgent(r) PROVE StageOK'
  BY <1>1 DEF Send, LoadAgent, Reply
<1>2. ASSUME NEW r \in Requests, Advise(r) PROVE StageOK'
  BY <1>2 DEF Advise
<1>3. ASSUME NEW r \in Requests, ReadUsed(r) \/ ReadRecent(r) PROVE StageOK'
  BY <1>3 DEF ReadUsed, ReadRecent, Note
<1>4. ASSUME NEW r \in Requests, ReadKnown(r) PROVE StageOK'
  BY <1>4 DEF ReadKnown
<1>5. ASSUME NEW r \in Requests, Decide(r) PROVE StageOK'
  <2>1. ASSUME NEW q \in Requests, q # r
        PROVE  sig'[q] = sig[q] /\ pc'[q] = pc[q] /\ answer'[q] = answer[q]
    BY <1>5, <2>1, Others DEF Step
  <2>2. sig'[r].decision \in Decisions
    <3> HIDE DEF StageInv, ShapeOK, SignalsOK, StageOK, Signals, NoSignals
    <3> QED
      BY <1>5, DecideEffect
  <2>3. pc[r] = "decide" /\ pc'[r] = "persist" /\ answer'[r] = answer[r]
    BY <1>5 DEF Decide
  <2> QED
    BY <2>1, <2>2, <2>3
<1>6. ASSUME NEW r \in Requests, FailClosed(r) PROVE StageOK'
  BY <1>6 DEF FailClosed, Reply
<1>7. ASSUME NEW r \in Requests, Persist(r) \/ PersistFails(r) \/ Respond(r) PROVE StageOK'
  BY <1>7 DEF Persist, PersistFails, Respond, Reply
<1>8. CASE UNCHANGED <<pc, sig, answer>>
  BY <1>8
<1> QED
  BY <1>1, <1>2, <1>3, <1>4, <1>5, <1>6, <1>7, <1>8 DEF Next, Step, Halt, Resume, Age, vars

\* The row a step adds is the decision of the request that adds it.
LEMMA LedgerStep ==
    ASSUME StageInv, [Next]_vars
    PROVE  /\ ledger' \in Seq([req : Requests, decision : Decisions])
           /\ Rows \subseteq Rows'
           /\ \A i \in Rows : ledger'[i] = ledger[i]
           /\ \A i \in Rows' \ Rows :
                  \E r \in Requests : /\ Persist(r) /\ ledger'[i].req = r
                                      /\ ledger'[i].decision = sig[r].decision
                                      /\ i = Len(ledger) + 1
<1>1. ASSUME NEW r \in Requests, Persist(r)
      PROVE  /\ ledger' \in Seq([req : Requests, decision : Decisions])
             /\ DOMAIN ledger' = 1..(Len(ledger) + 1) /\ DOMAIN ledger = 1..Len(ledger)
             /\ \A i \in Rows : ledger'[i] = ledger[i]
             /\ ledger'[Len(ledger) + 1].req = r
             /\ ledger'[Len(ledger) + 1].decision = sig[r].decision
  <2> DEFINE row == [req |-> r, decision |-> sig[r].decision]
  <2>1. row \in [req : Requests, decision : Decisions] /\ row.req = r
        /\ row.decision = sig[r].decision
    BY <1>1 DEF Persist, StageInv, StageOK, Decided
  <2>2. ledger' = Append(ledger, row)
    BY <1>1 DEF Persist
  <2> HIDE DEF row
  <2> QED
    BY <2>1, <2>2 DEF StageInv, ShapeOK, Rows
<1>2. CASE UNCHANGED ledger
  BY <1>2 DEF StageInv, ShapeOK, Rows
<1>3. ASSUME NEW r \in Requests, Persist(r)
      PROVE  /\ Rows \subseteq Rows'
             /\ \A i \in Rows' \ Rows : i = Len(ledger) + 1
  BY <1>1, <1>3 DEF Rows, StageInv, ShapeOK
<1>4. (\E r \in Requests : Persist(r)) \/ UNCHANGED ledger
  BY DEF Next, Step, Send, LoadAgent, Advise, ReadUsed, ReadRecent, ReadKnown, Decide,
         FailClosed, PersistFails, Respond, Halt, Resume, Age, vars, tables
<1>5. CASE \E r \in Requests : Persist(r)
  BY <1>1, <1>3, <1>5
<1> QED
  BY <1>2, <1>4, <1>5

THEOREM StageInvariant == Spec => []StageInv
<1>1. Init => StageInv
  <2> SUFFICES ASSUME Init PROVE StageInv
    OBVIOUS
  <2>1. ShapeOK /\ LedgerOK
    <3>1. ledger \in Seq([req : Requests, decision : Decisions]) /\ Rows = {}
      BY DEF Init, Rows
    <3>2. /\ halted \in BOOLEAN /\ haltedSince \in [Requests -> BOOLEAN]
          /\ pc \in [Requests -> Stages] /\ answer \in [Requests -> Answers]
      BY DEF Init, Stages, Answers
    <3>3. old \in 0..Len(ledger) /\ before \in [Requests -> 0..Len(ledger)]
      <4>1. Len(ledger) = 0
        BY DEF Init
      <4> QED
        BY <4>1 DEF Init
    <3> QED
      BY <3>1, <3>2, <3>3 DEF ShapeOK, LedgerOK
  <2>2. SignalsOK /\ StageOK
    BY DEF Init, SignalsOK, StageOK, Signals, NoSignals, Read, Decided
  <2> QED
    BY <2>1, <2>2 DEF StageInv
<1>2. StageInv /\ [Next]_vars => StageInv'
  <2> SUFFICES ASSUME StageInv, [Next]_vars PROVE StageInv'
    OBVIOUS
  <2>1. SignalsOK' /\ StageOK'
    BY SignalsPreserved, StagePreserved
  <2>2. ShapeOK'
    <3>1. ledger' \in Seq([req : Requests, decision : Decisions])
      BY LedgerStep
    <3>2. halted' \in BOOLEAN /\ haltedSince' \in [Requests -> BOOLEAN]
      BY DEF StageInv, ShapeOK, Next, Step, Send, LoadAgent, Advise, ReadUsed, ReadRecent,
             ReadKnown, Decide, FailClosed, Persist, PersistFails, Respond,
             Halt, Resume, Age, vars, tables, history
    <3>3. pc' \in [Requests -> Stages] /\ answer' \in [Requests -> Answers]
      <4>1. ASSUME NEW r \in Requests, Send(r) \/ Step(r)
            PROVE  pc' \in [Requests -> Stages] /\ answer' \in [Requests -> Answers]
        <5>1. \E stage \in Stages : Goto(r, stage)
          BY <4>1 DEF Step, Send, LoadAgent, Advise, ReadUsed, ReadRecent, ReadKnown, Decide,
             FailClosed, Persist, PersistFails, Respond, Reply, Stages
        <5>2. UNCHANGED answer \/ \E v \in Answers : Reply(r, v)
          BY <4>1 DEF Step, Send, LoadAgent, Advise, ReadUsed, ReadRecent, ReadKnown, Decide,
             FailClosed, Persist, PersistFails, Respond, Answers, Decisions, StageInv,
             StageOK, Decided
        <5> QED
          BY <5>1, <5>2 DEF Goto, Reply, StageInv, ShapeOK
      <4>2. CASE UNCHANGED <<pc, answer>>
        BY <4>2 DEF StageInv, ShapeOK
      <4> QED
        BY <4>1, <4>2 DEF Next, Halt, Resume, Age, vars
    <3>4. Len(ledger) \in Nat /\ Len(ledger') \in Nat /\ Len(ledger) <= Len(ledger')
      <4>1. Rows = 1..Len(ledger) /\ Len(ledger) \in Nat
        BY DEF Rows, StageInv, ShapeOK
      <4>2. Rows' = 1..Len(ledger') /\ Len(ledger') \in Nat
        BY <3>1 DEF Rows
      <4>3. Rows \subseteq Rows'
        BY LedgerStep
      <4> QED
        BY <4>1, <4>2, <4>3
    <3>5. old' \in 0..Len(ledger')
      <4>1. old' = old \/ (Age /\ old' = old + 1)
        BY DEF Next, Step, Send, LoadAgent, Advise, ReadUsed, ReadRecent, ReadKnown, Decide,
           FailClosed, Persist, PersistFails, Respond, Halt, Resume, Age, vars, tables
      <4> QED
        BY <3>4, <4>1 DEF Age, StageInv, ShapeOK
    <3>6. before' \in [Requests -> 0..Len(ledger')]
      <4>1. before' = before \/ \E r \in Requests : before' = [before EXCEPT ![r] = Len(ledger)]
        BY DEF Next, Step, Send, LoadAgent, Advise, ReadUsed, ReadRecent, ReadKnown, Decide,
           FailClosed, Persist, PersistFails, Respond, Halt, Resume, Age, vars, history
      <4>2. before \in [Requests -> 0..Len(ledger')]
        BY <3>4 DEF StageInv, ShapeOK
      <4> QED
        BY <3>4, <4>1, <4>2
    <3> QED
      BY <3>1, <3>2, <3>3, <3>5, <3>6 DEF ShapeOK
  <2>3. LedgerOK'
    <3> SUFFICES ASSUME NEW i \in Rows'
                 PROVE  /\ pc'[ledger'[i].req] \in {"reply", "done"}
                        /\ sig'[ledger'[i].req].decision = ledger'[i].decision
      BY DEF LedgerOK
    <3>1. CASE i \in Rows
      <4> DEFINE q == ledger[i].req
      <4>1. q \in Requests /\ pc[q] \in {"reply", "done"} /\ ledger'[i] = ledger[i]
            /\ sig[q].decision = ledger[i].decision
        BY <3>1, LedgerStep, RowOf
      <4> HIDE DEF q
      <4>2. sig'[q] = sig[q] /\ pc'[q] \in {"reply", "done"}
        <5>1. ASSUME NEW r \in Requests, Send(r) \/ Step(r), r # q
              PROVE  sig'[q] = sig[q] /\ pc'[q] = pc[q]
          BY <4>1, <5>1, Others
        <5>2. ASSUME Send(q) \/ Step(q)
              PROVE  sig'[q] = sig[q] /\ pc'[q] \in {"reply", "done"}
          BY <4>1, <5>2 DEF StageInv, ShapeOK, Step, Send, LoadAgent, Advise, ReadUsed,
             ReadRecent, ReadKnown, Decide, FailClosed, Gating, Persist, PersistFails,
             Respond, Reply, Goto
        <5>3. CASE UNCHANGED <<sig, pc>>
          BY <4>1, <5>3
        <5> QED
          BY <4>1, <5>1, <5>2, <5>3 DEF Next, Halt, Resume, Age, vars
      <4> QED
        BY <4>1, <4>2 DEF q
    <3>2. CASE i \notin Rows
      <4>1. PICK r \in Requests : /\ Persist(r) /\ ledger'[i].req = r
                                  /\ ledger'[i].decision = sig[r].decision
        BY <3>2, LedgerStep
      <4> QED
        BY <4>1 DEF Persist, Goto, StageInv, ShapeOK
    <3> QED
      BY <3>1, <3>2
  <2> QED
    BY <2>1, <2>2, <2>3 DEF StageInv
<1> QED
  BY <1>1, <1>2, PTL DEF Spec

\* Every variable keeps its type, for any policy, signals and requests.
THEOREM TypeCorrect == Spec => []TypeOK
<1>1. StageInv => TypeOK
  BY DEF StageInv, ShapeOK, SignalsOK, Signals, TypeOK
<1> QED
  BY <1>1, StageInvariant, PTL

-----------------------------------------------------------------------------
(* What the ledger shows *)

\* Nothing is approved whose simulation failed, whose risk is a drain or
\* critical, or whose anomaly comes near the threshold of the policy, once the
\* threshold lies above what a critical risk leaves of the confidence.
THEOREM ApprovedVerified == ASSUME Threshold > 30 PROVE Spec => []ApprovedIsVerified
<1>1. Init => VerifiedOK
  BY ScreeningConstants DEF Init, VerifiedOK, NoSignals, Decisions
<1>2. StageInv /\ VerifiedOK /\ [Next]_vars => VerifiedOK'
  <2> SUFFICES ASSUME StageInv, VerifiedOK, [Next]_vars,
                      NEW q \in Requests, sig'[q].decision = "approve"
               PROVE  Verified(sig'[q])
    BY DEF VerifiedOK
  <2>1. ASSUME NEW r \in Requests, Decide(r), q = r PROVE Verified(sig'[q])
    <3>1. PICK s : /\ s.conf = sig[r].conf /\ s.anomaly = sig[r].anomaly
                   /\ s.sim = sig[r].sim /\ s.risk \in Risks \cup {Null}
                   /\ sig'[r].decision = Final(Verdict(r), s)
                   /\ Final(Verdict(r), s) = "approve" =>
                         /\ sig'[r].conf = s.conf /\ sig'[r].anomaly = s.anomaly
                         /\ sig'[r].sim = s.sim /\ sig'[r].risk = s.risk
      BY <2>1, DecideEffect
    <3>2. s.conf \in 0..100 /\ s.anomaly \in Scores \cup {Null} /\ s.sim \in Simulations
      BY <2>1, <3>1 DEF Decide, StageInv, SignalsOK, StageOK, Read
    <3>3. Verified(s)
      BY <2>1, <3>1, <3>2, ApprovalVerified
    <3> QED
      BY <2>1, <3>1, <3>3 DEF Verified
  <2>2. ASSUME NEW r \in Requests, Send(r) \/ Step(r), q # r PROVE Verified(sig'[q])
    BY <2>2, Others DEF VerifiedOK
  <2>3. ASSUME NEW r \in Requests, q = r,
               Advise(r) \/ ReadUsed(r) \/ ReadRecent(r) \/ ReadKnown(r) \/ FailClosed(r)
        PROVE  Verified(sig'[q])
    <3>1. sig'[r].decision = Null
      <4>1. CASE FailClosed(r)
        BY <4>1 DEF FailClosed, StageInv, SignalsOK, NoSignals
      <4>2. CASE ~FailClosed(r)
        <5>1. sig[r].decision = Null /\ DOMAIN sig = Requests /\ DOMAIN sig[r] = Signals
          BY <2>3, <4>2 DEF Advise, ReadUsed, ReadRecent, ReadKnown, StageInv, StageOK,
             SignalsOK, Decided
        <5>2. CASE Advise(r)
          BY <5>1, <5>2 DEF Advise, Signals, NoSignals
        <5>3. CASE ReadUsed(r) \/ ReadRecent(r)
          BY <5>1, <5>3 DEF ReadUsed, ReadRecent, Note, Signals, NoSignals
        <5>4. CASE ReadKnown(r)
          BY <5>1, <5>4 DEF ReadKnown, Signals, NoSignals
        <5> QED
          BY <2>3, <4>2, <5>2, <5>3, <5>4
      <4> QED
        BY <4>1, <4>2
    <3> QED
      BY <2>3, <3>1, ScreeningConstants DEF Decisions
  <2>4. CASE UNCHANGED sig
    BY <2>4 DEF VerifiedOK
  <2> QED
    BY <2>1, <2>2, <2>3, <2>4 DEF Next, Step, Send, LoadAgent, Persist, PersistFails, Respond,
       Halt, Resume, Age, vars
<1>3. StageInv /\ VerifiedOK => ApprovedIsVerified
  BY RowOf DEF VerifiedOK, Verified, ApprovedIsVerified, ApprovedRows
<1> QED
  BY <1>1, <1>2, <1>3, StageInvariant, PTL DEF Spec


\* While the kill switch is on, requests sent after it get no further than the
\* kill switch, however their handling overlaps with others.
THEOREM HaltedHolds == Spec => []HaltedRejects
<1>1. Init => HaltedOK
  BY DEF Init, HaltedOK
<1>2. StageInv /\ HaltedOK /\ [Next]_vars => HaltedOK'
  <2> SUFFICES ASSUME StageInv, HaltedOK, [Next]_vars,
                      NEW q \in Requests, haltedSince'[q]
               PROVE  /\ halted'
                      /\ pc'[q] \in {"agent", "done"}
                      /\ answer'[q] \in {"reject", "unavailable", Null}
                      /\ \A i \in Rows' : ledger'[i].req # q
    BY DEF HaltedOK
  <2> USE DEF StageInv, ShapeOK, Goto, Reply
  <2>1. CASE Send(q)
    <3>1. /\ halted' /\ pc'[q] = "agent" /\ answer'[q] = Null
          /\ ledger' = ledger /\ pc[q] = "new"
      BY <2>1 DEF Send, tables, StageOK
    <3>2. \A i \in Rows : ledger[i].req # q
      BY <3>1, RowOf
    <3> QED
      BY <3>1, <3>2 DEF Rows
  <2>2. ASSUME haltedSince[q]
        PROVE  /\ halted' /\ pc'[q] \in {"agent", "done"}
               /\ answer'[q] \in {"reject", "unavailable", Null}
    <3>1. /\ halted /\ pc[q] \in {"agent", "done"}
          /\ answer[q] \in {"reject", "unavailable", Null}
      BY <2>2 DEF HaltedOK
    <3>2. ~Send(q) /\ ~Resume
      BY <3>1 DEF Send, Resume
    <3>3. CASE Step(q)
      BY <3>1, <3>3 DEF Step, LoadAgent, Advise, ReadUsed, ReadRecent, ReadKnown, Decide,
         FailClosed, Persist, PersistFails, Respond, tables
    <3>4. ASSUME NEW r \in Requests, Send(r) \/ Step(r), r # q
          PROVE  pc'[q] = pc[q] /\ answer'[q] = answer[q] /\ halted' = halted
      <4>1. halted' = halted
        BY <3>4 DEF Step, Send, LoadAgent, Advise, ReadUsed, ReadRecent, ReadKnown, Decide,
         FailClosed, Persist, PersistFails, Respond, tables
      <4> QED
        BY <4>1, <3>4, Others
    <3>5. CASE Halt \/ Age \/ UNCHANGED vars
      BY <3>1, <3>5 DEF Halt, Age, vars, tables
    <3> QED
      BY <3>1, <3>2, <3>3, <3>4, <3>5 DEF Next
  <2>3. ASSUME haltedSince[q] PROVE \A i \in Rows' : ledger'[i].req # q
    <3>1. pc[q] \in {"agent", "done"} /\ \A i \in Rows : ledger[i].req # q
      BY <2>3 DEF HaltedOK
    <3>2. ASSUME NEW i \in Rows' \ Rows PROVE ledger'[i].req # q
      <4>1. PICK r \in Requests : Persist(r) /\ ledger'[i].req = r
        BY LedgerStep
      <4> QED
        BY <3>1, <4>1 DEF Persist
    <3> QED
      BY <3>1, <3>2, LedgerStep
  <2>4. haltedSince[q] \/ Send(q)
    BY DEF Next, Send, Step, LoadAgent, Advise, ReadUsed, ReadRecent, ReadKnown, Decide,
       FailClosed, Persist, PersistFails, Respond, Halt, Resume, Age, vars, history
  <2> QED
    BY <2>1, <2>2, <2>3, <2>4
<1>3. HaltedOK => HaltedRejects
  BY DEF HaltedOK, HaltedRejects
<1> QED
  BY <1>1, <1>2, <1>3, StageInvariant, PTL DEF Spec

\* Counterparties stay known.
LEMMA KnownGrows ==
    ASSUME StageInv, [Next]_vars
    PROVE  Known \subseteq Known'
<1> QED
  BY LedgerStep DEF Known

\* The first transaction with value to a counterparty the agent never dealt
\* with is not approved, whatever runs beside it.
THEOREM FirstContactHolds == Spec => []FirstContactWaits
<1>1. Init => FirstOK
  BY DEF Init, FirstOK, FirstContactWaits, ApprovedRows, Rows
<1>2. StageInv /\ FirstOK /\ [Next]_vars => FirstOK'
  <2> SUFFICES ASSUME StageInv, FirstOK, [Next]_vars PROVE FirstOK'
    OBVIOUS
  <2> USE DEF StageInv, ShapeOK, Goto, Reply
  <2>1. ASSUME NEW q \in Requests, pc'[q] = "decide" PROVE sig'[q].known \subseteq Known'
    <3>1. ASSUME NEW r \in Requests, Send(r) \/ Step(r), r # q
          PROVE  sig'[q].known \subseteq Known'
      BY <2>1, <3>1, Others, KnownGrows DEF FirstOK
    <3>2. CASE Send(q) \/ (Step(q) /\ ~ReadKnown(q))
      <4>1. pc \in [Requests -> Stages]
        OBVIOUS
      <4> HIDE DEF StageInv, ShapeOK
      <4>2. \E stage \in Stages \ {"decide"} : pc' = [pc EXCEPT ![q] = stage]
        BY <3>2 DEF Send, Step, LoadAgent, Advise, ReadUsed, ReadRecent, Decide,
           FailClosed, Persist, PersistFails, Respond, Stages
      <4> QED
        BY <2>1, <4>1, <4>2
    <3>3. CASE ReadKnown(q)
      <4>1. DOMAIN sig = Requests /\ DOMAIN sig[q] = Signals
        BY DEF SignalsOK
      <4>2. sig'[q].known = Known
        BY <3>3, <4>1 DEF ReadKnown, Signals, NoSignals
      <4> QED
        BY <4>2, KnownGrows
    <3>4. CASE UNCHANGED <<pc, sig>>
      BY <2>1, <3>4, KnownGrows DEF FirstOK
    <3> QED
      BY <3>1, <3>2, <3>3, <3>4 DEF Next, Halt, Resume, Age, vars
  <2>2. ASSUME NEW q \in Requests, pc'[q] = "persist", sig'[q].decision = "approve",
               Usd[q] > 0
        PROVE  To[q] \in Known'
    <3>1. ASSUME NEW r \in Requests, Send(r) \/ Step(r), r # q
          PROVE  To[q] \in Known'
      BY <2>2, <3>1, Others, KnownGrows DEF FirstOK
    <3>2. CASE Send(q) \/ (Step(q) /\ ~Decide(q))
      BY <2>2, <3>2 DEF Send, Step, LoadAgent, Advise, ReadUsed, ReadRecent, ReadKnown,
         FailClosed, Persist, PersistFails, Respond
    <3>3. CASE Decide(q)
      <4>1. PICK s : sig'[q].decision = Final(Verdict(q), s)
        BY <3>3, DecideEffect
      <4>2. Verdict(q) = "approve"
        BY <2>2, <4>1 DEF Final
      <4>3. To[q] \in sig[q].known
        BY <2>2, <4>2, ApprovedIsKnown
      <4> QED
        BY <3>3, <4>3, KnownGrows DEF Decide, FirstOK
    <3>4. CASE UNCHANGED <<pc, sig>>
      BY <2>2, <3>4, KnownGrows DEF FirstOK
    <3> QED
      BY <3>1, <3>2, <3>3, <3>4 DEF Next, Halt, Resume, Age, vars
  <2>3. FirstContactWaits'
    <3> SUFFICES ASSUME NEW i \in Rows', ledger'[i].decision = "approve",
                        Usd[ledger'[i].req] > 0, To[ledger'[i].req] \notin KnownBefore
                 PROVE  \E j \in 1..(i - 1) : To[ledger'[j].req] = To[ledger'[i].req]
      BY DEF FirstContactWaits, ApprovedRows
    <3>1. Rows = 1..Len(ledger) /\ Len(ledger) \in Nat
      BY DEF Rows
    <3>2. CASE i \in Rows
      <4>1. ledger'[i] = ledger[i] /\ i \in ApprovedRows
        BY <3>2, LedgerStep DEF ApprovedRows
      <4>2. PICK j \in 1..(i - 1) : To[ledger[j].req] = To[ledger[i].req]
        BY <4>1 DEF FirstOK, FirstContactWaits
      <4>3. j \in Rows
        BY <3>1, <3>2
      <4> QED
        BY <4>1, <4>2, <4>3, LedgerStep
    <3>3. CASE i \notin Rows
      <4>1. PICK r \in Requests : /\ Persist(r) /\ ledger'[i].req = r
                                  /\ ledger'[i].decision = sig[r].decision
                                  /\ i = Len(ledger) + 1
        BY <3>3, LedgerStep
      <4>2. To[r] \in Known
        BY <4>1 DEF Persist, FirstOK
      <4>3. PICK j \in Rows : To[ledger[j].req] = To[r]
        BY <4>1, <4>2 DEF Known
      <4>4. j \in 1..(i - 1) /\ ledger'[j] = ledger[j]
        BY <3>1, <4>1, LedgerStep
      <4> QED
        BY <4>1, <4>3, <4>4
    <3> QED
      BY <3>2, <3>3
  <2> QED
    BY <2>1, <2>2, <2>3 DEF FirstOK
<1>3. FirstOK => FirstContactWaits
  BY DEF FirstOK
<1> QED
  BY <1>1, <1>2, <1>3, StageInvariant, PTL DEF Spec

-----------------------------------------------------------------------------
(* Sums over a finite set *)

\* Every set of natural numbers that has an element has a least one.
LEMMA Least ==
    ASSUME NEW T, T \subseteq Nat, T # {}
    PROVE  \E n \in T : \A m \in T : n <= m
<1> DEFINE R == OpToRel(<, Nat)
<1>1. IsWellFoundedOn(R, Nat)
  BY NatLessThanWellFounded, Zenon
<1>2. R = {ss \in Nat \X Nat : ss[1] < ss[2]}
  BY DEF OpToRel
<1> HIDE DEF R
<1>3. PICK n \in T : \A m \in T : ~(<<m, n>> \in R)
  BY <1>1, WFMin
<1>4. \A m \in T : ~(m < n)
  BY <1>2, <1>3
<1> QED
  BY <1>4

\* The element a sum takes first, and what is left.
Chosen(s) == CHOOSE x \in s : TRUE
Rest(s) == s \ {Chosen(s)}
Added(v, g, s) == IF s = {} THEN 0 ELSE v[Chosen(s)] + g[Rest(s)]
Adds(v, g, S) == g = [s \in SUBSET S |-> Added(v, g, s)]

\* The fold of the community modules is this recursion.
LEMMA SumIs ==
    ASSUME NEW v, NEW S
    PROVE  SumFunctionOnSet(v, S) = (CHOOSE g : Adds(v, g, S))[S]
  BY DEF SumFunctionOnSet, FoldFunctionOnSet, MapThenFoldSet, Adds, Added, Chosen, Rest

\* What is left is smaller.
LEMMA RestIs ==
    ASSUME NEW s, s # {}, IsFiniteSet(s)
    PROVE  /\ Chosen(s) \in s
           /\ Rest(s) \subseteq s
           /\ IsFiniteSet(Rest(s))
           /\ Cardinality(s) \in Nat \ {0}
           /\ Cardinality(Rest(s)) = Cardinality(s) - 1
<1>1. Chosen(s) \in s
  BY DEF Chosen
<1>2. Cardinality(s) \in Nat /\ Cardinality(s) # 0
  BY FS_EmptySet, FS_CardinalityType
<1>3. IsFiniteSet(Rest(s)) /\ Cardinality(Rest(s)) = Cardinality(s) - 1
  BY <1>1, FS_RemoveElement DEF Rest
<1> QED
  BY <1>1, <1>2, <1>3 DEF Rest

\* The recursion has a solution.
LEMMA SumExists ==
    ASSUME NEW v, NEW S, IsFiniteSet(S), \A i \in S : v[i] \in Nat
    PROVE  \E g : Adds(v, g, S) /\ g \in [SUBSET S -> Nat]
<1> DEFINE Small(n) == {s \in SUBSET S : Cardinality(s) <= n}
           Solves(n, g) == /\ g \in [Small(n) -> Nat]
                           /\ \A s \in Small(n) : g[s] = Added(v, g, s)
           Unsolved == {n \in Nat : ~ \E g : Solves(n, g)}
<1>1. \A s \in SUBSET S : IsFiniteSet(s) /\ Cardinality(s) \in Nat
  BY FS_Subset, FS_CardinalityType
<1>2. ASSUME Unsolved # {} PROVE FALSE
  <2>1. PICK n \in Unsolved : \A m \in Unsolved : n <= m
    <3> HIDE DEF Unsolved
    <3>1. Unsolved \subseteq Nat
      BY DEF Unsolved
    <3> QED
      BY <1>2, <3>1, Least
  <2>2. n \in Nat
    OBVIOUS
  <2>3. CASE n = 0
    <3> DEFINE g == [s \in Small(0) |-> 0]
    <3>1. \A s \in Small(0) : s = {}
      BY <1>1, FS_EmptySet
    <3>2. Solves(0, g)
      BY <3>1 DEF Added
    <3> QED
      BY <3>2, <2>3
  <2>4. CASE n # 0
    <3>1. n - 1 \in Nat /\ n - 1 \notin Unsolved
      <4>1. \A m \in Unsolved : n <= m
        BY <2>1
      <4> HIDE DEF Unsolved
      <4> QED
        BY <4>1, <2>2, <2>4
    <3>2. PICK g : Solves(n - 1, g)
      BY <3>1
    <3> DEFINE h == [s \in Small(n) |-> Added(v, g, s)]
    <3>3. \A s \in Small(n) : s # {} => Chosen(s) \in S /\ Rest(s) \in Small(n - 1)
      <4> SUFFICES ASSUME NEW s \in SUBSET S, Cardinality(s) <= n, s # {}
                   PROVE  Chosen(s) \in S /\ Rest(s) \in Small(n - 1)
        OBVIOUS
      <4> QED
        BY <1>1, <2>2, RestIs
    <3>4. \A s \in Small(n) : h[s] \in Nat
      <4> SUFFICES ASSUME NEW s \in Small(n) PROVE Added(v, g, s) \in Nat
        OBVIOUS
      <4>1. CASE s = {}
        BY <4>1 DEF Added
      <4>2. CASE s # {}
        <5>1. Chosen(s) \in S /\ Rest(s) \in Small(n - 1)
          BY <4>2, <3>3
        <5>2. v[Chosen(s)] \in Nat /\ g[Rest(s)] \in Nat
          BY <5>1, <3>2
        <5> QED
          BY <5>2, <4>2 DEF Added
      <4> QED
        BY <4>1, <4>2
    <3>5. \A s \in Small(n - 1) : s \in Small(n) /\ h[s] = g[s]
      <4> SUFFICES ASSUME NEW s \in Small(n - 1) PROVE s \in Small(n) /\ h[s] = g[s]
        OBVIOUS
      <4>1. s \in Small(n)
        BY <1>1, <2>2
      <4>2. h[s] = Added(v, g, s)
        BY <4>1
      <4> QED
        BY <4>1, <4>2, <3>2
    <3>6. \A s \in Small(n) : h[s] = Added(v, h, s)
      <4> SUFFICES ASSUME NEW s \in Small(n) PROVE Added(v, g, s) = Added(v, h, s)
        OBVIOUS
      <4> HIDE DEF h
      <4> QED
        BY <3>3, <3>5 DEF Added
    <3>7. Solves(n, h)
      <4>1. h \in [Small(n) -> Nat]
        BY <3>4
      <4> QED
        BY <4>1, <3>6
    <3> QED
      BY <3>7, <2>2
  <2> QED
    BY <2>3, <2>4
<1>3. Cardinality(S) \in Nat
  BY <1>1
<1>4. PICK g : Solves(Cardinality(S), g)
  BY <1>2, <1>3
<1>5. Small(Cardinality(S)) = SUBSET S
  <2>1. \A s \in SUBSET S : Cardinality(s) <= Cardinality(S)
    BY FS_Subset
  <2> QED
    BY <2>1
<1>6. g \in [SUBSET S -> Nat] /\ \A s \in SUBSET S : g[s] = Added(v, g, s)
  BY <1>4, <1>5
<1> HIDE DEF Solves
<1> QED
  BY <1>6 DEF Adds

\* It has one solution, which a set inherits from those that contain it.
LEMMA SumUnique ==
    ASSUME NEW v, NEW w, NEW S, NEW T \in SUBSET S, IsFiniteSet(S),
           \A i \in T : v[i] = w[i],
           NEW g, Adds(v, g, S), NEW h, Adds(w, h, T)
    PROVE  g[T] = h[T]
<1> DEFINE Differ == {n \in Nat : \E s \in SUBSET T : Cardinality(s) = n /\ g[s] # h[s]}
<1>1. \A s \in SUBSET T : IsFiniteSet(s) /\ Cardinality(s) \in Nat
  BY FS_Subset, FS_CardinalityType
<1>2. \A s \in SUBSET T : g[s] = Added(v, g, s) /\ h[s] = Added(w, h, s)
  BY DEF Adds
<1>3. ASSUME Differ # {} PROVE FALSE
  <2>1. PICK n \in Differ : \A m \in Differ : n <= m
    <3> HIDE DEF Differ
    <3>1. Differ \subseteq Nat
      BY DEF Differ
    <3> QED
      BY <1>3, <3>1, Least
  <2>2. PICK s \in SUBSET T : Cardinality(s) = n /\ g[s] # h[s]
    BY <2>1
  <2>3. s # {}
    BY <1>2, <2>2 DEF Added
  <2>4. /\ Chosen(s) \in T /\ Rest(s) \in SUBSET T
        /\ Cardinality(Rest(s)) \in Nat /\ Cardinality(Rest(s)) = n - 1
    BY <1>1, <2>2, <2>3, RestIs
  <2>5. g[Rest(s)] = h[Rest(s)]
    BY <2>1, <2>4
  <2>6. Added(v, g, s) = Added(w, h, s)
    BY <2>4, <2>5 DEF Added
  <2> QED
    BY <2>6, <2>2, <1>2
<1> QED
  BY <1>1, <1>3

\* The sum is the value of the solution.
LEMMA SumSolves ==
    ASSUME NEW v, NEW S, IsFiniteSet(S), \A i \in S : v[i] \in Nat
    PROVE  \E g \in [SUBSET S -> Nat] : Adds(v, g, S) /\ SumFunctionOnSet(v, S) = g[S]
<1>1. PICK f : Adds(v, f, S) /\ f \in [SUBSET S -> Nat]
  BY SumExists
<1> DEFINE g == CHOOSE h : Adds(v, h, S)
<1>2. Adds(v, g, S)
  BY <1>1
<1>3. SumFunctionOnSet(v, S) = g[S]
  BY SumIs
<1> HIDE DEF g
<1>4. f[S] = g[S]
  BY <1>1, <1>2, SumUnique
<1> QED
  BY <1>1, <1>3, <1>4

\* Sums are natural numbers.
LEMMA SumType ==
    ASSUME NEW v, NEW S, IsFiniteSet(S), \A i \in S : v[i] \in Nat
    PROVE  SumFunctionOnSet(v, S) \in Nat
<1>1. PICK g \in [SUBSET S -> Nat] : Adds(v, g, S) /\ SumFunctionOnSet(v, S) = g[S]
  BY SumSolves
<1>2. g[S] \in Nat
  OBVIOUS
<1> QED
  BY <1>1, <1>2

\* A sum depends on the values in its set only.
LEMMA SumOfSame ==
    ASSUME NEW v, NEW w, NEW S, IsFiniteSet(S), \A i \in S : v[i] \in Nat /\ v[i] = w[i]
    PROVE  SumFunctionOnSet(v, S) = SumFunctionOnSet(w, S)
<1>1. PICK g : Adds(v, g, S) /\ SumFunctionOnSet(v, S) = g[S]
  BY SumSolves
<1>2. PICK h : Adds(w, h, S) /\ SumFunctionOnSet(w, S) = h[S]
  BY SumSolves
<1> QED
  BY <1>1, <1>2, SumUnique

\* The defining equation.
LEMMA SumFirst ==
    ASSUME NEW v, NEW S, IsFiniteSet(S), \A i \in S : v[i] \in Nat, S # {}
    PROVE  SumFunctionOnSet(v, S) = v[Chosen(S)] + SumFunctionOnSet(v, Rest(S))
<1>1. PICK g : Adds(v, g, S) /\ SumFunctionOnSet(v, S) = g[S]
  BY SumSolves
<1>2. IsFiniteSet(Rest(S)) /\ Rest(S) \in SUBSET S
  BY RestIs
<1>3. PICK h : Adds(v, h, Rest(S)) /\ SumFunctionOnSet(v, Rest(S)) = h[Rest(S)]
  BY <1>2, SumSolves
<1>4. g[Rest(S)] = h[Rest(S)]
  BY <1>1, <1>2, <1>3, SumUnique
<1>5. g[S] = v[Chosen(S)] + g[Rest(S)]
  BY <1>1 DEF Adds, Added
<1> QED
  BY <1>1, <1>3, <1>4, <1>5

\* Any element may be taken out of a sum.
LEMMA SumTake ==
    ASSUME NEW v, NEW S, IsFiniteSet(S), \A i \in S : v[i] \in Nat, NEW x \in S
    PROVE  SumFunctionOnSet(v, S) = v[x] + SumFunctionOnSet(v, S \ {x})
<1> DEFINE Sum(T) == SumFunctionOnSet(v, T)
           Fails(T) == \E y \in T : Sum(T) # v[y] + Sum(T \ {y})
           Bad == {n \in Nat : \E T \in SUBSET S : Cardinality(T) = n /\ Fails(T)}
<1>1. \A T \in SUBSET S : IsFiniteSet(T) /\ Cardinality(T) \in Nat /\ Sum(T) \in Nat
  BY FS_Subset, FS_CardinalityType, SumType
<1>2. ASSUME Bad # {} PROVE FALSE
  <2>1. PICK n \in Bad : \A m \in Bad : n <= m
    <3> HIDE DEF Bad
    <3>1. Bad \subseteq Nat
      BY DEF Bad
    <3> QED
      BY <1>2, <3>1, Least
  <2>2. PICK T \in SUBSET S : Cardinality(T) = n /\ Fails(T)
    BY <2>1
  <2>3. PICK y \in T : Sum(T) # v[y] + Sum(T \ {y})
    BY <2>2
  <2> DEFINE z == Chosen(T)
             U == T \ {y, z}
  <2>4. z \in T /\ Rest(T) = T \ {z} /\ Cardinality(T) \in Nat \ {0} /\ IsFiniteSet(T)
    BY <2>3, <1>1, RestIs DEF Rest
  <2> HIDE DEF Sum, z
  <2>5. Sum(T) = v[z] + Sum(T \ {z})
    BY <2>4, <1>1, SumFirst DEF Sum, z
  <2>6. y # z
    BY <2>3, <2>5
  <2>7. \A e \in T : /\ T \ {e} \in SUBSET S
                     /\ Cardinality(T \ {e}) = n - 1
    BY <2>2, <2>4, FS_RemoveElement
  <2>8. n - 1 \in Nat /\ n - 1 \notin Bad
    BY <2>1, <2>2, <2>4
  <2>9. \A e \in T : ~Fails(T \ {e})
    BY <2>7, <2>8
  <2>10. Sum(T \ {z}) = v[y] + Sum(U)
    <3>1. y \in T \ {z} /\ (T \ {z}) \ {y} = U
      BY <2>6
    <3>2. ~Fails(T \ {z})
      BY <2>9, <2>4
    <3>3. Sum(T \ {z}) = v[y] + Sum((T \ {z}) \ {y})
      BY <3>1, <3>2
    <3> QED
      BY <3>1, <3>3
  <2>11. Sum(T \ {y}) = v[z] + Sum(U)
    <3>1. z \in T \ {y} /\ (T \ {y}) \ {z} = U
      BY <2>6, <2>4
    <3>2. Sum(T \ {y}) = v[z] + Sum((T \ {y}) \ {z})
      BY <3>1, <2>9
    <3> QED
      BY <3>1, <3>2
  <2>12. v[y] \in Nat /\ v[z] \in Nat /\ Sum(U) \in Nat
    BY <1>1, <2>4
  <2> QED
    BY <2>3, <2>5, <2>10, <2>11, <2>12
<1> QED
  BY <1>1, <1>2

\* A part of a sum is no larger than the sum.
LEMMA SumOfPart ==
    ASSUME NEW v, NEW S, IsFiniteSet(S), \A i \in S : v[i] \in Nat, NEW T \in SUBSET S
    PROVE  SumFunctionOnSet(v, T) <= SumFunctionOnSet(v, S)
<1> DEFINE Sum(U) == SumFunctionOnSet(v, U)
           Larger == {U \in SUBSET S : T \in SUBSET U /\ Sum(T) > Sum(U)}
           Sizes == {n \in Nat : \E U \in Larger : Cardinality(U) = n}
<1>1. \A U \in SUBSET S : IsFiniteSet(U) /\ Cardinality(U) \in Nat /\ Sum(U) \in Nat
  BY FS_Subset, FS_CardinalityType, SumType
<1>2. ASSUME Sizes # {} PROVE FALSE
  <2>1. PICK n \in Sizes : \A m \in Sizes : n <= m
    <3> HIDE DEF Sizes
    <3>1. Sizes \subseteq Nat
      BY DEF Sizes
    <3> QED
      BY <1>2, <3>1, Least
  <2>2. PICK U \in Larger : Cardinality(U) = n
    BY <2>1
  <2> HIDE DEF Sum
  <2>3. U \in SUBSET S /\ T \in SUBSET U /\ Sum(T) > Sum(U) /\ U # T
    BY <2>2, <1>1
  <2>4. PICK x \in U : x \notin T
    BY <2>3
  <2>5. Sum(U) = v[x] + Sum(U \ {x})
    BY <2>3, <2>4, <1>1, SumTake DEF Sum
  <2>6. U \ {x} \in SUBSET S /\ T \in SUBSET (U \ {x})
    BY <2>3, <2>4
  <2>7. Cardinality(U \ {x}) = n - 1 /\ n - 1 \in Nat
    <3>1. IsFiniteSet(U) /\ U # {} /\ Cardinality(U) \in Nat
      BY <1>1, <2>3, <2>4
    <3>2. Cardinality(U \ {x}) = Cardinality(U) - 1
      BY <3>1, <2>4, FS_RemoveElement
    <3>3. Cardinality(U) # 0
      BY <3>1, FS_EmptySet
    <3> QED
      BY <3>1, <3>2, <3>3, <2>2
  <2>8. U \ {x} \in Larger
    BY <2>3, <2>5, <2>6, <1>1
  <2>9. n - 1 \in Sizes
    BY <2>7, <2>8
  <2> QED
    BY <2>1, <2>7, <2>9
<1>3. ASSUME Sum(T) > Sum(S) PROVE FALSE
  <2>1. S \in Larger /\ Cardinality(S) \in Nat
    BY <1>1, <1>3
  <2> QED
    BY <2>1, <1>2
<1> QED
  BY <1>1, <1>3

-----------------------------------------------------------------------------
(* The limits *)

\* The approved rows among the first n, and what they add up to.
Earlier(n) == {j \in ApprovedRows : j <= n}
SpentBy(n) == SumFunctionOnSet(Paid, Earlier(n))

\* A request within the limits, by what was committed before it was sent.
Within(r) ==
    /\ ~Exceeds(Usd[r] + SpentBy(before[r]), Policy.daily)
    /\ Policy.rate # Null => before[r] - old < Policy.rate

\* What was read covers what was committed before the request was sent, and
\* what is approved was found within the limits.
LimitOK ==
    /\ \A r \in Requests :
           /\ pc[r] \in {"recent", "known", "decide"}
                => sig[r].used \in Nat /\ SpentBy(before[r]) <= sig[r].used
           /\ pc[r] \in {"known", "decide"}
                => sig[r].recent \in Int /\ before[r] - old <= sig[r].recent
           /\ pc[r] = "persist" /\ sig[r].decision = "approve" => Within(r)
    /\ \A i \in ApprovedRows : Within(ledger[i].req)

\* The amounts of the rows are natural numbers, and the rows are finitely many.
LEMMA PaidType ==
    ASSUME StageInv, NEW n
    PROVE  /\ Len(ledger) \in Nat /\ Rows = 1..Len(ledger)
           /\ IsFiniteSet(ApprovedRows) /\ Earlier(n) \in SUBSET ApprovedRows
           /\ IsFiniteSet(Earlier(n))
           /\ \A i \in ApprovedRows : Paid[i] \in Nat
           /\ SpentBy(n) \in Nat /\ Spent \in Nat /\ SpentBy(n) <= Spent
<1>1. Len(ledger) \in Nat /\ Rows = 1..Len(ledger)
  BY DEF StageInv, ShapeOK, Rows
<1>2. IsFiniteSet(Rows)
  BY <1>1, FS_Interval
<1>3. ApprovedRows \in SUBSET Rows /\ Earlier(n) \in SUBSET ApprovedRows
  BY DEF ApprovedRows, Earlier
<1>4. IsFiniteSet(ApprovedRows) /\ IsFiniteSet(Earlier(n))
  BY <1>2, <1>3, FS_Subset
<1>5. \A i \in Rows : Paid[i] \in Nat
  BY RowOf, ScreeningConstants DEF Paid
<1>6. SpentBy(n) \in Nat /\ Spent \in Nat
  BY <1>3, <1>4, <1>5, SumType DEF SpentBy, Spent
<1>7. SpentBy(n) <= Spent
  BY <1>3, <1>4, <1>5, SumOfPart DEF SpentBy, Spent
<1> QED
  BY <1>1, <1>3, <1>4, <1>5, <1>6, <1>7

\* What has been spent up to a row is settled once the row is committed.
LEMMA SpentSettled ==
    ASSUME StageInv, StageInv', [Next]_vars, NEW n \in 0..Len(ledger)
    PROVE  SpentBy(n)' = SpentBy(n)
<1>1. Rows = 1..Len(ledger) /\ Rows' = 1..Len(ledger') /\ Len(ledger) \in Nat
  BY DEF StageInv, ShapeOK, Rows
<1>2. Earlier(n)' = Earlier(n)
  BY <1>1, LedgerStep DEF Earlier, ApprovedRows
<1>3. \A i \in Earlier(n) : Paid[i] \in Nat /\ Paid'[i] = Paid[i]
  BY LedgerStep, PaidType DEF Paid, Earlier, ApprovedRows
<1>4. SumFunctionOnSet(Paid, Earlier(n)) = SumFunctionOnSet(Paid', Earlier(n))
  BY <1>3, PaidType, SumOfSame
<1> QED
  BY <1>2, <1>4 DEF SpentBy

\* The moment a request was sent is settled once it is, and rows only leave
\* the rate window.
LEMMA BeforeSettled ==
    ASSUME StageInv, [Next]_vars, NEW r \in Requests, pc[r] # "new"
    PROVE  before'[r] = before[r] /\ old \in Nat /\ old' \in Nat /\ old <= old'
<1>1. /\ before \in [Requests -> 0..Len(ledger)]
      /\ old \in 0..Len(ledger) /\ Len(ledger) \in Nat
  BY DEF StageInv, ShapeOK
<1>2. before' = before \/ \E q \in Requests : q # r /\ before' = [before EXCEPT ![q] = Len(ledger)]
  BY DEF Next, Step, Send, LoadAgent, Advise, ReadUsed, ReadRecent, ReadKnown, Decide,
     FailClosed, Persist, PersistFails, Respond, Halt, Resume, Age, vars, history
<1>3. old' = old \/ old' = old + 1
  BY DEF Next, Step, Send, LoadAgent, Advise, ReadUsed, ReadRecent, ReadKnown, Decide,
     FailClosed, Persist, PersistFails, Respond, Halt, Resume, Age, vars, tables
<1> QED
  BY <1>1, <1>2, <1>3

LEMMA SpentBeforeSettled ==
    ASSUME StageInv, StageInv', [Next]_vars, NEW r \in Requests, pc[r] # "new"
    PROVE  SpentBy(before[r])' = SpentBy(before[r])
<1>1. before[r] \in 0..Len(ledger)
  BY DEF StageInv, ShapeOK
<1>2. SumFunctionOnSet(Paid', {j \in ApprovedRows' : j <= before[r]}) = SpentBy(before[r])
  BY <1>1, SpentSettled DEF SpentBy, Earlier
<1> QED
  BY <1>2, BeforeSettled DEF SpentBy, Earlier

\* So a request that is within the limits stays within.
LEMMA WithinSettled ==
    ASSUME StageInv, StageInv', [Next]_vars, NEW r \in Requests, pc[r] # "new", Within(r)
    PROVE  Within(r)'
<1>1. before[r] \in 0..Len(ledger) /\ before[r] \in Nat
  BY DEF StageInv, ShapeOK
<1>2. before'[r] = before[r] /\ old \in Nat /\ old' \in Nat /\ old <= old'
  BY BeforeSettled
<1>3. SpentBy(before[r])' = SpentBy(before[r])
  BY SpentBeforeSettled
<1>4. Policy.rate # Null => before'[r] - old' < Policy.rate
  BY <1>1, <1>2, ScreeningConstants DEF Within
<1> QED
  BY <1>3, <1>4 DEF Within

\* What the policy engine approves is within the daily limit and the rate.
LEMMA ApprovedIsWithin ==
    ASSUME NEW r \in Requests, Verdict(r) = "approve",
           sig[r].used \in Nat, sig[r].recent \in Int
    PROVE  /\ ~Exceeds(sig[r].used + Usd[r], Policy.daily)
           /\ Policy.rate # Null => sig[r].recent < Policy.rate
<1> DEFINE req == RequestOf(r)
           ctx == [used |-> sig[r].used, recent |-> sig[r].recent, known |-> sig[r].known,
                   anomaly |-> sig[r].anomaly, minute |-> 0]
           rules == Rules(Policy, req, ctx)
<1>1. Applying(rules) = {}
  BY EvaluateApproves DEF Verdict
<1>2. /\ 4 \in DOMAIN rules /\ rules[4].applies = Exceeds(ctx.used + req.usd, Policy.daily)
      /\ 5 \in DOMAIN rules /\ rules[5].applies = RateReached(Policy, ctx)
  BY DEF Rules, Rule
<1> HIDE DEF rules
<1>3. ~rules[4].applies /\ ~rules[5].applies
  BY <1>1, <1>2 DEF Applying
<1>4. ~Exceeds(sig[r].used + Usd[r], Policy.daily)
  BY <1>2, <1>3 DEF RequestOf
<1>5. ~(Policy.rate # Null /\ sig[r].recent >= Policy.rate)
  BY <1>2, <1>3 DEF RateReached
<1>6. Policy.rate # Null => Policy.rate \in Nat
  BY ScreeningConstants
<1> QED
  BY <1>4, <1>5, <1>6

\* What a request has read stays as it was read until it is decided.
LEMMA ReadStays ==
    ASSUME StageInv, [Next]_vars, NEW q \in Requests
    PROVE  /\ pc'[q] \in {"recent", "known", "decide"} =>
                 \/ ReadUsed(q)
                 \/ pc[q] \in {"recent", "known", "decide"} /\ sig'[q].used = sig[q].used
           /\ pc'[q] \in {"known", "decide"} =>
                 \/ ReadRecent(q)
                 \/ pc[q] \in {"known", "decide"} /\ sig'[q].recent = sig[q].recent
           /\ pc'[q] = "persist" => Decide(q) \/ (pc[q] = "persist" /\ sig'[q] = sig[q])
<1>1. CASE UNCHANGED <<pc, sig>>
  BY <1>1
<1>2. ASSUME NEW r \in Requests, Send(r) \/ Step(r), r # q
      PROVE  pc'[q] = pc[q] /\ sig'[q] = sig[q]
  BY <1>2, Others
<1>3. CASE \/ Send(q) \/ LoadAgent(q) \/ Advise(q) \/ FailClosed(q)
           \/ Persist(q) \/ PersistFails(q) \/ Respond(q) \/ Decide(q)
  <2>1. \E stage \in {"agent", "advise", "used", "reply", "done", "persist"} :
            pc' = [pc EXCEPT ![q] = stage] /\ (stage = "persist" => Decide(q))
    BY <1>3 DEF Send, LoadAgent, Advise, FailClosed, Persist, PersistFails, Respond, Decide,
       Reply, Goto
  <2> QED
    BY <2>1 DEF StageInv, ShapeOK
<1>4. DOMAIN sig = Requests /\ DOMAIN sig[q] = Signals
  BY DEF StageInv, SignalsOK
<1>5. CASE ReadUsed(q)
  BY <1>5 DEF ReadUsed, Goto, StageInv, ShapeOK
<1>6. CASE ReadRecent(q)
  <2>1. sig' = [sig EXCEPT ![q].recent = Len(ledger) - old]
    BY <1>6 DEF ReadRecent, Note
  <2>2. sig'[q].used = sig[q].used
    BY <1>4, <2>1
  <2> QED
    BY <1>6, <2>2 DEF ReadRecent, Goto, StageInv, ShapeOK
<1>7. CASE ReadKnown(q)
  <2>1. PICK a \in Scores \cup {Null} :
            sig' = [sig EXCEPT ![q].known = Known, ![q].anomaly = a]
    BY <1>7 DEF ReadKnown
  <2>2. sig'[q].used = sig[q].used /\ sig'[q].recent = sig[q].recent
    BY <1>4, <2>1
  <2> QED
    BY <1>7, <2>2 DEF ReadKnown, Goto, StageInv, ShapeOK
<1> QED
  BY <1>1, <1>2, <1>3, <1>5, <1>6, <1>7 DEF Next, Step, Halt, Resume, Age, vars

\* The limits hold for what was committed before a request was sent: sums of
\* the day and counts of the minute, for any number of overlapping requests.
THEOREM LimitsHold == Spec => []LimitsHeld
<1>1. Init => LimitOK
  BY DEF Init, LimitOK, ApprovedRows, Rows
<1>2. StageInv /\ StageInv' /\ LimitOK /\ [Next]_vars => LimitOK'
  <2> SUFFICES ASSUME StageInv, StageInv', LimitOK, [Next]_vars PROVE LimitOK'
    OBVIOUS
  <2>1. ASSUME NEW q \in Requests, pc[q] # "new"
        PROVE  /\ before'[q] = before[q] /\ before[q] \in 0..Len(ledger)
               /\ SpentBy(before[q]) \in Nat /\ SpentBy(before[q]) <= Spent
               /\ SpentBy(before[q])' = SpentBy(before[q])
               /\ old \in Nat /\ old' \in Nat /\ old <= old' /\ Len(ledger) \in Nat
    BY <2>1, BeforeSettled, SpentBeforeSettled, PaidType DEF StageInv, ShapeOK
  <2>2. ASSUME NEW q \in Requests, pc'[q] \in {"recent", "known", "decide"}
        PROVE  sig'[q].used \in Nat /\ SpentBy(before[q])' <= sig'[q].used
    <3>1. CASE ReadUsed(q)
      <4>1. DOMAIN sig = Requests /\ DOMAIN sig[q] = Signals
        BY DEF StageInv, SignalsOK
      <4>2. sig'[q].used = Spent /\ pc[q] # "new"
        BY <3>1, <4>1 DEF ReadUsed, Note, Signals, NoSignals
      <4> QED
        BY <4>2, <2>1, PaidType
    <3>2. CASE pc[q] \in {"recent", "known", "decide"} /\ sig'[q].used = sig[q].used
      BY <3>2, <2>1 DEF LimitOK
    <3> QED
      BY <2>2, <3>1, <3>2, ReadStays
  <2>3. ASSUME NEW q \in Requests, pc'[q] \in {"known", "decide"}
        PROVE  sig'[q].recent \in Int /\ before'[q] - old' <= sig'[q].recent
    <3>1. CASE ReadRecent(q)
      <4>1. DOMAIN sig = Requests /\ DOMAIN sig[q] = Signals
        BY DEF StageInv, SignalsOK
      <4>2. sig'[q].recent = Len(ledger) - old /\ pc[q] # "new"
        BY <3>1, <4>1 DEF ReadRecent, Note, Signals, NoSignals
      <4> QED
        BY <4>2, <2>1
    <3>2. CASE pc[q] \in {"known", "decide"} /\ sig'[q].recent = sig[q].recent
      <4>1. sig[q].recent \in Int /\ before[q] - old <= sig[q].recent
        BY <3>2 DEF LimitOK
      <4> QED
        BY <3>2, <4>1, <2>1
    <3> QED
      BY <2>3, <3>1, <3>2, ReadStays
  <2>4. ASSUME NEW q \in Requests, pc'[q] = "persist", sig'[q].decision = "approve"
        PROVE  Within(q)'
    <3>1. CASE Decide(q)
      <4>1. PICK s : sig'[q].decision = Final(Verdict(q), s)
        BY <3>1, DecideEffect
      <4>2. Verdict(q) = "approve"
        BY <2>4, <4>1 DEF Final
      <4>3. pc[q] = "decide"
        BY <3>1 DEF Decide
      <4>4. /\ sig[q].used \in Nat /\ SpentBy(before[q]) <= sig[q].used
            /\ sig[q].recent \in Int /\ before[q] - old <= sig[q].recent
        BY <4>3 DEF LimitOK
      <4>5. Within(q)
        <5>1. Usd[q] \in Nat /\ Policy.daily \in Nat \cup {Null} /\ Policy.rate \in Nat \cup {Null}
          BY ScreeningConstants
        <5>2. /\ ~Exceeds(sig[q].used + Usd[q], Policy.daily)
              /\ Policy.rate # Null => sig[q].recent < Policy.rate
          BY <4>2, <4>4, ApprovedIsWithin
        <5>3. /\ SpentBy(before[q]) \in Nat /\ before[q] \in Nat /\ old \in Nat
          BY <4>3, <2>1
        <5>4. ~Exceeds(Usd[q] + SpentBy(before[q]), Policy.daily)
          BY <5>1, <5>2, <5>3, <4>4 DEF Exceeds
        <5>5. Policy.rate # Null => before[q] - old < Policy.rate
          BY <5>1, <5>2, <5>3, <4>4
        <5> QED
          BY <5>4, <5>5 DEF Within
      <4> QED
        BY <4>3, <4>5, WithinSettled
    <3>2. CASE pc[q] = "persist" /\ sig'[q] = sig[q]
      BY <2>4, <3>2, WithinSettled DEF LimitOK
    <3> QED
      BY <2>4, <3>1, <3>2, ReadStays
  <2>5. ASSUME NEW i \in Rows', ledger'[i].decision = "approve"
        PROVE  \E q \in Requests : q = ledger'[i].req /\ Within(q)'
    <3>1. PICK q \in Requests : q = ledger'[i].req /\ pc[q] # "new" /\ Within(q)
      <4>1. CASE i \in Rows
        <5>1. ledger'[i] = ledger[i] /\ i \in ApprovedRows
          BY <2>5, <4>1, LedgerStep DEF ApprovedRows
        <5> QED
          BY <4>1, <5>1, RowOf DEF LimitOK
      <4>2. CASE i \notin Rows
        <5>1. PICK r \in Requests : /\ Persist(r) /\ ledger'[i].req = r
                                    /\ ledger'[i].decision = sig[r].decision
          BY <4>2, LedgerStep
        <5> QED
          BY <2>5, <5>1 DEF Persist, LimitOK
      <4> QED
        BY <4>1, <4>2
    <3>2. Within(q)'
      BY <3>1, WithinSettled
    <3> QED
      BY <3>1, <3>2
  <2>6. \A i \in ApprovedRows' :
           /\ ~Exceeds(Usd[ledger'[i].req] + SpentBy(before[ledger[i].req])', Policy.daily)
           /\ Policy.rate # Null => before'[ledger'[i].req] - old' < Policy.rate
    <3> SUFFICES ASSUME NEW i \in Rows', ledger'[i].decision = "approve"
                 PROVE
           /\ ~Exceeds(Usd[ledger'[i].req] + SpentBy(before[ledger[i].req])', Policy.daily)
           /\ Policy.rate # Null => before'[ledger'[i].req] - old' < Policy.rate
      BY DEF ApprovedRows
    <3> QED
      BY <2>5 DEF Within, SpentBy, Earlier
  <2>7. \A q \in Requests :
           /\ pc'[q] \in {"recent", "known", "decide"}
                => sig'[q].used \in Nat /\ SpentBy(before[q])' <= sig'[q].used
           /\ pc'[q] \in {"known", "decide"}
                => sig'[q].recent \in Int /\ before'[q] - old' <= sig'[q].recent
           /\ pc'[q] = "persist" /\ sig'[q].decision = "approve" => Within(q)'
    BY <2>2, <2>3, <2>4
  <2> QED
    BY <2>6, <2>7 DEF LimitOK, Within, SpentBy, Earlier
<1>3. LimitOK => LimitsHeld
  BY DEF LimitOK, LimitsHeld, Within, SpentBy, Earlier
<1> QED
  BY <1>1, <1>2, <1>3, StageInvariant, PTL DEF Spec
=============================================================================
