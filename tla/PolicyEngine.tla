---------------------------- MODULE PolicyEngine ----------------------------
(***************************************************************************)
(* The deterministic policy evaluation: the rules of an agent's active     *)
(* policy are tried in their order of precedence and the first that        *)
(* applies decides.  Amounts are natural numbers; the orchestrator derives *)
(* the USD value from the value in wei, so one is 0 when the other is.     *)
(***************************************************************************)
EXTENDS Integers, FiniteSets

CONSTANTS
    Addresses,  \* counterparties
    Null        \* a field that is None; as a counterparty, a deployment

ASSUME NullIsApart == Null \notin Int \cup Addresses

Decisions == {"approve", "escalate", "reject"}
Rank == [d \in Decisions |-> CASE d = "approve" -> 0 [] d = "escalate" -> 1 [] d = "reject" -> 2]

\* A policy p has the fields spend, daily, rate, gas (limits or Null), allow,
\* deny (sets of addresses), from, to (minutes or Null) and threshold; a
\* request r has to, usd and gas (or Null); a context c has used, recent,
\* known, anomaly (or Null) and minute.

Exceeds(x, limit) == limit # Null /\ x > limit

OutsideWindow(p, c) ==
    p.from # Null /\ p.to # Null /\ ~(p.from <= c.minute /\ c.minute < p.to)

\* Mutant: only the transaction that reaches the limit is stopped.
RateReachedMutant(p, c) == p.rate # Null /\ c.recent = p.rate

RateReached(p, c) == p.rate # Null /\ c.recent >= p.rate

Rule(applies, decision) == [applies |-> applies, decision |-> decision]

Rules(p, r, c) ==
    <<Rule(r.to \in p.deny, "reject"),
      Rule(p.allow # {} /\ r.to # Null /\ r.to \notin p.allow, "reject"),
      Rule(Exceeds(r.usd, p.spend), "reject"),
      Rule(Exceeds(c.used + r.usd, p.daily), "reject"),
      Rule(RateReached(p, c), "reject"),
      Rule(OutsideWindow(p, c), "reject"),
      Rule(r.gas # Null /\ Exceeds(r.gas, p.gas), "reject"),
      Rule(c.anomaly # Null /\ c.anomaly >= p.threshold, "escalate"),
      Rule(r.usd > 0 /\ r.to # Null /\ r.to \notin c.known, "escalate")>>

Applying(rules) == {i \in DOMAIN rules : rules[i].applies}

\* Mutant: the anomaly rule is moved in front of the others.
EvaluateMutant(p, r, c) ==
    LET rules == Rules(p, r, c)
        hits  == Applying(rules)
    IN  IF hits = {} THEN "approve"
        ELSE IF 8 \in hits THEN "escalate"
        ELSE rules[CHOOSE i \in hits : \A j \in hits : i <= j].decision

\* The early return of the first rule that applies.
Evaluate(p, r, c) ==
    LET rules == Rules(p, r, c)
        hits  == Applying(rules)
    IN  IF hits = {} THEN "approve"
        ELSE rules[CHOOSE i \in hits : \A j \in hits : i <= j].decision
=============================================================================
