------------------------------ MODULE Screening ------------------------------
(***************************************************************************)
(* The screening pipeline of the orchestrator, run by the gateway for each *)
(* POST /transactions/screen.  A request passes the kill switch, the       *)
(* active policy, the intent classifier and the simulation, reads its      *)
(* context from the transactions screened so far, is decided, and is       *)
(* persisted.  Every stage has a time budget: a gating stage that fails is *)
(* answered with a rejection, an advisory one is passed over.              *)
(*                                                                         *)
(* Requests of one agent run concurrently and share the transactions       *)
(* table; nothing is locked between the reads of the context and the       *)
(* insertion of the row they decide.                                       *)
(***************************************************************************)
EXTENDS PolicyEngine, Sequences, Functions

CONSTANTS
    Requests,     \* screening requests of one agent
    To,           \* [Requests -> Addresses], the counterparty
    Usd,          \* [Requests -> Nat], the value
    Policy,       \* the agent's active policy
    KnownBefore,  \* counterparties of older transactions
    Confs,        \* classifier confidences, in percent
    Risks,        \* risk levels of the interpreter, and "drain"
    Scores,       \* anomaly scores
    Threshold,    \* escalate_below_confidence, in percent
    MaxInFlight   \* bound: requests handled at a time

RiskFactor == [low |-> 100, medium |-> 85, high |-> 60, critical |-> 30, drain |-> 0]

ASSUME ScreeningConstants ==
    /\ To \in [Requests -> Addresses]
    /\ Usd \in [Requests -> Nat]
    /\ {Policy.daily, Policy.rate} \subseteq Nat \cup {Null}
    /\ KnownBefore \subseteq Addresses
    /\ Confs \subseteq 0..100 /\ Scores \subseteq 0..100
    /\ Risks \subseteq DOMAIN RiskFactor
    /\ Threshold \in 0..100
    /\ MaxInFlight \in Nat
    /\ Null \notin Decisions \cup DOMAIN RiskFactor

VARIABLES
    halted,       \* committed column agents.halted
    ledger,       \* committed transactions of the agent, oldest first, each
                  \* with its audit record and, when escalated, its approval
    old,          \* how many of them have left the rate window
    pc,           \* the stage a request is in
    sig,          \* what its stages have returned
    answer,       \* what the gateway has answered, or Null
    haltedSince,  \* history: the agent has been halted ever since it was sent
    before        \* history: length of the ledger when it was sent

tables == <<halted, ledger, old>>
history == <<haltedSince, before>>
vars == <<tables, pc, sig, answer, history>>

Stages == {"new", "agent", "advise", "used", "recent", "known",
           "decide", "persist", "reply", "done"}

\* The stages whose failure rejects; a read of the context is three queries.
Gating == {"agent", "used", "recent", "known", "decide"}

NoSignals == [conf |-> 100, sim |-> Null, used |-> 0, recent |-> 0, known |-> {},
              anomaly |-> Null, risk |-> Null, decision |-> Null]

Answers == Decisions \cup {"unavailable", Null}

\* Of the signals, those whose range the confidence rests on.
TypeOK ==
    /\ halted \in BOOLEAN
    /\ ledger \in Seq([req : Requests, decision : Decisions])
    /\ old \in 0..Len(ledger)
    /\ pc \in [Requests -> Stages]
    /\ DOMAIN sig = Requests
    /\ \A r \in Requests :
           /\ DOMAIN sig[r] = DOMAIN NoSignals
           /\ sig[r].conf \in 0..100
           /\ sig[r].anomaly \in Scores \cup {Null}
           /\ sig[r].risk \in Risks \cup {Null}
    /\ answer \in [Requests -> Answers]
    /\ haltedSince \in [Requests -> BOOLEAN]
    /\ before \in [Requests -> 0..Len(ledger)]

Init ==
    /\ halted = FALSE
    /\ ledger = <<>> /\ old = 0
    /\ pc = [r \in Requests |-> "new"]
    /\ sig = [r \in Requests |-> NoSignals]
    /\ answer = [r \in Requests |-> Null]
    /\ haltedSince = [r \in Requests |-> FALSE]
    /\ before = [r \in Requests |-> 0]

-----------------------------------------------------------------------------
(* What the queries of the context return *)

Rows == DOMAIN ledger
ApprovedRows == {i \in Rows : ledger[i].decision = "approve"}

Paid == [i \in Rows |-> Usd[ledger[i].req]]

\* Mutant: the sum is taken over the rate window instead of the day.
SpentMutant == SumFunctionOnSet(Paid, {i \in ApprovedRows : i > old})
Spent == SumFunctionOnSet(Paid, ApprovedRows)

\* Mutant: a request that is being screened counts as history.
KnownMutant == KnownBefore \cup {To[r] : r \in {q \in Requests : pc[q] # "new"}}
Known == KnownBefore \cup {To[ledger[i].req] : i \in Rows}

-----------------------------------------------------------------------------
(* The decision; once it is taken only what an approval rests on is kept *)

\* aggregate_confidence, in hundredths of a percent: an absent signal costs
\* nothing.
Confidence(s) ==
    LET a == IF s.anomaly = Null THEN 0 ELSE s.anomaly
        f == IF s.risk = Null THEN 100 ELSE RiskFactor[s.risk]
    IN  ((100 + s.conf) * (100 - a) * f + 100) \div 200

RequestOf(r) == [to |-> To[r], usd |-> Usd[r], gas |-> Null]

\* The time of day stays at minute 0.
Verdict(r) ==
    Evaluate(Policy, RequestOf(r),
             [used |-> sig[r].used, recent |-> sig[r].recent, known |-> sig[r].known,
              anomaly |-> sig[r].anomaly, minute |-> 0])

\* Mutant: the threshold is compared on the scale of the confidence's cents.
FinalMutant(verdict, s) ==
    IF s.sim = "reverted" THEN "reject"
    ELSE IF s.sim = "error" THEN "escalate"
    ELSE IF verdict = "approve" /\ Confidence(s) < Threshold THEN "escalate"
    ELSE verdict

\* A simulation that failed escalates even what the policy rejects.
Final(verdict, s) ==
    IF s.sim = "reverted" THEN "reject"
    ELSE IF s.sim = "error" THEN "escalate"
    ELSE IF verdict = "approve" /\ Confidence(s) < 100 * Threshold THEN "escalate"
    ELSE verdict

-----------------------------------------------------------------------------
(* Stages *)

Goto(r, stage) == pc' = [pc EXCEPT ![r] = stage]
Note(r, field, value) == sig' = [sig EXCEPT ![r][field] = value]
Reply(r, reply) ==
    /\ answer' = [answer EXCEPT ![r] = reply]
    /\ Goto(r, "done")

Handled == {r \in Requests : pc[r] \notin {"new", "done"}}

Send(r) ==
    /\ pc[r] = "new" /\ Cardinality(Handled) < MaxInFlight
    /\ Goto(r, "agent")
    /\ haltedSince' = [haltedSince EXCEPT ![r] = halted]
    /\ before' = [before EXCEPT ![r] = Len(ledger)]
    /\ UNCHANGED <<tables, sig, answer>>

\* Mutant: the halt flag is looked at by nobody.
LoadAgentMutant(r) ==
    /\ pc[r] = "agent"
    /\ Goto(r, "advise")
    /\ UNCHANGED <<tables, sig, answer, history>>

\* The agent and its kill switch, then the active policy, which stays the same.
LoadAgent(r) ==
    /\ pc[r] = "agent"
    /\ IF halted THEN Reply(r, "reject") ELSE Goto(r, "advise") /\ UNCHANGED answer
    /\ UNCHANGED <<tables, sig, history>>

\* The classifier and the simulation, which touch no table.  A classifier that
\* fails is an absent signal, and counts as one that is certain.
Advise(r) ==
    /\ pc[r] = "advise"
    /\ \E conf \in Confs \cup {100}, sim \in {"trivial", "diff", "reverted", "error"} :
           sig' = [sig EXCEPT ![r].conf = conf, ![r].sim = sim]
    /\ Goto(r, "used")
    /\ UNCHANGED <<tables, answer, history>>

\* What auto-approved transactions of the last day add up to.
ReadUsed(r) ==
    /\ pc[r] = "used"
    /\ Note(r, "used", Spent)
    /\ Goto(r, "recent")
    /\ UNCHANGED <<tables, answer, history>>

\* Every transaction of the last minute counts, whatever was decided.
ReadRecent(r) ==
    /\ pc[r] = "recent"
    /\ Note(r, "recent", Len(ledger) - old)
    /\ Goto(r, "known")
    /\ UNCHANGED <<tables, answer, history>>

\* The anomaly score is absent when there is no baseline.
ReadKnown(r) ==
    /\ pc[r] = "known"
    /\ \E a \in Scores \cup {Null} :
           sig' = [sig EXCEPT ![r].known = Known, ![r].anomaly = a]
    /\ Goto(r, "decide")
    /\ UNCHANGED <<tables, answer, history>>

\* The interpreter is asked about an escalation or a state change.
NeedsRisk(r) == Verdict(r) = "escalate" \/ sig[r].sim = "diff"

Decide(r) ==
    /\ pc[r] = "decide"
    /\ \E risk \in IF NeedsRisk(r) THEN Risks \cup {Null} ELSE {Null} :
           LET s == [sig[r] EXCEPT !.risk = risk]
               d == Final(Verdict(r), s)
           IN  sig' = [sig EXCEPT ![r] =
                   IF d = "approve"
                   THEN [s EXCEPT !.decision = d,
                                  !.used = 0, !.recent = 0, !.known = {}]
                   ELSE [NoSignals EXCEPT !.decision = d]]
    /\ Goto(r, "persist")
    /\ UNCHANGED <<tables, answer, history>>

\* A stage that ran out of time may still be using the session as it is closed.
FailClosed(r) ==
    /\ pc[r] \in Gating
    /\ Reply(r, "reject") \/ Reply(r, "unavailable")
    /\ sig' = [sig EXCEPT ![r] = NoSignals]
    /\ UNCHANGED <<tables, history>>

\* One commit stores the transaction, its audit record and its approval.
Persist(r) ==
    /\ pc[r] = "persist"
    /\ ledger' = Append(ledger, [req |-> r, decision |-> sig[r].decision])
    /\ Goto(r, "reply")
    /\ UNCHANGED <<halted, old, sig, answer, history>>

\* An exception that reaches the gateway, before or after the commit: 503.
PersistFails(r) ==
    /\ pc[r] \in {"persist", "reply"}
    /\ Reply(r, "unavailable")
    /\ UNCHANGED <<tables, sig, history>>

Respond(r) ==
    /\ pc[r] = "reply"
    /\ Reply(r, sig[r].decision)
    /\ UNCHANGED <<tables, sig, history>>

-----------------------------------------------------------------------------
(* The administrators and the clock *)

Halt ==
    /\ ~halted /\ halted' = TRUE
    /\ UNCHANGED <<ledger, old, pc, sig, answer, history>>

Resume ==
    /\ halted /\ halted' = FALSE
    /\ haltedSince' = [r \in Requests |-> FALSE]
    /\ UNCHANGED <<ledger, old, pc, sig, answer, before>>

\* The oldest transaction of the rate window turns a minute old.
Age ==
    /\ old < Len(ledger)
    /\ old' = old + 1
    /\ UNCHANGED <<halted, ledger, pc, sig, answer, history>>

Step(r) ==
    \/ LoadAgent(r) \/ Advise(r)
    \/ ReadUsed(r) \/ ReadRecent(r) \/ ReadKnown(r) \/ Decide(r)
    \/ FailClosed(r) \/ Persist(r) \/ PersistFails(r) \/ Respond(r)

Next ==
    \/ \E r \in Requests : Send(r) \/ Step(r)
    \/ Halt \/ Resume \/ Age

Spec == Init /\ [][Next]_vars

-----------------------------------------------------------------------------
(* Properties *)

\* No request is approved that takes the approved spending over the daily
\* limit, or beside as many transactions of the last minute, of any decision,
\* as the rate limit, counting all that was committed before it was sent.
\* Requests handled at the same time do not see each other and may overshoot.
LimitsHeld ==
    \A i \in ApprovedRows :
        LET r == ledger[i].req
            earlier == {j \in ApprovedRows : j <= before[r]}
        IN  /\ ~Exceeds(Usd[r] + SumFunctionOnSet(Paid, earlier), Policy.daily)
            /\ Policy.rate # Null => before[r] - old < Policy.rate

\* While the kill switch is on, no request sent after it is approved,
\* escalated or recorded, however its handling overlaps with others.
HaltedRejects ==
    \A r \in Requests : haltedSince[r] =>
        /\ answer[r] \in {"reject", "unavailable", Null}
        /\ \A i \in Rows : ledger[i].req # r

\* The first transaction with value to a counterparty the agent never dealt
\* with waits for a human, whatever runs beside it.
FirstContactWaits ==
    \A i \in ApprovedRows :
        LET r == ledger[i].req IN
        Usd[r] > 0 /\ To[r] \notin KnownBefore
            => \E j \in 1..(i - 1) : To[ledger[j].req] = To[r]

\* Nothing is approved unless the simulation succeeded and every signal that
\* was obtained leaves the confidence at the threshold: neither a drain nor a
\* critical risk, and no anomaly near the threshold of the policy.
ApprovedIsVerified ==
    \A i \in ApprovedRows :
        LET s == sig[ledger[i].req] IN
        /\ s.sim \in {"trivial", "diff"}
        /\ s.risk \notin {"critical", "drain"}
        /\ s.anomaly # Null => 100 - s.anomaly >= Threshold
=============================================================================
