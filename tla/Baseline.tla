------------------------------- MODULE Baseline -------------------------------
(***************************************************************************)
(* The behavioural baseline of one agent (orchestrator/baseline.py,        *)
(* anomaly_scorer/baseline.py): concurrent screenings read the newest      *)
(* profile, compute one when there is none or it is old, commit their      *)
(* transaction and then bring the profile up to date, at most every Fresh  *)
(* units of time (five minutes).  Reading the history and committing the   *)
(* profile are two steps; nothing keeps profiles unique per agent.         *)
(***************************************************************************)
EXTENDS Integers, FiniteSets, FiniteSetsExt

CONSTANTS
    Screenings,  \* screenings of the agent
    Fresh,       \* age up to which a refresh is skipped (5 minutes)
    Stale,       \* age from which a profile is computed anew (30 days)
    Window,      \* how far back the history counts (90 days)
    MaxTime,     \* bound on the clock
    MaxFaults,   \* bound: database failures
    Null

BaselineConstants ==
    /\ Fresh \in Nat \ {0} /\ Stale \in Nat /\ Window \in Nat
    /\ MaxTime \in Nat /\ MaxFaults \in Nat
    /\ Null \notin Screenings

VARIABLES
    now,
    pc,        \* where a screening is
    seen,      \* the history it has read for a new profile, and when
    row,       \* the profile it will overwrite; Null when it will insert one
    txs,       \* committed transactions: the screening and its time
    profiles,  \* committed profiles: who inserted it, computed_at, what it counts,
               \* and when that was read
    missed,    \* screenings whose refresh failed
    faults

vars == <<now, pc, seen, row, txs, profiles, missed, faults>>

Unread == [of |-> {}, at |-> 0]

Init ==
    /\ now = 0
    /\ pc = [s \in Screenings |-> "idle"]
    /\ seen = [s \in Screenings |-> Unread]
    /\ row = [s \in Screenings |-> Null]
    /\ txs = {} /\ profiles = {} /\ missed = {}
    /\ faults = 0

Goto(s, point) == pc' = [pc EXCEPT ![s] = point]

\* ORDER BY computed_at DESC LIMIT 1: any of the newest.
Newest == {p \in profiles : \A q \in profiles : q.at <= p.at}

History == {t \in txs : t.at >= now - Window}

\* The history is read for the profile p, or for a first one.
Read(s, p) ==
    /\ seen' = [seen EXCEPT ![s] = [of |-> History, at |-> now]]
    /\ row' = [row EXCEPT ![s] = p]

Drop(s) == seen' = [seen EXCEPT ![s] = Unread] /\ row' = [row EXCEPT ![s] = Null]

\* The row of a new profile, dated when it is written.
Row(s, profile) ==
    [id |-> IF row[s] = Null THEN s ELSE row[s], at |-> now,
     of |-> profile.of, read |-> profile.at]

\* Mutant: a profile that is there already keeps its features.
WrittenMutant(s) ==
    {p \in profiles : row[s] = Null \/ p.id # row[s]}
        \cup {Row(s, IF row[s] = Null THEN seen[s]
                     ELSE [seen[s] EXCEPT !.of = (CHOOSE p \in profiles : p.id = row[s]).of])}

\* The profile is written over the row that was read, or inserted.
Written(s) ==
    {p \in profiles : row[s] = Null \/ p.id # row[s]} \cup {Row(s, seen[s])}

\* get_or_compute_baseline: use the newest profile, or compute one.
Load(s) ==
    /\ pc[s] = "idle"
    /\ \/ /\ profiles = {}
          /\ Read(s, Null)
          /\ Goto(s, "compute")
       \/ \E p \in Newest :
             IF p.at < now - Stale
             THEN Read(s, p.id) /\ Goto(s, "compute")
             ELSE Goto(s, "judge") /\ UNCHANGED <<seen, row>>
    /\ UNCHANGED <<now, txs, profiles, missed, faults>>

Compute(s) ==
    /\ pc[s] = "compute"
    /\ profiles' = Written(s)
    /\ Drop(s)
    /\ Goto(s, "judge")
    /\ UNCHANGED <<now, txs, missed, faults>>

\* A database error, or the stage's budget: the screening is refused and
\* leaves no transaction.
LoadFails(s) ==
    /\ pc[s] \in {"compute", "judge"}
    /\ faults < MaxFaults
    /\ faults' = faults + 1
    /\ Goto(s, "done")
    /\ UNCHANGED <<now, seen, row, txs, profiles, missed>>

\* The decision commits; rejected and escalated transactions count as well.
Commit(s) ==
    /\ pc[s] = "judge"
    /\ txs' = txs \cup {[of |-> s, at |-> now]}
    /\ Goto(s, "refresh")
    /\ UNCHANGED <<now, seen, row, profiles, missed, faults>>

Due(p) == now - p.at >= Fresh

\* refresh_baseline
Refresh(s) ==
    /\ pc[s] = "refresh"
    /\ \/ profiles = {} /\ Read(s, Null) /\ Goto(s, "save")
       \/ \E p \in Newest :
             IF Due(p)
             THEN Read(s, p.id) /\ Goto(s, "save")
             ELSE Goto(s, "done") /\ UNCHANGED <<seen, row>>
    /\ UNCHANGED <<now, txs, profiles, missed, faults>>

Save(s) ==
    /\ pc[s] = "save"
    /\ profiles' = Written(s)
    /\ Drop(s)
    /\ Goto(s, "done")
    /\ UNCHANGED <<now, txs, missed, faults>>

\* Every error of the refresh is suppressed.
RefreshFails(s) ==
    /\ pc[s] \in {"refresh", "save"}
    /\ faults < MaxFaults
    /\ faults' = faults + 1
    /\ missed' = missed \cup {s}
    /\ Goto(s, "done")
    /\ UNCHANGED <<now, seen, row, txs, profiles>>

Tick ==
    /\ now < MaxTime
    /\ now' = now + 1
    /\ UNCHANGED <<pc, seen, row, txs, profiles, missed, faults>>

Next ==
    \/ \E s \in Screenings :
          \/ Load(s) \/ Compute(s) \/ LoadFails(s) \/ Commit(s)
          \/ Refresh(s) \/ Save(s) \/ RefreshFails(s)
    \/ Tick

Spec == Init /\ [][Next]_vars

-----------------------------------------------------------------------------
(* Properties *)

\* FR-DATA-02, as far as it holds: what the newest profile lacks was committed
\* after its history was read, and less than Fresh after its date, once the
\* screening that committed it has ended and its own refresh did not fail;
\* whichever readings overlap and however late one is written.
FreshOrRecent ==
    \A p \in Newest, t \in History :
        (t \notin p.of /\ pc[t.of] = "done" /\ t.of \notin missed)
            => p.read <= t.at /\ t.at < p.at + Fresh
=============================================================================
