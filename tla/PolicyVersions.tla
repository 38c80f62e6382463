---------------------------- MODULE PolicyVersions ----------------------------
(***************************************************************************)
(* The versions of one agent's policy.  Registering the agent inserts      *)
(* version 1; an update reads the active row, inserts the next version as  *)
(* active and deactivates the row it has read.  Requests run in the thread *)
(* pool of every gateway replica, at READ COMMITTED, and nothing makes     *)
(* (agent, version) unique.                                                *)
(*                                                                         *)
(* The two ends of the active window stand for all the fields that carry   *)
(* over when an update omits them; the anomaly threshold is apart because  *)
(* the schema gives it a default.                                          *)
(***************************************************************************)
EXTENDS Integers, Sequences, FiniteSets

CONSTANTS
    Requests,    \* requests in progress at a time
    Minutes,     \* ends of the active window
    Thresholds,  \* anomaly thresholds
    DefaultThreshold,
    MaxRows,     \* bound: versions published
    Null

ASSUME PolicyVersionConstants ==
    /\ Minutes \subseteq Nat /\ Thresholds \subseteq Nat
    /\ DefaultThreshold \in Thresholds
    /\ Null \notin Minutes \cup Thresholds
    /\ MaxRows \in Nat

OrNull(S) == S \cup {Null}

Policies == [from : OrNull(Minutes), to : OrNull(Minutes), threshold : Thresholds]

\* A PUT body; Null is a field the caller omits.
Bodies ==
    {b \in [from : OrNull(Minutes), to : OrNull(Minutes), threshold : OrNull(Thresholds)] :
        b.from # Null /\ b.to # Null => b.from <= b.to}

Omitted == [from |-> Null, to |-> Null, threshold |-> Null]
DefaultPolicy == [from |-> Null, to |-> Null, threshold |-> DefaultThreshold]

VARIABLES
    rows,        \* committed rows of `policies`, oldest insert first: [version, fields]
    active,      \* rows whose is_active is set
    pc,          \* where a request is
    base,        \* the row it has read
    body,        \* what it publishes
    given,       \* the value an admin last gave for every field
    overlapped   \* whether two updates were ever based on one row

vars == <<rows, active, pc, base, body, given, overlapped>>

TypeOK ==
    /\ rows \in Seq([version : Nat, fields : Policies])
    /\ active \subseteq DOMAIN rows
    /\ pc \in [Requests -> {"idle", "register", "publish", "conflict", "missing", "error"}]
    /\ base \in [Requests -> Nat]
    /\ \A r \in Requests : pc[r] = "publish" => base[r] \in DOMAIN rows
    /\ body \in [Requests -> Bodies]
    /\ given \in Policies
    /\ overlapped \in BOOLEAN

Init ==
    /\ rows = <<>>
    /\ active = {}
    /\ pc = [r \in Requests |-> "idle"]
    /\ base = [r \in Requests |-> 0]
    /\ body = [r \in Requests |-> Omitted]
    /\ given = DefaultPolicy
    /\ overlapped = FALSE

-----------------------------------------------------------------------------
(* Reading *)

\* Mutant: without ORDER BY version DESC, any active row.
InForceMutant == active

\* The rows a reader may be given: the active ones of the newest version.
InForce == {i \in active : \A j \in active : rows[j].version <= rows[i].version}

-----------------------------------------------------------------------------
(* Registration: the agent is looked up, then inserted under a unique key *)

RegisterLoad(r) ==
    /\ pc[r] = "idle"
    /\ pc' = [pc EXCEPT ![r] = IF rows = <<>> THEN "register" ELSE "conflict"]
    /\ UNCHANGED <<rows, active, base, body, given, overlapped>>

\* The flush that inserts the agent is outside the handler's try: the loser
\* of a race gets a server error, not the 409 the commit is guarded for.
RegisterCommit(r) ==
    /\ pc[r] = "register"
    /\ IF rows = <<>>
         THEN /\ rows' = <<[version |-> 1, fields |-> DefaultPolicy]>>
              /\ active' = {1}
              /\ pc' = [pc EXCEPT ![r] = "idle"]
         ELSE /\ pc' = [pc EXCEPT ![r] = "error"]
              /\ UNCHANGED <<rows, active>>
    /\ UNCHANGED <<base, body, given, overlapped>>

-----------------------------------------------------------------------------
(* Updates *)

UpdateLoad(r, b) ==
    /\ pc[r] = "idle"
    /\ Len(rows) < MaxRows
    /\ IF active = {}
         THEN pc' = [pc EXCEPT ![r] = "missing"] /\ UNCHANGED <<base, body>>
         ELSE /\ pc' = [pc EXCEPT ![r] = "publish"]
              /\ \E i \in InForce : base' = [base EXCEPT ![r] = i]
              /\ body' = [body EXCEPT ![r] = b]
    /\ UNCHANGED <<rows, active, given, overlapped>>

CarryOver(value, old) == IF value = Null THEN old ELSE value

\* Mutant: the window is taken from the body as it is.
NextFieldsMutant(b, old) ==
    [from |-> b.from, to |-> b.to, threshold |-> CarryOver(b.threshold, DefaultThreshold)]

\* An omitted threshold is the default of the schema.
NextFields(b, old) ==
    [from |-> CarryOver(b.from, old.from),
     to |-> CarryOver(b.to, old.to),
     threshold |-> CarryOver(b.threshold, DefaultThreshold)]

\* One transaction: the new row, the old one's flag, the audit record.
UpdateCommit(r) ==
    LET old == rows[base[r]]
        b == body[r]
    IN  /\ pc[r] = "publish"
        /\ rows' = Append(rows, [version |-> old.version + 1,
                                 fields |-> NextFields(b, old.fields)])
        /\ active' = (active \ {base[r]}) \cup {Len(rows')}
        /\ pc' = [pc EXCEPT ![r] = "idle"]
        /\ given' = [from |-> CarryOver(b.from, given.from),
                     to |-> CarryOver(b.to, given.to),
                     threshold |-> CarryOver(b.threshold, given.threshold)]
        /\ overlapped' = (overlapped \/ base[r] \notin active)
        /\ base' = [base EXCEPT ![r] = 0]
        /\ body' = [body EXCEPT ![r] = Omitted]

Answer(r) ==
    /\ pc[r] \in {"conflict", "missing", "error"}
    /\ pc' = [pc EXCEPT ![r] = "idle"]
    /\ UNCHANGED <<rows, active, base, body, given, overlapped>>

Next ==
    \E r \in Requests :
        \/ RegisterLoad(r) \/ RegisterCommit(r)
        \/ (\E b \in Bodies : UpdateLoad(r, b)) \/ UpdateCommit(r)
        \/ Answer(r)

Spec == Init /\ [][Next]_vars

-----------------------------------------------------------------------------
(* Properties *)

\* A reader is given the newest version there is, however updates overlap and
\* whatever rows they leave active (schemas/policy.py: the screening engine
\* reads the newest active row).
InForceIsNewest ==
    /\ rows # <<>> => InForce # {}
    /\ \A i \in InForce : \A j \in DOMAIN rows : rows[j].version <= rows[i].version

\* The policy in force never goes back to an older version.
NeverOlder ==
    [][\A i \in InForce : \A j \in InForce' : rows'[j].version >= rows[i].version]_vars

\* As long as no two updates overlap, one version is active.  Its window is the
\* one admins gave, whichever updates gave its ends; its threshold is the one
\* they gave last, or the schema's default, and never one they gave before.
SequentialUpdatesStand ==
    rows # <<>> /\ ~overlapped =>
        \E i \in DOMAIN rows :
            /\ active = {i}
            /\ rows[i].fields.from = given.from /\ rows[i].fields.to = given.to
            /\ rows[i].fields.threshold \in {given.threshold, DefaultThreshold}
=============================================================================
