---------------------------- MODULE CircuitBreaker ----------------------------
(***************************************************************************)
(* The circuit breaker of the LLM client that the advisory agents of a     *)
(* pipeline share (screening_agents: circuit_breaker.py, llm.py).  Calls   *)
(* run in worker threads and outlive the stage that started them, so their *)
(* outcomes arrive in any order, also while the breaker is open.  Time     *)
(* counts in units of which Cooldown make cooldown_seconds.                *)
(***************************************************************************)
EXTENDS Integers, Sequences

CONSTANTS
    Workers,    \* threads a call can run in
    Threshold,  \* failure_threshold
    Cooldown,   \* cooldown_seconds
    Null

BreakerConstants ==
    /\ Threshold \in Nat \ {0} /\ Cooldown \in Nat \ {0}
    /\ Null \notin Int

VARIABLES
    failures,  \* _consecutive_failures, counted up to Threshold
    opened,    \* age of _opened_at, counted up to Cooldown; Null when closed
    saw,       \* saw[w]: how the provider has been during the call of w; {} without one
    healthy,   \* the provider answers
    outcomes   \* the last outcomes, newest first: Success, or the age of a failure

vars == <<failures, opened, saw, healthy, outcomes>>

Init ==
    /\ failures = 0
    /\ opened = Null
    /\ saw = [w \in Workers |-> {}]
    /\ healthy \in BOOLEAN
    /\ outcomes = <<>>

AtMost(n, bound) == IF n < bound THEN n ELSE bound

\* Mutant: once open, always open.
IsOpenMutant == opened # Null

\* is_open: there is no half-open state; the cooldown over, every call passes.
IsOpen == opened # Null /\ opened < Cooldown

\* complete: a call that is not refused goes to the provider.
Begin(w) ==
    /\ saw[w] = {}
    /\ ~IsOpen
    /\ saw' = [saw EXCEPT ![w] = {healthy}]
    /\ UNCHANGED <<failures, opened, healthy, outcomes>>

Success == -1
Log(outcome) == outcomes' = SubSeq(<<outcome>> \o outcomes, 1, AtMost(Len(outcomes) + 1, Threshold))

\* Mutant: a success does not start the count again.
SucceedMutant(w) ==
    /\ TRUE \in saw[w]
    /\ saw' = [saw EXCEPT ![w] = {}]
    /\ opened' = Null
    /\ Log(Success)
    /\ UNCHANGED <<failures, healthy>>

\* record_success: also of a call that began before the breaker opened.
Succeed(w) ==
    /\ TRUE \in saw[w]
    /\ saw' = [saw EXCEPT ![w] = {}]
    /\ failures' = 0
    /\ opened' = Null
    /\ Log(Success)
    /\ UNCHANGED healthy

Trips(n) == n >= Threshold

\* record_failure: an error, the timeout or an answer that fails its schema;
\* a failure that arrives while the breaker is open starts the cooldown again,
\* and one of a call begun before the provider came back may still be coming.
Fail(w) ==
    /\ FALSE \in saw[w]
    /\ saw' = [saw EXCEPT ![w] = {}]
    /\ failures' = AtMost(failures + 1, Threshold)
    /\ opened' = IF Trips(failures + 1) THEN 0 ELSE opened
    /\ Log(0)
    /\ UNCHANGED healthy

Aged(o) == IF o = Success THEN o ELSE AtMost(o + 1, Cooldown)

\* Time passes while it can still change an answer of is_open.
Tick ==
    /\ opened # Null /\ opened < Cooldown
    /\ opened' = opened + 1
    /\ outcomes' = [i \in DOMAIN outcomes |-> Aged(outcomes[i])]
    /\ UNCHANGED <<failures, saw, healthy>>

\* The provider fails or comes back; a call under way may meet either.
Turn ==
    /\ healthy' = ~healthy
    /\ saw' = [w \in Workers |-> IF saw[w] = {} THEN {} ELSE BOOLEAN]
    /\ UNCHANGED <<failures, opened, outcomes>>

Next ==
    \/ \E w \in Workers : Begin(w) \/ Succeed(w) \/ Fail(w)
    \/ Tick \/ Turn

Spec == Init /\ [][Next]_vars

\* A call ends within its timeout.
FairSpec ==
    Spec /\ WF_vars(Tick) /\ \A w \in Workers : WF_vars(Succeed(w) \/ Fail(w))

-----------------------------------------------------------------------------
(* Properties *)

\* The last Threshold outcomes were failures, the latest of them within the
\* cooldown.
Tripped ==
    /\ Len(outcomes) = Threshold
    /\ \A i \in DOMAIN outcomes : outcomes[i] # Success
    /\ outcomes[1] < Cooldown

\* Calls are refused only while the breaker is tripped, in whatever order the
\* calls of several threads end: never after a success, and never past the
\* cooldown of the latest failure.
RefusesForCause == IsOpen => Tripped

\* Once the provider answers for good, calls are eventually let through for
\* good, without a restart and however many failures were still on their way.
Recovers == <>[]healthy => <>[]~IsOpen
=============================================================================
