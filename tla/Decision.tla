------------------------------- MODULE Decision -------------------------------
(***************************************************************************)
(* What the Execution Adapter promises about an approved decision, with    *)
(* its tokens, nonces, locks, replicas and retries left out: it is sent    *)
(* under authorisations, one attempt each; one attempt is under way at a   *)
(* time; it ends broadcast or cancelled, and nothing is posted for it      *)
(* unless an attempt is under way.                                         *)
(***************************************************************************)
EXTENDS Integers

CONSTANT Decisions

VARIABLES
    state,    \* of a decision: approved, broadcast or cancelled
    granted,  \* authorisations given to send it
    counted,  \* attempts recorded
    sending,  \* decisions an attempt is under way for
    posted    \* decisions something has been posted for

vars == <<state, granted, counted, sending, posted>>

Init ==
    /\ state = [d \in Decisions |-> "approved"]
    /\ granted = [d \in Decisions |-> 0]
    /\ counted = [d \in Decisions |-> 0]
    /\ sending = {}
    /\ posted = {}

Grant(d) ==
    /\ granted' = [granted EXCEPT ![d] = granted[d] + 1]
    /\ UNCHANGED <<state, counted, sending, posted>>

Claim(d) ==
    /\ state[d] = "approved" /\ d \notin sending
    /\ sending' = sending \cup {d}
    /\ UNCHANGED <<state, granted, counted, posted>>

Post(d) ==
    /\ d \in sending
    /\ posted' = posted \cup {d}
    /\ UNCHANGED <<state, granted, counted, sending>>

\* An attempt is recorded, under an authorisation of its own.
Record(d) ==
    /\ counted[d] < granted[d]
    /\ counted' = [counted EXCEPT ![d] = counted[d] + 1]
    /\ sending' = sending \ {d}
    /\ UNCHANGED <<granted, posted>>

Broadcast(d) ==
    /\ d \in sending
    /\ Record(d)
    /\ state' = [state EXCEPT ![d] = "broadcast"]

\* The attempt fails, or is refused before it starts while no other runs.
Fail(d) == state[d] = "approved" /\ Record(d) /\ UNCHANGED state

Cancel(d) ==
    /\ state[d] = "approved" /\ d \notin sending
    /\ state' = [state EXCEPT ![d] = "cancelled"]
    /\ UNCHANGED <<granted, counted, sending, posted>>

\* A crash: the attempts of a replica end unrecorded.
Forget(S) ==
    /\ sending' = sending \ S
    /\ UNCHANGED <<state, granted, counted, posted>>

Next ==
    \/ \E d \in Decisions :
         Grant(d) \/ Claim(d) \/ Post(d) \/ Broadcast(d) \/ Fail(d) \/ Cancel(d)
    \/ \E S \in SUBSET Decisions : Forget(S)

Spec == Init /\ [][Next]_vars
=============================================================================
