------------------------------ MODULE SdkClient ------------------------------
(***************************************************************************)
(* The customer SDKs (sdk/python, sdk/typescript): an agent asks the       *)
(* gateway to screen a transaction over an unreliable network and signs it *)
(* only if the answer is `approve`.  A request that timed out may still be *)
(* screened later; every screening commits a transaction row of its own,   *)
(* and an approved row counts against the agent's limits.                  *)
(***************************************************************************)
EXTENDS Integers, FiniteSets

CONSTANTS
    Asks,        \* calls of screen_and_sign
    MaxRetries,  \* max_retries of a client
    MaxLost      \* bound: requests and answers that are lost or mangled

ClientConstants ==
    {MaxRetries, MaxLost} \subseteq Nat

VARIABLES
    sdk,      \* sdk[a]: the client a call is made with
    stage,    \* of a call: new, send, wait, or its outcome
    attempt,  \* attempts a call has made
    wire,     \* attempts on their way to the gateway
    replies,  \* answers on their way to the client
    missed,   \* attempts the client gave up on with the outcome unknown
    mangled,  \* screened attempts whose answer a proxy or a fault has replaced
    rows,     \* committed screenings, with the attempt that caused them
    closed,   \* the client has been closed
    lost      \* losses so far

vars == <<sdk, stage, attempt, wire, replies, missed, mangled, rows, closed, lost>>

Judged == {"approve", "escalate", "reject"}
\* 401; 429, 5xx or a body that does not parse; any other status.
Refusals == {"unauthorized", "error", "invalid"}
Sending == {"new", "send", "wait"}

Init ==
    /\ sdk \in [Asks -> {"python", "typescript"}]
    /\ stage = [a \in Asks |-> "new"]
    /\ attempt = [a \in Asks |-> 0]
    /\ wire = {} /\ replies = {} /\ missed = {} /\ mangled = {}
    /\ rows = {}
    /\ closed = FALSE
    /\ lost = 0

This(a) == [ask |-> a, n |-> attempt[a]]

-----------------------------------------------------------------------------
(* The client *)

\* screen: the request leaves.  A closed TypeScript client refuses new calls,
\* a closed Python session every further request.
Send(a) ==
    /\ stage[a] \in {"new", "send"}
    /\ IF closed /\ (stage[a] = "new" \/ sdk[a] = "python")
       THEN /\ stage' = [stage EXCEPT ![a] = "closed"]
            /\ UNCHANGED <<attempt, wire>>
       ELSE /\ attempt' = [attempt EXCEPT ![a] = attempt[a] + 1]
            /\ wire' = wire \cup {[ask |-> a, n |-> attempt[a] + 1]}
            /\ stage' = [stage EXCEPT ![a] = "wait"]
    /\ UNCHANGED <<sdk, replies, missed, mangled, rows, closed, lost>>

\* Try again while attempts are left: max_retries + 1 of them.
Again(a) == IF attempt[a] <= MaxRetries THEN "send" ELSE "transport"

\* Mutant: an attempt that timed out is not counted.
GiveUpMutant(a) ==
    /\ stage[a] = "wait"
    /\ missed' = missed \cup {This(a)}
    /\ attempt' = [attempt EXCEPT ![a] = attempt[a] - 1]
    /\ stage' = [stage EXCEPT ![a] = Again(a)]
    /\ UNCHANGED <<sdk, wire, replies, mangled, rows, closed, lost>>

\* Timeout or transport failure: the outcome of this attempt stays unknown.
GiveUp(a) ==
    /\ stage[a] = "wait"
    /\ missed' = missed \cup {This(a)}
    /\ stage' = [stage EXCEPT ![a] = Again(a)]
    /\ UNCHANGED <<sdk, attempt, wire, replies, mangled, rows, closed, lost>>

\* What _sign_if_approved makes of a decision; the signer is called once.
\* Mutant: signed unless rejected.
SignIfApprovedMutant(decision) == IF decision = "reject" THEN "rejected" ELSE "signed"

SignIfApproved(decision) ==
    CASE decision = "approve" -> "signed"
      [] decision = "reject" -> "rejected"
      [] decision = "escalate" -> "escalated"

\* _decode.  Only the TypeScript client retries a status it does not expect.
Refused(a, answer) ==
    CASE answer = "unauthorized" -> "unauthorized"
      [] answer = "error" -> "unavailable"
      [] answer = "invalid" -> IF sdk[a] = "typescript" THEN Again(a) ELSE "transport"

\* Mutant: a client that was closed meanwhile drops the answer.
ReceiveMutant(a) ==
    /\ stage[a] = "wait"
    /\ \E answer \in Judged \cup Refusals :
          LET r == [of |-> This(a), answer |-> answer] IN
          /\ r \in replies
          /\ replies' = replies \ {r}
          /\ stage' = [stage EXCEPT ![a] = IF closed THEN "closed"
                                          ELSE IF answer \in Judged
                                          THEN SignIfApproved(answer)
                                          ELSE Refused(a, answer)]
    /\ UNCHANGED <<sdk, attempt, wire, missed, mangled, rows, closed, lost>>

\* The reply to the attempt the client is waiting on; later ones find the
\* connection gone.
Receive(a) ==
    /\ stage[a] = "wait"
    /\ \E answer \in Judged \cup Refusals :
          LET r == [of |-> This(a), answer |-> answer] IN
          /\ r \in replies
          /\ replies' = replies \ {r}
          /\ stage' = [stage EXCEPT ![a] = IF answer \in Judged
                                          THEN SignIfApproved(answer)
                                          ELSE Refused(a, answer)]
    /\ UNCHANGED <<sdk, attempt, wire, missed, mangled, rows, closed, lost>>

Close ==
    /\ ~closed
    /\ closed' = TRUE
    /\ UNCHANGED <<sdk, stage, attempt, wire, replies, missed, mangled, rows, lost>>

-----------------------------------------------------------------------------
(* The gateway and the network *)

\* The attempt is screened and its row committed, whatever the pipeline decides.
\* A fault after the commit (503), a proxy (5xx, another status) or a body that
\* does not parse may take the place of the answer.
Screen(m) ==
    /\ wire' = wire \ {m}
    /\ \E decision \in Judged :
          /\ rows' = rows \cup {[of |-> m, decision |-> decision]}
          /\ \/ /\ replies' = replies \cup {[of |-> m, answer |-> decision]}
                /\ UNCHANGED <<mangled, lost>>
             \/ /\ lost < MaxLost
                /\ lost' = lost + 1
                /\ mangled' = mangled \cup {m}
                /\ \E answer \in {"error", "invalid"} :
                      replies' = replies \cup {[of |-> m, answer |-> answer]}
    /\ UNCHANGED <<sdk, stage, attempt, missed, closed>>

\* Answered without any row being written: the key, the quota, an invalid
\* request, a fault; or 200 and `reject` for an agent outside the key's scope.
Refuse(m) ==
    /\ wire' = wire \ {m}
    /\ \E answer \in Refusals \cup {"reject"} :
          replies' = replies \cup {[of |-> m, answer |-> answer]}
    /\ UNCHANGED <<sdk, stage, attempt, missed, mangled, rows, closed, lost>>

Lose ==
    /\ lost < MaxLost
    /\ lost' = lost + 1
    /\ \/ \E m \in wire : wire' = wire \ {m} /\ UNCHANGED replies
       \/ \E r \in replies : replies' = replies \ {r} /\ UNCHANGED wire
    /\ UNCHANGED <<sdk, stage, attempt, missed, mangled, rows, closed>>

Next ==
    \/ \E a \in Asks : Send(a) \/ GiveUp(a) \/ Receive(a)
    \/ Close
    \/ \E m \in wire : Screen(m) \/ Refuse(m)
    \/ Lose

Spec == Init /\ [][Next]_vars

\* The client's loop runs and its request timeout (10 s) ends every wait.
FairSpec == Spec /\ \A a \in Asks : WF_vars(Send(a) \/ GiveUp(a) \/ Receive(a))

-----------------------------------------------------------------------------
(* Properties *)

\* SR-04: a call signs only under a committed approval of the very attempt it
\* was answered for; a lost, late, refused or mangled answer never signs.
SignedIsApproved ==
    \A a \in Asks :
        stage[a] = "signed" => [of |-> This(a), decision |-> "approve"] \in rows

\* The converse: an approval is in vain, its row counting against the agent's
\* limits with nothing signed, only if its answer was lost, late or mangled.  A
\* call that has ended has signed on every other approval it caused, whatever
\* was retried and whenever the client was closed.
InVainForLoss ==
    \A r \in rows :
        (r.decision = "approve" /\ stage[r.of.ask] \notin Sending) =>
            \/ r.of = This(r.of.ask) /\ stage[r.of.ask] = "signed"
            \/ r.of \in missed \cup mangled

\* Every call ends with a signature or an error, whatever is lost.
CallsEnd == \A a \in Asks : stage[a] \in Sending ~> stage[a] \notin Sending
=============================================================================
