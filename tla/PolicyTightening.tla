-------------------------- MODULE PolicyTightening --------------------------
(***************************************************************************)
(* Every bounded input of the policy engine, and the steps that make one   *)
(* harsher: a stricter policy, more spending, more transactions, a higher  *)
(* anomaly score, a counterparty that is forgotten.                        *)
(***************************************************************************)
EXTENDS PolicyEngine

CONSTANTS
    Amounts,   \* USD values, spending and spend limits
    Counts,    \* transactions in the rate window, and rate limits
    Minutes,   \* minutes of the day, and ends of the active window
    Gases,     \* gas limits requested, and ceilings
    Scores,    \* anomaly scores and thresholds
    MaxRules   \* bound: fields of the policy that are set

InputsAreNumbers ==
    /\ Amounts \subseteq Nat /\ Counts \subseteq Nat /\ Minutes \subseteq Nat
    /\ Gases \subseteq Nat /\ Scores \subseteq Nat /\ MaxRules \in Nat

VARIABLES policy, request, context
vars == <<policy, request, context>>

OrNull(S) == S \cup {Null}

RequestInputs == [to : OrNull(Addresses), usd : Amounts, gas : OrNull(Gases)]
Contexts == [used : Amounts, recent : Counts, known : SUBSET Addresses,
             anomaly : OrNull(Scores), minute : Minutes]

\* The fields a policy sets; a window is set by both of its ends.
Live(p) ==
    {f \in {"spend", "daily", "rate", "gas"} : p[f] # Null}
        \cup {f \in {"allow", "deny"} : p[f] # {}}
        \cup {f \in {"window"} : p.from # Null}

\* The policies that set at most MaxRules fields, built field by field.
Some(f, S, fields, none) == IF f \in fields THEN S ELSE {none}

PoliciesSetting(fields) ==
    {p \in [spend : Some("spend", Amounts, fields, Null),
            daily : Some("daily", Amounts, fields, Null),
            rate : Some("rate", Counts, fields, Null),
            gas : Some("gas", Gases, fields, Null),
            allow : Some("allow", (SUBSET Addresses) \ {{}}, fields, {}),
            deny : Some("deny", (SUBSET Addresses) \ {{}}, fields, {}),
            from : Some("window", Minutes, fields, Null),
            to : Some("window", Minutes, fields, Null),
            threshold : Scores] : p.from # Null => p.from < p.to}

Fields == {"spend", "daily", "rate", "gas", "allow", "deny", "window"}

Init ==
    /\ \E fields \in {F \in SUBSET Fields : Cardinality(F) <= MaxRules} :
           policy \in PoliciesSetting(fields)
    /\ request \in RequestInputs
    /\ context \in Contexts

-----------------------------------------------------------------------------
\* A limit that is set for the first time, or lowered.
LowerLimit(f, limits) ==
    /\ \E x \in limits :
           /\ policy[f] # Null => x < policy[f]
           /\ policy' = [policy EXCEPT ![f] = x]
    /\ Cardinality(Live(policy')) <= MaxRules
    /\ UNCHANGED <<request, context>>

\* Removing the last address of an allow list would admit every address.
RestrictAllow ==
    /\ \E S \in (SUBSET Addresses) \ {{}} :
           /\ policy.allow # {} => S \subseteq policy.allow
           /\ policy' = [policy EXCEPT !.allow = S]
    /\ Cardinality(Live(policy')) <= MaxRules
    /\ UNCHANGED <<request, context>>

ExtendDeny ==
    /\ \E a \in Addresses : policy' = [policy EXCEPT !.deny = @ \cup {a}]
    /\ Cardinality(Live(policy')) <= MaxRules
    /\ UNCHANGED <<request, context>>

LowerThreshold ==
    /\ \E x \in Scores : x < policy.threshold /\ policy' = [policy EXCEPT !.threshold = x]
    /\ UNCHANGED <<request, context>>

Harsher(f, values) ==
    /\ \E x \in values :
           /\ context[f] # Null => x > context[f]
           /\ context' = [context EXCEPT ![f] = x]
    /\ UNCHANGED <<policy, request>>

Forget ==
    /\ \E a \in context.known : context' = [context EXCEPT !.known = @ \ {a}]
    /\ UNCHANGED <<policy, request>>

RaiseValue ==
    /\ \E x \in Amounts : x > request.usd /\ request' = [request EXCEPT !.usd = x]
    /\ UNCHANGED <<policy, context>>

Next ==
    \/ LowerLimit("spend", Amounts) \/ LowerLimit("daily", Amounts)
    \/ LowerLimit("rate", Counts) \/ LowerLimit("gas", Gases)
    \/ RestrictAllow \/ ExtendDeny \/ LowerThreshold
    \/ Harsher("used", Amounts) \/ Harsher("recent", Counts) \/ Harsher("anomaly", Scores)
    \/ Forget \/ RaiseValue

Spec == Init /\ [][Next]_vars

-----------------------------------------------------------------------------
(* Properties *)

Verdict == Evaluate(policy, request, context)

\* Although the engine returns at the first rule that applies, its decision is
\* the harshest of all the rules that do (engine.py: the harshest wins).
HarshestWins ==
    LET rules == Rules(policy, request, context)
    IN  /\ \A i \in Applying(rules) : Rank[rules[i].decision] <= Rank[Verdict]
        /\ Applying(rules) = {} <=> Verdict = "approve"

\* No tightening of the inputs ever earns a milder decision.
NoMilder == Rank[Verdict'] >= Rank[Verdict]
NeverMilder == [][NoMilder]_vars
=============================================================================
