----------------------------- MODULE MCScreening -----------------------------
(* Small instances of Screening and the parts it rests on. *)
EXTENDS ScreeningParts, TLC

CONSTANTS r1, r2, r3, friend, stranger, x1, x2

\* r3 is the agent's first contact with its counterparty.
OneToStranger == [r \in Requests |-> IF r = r3 THEN stranger ELSE friend]
OneEach == [r \in Requests |-> 1]

\* Requests that are sent alike are interchangeable, and so are the addresses
\* of the engine's inputs.
Symmetry == {f @@ g : f \in Permutations(Requests \ {r3}), g \in Permutations({x1, x2})}

\* One transaction a day and a minute; the anomaly threshold is its default.
Limits == [spend |-> Null, daily |-> 1, rate |-> 1, gas |-> Null,
           allow |-> {}, deny |-> {}, from |-> Null, to |-> Null, threshold |-> 70]
=============================================================================
