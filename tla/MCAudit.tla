------------------------------- MODULE MCAudit -------------------------------
(***************************************************************************)
(* Values of the constants of AuditTrail for its runs.                     *)
(***************************************************************************)
EXTENDS AuditTrail

CONSTANTS h1, h2, o1, o2  \* hashes and organisations

\* The second record is of another organisation.
OneForeign == [r \in LeafIds |-> IF r = 2 THEN o2 ELSE o1]
=============================================================================
