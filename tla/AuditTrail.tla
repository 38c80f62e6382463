----------------------------- MODULE AuditTrail ------------------------------
(***************************************************************************)
(* The audit trail: AuditAnchor, with its replicas and, on the same        *)
(* variables, with those of another deployment that meets no fault; and    *)
(* beside it, with variables of its own, AuditTrees.  A behaviour is one   *)
(* of these parts.                                                         *)
(***************************************************************************)
EXTENDS AuditAnchor

CONSTANTS
    Parts,                      \* the parts to look at
    Replicas,                   \* Procs of the other deployment
    LeafIds, TreeSize,          \* Records and MaxRecords of AuditTrees
    Hashes, Times, Orgs, OrgOf, ExportLimit

VARIABLES part, treeRows, treeBatch, treeRoots
trees == <<treeRows, treeBatch, treeRoots>>
trailVars == <<part, vars, trees>>

Many == INSTANCE AuditAnchor WITH Procs <- Replicas, MaxFaults <- 0, MaxReorgs <- 0

Trees == INSTANCE AuditTrees WITH
    Records <- LeafIds, MaxRecords <- TreeSize,
    rows <- treeRows, batch <- treeBatch, roots <- treeRoots

ASSUME TreeConstants == Trees!TreeConstants

TrailInit ==
    /\ part \in Parts
    /\ IF part = "replicas" THEN Many!Init ELSE Init
    /\ Trees!Init

TrailNext ==
    /\ UNCHANGED part
    /\ \/ part = "anchor" /\ Next /\ UNCHANGED trees
       \/ part = "replicas" /\ Many!Next /\ UNCHANGED trees
       \/ part = "trees" /\ Trees!Next /\ UNCHANGED vars

\* The fairness of AuditAnchor, while a part of it runs.
TrailFairness ==
    /\ WF_vars(part = "anchor" /\ Land)
    /\ \A w \in Procs : WF_vars(part = "anchor" /\ Tick(w))
    /\ WF_vars(part = "replicas" /\ Many!Land)
    /\ \A w \in Replicas : WF_vars(part = "replicas" /\ Many!Tick(w))

TrailSpec == TrailInit /\ [][TrailNext]_trailVars /\ TrailFairness

\* Properties of AuditTrees, see there: the proof of every anchored record
\* verifies; a changed hash is noticed; the proof an export carries verifies.
EveryProofVerifies == Trees!EveryProofVerifies
TamperEvident == Trees!TamperEvident
ExportedProofVerifies == Trees!ExportedProofVerifies
=============================================================================
