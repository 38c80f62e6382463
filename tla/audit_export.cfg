CONSTANTS
    Null = Null
    Parts = {"trees"}
    Records = {1, 2}
    Procs = {p1}
    Replicas = {p1, p2}
    MaxRecords = 2
    MaxAttempts = 2
    MaxBatch = 6
    MaxFaults = 2
    MaxReorgs = 1
    h1 = h1  h2 = h2  o1 = o1  o2 = o2
    Hashes = {h1, h2}
    Orgs = {o1, o2}
    OrgOf <- OneForeign
    LeafIds = {1, 2, 3, 4}
    Times = {1, 2}
    TreeSize = 3
    ExportLimit = 4
SPECIFICATION TrailSpec
INVARIANT ExportedProofVerifies
CHECK_DEADLOCK FALSE
