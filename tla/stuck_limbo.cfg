CONSTANTS
    t1 = t1  t2 = t2  c1 = c1  c2 = c2  p1 = p1  p2 = p2
    Null = Null
    TxIds = {t1}
    Procs = {p1}
    Calls = {c1}
    Proc <- OneReplica
    Kinds = {"rbf"}
    Configs <- AllRows
    Limit = 1
    Conf = 1
    StuckAfter = 1
    MaxHeight = 3
    MaxReorgs = 0
    MaxReplaces = 1
    MaxCrashes = 0
SPECIFICATION Spec
INVARIANT BroadcastingIsTransient
CHECK_DEADLOCK FALSE
