CONSTANTS
    t1 = t1  t2 = t2  c1 = c1  c2 = c2  p1 = p1  p2 = p2
    Null = Null
    TxIds = {t1, t2}
    Procs = {p1}
    Calls = {c1, c2}
    Proc <- OneReplica
    Kinds = {"rbf", "cancel"}
    Configs <- AllOrFirst
    Limit = 2
    Conf = 1
    StuckAfter = 0
    MaxHeight = 2
    MaxReorgs = 1
    MaxReplaces = 2
    MaxCrashes = 1
SPECIFICATION FairSpec
INVARIANT ExecutedIsConfirmed
PROPERTIES ExecutedIsStable ReplacedOnce ReorgIsFlagged OldIsFlagged
CHECK_DEADLOCK FALSE
