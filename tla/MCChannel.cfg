SPECIFICATION Spec
CONSTANTS
    Locations = {l1}
    Orders = {o1}
    NoRow = NoRow
    QueueMax = 1
    HistoryMax = 3
    WireMax = 1
    MaxCommits = 1
    Setups <- SharedOrAlone
INVARIANTS
    TypeOK
    CheckpointHonest
    RevisionHonest
    QuietMeansCurrent

    
CHECK_DEADLOCK FALSE
