CONSTANTS
    p1 = p1
    r1 = r1
    r2 = r2
    c1 = c1
    c2 = c2
    NumEvents = 2
    Partitions = {p1}
    PartitionOf <- OnePartition
    Relays = {r1, r2}
    Consumers = {c1, c2}
    BatchSize = 2
    MaxAttempts = 2
    ClassesOf <- AllOrGood
    Faults = {"broker", "relay_crash", "handler", "commit_reply", "crash", "rebalance", "db_down"}
    MaxFaults = 2
    NoMessage = NoMessage
CHECK_DEADLOCK FALSE
SPECIFICATION FairSpec
INVARIANTS
    PublishedIsDelivered
    DuplicatesNeedFaults
    
    
PROPERTIES
    EveryEventIsSettled
