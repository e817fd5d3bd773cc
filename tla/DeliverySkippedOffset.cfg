CONSTANTS
    p1 = p1
    r1 = r1
    r2 = r2
    c1 = c1
    c2 = c2
    NumEvents = 2
    Partitions = {p1}
    PartitionOf <- OnePartition
    Relays = {r1, r2}
    Consumers = {c1, c2}
    BatchSize = 2
    MaxAttempts = 2
    ClassesOf <- OnlyGood
    Faults = {"db_down"}
    MaxFaults = 1
    NoMessage = NoMessage
CHECK_DEADLOCK FALSE
SPECIFICATION Spec
INVARIANTS
    CommittedIsHandled
