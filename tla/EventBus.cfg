CONSTANTS
    p1 = p1
    p2 = p2
    r1 = r1
    l1 = l1
    s1 = s1
    Publisher = {p1, p2}
    Reader = {r1}
    Listener = {l1}
    Shard = {s1}
    ShardCap = 1
    WorkerBatch = 1
    MaxCredits = 1
    RingCap = 1
    CritCap = 1
    Every = 2
    Trigger = 1
    Resume = 0
    Wirings = {{"shards"}, {"sampling"}, {"critical", "sampling"}}
    MaxEvents = 3
    MaxCritical = 2
SPECIFICATION BusSpec
INVARIANTS
    BusTypeOK
    EachEventOnce
    OrderKept
    CreditsComeBack
    CriticalNoticed
PROPERTIES
    EventsSettle
CHECK_DEADLOCK FALSE
