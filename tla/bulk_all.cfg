SPECIFICATION FairSpec
CONSTANTS
    s1 = s1
    s2 = s2
    s3 = s3
    ra = ra
    rb = rb
    Sources = {s1, s2, s3}
    Rooms = {ra, rb}
    RoomOf <- TwoRooms
    Broken = {s1}
    BatchSize = 2
    Concurrency = 2
    RoomBatch = 2
    Scheduler = Scheduler
    User = User
    None = None
    MaxUserCalls = 1
    MaxFaults = 1
INVARIANTS TypeOK
PROPERTIES RunsClosed NeverInOwnWay DueIsSynced
CHECK_DEADLOCK FALSE
