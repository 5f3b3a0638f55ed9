\* One schedule, one dispatcher; no statement fails but the duplicate insert.
CONSTANTS
    Schedule = {s1}
    Dispatcher = {d1}
    Period = 2
    BatchSize = 2
    PoolSize = 2
    MaxTime = 5
    MaxForeign = 1
    KeyTimes = {2, 4}
    MaxFailures = 0
SPECIFICATION ScheduleFairSpec
CHECK_DEADLOCK FALSE
PROPERTIES NeverStuck
