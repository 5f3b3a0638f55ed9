\* The lease with the code's constants, in seconds, and heartbeat calls that take
\* no time; one delivery, two dispatchers, three attempts; two requests for
\* secrets; four rows with two times and two ids; two maintainers over four months.
\* Two runs, one purchase delivered up to twice, one night, a channel of either
\* kind.  Two schedules, two dispatchers; one failing statement, one job of a client.
CONSTANTS
    HeartbeatInterval = 10
    LeaseTimeout = 20
    StaleCutoff = 30
    StartDelay = 10
    MaxLatency = 0
    Delivery = {e1}
    WebhookDispatcher = {w1, w2}
    MaxAttempts = 3
    Request = {q1, q2}
    MaxSecrets = 3
    Time = {1, 2}
    Id = {1, 2}
    DefaultPage = 2
    MaxPage = 3
    Asked = {0, 1, 4}
    Maintainer = {m1, m2}
    MonthsAhead = 1
    Retention = 1
    Provided = 1
    LastMonth = 3
    Run = {r1, r2}
    Purchase = {p1}
    Signup = 2
    DailyLimit = 2
    Threshold = 2
    Amounts = {1, 2}
    CreditsPerDollar = 3
    MaxDays = 1
    MaxDeliveries = 2
    MaxErrors = 1
    Channel = {c1}
    Schedule = {s1, s2}
    Dispatcher = {d1, d2}
    Period = 2
    BatchSize = 2
    PoolSize = 2
    MaxTime = 5
    MaxForeign = 1
    KeyTimes = {4}
    MaxFailures = 1
SPECIFICATION SystemFairSpec
CHECK_DEADLOCK FALSE
INVARIANTS ServicesTypeOK ExclusiveDelivery NeverConcurrent OutcomeIsEarned
INVARIANTS NewestSecretActive WalkComplete DefaultStaysEmpty
INVARIANTS AccountTypeOK OverdraftBounded WarnedOnce WarningNotMissed
INVARIANTS LedgerExplainsBalance OnlyConfirmedMailed
INVARIANTS ScheduleTypeOK PassedMeansHandled ClashesAreForeign SkipsMissedRuns
PROPERTIES SettledForGood EveryDeliverySettles EveryPaymentCredited
PROPERTIES PausedNeverFires NeverStuckUnlessObstructed
