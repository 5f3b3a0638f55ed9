\* One run, one purchase, one night; the credit check does not fail.
CONSTANTS
    Run = {r1}
    Purchase = {p1}
    Signup = 2
    DailyLimit = 2
    Threshold = 2
    Amounts = {1, 2}
    CreditsPerDollar = 3
    MaxDays = 1
    MaxDeliveries = 2
    MaxErrors = 0
    Channel = {c1}
SPECIFICATION AccountFairSpec
CHECK_DEADLOCK FALSE
PROPERTIES RefreshKeepsPurchases
