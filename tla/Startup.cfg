CONSTANTS
    Programs = {p1, p2}
    Values = {v1, v2}
    Supplied = supplied
    Legacy = legacy
    None = none
    Torn = torn
    Added <- MCAdded
SPECIFICATION StartupSpec
INVARIANTS ServedAreReadable
PROPERTIES UpgradeIsAtomic OnlyPowerTakesKey
