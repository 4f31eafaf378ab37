\* Requests of two categories under one key; three threads meet at the gate, and
\* one thread meets the clock.
SPECIFICATION FairSpec
CONSTANTS
    t1 = t1  t2 = t2  t3 = t3
    Threads = {t1, t2, t3}
    Servers <- OneOrThree
    Identities = {i1}
    Categories = {"heavy", "general"}
    Capacity = 1
    Burst <- GeneralIsScarce
    Rate <- GeneralIsSlow
    One = 7
    Second = 2
    Dropped = 1
    CleanupAfter = 1
    ForgetAfter = 4
    NoKey = NoKey
    MaxTime = 5
    Horizon <- FirstOnly
INVARIANTS
    PermitsConserved
    RateBound
PROPERTIES
    RetryAfterHonest
    GateReopens
