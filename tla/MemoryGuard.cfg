CONSTANTS
    s1 = s1
    NoSession = NoSession
    Analyzers = {1, 2}
    Sessions = {s1}
    Required = 2
    Grace = 1
    Cooldown = 2
    MaxFaults = 1
SPECIFICATION FairSpec
INVARIANTS
    GuardIInv
    Patience
    CooldownKept
    NewestSpared
PROPERTY HogsEnded
CHECK_DEADLOCK FALSE
