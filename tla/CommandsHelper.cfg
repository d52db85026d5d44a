CONSTANTS
    r1 = r1
    r2 = r2
    d1 = d1
    d2 = d2
    path = path
    Nobody = Nobody
    NoDesktop = NoDesktop
    Runners = {r1, r2}
    Senders = {r1, r2}
    Callers = {r1, r2}
    Desktops = {d1, d2}
    Length <- MCLength
    Paths = {path}
    DefaultPath = path
    ConfiguredPath = path
    TargetOf <- MCTargets
    Seconds = {1}
    Samples <- MCSamples
    Recommended <- MCRecommended
    Edits <- MCEdits
    MaxCommands = 2
    MaxNotices = 1
    MaxChanges = 1
    MaxFaults = 1
SPECIFICATION Spec
INVARIANT InstalledAccepted
CHECK_DEADLOCK FALSE
