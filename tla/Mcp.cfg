CONSTANTS
    p1 = p1
    c1 = c1
    c2 = c2
    Processes = {p1}
    MaxRss = 3
    MinimumRss = 1
    MinimumGrowth = 1
    Required = 2
    MaxSamples = 4
    MaxTakes = 4
    Callers = {c1, c2}
    TargetOf <- MCTargets
    ConfigOf <- MCConfigs
    Seconds = {1}
SPECIFICATION McpSpec
INVARIANTS
    McpIInv
    ReportedGrowth
    LeaksFound
    ListingTrue
SYMMETRY Alike
