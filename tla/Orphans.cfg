CONSTANTS
    host = host
    worker = worker
    stranger = stranger
    Instances = {host, worker, stranger}
    Pids = {1, 2}
    NoPid = NoPid
    Foreign = {stranger}
    Calls <- ReportAndEnd
    Marked = {host}
    Node = {worker, stranger}
    Heavy = {worker}
    Hosts = {host}
    Sessions = {"ses"}
    SessionsOf <- HostNamesSession
    NoOne = NoOne
SPECIFICATION FairSpec
INVARIANTS
    OrphansIInv
    OrphansSpared
    CountsTrue
PROPERTIES
    ImplementsRemediator
    OrphansEnded
CHECK_DEADLOCK FALSE
