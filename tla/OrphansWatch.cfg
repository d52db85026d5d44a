CONSTANTS
    host = host
    worker = worker
    stranger = stranger
    Instances = {host, worker, stranger}
    Pids = {1, 2}
    NoPid = NoPid
    Foreign = {stranger}
    Marked = {host}
    Node = {worker, stranger}
    Heavy = {host, worker}
    Hosts = {host}
    Sessions = {"ses"}
    SessionsOf <- HostNamesSession
    NoOne = NoOne
    Calls <- Watch
SPECIFICATION FairSpec
PROPERTY WatchPrints
CHECK_DEADLOCK FALSE
