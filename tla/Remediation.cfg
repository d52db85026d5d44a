CONSTANTS
    target = target
    rejected = rejected
    stranger = stranger
    another = another
    Instances = {target, another, rejected, stranger}
    Pids = {1, 2}
    NoPid = NoPid
    Matching = {target, another, rejected}
    Mentions <- MentionedTwice
    Accepted = {target, another}
    Foreign = {stranger}
SPECIFICATION BoundedSpec
INVARIANTS
    RemediationIInv
    EldersSpared
    OutcomesTrue
    GroupsEnded
    Announced
PROPERTIES ImplementsRemediator Ends
CHECK_DEADLOCK FALSE
