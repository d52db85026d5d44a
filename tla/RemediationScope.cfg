CONSTANTS
    target = target
    rejected = rejected
    stranger = stranger
    another = another
    Instances = {target, rejected, stranger}
    Pids = {1, 2}
    NoPid = NoPid
    Matching = {target, rejected}
    Mentions <- MentionedTwice
    Accepted = {target}
    Foreign = {stranger}
SPECIFICATION Spec
INVARIANT OnlyAcceptedSignalled
CHECK_DEADLOCK FALSE
