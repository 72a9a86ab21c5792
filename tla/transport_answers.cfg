SPECIFICATION Spec
CONSTANTS
    u = u
    v = v
    a = a
    b = b
    c = c
    agentB = agentB
    agentC = agentC
    Nothing = Nothing
    Peers = {u, v}
    Upstreams = {u, v}
    Identities <- AnsweringIdentities
    NodeOf <- SomeNodes
    Endpoints = {"here", "there"}
    Configurations <- AnswerConfigurations
    SessionIdleTTL = 7
    SessionPruneEvery = 1
    MaxRegistrySessions = 1
    Interval = 2
    MaxDelay = 1
    MaxTime = 4
    Verbs = {"ok"}
INVARIANTS
    SuccessOncePerHello
    PendingBounded
CHECK_DEADLOCK FALSE
