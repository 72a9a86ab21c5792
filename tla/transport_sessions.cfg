SPECIFICATION Spec
CONSTANTS
    u = u
    v = v
    a = a
    b = b
    c = c
    agentB = agentB
    agentC = agentC
    Nothing = Nothing
    Peers = {u, a, b, c}
    Upstreams = {u}
    Identities <- EveryIdentity
    NodeOf <- SomeNodes
    Endpoints = {"here", "there"}
    Configurations <- SessionConfigurations
    SessionIdleTTL = 2
    SessionPruneEvery = 1
    MaxRegistrySessions = 2
    Interval = 1
    MaxDelay = 0
    MaxTime = 4
    Verbs = {"hello", "other"}
SYMMETRY OtherAgents
INVARIANTS
    UpstreamsKept
    SessionsBounded
PROPERTIES
    EndpointAuthenticated
    IdentityPinned
    ActiveNotEvicted
CHECK_DEADLOCK FALSE
