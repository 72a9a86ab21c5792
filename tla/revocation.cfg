SPECIFICATION RevocationSpec
CONSTANTS
    n1 = n1
    i1 = i1
    i2 = i2
    Networks = {n1}
    Nodes = {i1, i2}
    Workers = {w1, w2}
    Roles = {"bridge"}
    NetworkDocs <- TwoDocs
    MemberUpdates <- RoleUpdates
    InitialNetworks <- StoredManual
    InitialMembers <- OneAuthorized
    Observed = {}
    Operations = {"setAuthorization", "config"}
    CallsMayFail = TRUE
    MaxRevision = 4
    MaxIPAMPoolScan = 8
    MaxNetworkSpecialists = 2
    MaxDictionaryLength = 64
    MaxChunkData = 7
    MaxIssuedCapabilities = 2
    MaxIssuedTags = 2
    MaxCapabilityRules = 1
    MaxOwnershipThings = 2
    Radix = 4
    MaxUint = 15
    Nobody = Nobody
    NoRow = NoRow
    NoConfig = NoConfig
    MaxClock = 2
    NoBroadcast = NoBroadcast
INVARIANTS
    ReauthorizationHolds
    UnentitledOnlyInFlight
    RevocationReachesMembers
SYMMETRY Symmetry
