SPECIFICATION Spec
CONSTANTS
    n1 = n1
    i1 = i1
    i2 = i2
    Networks = {n1}
    Nodes = {i1, i2}
    Workers = {w1, w2}
    Roles = {"bridge"}
    NetworkDocs <- TwoDocs
    MemberUpdates <- RoleUpdates
    InitialNetworks <- StoredManual
    InitialMembers <- OneSpecialist
    Observed = {}
    Operations = {"setAuthorization", "updateNetwork", "config"}
    CallsMayFail = FALSE
    MaxRevision = 4
    MaxIPAMPoolScan = 8
    MaxNetworkSpecialists = 2
    MaxDictionaryLength = 64
    MaxChunkData = 7
    MaxIssuedCapabilities = 2
    MaxIssuedTags = 2
    MaxCapabilityRules = 1
    MaxOwnershipThings = 2
    Radix = 16
    MaxUint = 15
    Nobody = Nobody
    NoRow = NoRow
    NoConfig = NoConfig
INVARIANT DeauthorizationRevoked
