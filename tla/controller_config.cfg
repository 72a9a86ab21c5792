SPECIFICATION Spec
CONSTANTS
    n1 = n1
    i1 = i1
    i2 = i2
    Networks = {n1}
    Nodes = {i1, i2}
    Workers = {w1, w2}
    Roles = {"bridge"}
    NetworkDocs <- TwoDocs
    MemberUpdates <- RoleUpdates
    InitialNetworks <- StoredManual
    InitialMembers <- BothAuthorized
    Observed <- OneObserved
    Operations = {"updateNetwork", "setAuthorization", "updateMember", "config"}
    CallsMayFail = FALSE
    MaxRevision = 3
    MaxIPAMPoolScan = 8
    MaxNetworkSpecialists = 2
    MaxDictionaryLength = 64
    MaxChunkData = 7
    MaxIssuedCapabilities = 2
    MaxIssuedTags = 2
    MaxCapabilityRules = 1
    MaxOwnershipThings = 2
    Radix = 5
    MaxUint = 4
    Nobody = Nobody
    NoRow = NoRow
    NoConfig = NoConfig
INVARIANTS
    RevisionIdentifiesContent
    SpecialistsRefreshed
    CredentialsEntitled
PROPERTIES
    AuthorizationOnlyOnRequest
SYMMETRY Symmetry
