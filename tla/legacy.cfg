SPECIFICATION Spec
CONSTANTS
    n1 = n1
    i1 = i1
    Networks = {n1}
    Nodes = {i1}
    Requests = {r1}
    NetworkFields = {"name", "mtu"}
    MemberFields = {"name", "bridge"}
    RoleFields = {"bridge"}
    NetworkPatches <- OneNetworkPatch
    MemberPatches <- SomeMemberPatches
    InitialNetworks <- NoNetworks
    InitialMembers <- NoMembers
    OtherWrites = {"create", "save", "delete"}
    OtherRequests = {"deleteNetwork", "deleteMember", "scan"}
    MaxRevision = 3
    NoRow = NoRow
INVARIANTS
    AcknowledgedPatchApplied
PROPERTIES
    PatchKeepsOtherFields
CHECK_DEADLOCK FALSE
