SPECIFICATION FairSpec
CONSTANTS
    Networks = {n1}
    Nodes = {i1}
    NetworkDocs = {d1}
    MemberDocs = {d1, d2}
    MetadataDocs = {d1}
    Clients = {c1, c2}
    MaxRevision = 2
    NoCall = NoCall
INVARIANTS
    TypeOK
    ReferentialIntegrity
PROPERTIES
    CallsReturn
    RevisionsCountWrites
    ImplementsContract
