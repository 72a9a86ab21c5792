SPECIFICATION Spec
CONSTANTS
    e1 = e1
    e2 = e2
    None = None
    Packets <- SomePackets
    Strays <- SomeStrays
    MTU = 4
    FragmentLength = 1
    MaxPacketFragments = 3
    MaxPacketLength = 12
    MaxReassemblySlots = 2
    ReassemblyTTL = 2
    MaxTime = 3
INVARIANTS
    MemoryBounded
    BytesAccounted
    PartialsWellFormed
    ExpiresInTime
    DeliversWholePackets
