SPECIFICATION Spec
CONSTANTS
    Addresses <- SomeAddresses
    Hash <- SomeHash
    Slots = {0, 1}
    Second = 2
    HelloBurst = 2
    CleanupAfter = 5
    MaxTime = 8
INVARIANTS
    TypeOK
    RateBound
    NoTokenLost
