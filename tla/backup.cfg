SPECIFICATION Spec
CONSTANTS
    Controllers = {c1, c2}
    Tools = {t1, t2}
    MaxRows = 2
    MaxStarts = 2
    Nobody = Nobody
    Missing = Missing
    Partial = Partial
SYMMETRY Symmetry
INVARIANTS
    SchemaComplete
    BackupComplete
    FailureLeavesNothing
    OneIdentity
PROPERTIES
    NeverDowngraded
CHECK_DEADLOCK FALSE
