SPECIFICATION Spec
CONSTANTS
    Keys = {k1, k2}
    Values = {a}
    NoRow = NoRow
    Untouched = Untouched
    NoSequence = NoSequence
    MaxVersion = 3
INVARIANT TypeOK
INVARIANT SyncedRowsAreAVersion
INVARIANT RowsWerePublished
PROPERTY ImplementsReplica
