SPECIFICATION Spec
CONSTANTS
    Versions = {0, 1, 2, 3, 4, 5, 7, 8, 9, 11, 13, 14}
    MaxFaults = 3
INVARIANT TypeOK
INVARIANT TriggersCurrent
INVARIANT TypesRight
INVARIANT ColumnsThere
