CONSTANTS
    Item <- MCItem
    Stray <- MCStray
    MaxItems = 4
    MaxMeta = 2
    MaxSeals = 2
    MaxReads = 2
SPECIFICATION Spec
CHECK_DEADLOCK FALSE
INVARIANTS TypeOK MetaIsFound PayloadInOrder
