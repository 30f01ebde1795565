CONSTANTS
    Name = {"a", "b"}
    NoName = ""
    MaxItems = 3
    MaxElements = 3
SPECIFICATION Spec
CHECK_DEADLOCK FALSE
INVARIANT FailedLookupIsEmptyString
