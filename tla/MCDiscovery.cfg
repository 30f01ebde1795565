CONSTANTS
    Name = {"a", "b"}
    NoName = ""
    MaxItems = 4
    MaxElements = 3
SPECIFICATION Spec
CHECK_DEADLOCK FALSE
INVARIANTS TypeOK WithinArray CountIsTheNames ErrorFreesAll NamesInOrder
