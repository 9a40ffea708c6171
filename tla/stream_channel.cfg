SPECIFICATION StreamSpec
CONSTANT MaxRecords = 3
INVARIANTS
    StreamTypeOK
    CommitsAllDecoded
PROPERTIES
    BothEnd
CHECK_DEADLOCK FALSE
