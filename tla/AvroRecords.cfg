SPECIFICATION Spec
CONSTANTS
    Schemas <- MCSchemas
    Keys <- MCKeys
    Parsed <- MCParsed
    NamesOf <- MCNamesOf
    DocsOf <- MCDocsOf
    RecordsOf <- MCRecordsOf
    Numbers <- MCNumbers
    InRange <- MCInRange
    Rounded <- MCRounded
    IntMax = 1
    LongMax = 3
    DecimalMax = 79
    MaxScale = 2
    MaxDepth = 4
    MaxCalls = 7
INVARIANTS CopyIsSame ShownAsWritten
CHECK_DEADLOCK FALSE
