SPECIFICATION DesignSpec
CONSTANTS
    TableId <- MCTableId
    KeyId <- MCKeyId
    ReferenceId <- MCReferenceId
    CompositionId <- MCCompositionId
    Lower <- MCLower
    TableValue <- MCTableValue
    KeyValue <- MCKeyValue
    ReferenceValue <- MCReferenceValue
    CompositionValue <- MCCompositionValue
    Absent = Absent
    Malformed = Malformed
    NoColumns = NoColumns
INVARIANTS
    ValidMeansCompiled
    ReplicasAgree
