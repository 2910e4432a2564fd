SPECIFICATION Spec
CONSTANTS
    Lines <- MCInitLines
    LevelLines <- MCNoLevelLines
    GuestWrites <- MCInitWrites
    GuestReads <- MCInitReads
    Registrations <- MCInitRegistrations
    Reentrant <- MCInitReentrant
INVARIANTS
    EmitAgainOnlyWhenIdle
PROPERTIES
    NestedPriorityRespected
    ClearedPinIsAcknowledged
    ReraisedRequestStands
    ImplementsLineProtocol
