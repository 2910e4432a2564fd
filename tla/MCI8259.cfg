SPECIFICATION Spec
CONSTANTS
    Lines <- MCLines
    LevelLines <- MCLevelLines
    GuestWrites <- MCServiceWrites
    GuestReads <- MCNoReads
    Registrations <- MCServiceRegistrations
    Reentrant <- MCServiceReentrant
INVARIANTS
    TypeOK
    RequestsAreSignalled
PROPERTIES
    NestedPriorityRespected
    ClearedPinIsAcknowledged
    ImplementsLineProtocol
