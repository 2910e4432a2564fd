SPECIFICATION Spec
CONSTANTS
    Lines <- MCInitLines
    LevelLines <- MCNoLevelLines
    GuestWrites <- MCInitWrites
    GuestReads <- MCInitReads
    Registrations <- MCInitRegistrations
    Reentrant <- MCNoReentrant
INVARIANTS
    RequestsAreSignalled
