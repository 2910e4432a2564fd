SPECIFICATION LiveSpec
CONSTANTS
    Lines <- MCLiveLines
    LevelLines <- MCNone
    GuestWrites <- MCNone
    GuestReads <- MCNone
    Registrations <- MCNone
    Reentrant <- MCNone
    MaxPulses <- MCMaxPulses
    EndCommands <- MCEndCommands
PROPERTIES
    RequestEventuallyDelivered
