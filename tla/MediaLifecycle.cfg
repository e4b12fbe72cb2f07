SPECIFICATION Spec
CONSTANTS
    Rows = {1, 2}
    Captured = {1}
    Uids = {1}
    MaxTime = 3
    TicksPerDay = 2
    Retentions = {2, 3}
    DefaultRetention = 2
    OrphanGrace = 2
    PendingMaxAge = 2
    PurgedRowGrace = 0
    MaxFlight = 1
    BatchSize = 1
    MaxFilesPerRun = 1
    MaxEvents = 1
INVARIANTS
    TypeOK
    TempInFlightKept
PROPERTIES
    UnlinkIsJustified
    PurgedIsFinal
    Converges
