SPECIFICATION Spec
CONSTANTS
    Drivers <- FleetDrivers
    Table <- FleetTable
    Known <- FleetKnown
INVARIANTS
    CleanUnload
    CleanFailure
    NoOrphanCall
    NoHandlerBeforeItsData
    FreesOnlyItsOwn
\* a driver that is out is not loaded again
CHECK_DEADLOCK FALSE
