\* Distributor with a hardware controller that never outruns the thread.
\* The system stops for good once the destructor has joined the thread.
CONSTANTS
    k1 = k1
    k2 = k2
    Conns <- MC_Conns
    Rates <- MC_Rates
    PostResults <- MC_PostResults
    CountMod = 2
    HasController = TRUE
    TickWhilePending = FALSE
    ReAddConnections = FALSE
SPECIFICATION FairSpec
INVARIANT TypeOK WaitOnlyWhenVSyncFlows
PROPERTY RequestServed PeriodicServed ShutdownCompletes
CHECK_DEADLOCK FALSE
