\* Three threads that lock, wait, notify under the mutex and hand guards on.
CONSTANTS
    Threads = {t1, t2, t3}
    NoThread = NoThread
    MaxInterrupts = 1
SPECIFICATION FairSpec
INVARIANTS
    TypeOK
    GuardsExclude
PROPERTIES
    ImplementsMonitor
    NotifyReturns
CHECK_DEADLOCK FALSE
