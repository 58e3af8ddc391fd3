SPECIFICATION LiveSpec
CONSTANTS
    NENV = 3
    NCPU = 2
    NGEN = 1
    BootTypes <- BootFsUser
INVARIANTS KernelHoldsLock CpusAgree FreeListExact RecvingBlocked
PROPERTIES ZombieFreedByItsTrap ZombieReaped RunnableRuns
