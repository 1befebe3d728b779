SPECIFICATION FairSpec
CONSTANTS
    CanTimeout = TRUE
    CanLose = TRUE
INVARIANTS
    TypeOK
    HonestAboutHeard
PROPERTIES
    SettledOnReturn
    ImplementsContract
    CallReturns
