SPECIFICATION HangingSpec
CONSTANTS
    CanTimeout = TRUE
    CanLose = FALSE
PROPERTY TimeoutReturns
