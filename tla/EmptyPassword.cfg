SPECIFICATION LockSpec
CONSTANTS
    MaxEvents = 2
    PipeCapacity = 1
    MaxMessages = 2
    MaxTransactions = 2
    MaxPrompts = 2
    IgnoreEmptyPassword = TRUE
PROPERTY EmptyPasswordNotValidated
