SPECIFICATION FairSpec
CONSTANTS
    MaxEvents = 2
    PipeCapacity = 1
    MaxMessages = 2
    MaxTransactions = 2
    MaxPrompts = 2
INVARIANTS
    TypeOK
    RunsActiveTransaction
    PendingTerminalDelivered
    QueuedEventsWakeMain
    EventsInOrder
    CredentialsScoped
PROPERTIES
    CancelledStaysCancelled
    KeepsItsPromise
    RequestServed
    AnswerConsumed
    CancelCompletes
    ShutdownCompletes
