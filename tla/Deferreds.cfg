SPECIFICATION FairSpec
CONSTANTS
    None = None
    Page <- Pages
    MaxDeferred = 4
    Function <- Functions
INVARIANTS
    ThenFollows
    WhenFollows
PROPERTIES
    CallbacksRun
    ReadyInTime
    ImplementsPromises
CHECK_DEADLOCK FALSE
