\* Every delivery once without faults beside another request; a few with
\* faults, on both queues.
SPECIFICATION FairSpec
CONSTANTS
    Slots = {1, 2}
    Scenarios <- MCScenarios
    Config <- MCConfig
    Reactors = {"github", "azure_devops"}
    MaxAttempts = 2
    Receivers = {r1, r2}
    MaxDeliveries = 2
INVARIANTS
    OnlyWhatWasAsked
    OneKeyPerChange
    OneFaultOneAttempt
    AnswersTrue
    NobodySleepsOnWork
PROPERTIES
    AnsweredOrAnnounced
CHECK_DEADLOCK FALSE
