SPECIFICATION Spec
INVARIANTS
    SpeakersAgree
    SettingsSound
    SuccessIsEarned
    CommitIsRunning
    ObserverSound
    ConfigComplete
    ToldAsDone
    ReportsAccounted
    NodeIsWhole
    BlocksExact
    BarrierHolds
PROPERTIES
    NameHasOneOwner
    Progress
CHECK_DEADLOCK FALSE
