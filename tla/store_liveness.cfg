SPECIFICATION FairSpec
CHECK_DEADLOCK FALSE
CONSTANTS
    c1 = c1
    c2 = c2
    w1 = w1
    w2 = w2
    t1 = t1
    Root = root
    Children = {c1}
    Workers = {w1}
    NoWorker = NoWorker
    NoSession = NoSession
    PlanKey = plan
    SynthesisKey = synthesis
    TaskKeys = {t1}
    AnalysisPhase = 0
    DraftingPhase = 0
    DeliveryPhase = 1
    Deadline = 2
    AttemptTimeout = 2
    LeaseSeconds = {1, 2}
    MaxActiveChildren = 1
    RootAllowance <- NoAllowance
    PlanningAllowance = 1
    ChildBudget <- ChildBudgets
    PriorCost = 0
    Reservations = {1}
    Charges = {1}
    AuthorityMayLapse = TRUE
    MaxRevision = 1
    MaxGeneration <- Generations2
    TopicOutcomes = {"failed"}
INVARIANTS
    TypeOK
    LeaseWithinAttempt
PROPERTIES
    RunEnds
    OwnershipDrains
    CallsAccounted
    ImplementsLedger
    ImplementsOneRun
