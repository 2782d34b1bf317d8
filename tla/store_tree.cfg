SPECIFICATION Spec
SYMMETRY TreeSymmetry
CHECK_DEADLOCK FALSE
CONSTANTS
    c1 = c1
    c2 = c2
    w1 = w1
    w2 = w2
    t1 = t1
    Root = root
    Children = {c1, c2}
    Workers = {w1}
    NoWorker = NoWorker
    NoSession = NoSession
    PlanKey = plan
    SynthesisKey = synthesis
    TaskKeys = {t1}
    AnalysisPhase = 0
    DraftingPhase = 0
    DeliveryPhase = 1
    Deadline = 2
    AttemptTimeout = 1
    LeaseSeconds = {1}
    MaxActiveChildren = 1
    RootAllowance <- RevisedAllowance
    PlanningAllowance = 0
    ChildBudget <- ChildBudgets
    PriorCost = 1
    Reservations = {1}
    Charges = {1}
    AuthorityMayLapse = FALSE
    MaxRevision = 2
    MaxGeneration <- Generations2
    TopicOutcomes = {"ok"}
INVARIANTS
    CapacityRespected
    EndedIsSettled
    NothingRunsUnapproved
