SPECIFICATION Spec
SYMMETRY TreeSymmetry
CHECK_DEADLOCK FALSE
CONSTANTS
    c1 = c1
    c2 = c2
    w1 = w1
    w2 = w2
    t1 = t1
    Root = root
    Children = {c1, c2}
    Workers = {w1, w2}
    NoWorker = NoWorker
    NoSession = NoSession
    PlanKey = plan
    SynthesisKey = synthesis
    TaskKeys = {t1}
    AnalysisPhase = 0
    DraftingPhase = 0
    DeliveryPhase = 1
    Deadline = 1
    AttemptTimeout = 1
    LeaseSeconds = {1}
    MaxActiveChildren = 2
    RootAllowance <- NoAllowance
    PlanningAllowance = 0
    ChildBudget <- ChildBudgets
    PriorCost = 0
    Reservations = {1}
    Charges = {2}
    AuthorityMayLapse = FALSE
    MaxRevision = 1
    MaxGeneration <- Generations2
    TopicOutcomes = {"ok"}
INVARIANTS
    UncertaintyRetained
