SPECIFICATION Spec
CHECK_DEADLOCK FALSE
CONSTANTS
    d1 = d1
    d2 = d2
    d3 = d3
    Docs = {d1, d2, d3}
    Original = {d1, d2}
    Unattended = FALSE
    MaxSnapshots = 2
INVARIANTS
    NoDocumentLost
    MarkerHasSnapshot
PROPERTIES
    ImportCanBeUndone
