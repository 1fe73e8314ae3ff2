SPECIFICATION Spec
CONSTANTS
    MaxFiles = 3
    MaxTexts = 3
    MaxLines = 2
    Followers = {f1}
    f1 = f1
    BatchLines = 2
    AnchorLines = 2
    MaxFaults = 1
    Overlap = TRUE
    Outage = TRUE
    Truncation = "anytime"
    OpenFaults = TRUE
INVARIANTS
    TypeOK
    AtMostOnce
    IInv
PROPERTY
    ImportsInOrder
