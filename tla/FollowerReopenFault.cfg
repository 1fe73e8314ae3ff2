SPECIFICATION Spec
CONSTANTS
    MaxFiles = 2
    MaxTexts = 2
    MaxLines = 1
    Followers = {f1}
    f1 = f1
    BatchLines = 1
    AnchorLines = 1
    MaxFaults = 1
    Overlap = TRUE
    Outage = TRUE
    Truncation = "anytime"
    OpenFaults = TRUE
INVARIANT
    OpenFileHasPosition
