SPECIFICATION Spec
CONSTANTS
    MaxFiles = 2
    MaxTexts = 2
    MaxLines = 2
    Followers = {f1}
    f1 = f1
    BatchLines = 2
    AnchorLines = 2
    MaxFaults = 0
    Overlap = FALSE
    Outage = FALSE
    Truncation = "anytime"
    OpenFaults = FALSE
INVARIANT
    NoGapBehindCursor
