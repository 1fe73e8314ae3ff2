SPECIFICATION GapsSpec
CONSTANTS
    MaxFiles = 3
    MaxTexts = 3
    MaxLines = 3
    Followers = {f1}
    f1 = f1
    BatchLines = 2
    AnchorLines = 2
    MaxFaults = 2
    Overlap = TRUE
    Outage = TRUE
    Truncation = "between"
    OpenFaults = FALSE
INVARIANT
    NoGapBehindCursor
