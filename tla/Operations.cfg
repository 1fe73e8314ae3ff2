SPECIFICATION Spec
CONSTANTS
    MaxLines = 3
    MaxAttempts = 2
    Backups = {b1, b2}
    b1 = b1
    b2 = b2
    Pulls = {p1}
    p1 = p1
    Exports = {e1}
    e1 = e1
    Stamps = {s1, s2}
    s1 = s1
    s2 = s2
    NoStamp = nostamp
    MaxVersion = 2
    MaxKey = 2
    MaxSource = 3
    MaxSlips = 1
    MaxArchived = 4
    MaxFaults = 2
    MaxArchiveBatch = 2
INVARIANTS
    OperationsTypeOK
    ImportedOnce
    PublishedIsSound
    NothingLeftRunning
    VerdictIsSound
    ArchiveRestores
PROPERTIES
    CompleteMeansAll
    BackupsKept
    OperationsEnd
CHECK_DEADLOCK FALSE
