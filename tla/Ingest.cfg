SPECIFICATION Spec
CONSTANTS
    Keys = {x, y}
    Window = 1
    MaxClock = 4
    MaxDecodes = 5
    Receivers = {a, b}
    NoId = noid
    NoReceiver = noreceiver
    Addresses = {x, y}
    Nowhere = nowhere
    Dials = {u, v}
    Unknown = unknown
    MaxSenders = 1
    MaxAge = 1
    MaxTime = 2
    Calls = {x, y}
    NoCall = nocall
    Bases = {base}
    BaseOf <- OneBase
    Grids = {u, v}
    NoGrid = nogrid
    Times = {1, 2}
    MaxLog = 3
    MaxBatch = 2
    MaxSessions = 2
    Day = 4
    Callsigns = {x, y}
    Locators = {grid}
    None = none
    MaxTokens = 4
    Digits = {"1"}
    Portable <- AfterCall
    MainParts <- CallParts
    PrefixNames <- OfCty
    MaxEntities = 2
    PageTimes = {1, 2}
    Limit = 2
    MaxRows = 6
    CallNames = {x, y}
    Null = null
    Empty = empty
    Hour = 2
    Hours = 2
    Zones <- ZonesOf
    MaxInstant = 4
    MaxReport = 3
INVARIANTS
    IngestTypeOK
    ReadAsSent
    SaidByTransmitter
    CountryOfOperation
    OneRowInWindow
    SuppressedForRow
    SendersConsistent
    SummariesHold
    GridWasSent
    ReportOfItsRows
    PagesMissOnlyLate
PROPERTIES
    DialFromItsReceiver
SYMMETRY Symmetry
CHECK_DEADLOCK FALSE
