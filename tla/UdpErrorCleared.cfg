SPECIFICATION UdpSpec
CONSTANTS
    MaxQueue = 1
    MaxDatagrams = 1
    MaxFaults = 1
INVARIANT
    UdpErrorShowsFault
CHECK_DEADLOCK FALSE
