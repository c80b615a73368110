SPECIFICATION DcSpec
CONSTANTS
    DcByte <- DcBytes
    DcText = {0, 1, 2, 3, 4, 5}
    DcLength = 2
    DcHeader = 2
    DcU32 <- MCU32
    DcMaxIn = 6
    DcRequest = 3
    DcStreams <- MCDcStreams
INVARIANTS
    DcDroppingIsLocal
CHECK_DEADLOCK FALSE
