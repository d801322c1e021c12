SPECIFICATION PollingSpec
CONSTANTS
    QueueCapa = 1
    PcmCapa = 1
    MaxTokens = 1
    MaxSegments = 3
    MaxPerToken = 3
    MaxFrames = 1
    PieceLen = 1
    MaxRoom = 1
    Modes = {"pipeline"}
    Calls <- Polling
    MayFail = {}
PROPERTIES Completes
