SPECIFICATION LiveSpec
CONSTANTS
    QueueCapa = 1
    PcmCapa = 1
    MaxTokens = 3
    MaxSegments = 2
    MaxPerToken = 2
    MaxFrames = 1
    PieceLen = 1
    MaxRoom = 1
    Modes = {"pipeline", "segmented"}
    Calls = {"cancel"}
    MayFail = {"seg", "tts", "start"}
PROPERTIES CallsReturn FailureStopsUpstream
