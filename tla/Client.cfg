SPECIFICATION LiveProgram
CONSTANTS
    QueueCapa = 1
    PcmCapa = 1
    MaxTokens = 4
    MaxSegments = 3
    MaxPerToken = 1
    MaxFrames = 1
    PieceLen = 1
    MaxRoom = 1
    Modes = {"pipeline", "segmented", "raw", "tts"}
    Calls = {"isDone", "pollText", "pollPcm", "destroy"}
    MayFail = {"llm", "tts", "start"}
    Period = 1
    MayThrow = {"prepare", "open", "write"}
INVARIANTS DeviceHasSession ExitTruth Delivered
PROPERTIES ImplementsSession Ends
CHECK_DEADLOCK FALSE
