SPECIFICATION Spec
CONSTANTS
    QueueCapa = 1
    PcmCapa = 1
    MaxTokens = 3
    MaxSegments = 2
    MaxPerToken = 1
    MaxFrames = 1
    PieceLen = 2
    MaxRoom = 3
    Modes = {"raw", "segmented"}
    Calls <- Anything
    MayFail = {"llm", "seg"}
INVARIANTS TypeOK NothingLost TextInOrder NoStrayCancel
