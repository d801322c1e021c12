SPECIFICATION Spec
CONSTANTS
    QueueCapa = 1
    PcmCapa = 2
    MaxTokens = 2
    MaxSegments = 3
    MaxPerToken = 2
    MaxFrames = 2
    PieceLen = 1
    MaxRoom = 2
    Modes = {"pipeline"}
    Calls <- Polling
    MayFail = {}
INVARIANTS DoneMeansDrained TextInOrder TextNotBeforeAudio
