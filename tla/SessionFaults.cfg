SPECIFICATION CtxSpec
CONSTANTS
    v1 = v1
    v2 = v2
    QueueCapa = 1
    PcmCapa = 1
    MaxTokens = 1
    MaxSegments = 2
    MaxPerToken = 1
    MaxFrames = 1
    PieceLen = 1
    MaxRoom = 1
    Modes = {"pipeline", "tts"}
    Calls <- PollingOrCancel
    MayFail = {"llm", "seg", "tts", "start"}
    TtsModes = {"Base", "VoiceDesign"}
    Voices <- TwoVoices
SYMMETRY Symmetric
INVARIANTS WorkersCounted QuietOnceSeen OutcomeReported NeverWaits VoiceAsAsked
