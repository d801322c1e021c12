SPECIFICATION Spec
CONSTANTS
    Streams <- MCStreams
    Configs <- MCConfigs
    Abbreviations <- MCAbbreviations
    MaxPieces = 5
INVARIANTS
    TypeOK
    ChunkIndependent
    TextKept
    SegmentsSpeakable
    NothingDecidedHeld
    TagsWhole
    SpeechIsRest
