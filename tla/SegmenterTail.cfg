SPECIFICATION Spec
CONSTANTS
    Streams <- MCStreams
    Configs <- MCConfigs
    Abbreviations <- MCAbbreviations
    MaxPieces = 3
INVARIANT NoTextLost
