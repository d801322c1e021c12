SPECIFICATION Spec
CONSTANTS
    p = p
    r = r
    a = a
    aa = aa
    Prompts <- MCPrompts
    Vocabulary <- MCVocabulary
    Token <- MCToken
    Tokenize <- Merging
    Budget = 14
    MaxTokens = 2
    MaxHistory = 7
INVARIANTS TypeOK KvIsCommitted ModelSeesChat TurnsPaired
