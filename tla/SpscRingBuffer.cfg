SPECIFICATION Spec
CONSTANTS
    Capacity = 3
    WordBits = 3
    MaxCount = 5
    MaxItems = 13
INVARIANTS TypeOK NoRace
PROPERTIES Implements
