SPECIFICATION Spec
CONSTANTS
    None = None
    Publics = {1, 2, 3}
    Dungeons = {}
    Known = {1, 2, 3}
    Home = 1
    Players = {1}
    MaxDungeon = 1
    MaxAsk = 2
    MaxGain = 0
    MaxDrop = 0
    Patient = FALSE
CHECK_DEADLOCK FALSE
INVARIANTS OneWorld
