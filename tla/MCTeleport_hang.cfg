SPECIFICATION Spec
CONSTANTS
    None = None
    Publics = {1, 2}
    Dungeons = {}
    Known = {1}
    Home = 1
    Players = {1}
    MaxDungeon = 1
    MaxAsk = 1
    MaxGain = 0
    MaxDrop = 0
    Patient = TRUE
CHECK_DEADLOCK FALSE
PROPERTIES Arrives
