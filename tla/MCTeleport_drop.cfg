SPECIFICATION Spec
CONSTANTS
    None = None
    Publics = {1, 2}
    Dungeons = {7}
    Known = {1, 2}
    Home = 1
    Players = {1}
    MaxDungeon = 2
    MaxAsk = 3
    MaxGain = 0
    MaxDrop = 1
    Patient = TRUE
CHECK_DEADLOCK FALSE
INVARIANTS ProxyMatchesWorld
PROPERTIES Arrives
