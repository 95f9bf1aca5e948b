SPECIFICATION Spec
CONSTANTS
    None = None
    Publics = {1, 2}
    Dungeons = {7}
    Known = {1}
    Home = 1
    Players = {1, 2}
    MaxDungeon = 2
    MaxAsk = 1
    MaxGain = 1
    MaxDrop = 0
    Patient = TRUE
CHECK_DEADLOCK FALSE
INVARIANTS OneWorld NeverNowhere SyncedData
