SPECIFICATION Spec
CONSTANTS
    None = None
    Players = {1, 2}
    Games <- TwoGames
    InitHp = 4
    Atk = 3
    Rebirth = TRUE
    Dungeon = FALSE
    Present = TRUE
    Awake = TRUE
    CmdTypes = {"attack"}
    MaxJoin = 2
    MaxHit = 2
    MaxLoss = 1
CHECK_DEADLOCK FALSE
INVARIANTS PointersLive LinkerTold CurActRuns ShowsPlayers
PROPERTIES LivesAgain GetsLinker
