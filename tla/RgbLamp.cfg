SPECIFICATION Spec
CONSTANTS
    User = {u1}
    Full = 1
    Asks <- MCAsks
    Rank <- MCRank
    BlinkTime = 2
    Tick = 1
    MaxAsks = 2
    MaxMishaps = 1
    None = None
INVARIANTS TypeOK QuietTickShowsOneSetting
PROPERTIES LampTellsMode TestLampIsTheUsers
