SPECIFICATION Spec
CONSTANTS
    p1b = p1b
    p2a = p2a
    p2b = p2b
    xEnable = xEnable
    yEnable = yEnable
    microstepY = microstepY
    Port = {p1b, p2a, p2b}
    Field = {xEnable, yEnable, microstepY}
    FieldVal = {0, 1}
    Off = 0
    PortOf <- MCPortOf
    AxisFields <- MCAxis
    Round = 5
    Width = 9
    Position <- MCPosition
    Caller = {w1, w2}
    None = None
    MaxCalls = 3
    MaxFaults = 1
INVARIANTS FlagDownMeansFlushed RoundServesAll
PROPERTIES OnlyFlushedWhileEnabled LastStoreIsFlushed
