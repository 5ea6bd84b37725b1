SPECIFICATION SafeSpec
CONSTANTS
    heater = heater
    Output = {heater}
    Visit <- MCVisit
    Cpu <- MCOneCpu
    TooMany <- MCTooMany
    Tick = 5
    Timeouts <- MCTimeouts
    MaxAsks = 4
    MaxFaults = 2
PROPERTIES ErrorMeansSafe
