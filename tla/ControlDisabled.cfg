SPECIFICATION Spec
CONSTANTS
    heater = heater
    Output = {heater}
    Visit <- MCVisit
    Cpu <- MCOneCpu
    TooMany <- MCTooMany
    Tick = 5
    Timeouts <- MCTimeouts
    MaxAsks = 3
    MaxFaults = 0
PROPERTIES DisabledMeansOff
