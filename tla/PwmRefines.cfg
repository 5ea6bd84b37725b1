SPECIFICATION Spec
CONSTANTS
    bed = bed
    chamber = chamber
    red = red
    HOOTER = hooter
    AC220 = ac220
    Bad = Bad
    Heaters <- MCHeaters
    Leds <- MCLeds
    Visit <- MCVisit
    Lo <- MCByte
    Hi <- MCByte
    Zero <- MCZero
    Full <- MCFull
    Asked <- MCAsked
    Writer = {w1}
    MaxJobs = 2
    MaxFaults = 0

PROPERTY ImplementsWriteBehind
