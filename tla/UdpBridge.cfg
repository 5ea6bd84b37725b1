\* The program ends: its last state has no successor.
CHECK_DEADLOCK FALSE
SPECIFICATION Spec
CONSTANTS
    NumFiles = 3
    Refusing = {1}
    Stray = {2}
    Room = 2
    MaxNumber = 2
    InboxSize = 1
INVARIANTS TypeOK OneDatagramAtATime LinesAreWhole
PROPERTIES StopEnds
