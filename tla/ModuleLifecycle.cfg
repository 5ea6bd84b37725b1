SPECIFICATION Spec
CONSTANTS
    Output = {heater, lamp}
    Gated = {heater}
    Store = Store
    Enable = Enable
    None = None
INVARIANTS UnloadLeavesNothing OnlyInherited
PROPERTIES UnloadEnds
CHECK_DEADLOCK FALSE
