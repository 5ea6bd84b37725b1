SPECIFICATION Spec
CONSTANTS
    Calls <- MCCalls
    MaxMsg = 2
INVARIANTS OwnMessages SuccessMeansMoved ErrorsAreEarned QuietAfterReturn
PROPERTIES EveryCallReturns
