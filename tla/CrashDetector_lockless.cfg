CONSTANTS
    Proc = {p1, p2, p3}
    NCells = 2
    NoProc = NoProc
SPECIFICATION Spec
INVARIANT RecoveryHoldsLock
