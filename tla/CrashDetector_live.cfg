CONSTANTS
    Proc = {p1, p2}
    NCells = 2
    NoProc = NoProc
SPECIFICATION FairSpec
PROPERTIES
    TornEnvIsLeft
    OrphanRecovered
