SPECIFICATION ScoringSpec
CONSTANTS
    Components = {"lookup", "hash", "tuning", "scan", "score", "format", "statistics"}
    user = user  system = system  ignored = ignored
    a = a  b = b
    Unset = Unset
    File = {user, system, ignored}
    WordSeq <- MCWords
    ConfigLines <- MCConfigLines
    MaxLists = 3
    MaxMsgs = 1
    MaxRetries = 1
INVARIANTS
    ListsOrdered
    CountsSummed
    IgnoredCountsNothing
    TablesKeepAll
    TuningSound
    ScoreSound
\* The programs end.
CHECK_DEADLOCK FALSE
