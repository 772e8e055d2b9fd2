SPECIFICATION ScoringSpec
CONSTANTS
    Components = {"lookup"}
    user = user  system = system  ignored = ignored
    a = a  b = b
    Unset = Unset
    File = {user, system, ignored}
    WordSeq <- MCWords
    ConfigLines <- MCConfigLines
    MaxLists = 1
    MaxMsgs = 1
    MaxRetries = 1
INVARIANT RestartsAllOver
CHECK_DEADLOCK FALSE
