SPECIFICATION CommandsSpec
CONSTANTS
    Components = {"environments", "queue", "options", "arguments", "loop", "maintenance", "dump"}
    AnyChain = FALSE
    p1 = p1  p2 = p2  p3 = p3  home = home  site = site
    NoProc = NoProc  Closed = Closed
    MsgCount = MsgCount  Version = Version
    qm = qm  url = url  ip = ip
    C3A9 = C3A9  C383C2A9 = C383C2A9  E9 = E9  EA = EA
    Encoding = Encoding  Robx = Robx
    Unset = Unset
    EnvProc <- MCProc  ListDirectory = {home, site}  NCells = 2  Assignments <- MCAssignments
    LoopToken = {"a", "b"}  LoopWord = 16  Modes <- MCModes  MaxMessages = 3
    MaintWord <- MCWord  MaintValue <- MCValue  MaintOrder <- MCOrder  CurrentVersion = 9
    Replaced <- MCReplaced  Prefixed <- MCPrefixed  FromRaw <- MCFromRaw  ToRaw <- MCToRaw
    OutOfSize = {qm, E9}  MaintTasks <- MCMaintTasks
    ListOrder <- MCListOrder  ListReplaced <- MCListReplaced  Long = {EA}
    IntMax = 7  Today = 4  DumpTasks <- MCDumpTasks
    Word = {a, b}
    Value = {1, 2}
    Absent = Absent
    MaxQueue = 3
INVARIANTS
    OneDirectoryIsSafe
    OptionsSound
    MessagesSound
    MaintainedWhole
    ListMoved
PROPERTIES
    RecoveredAlone
    FlushIsSilent
    ReadsOwnWrites
\* The programs end.
CHECK_DEADLOCK FALSE
