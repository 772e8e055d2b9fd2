SPECIFICATION StorageSpec
CONSTANTS
  p1 = p1  p2 = p2  w1 = w1  w2 = w2  v1 = v1
  Proc <- MCProc  Word <- MCWord  Value <- MCValue  Cost <- MCCost
  Absent = Absent  Same = Same  None = None
  Garbage <- MCWord
  Order <- MCKeys  MsgCount = "m"  Version = "v"  Encoding = "e"  Long <- MCLong
  Counts <- MCCounts  Dates <- MCDates  Files <- MCFiles  LayerOps = 2
  Lists <- MCLists  Dir <- MCDir  Home = "home"  Uses <- MCUses  Disks <- MCDisks
  UpgradeWord <- MCUpgradeWord  Name <- MCName  Commands <- MCUpgrades  Hashes <- MCHashes
  MaxFiles = 4
  ChunkSize = 1  MaxMap = 3  MaxOps <- MCMaxOps  GrowTries = 2
INVARIANTS LayerSound ModesSound UpgradeSound
PROPERTIES PromiseUnlessRewritten LimitUnlessRewritten
