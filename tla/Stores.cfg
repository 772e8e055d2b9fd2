SPECIFICATION StoresSpec
CONSTANTS
  p1 = p1  p2 = p2  p3 = p3  w1 = w1  w2 = w2  v1 = v1  Version = Version
  HandleProc <- MCHandleProc
  Proc <- MCProc  Word <- MCWord  Value <- MCValue
  Absent = Absent  Same = Same  None = None
INVARIANTS SqliteSound
PROPERTIES StoresKeepThePromise CommitsEnd
