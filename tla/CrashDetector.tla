--------------------------- MODULE CrashDetector ---------------------------
(***************************************************************************)
(* The crash detector of the transactional Berkeley DB store: the process  *)
(* table "lockfile-p" of db_lock.c, the global lock on "lockfile-d", and   *)
(* the open, recover and close protocol of datastore_db_trans.c that is    *)
(* built on both.                                                          *)
(*                                                                         *)
(* One step is one system call that another process can observe: a read    *)
(* of a cell, an fcntl on a cell, a write of a cell, an fcntl on the       *)
(* global lock, an open or close of the environment.                       *)
(***************************************************************************)
EXTENDS Naturals, TLC

CONSTANTS
    Proc,       \* process slots: a slot that is idle may start again
    NCells,     \* cells of lockfile-p (1024 in the code)
    NoProc      \* nobody

ASSUME NCellsAssumption == NCells \in Nat \ {0}
ASSUME NoProcAssumption == NoProc \notin Proc

\* The processes are interchangeable; a run of the safety properties uses it.
ProcSymmetry == Permutations(Proc)

VARIABLES
    pc,         \* where each process is in dbx_init, dbx_recover, ...
    cell,       \* content of each cell of lockfile-p
    celllock,   \* the process that holds the fcntl lock of each cell
    glock,      \* the lock each process holds on lockfile-d
    lockpos,    \* static lockpos: the cell a process claims or owns
    scanpos,    \* the cell check_zombies looks at
    seen,       \* check_zombies has read "inuse" and not yet tested the lock
    torn,       \* who died with the environment open since it was recovered
    lockless    \* some process has recovered without the exclusive lock

vars == <<pc, cell, celllock, glock, lockpos, scanpos, seen, torn, lockless>>

Cell == 0 .. NCells - 1

\* The three calls of needs_recovery and the signal handler scan the table.
Scanning == {"init", "loop", "recheck", "alarm"}

\* The environment is open for regular work and the own cell is marked.
InEnv == {"marked", "running", "alarm"}

\* The process has a marked cell of its own.
Marked == InEnv \cup {"closing"}

\* The environment is open for recovery or for maintenance by bogoutil.
InRecovery == {"recovering", "recovered", "cleared"}
InUtility  == {"utilopen", "util"}

\* No process: it has ended, or it was killed.
Idle == {"off", "dead"}

Location == {"wantwr", "wantrd", "slread", "sllock", "slreread", "unlocking",
             "utilwant"}
            \cup Idle \cup Scanning \cup Marked \cup InRecovery \cup InUtility

Init ==
    /\ pc = [p \in Proc |-> "off"]
    /\ cell = [i \in Cell |-> "free"]
    /\ celllock = [i \in Cell |-> NoProc]
    /\ glock = [p \in Proc |-> "none"]
    /\ lockpos = [p \in Proc |-> 0]
    /\ scanpos = [p \in Proc |-> 0]
    /\ seen = [p \in Proc |-> FALSE]
    /\ torn = {}
    /\ lockless = FALSE

-----------------------------------------------------------------------------
(* Auxiliary operators *)

Go(p, there) == pc' = [pc EXCEPT ![p] = there]

\* needs_recovery is called at `there': the scan begins at the first cell.
GoScan(p, there) ==
    /\ Go(p, there)
    /\ scanpos' = [scanpos EXCEPT ![p] = 0]
    /\ seen' = [seen EXCEPT ![p] = FALSE]

\* The end of a process, however it comes: the kernel drops its locks.
Ends(p, how) ==
    /\ Go(p, how)
    /\ celllock' = [i \in Cell |-> IF celllock[i] = p THEN NoProc
                                                     ELSE celllock[i]]
    /\ glock' = [glock EXCEPT ![p] = "none"]
    /\ lockpos' = [lockpos EXCEPT ![p] = 0]
    /\ scanpos' = [scanpos EXCEPT ![p] = 0]
    /\ seen' = [seen EXCEPT ![p] = FALSE]

\* Berkeley DB needs recovery after a process dies with the environment open.
Tears(p) ==
    torn' = torn \cup (IF pc[p] \in InEnv THEN {"user"} ELSE {})
                 \cup (IF pc[p] \in InRecovery THEN {"recoverer"} ELSE {})
                 \cup (IF pc[p] \in InUtility THEN {"utility"} ELSE {})

\* check_celllock: the own lock is known from lockpos and locked, because
\* F_GETLK reports the locks of other processes only.
CellLocked(p, i) ==
    \/ celllock[i] \notin {NoProc, p}
    \/ pc[p] = "alarm" /\ i = lockpos[p]

ScanDone(p) == ~seen[p] /\ scanpos[p] = NCells
FoundZombie(p) == seen[p] /\ ~CellLocked(p, scanpos[p])

-----------------------------------------------------------------------------
(* check_zombies: for each cell, read it, then test its lock *)

ReadCell(p) ==
    /\ pc[p] \in Scanning
    /\ ~seen[p]
    /\ scanpos[p] < NCells
    /\ \/ /\ cell[scanpos[p]] = "inuse"
          /\ seen' = [seen EXCEPT ![p] = TRUE]
          /\ UNCHANGED scanpos
       \/ /\ cell[scanpos[p]] = "free"
          /\ scanpos' = [scanpos EXCEPT ![p] = @ + 1]
          /\ UNCHANGED seen
    /\ UNCHANGED <<pc, cell, celllock, glock, lockpos, torn, lockless>>

TestCell(p) ==
    /\ pc[p] \in Scanning
    /\ seen[p]
    /\ CellLocked(p, scanpos[p])
    /\ seen' = [seen EXCEPT ![p] = FALSE]
    /\ scanpos' = [scanpos EXCEPT ![p] = @ + 1]
    /\ UNCHANGED <<pc, cell, celllock, glock, lockpos, torn, lockless>>

(* dbx_init: init_dbl, then needs_recovery *)

Start(p) ==
    /\ pc[p] \in Idle
    /\ GoScan(p, "init")
    /\ UNCHANGED <<cell, celllock, glock, lockpos, torn, lockless>>

InitClean(p) ==
    /\ pc[p] = "init"
    /\ ScanDone(p)
    /\ Go(p, "wantrd")
    /\ UNCHANGED <<cell, celllock, glock, lockpos, scanpos, seen, torn, lockless>>

InitZombie(p) ==
    /\ pc[p] = "init"
    /\ FoundZombie(p)
    /\ GoScan(p, "loop")
    /\ UNCHANGED <<cell, celllock, glock, lockpos, torn, lockless>>

(* dbx_recover: wait for the exclusive lock for as long as recovery is needed *)

LoopClean(p) ==
    /\ pc[p] = "loop"
    /\ ScanDone(p)
    /\ GoScan(p, "recheck")
    /\ UNCHANGED <<cell, celllock, glock, lockpos, torn, lockless>>

LoopZombie(p) ==
    /\ pc[p] = "loop"
    /\ FoundZombie(p)
    /\ Go(p, "wantwr")
    /\ UNCHANGED <<cell, celllock, glock, lockpos, scanpos, seen, torn, lockless>>
\* Mutant: F_RDLCK where recovery needs F_WRLCK, so readers are not awaited.
LockExclusiveAmongReaders(p) ==
    /\ pc[p] = "wantwr"
    /\ \A q \in Proc \ {p} : glock[q] # "wr"
    /\ glock' = [glock EXCEPT ![p] = "wr"]
    /\ GoScan(p, "recheck")
    /\ UNCHANGED <<cell, celllock, lockpos, torn, lockless>>

LockExclusive(p) ==
    /\ pc[p] = "wantwr"
    /\ \A q \in Proc \ {p} : glock[q] = "none"
    /\ glock' = [glock EXCEPT ![p] = "wr"]
    /\ GoScan(p, "recheck")
    /\ UNCHANGED <<cell, celllock, lockpos, torn, lockless>>

\* "a concurrent process may have proceeded with recovery"
RecheckClean(p) ==
    /\ pc[p] = "recheck"
    /\ ScanDone(p)
    /\ Go(p, "wantrd")
    /\ UNCHANGED <<cell, celllock, glock, lockpos, scanpos, seen, torn, lockless>>

RecheckZombie(p) ==
    /\ pc[p] = "recheck"
    /\ FoundZombie(p)
    /\ Go(p, "recovering")
    /\ lockless' = (lockless \/ glock[p] # "wr")
    /\ UNCHANGED <<cell, celllock, glock, lockpos, scanpos, seen, torn>>

RunRecovery(p) ==
    /\ pc[p] = "recovering"
    /\ Go(p, "recovered")
    /\ torn' = {}
    /\ UNCHANGED <<cell, celllock, glock, lockpos, scanpos, seen, lockless>>
\* Mutant: recovery forgets clear_lockfile.
ClearLockfileForgotten(p) ==
    /\ pc[p] = "recovered"
    /\ Go(p, "cleared")
    /\ UNCHANGED <<cell, celllock, glock, lockpos, scanpos, seen, torn, lockless>>

ClearLockfile(p) ==
    /\ pc[p] = "recovered"
    /\ Go(p, "cleared")
    /\ cell' = [i \in Cell |-> "free"]
    /\ UNCHANGED <<celllock, glock, lockpos, scanpos, seen, torn, lockless>>

\* dbx_cleanup_lite: close the environment, clear_lock (lockpos is still
\* the initial 0), close lockfile-d; dbx_init goes on.
CloseRecovered(p) ==
    /\ pc[p] = "cleared"
    /\ Go(p, "wantrd")
    /\ cell' = [cell EXCEPT ![lockpos[p]] = "free"]
    /\ glock' = [glock EXCEPT ![p] = "none"]
    /\ UNCHANGED <<celllock, lockpos, scanpos, seen, torn, lockless>>

(* dbx_init: the shared lock, "set (or demote to) shared/read lock" *)
\* Mutant: F_SETLK without a look at its result, where the code waits.
LockSharedAnyway(p) ==
    /\ pc[p] = "wantrd"
    /\ glock' = [glock EXCEPT ![p] = "rd"]
    /\ lockpos' = [lockpos EXCEPT ![p] = 0]
    /\ Go(p, "slread")
    /\ UNCHANGED <<cell, celllock, scanpos, seen, torn, lockless>>

LockShared(p) ==
    /\ pc[p] = "wantrd"
    /\ \A q \in Proc \ {p} : glock[q] # "wr"
    /\ glock' = [glock EXCEPT ![p] = "rd"]
    /\ lockpos' = [lockpos EXCEPT ![p] = 0]
    /\ Go(p, "slread")
    /\ UNCHANGED <<cell, celllock, scanpos, seen, torn, lockless>>

(* set_lock: read a cell, lock it when it is free, read it again, mark it *)

SetLockRead(p) ==
    /\ pc[p] = "slread"
    /\ lockpos[p] < NCells
    /\ \/ /\ cell[lockpos[p]] = "free"
          /\ Go(p, "sllock")
          /\ UNCHANGED lockpos
       \/ /\ cell[lockpos[p]] = "inuse"
          /\ lockpos' = [lockpos EXCEPT ![p] = @ + 1]
          /\ UNCHANGED pc
    /\ UNCHANGED <<cell, celllock, glock, scanpos, seen, torn, lockless>>
\* Mutant: set_lock does not look at the result of set_celllock.
SetLockTryUnchecked(p) ==
    /\ pc[p] = "sllock"
    /\ celllock' = [celllock EXCEPT ![lockpos[p]] = IF @ = NoProc THEN p ELSE @]
    /\ Go(p, "slreread")
    /\ UNCHANGED <<cell, glock, lockpos, scanpos, seen, torn, lockless>>

SetLockTry(p) ==
    /\ pc[p] = "sllock"
    /\ \/ /\ celllock[lockpos[p]] = NoProc
          /\ celllock' = [celllock EXCEPT ![lockpos[p]] = p]
          /\ Go(p, "slreread")
          /\ UNCHANGED lockpos
       \/ /\ celllock[lockpos[p]] # NoProc
          /\ lockpos' = [lockpos EXCEPT ![p] = @ + 1]
          /\ Go(p, "slread")
          /\ UNCHANGED celllock
    /\ UNCHANGED <<cell, glock, scanpos, seen, torn, lockless>>
\* Mutant: set_lock does not read the cell again once it is locked.
SetLockMarkBlindly(p) ==
    /\ pc[p] = "slreread"
    /\ cell' = [cell EXCEPT ![lockpos[p]] = "inuse"]
    /\ Go(p, "marked")
    /\ UNCHANGED <<celllock, glock, lockpos, scanpos, seen, torn, lockless>>

SetLockMark(p) ==
    /\ pc[p] = "slreread"
    /\ cell[lockpos[p]] = "free"
    /\ cell' = [cell EXCEPT ![lockpos[p]] = "inuse"]
    /\ Go(p, "marked")
    /\ UNCHANGED <<celllock, glock, lockpos, scanpos, seen, torn, lockless>>

\* "found fresh zombie": set_lock returns -2 and dbx_init exits.
SetLockFreshZombie(p) ==
    /\ pc[p] = "slreread"
    /\ cell[lockpos[p]] = "inuse"
    /\ Ends(p, "off")
    /\ UNCHANGED <<cell, torn, lockless>>

\* No cell is left: set_lock returns -1 and dbx_init exits.
SetLockFull(p) ==
    /\ pc[p] = "slread"
    /\ lockpos[p] = NCells
    /\ Ends(p, "off")
    /\ UNCHANGED <<cell, torn, lockless>>

(* dbe_xinit, regular work, and the SIGALRM handler check_lock *)

OpenEnv(p) ==
    /\ pc[p] = "marked"
    /\ Go(p, "running")
    /\ UNCHANGED <<cell, celllock, glock, lockpos, scanpos, seen, torn, lockless>>

Alarm(p) ==
    /\ pc[p] = "running"
    /\ GoScan(p, "alarm")
    /\ UNCHANGED <<cell, celllock, glock, lockpos, torn, lockless>>

AlarmClean(p) ==
    /\ pc[p] = "alarm"
    /\ ScanDone(p)
    /\ Go(p, "running")
    /\ UNCHANGED <<cell, celllock, glock, lockpos, scanpos, seen, torn, lockless>>
\* Mutant: the signal handler does not act on what check_zombies returns.
AlarmZombieIgnored(p) ==
    /\ pc[p] = "alarm"
    /\ FoundZombie(p)
    /\ Go(p, "running")
    /\ UNCHANGED <<cell, celllock, glock, lockpos, scanpos, seen, torn, lockless>>

\* _exit(EX_ERROR): no atexit handler runs, the own cell stays marked.
AlarmZombie(p) ==
    /\ pc[p] = "alarm"
    /\ FoundZombie(p)
    /\ Tears(p)
    /\ Ends(p, "off")
    /\ UNCHANGED <<cell, lockless>>

(* dbx_cleanup_lite after regular work, with clear_lock *)

CloseEnv(p) ==
    /\ pc[p] = "running"
    /\ Go(p, "closing")
    /\ UNCHANGED <<cell, celllock, glock, lockpos, scanpos, seen, torn, lockless>>

ClearCell(p) ==
    /\ pc[p] = "closing"
    /\ cell' = [cell EXCEPT ![lockpos[p]] = "free"]
    /\ Go(p, "unlocking")
    /\ UNCHANGED <<celllock, glock, lockpos, scanpos, seen, torn, lockless>>

ReleaseCell(p) ==
    /\ pc[p] = "unlocking"
    /\ Ends(p, "off")
    /\ UNCHANGED <<cell, torn, lockless>>

(* bogoutil --db-recover (dbx_recover with force), --db-checkpoint,        *)
(* --db-prune and --db-remove-environment (dbe_recover_open): they never   *)
(* open lockfile-p, so its cells stay as they are.                         *)

UtilStart(p) ==
    /\ pc[p] \in Idle
    /\ Go(p, "utilwant")
    /\ UNCHANGED <<cell, celllock, glock, lockpos, scanpos, seen, torn, lockless>>

UtilLock(p) ==
    /\ pc[p] = "utilwant"
    /\ \A q \in Proc \ {p} : glock[q] = "none"
    /\ glock' = [glock EXCEPT ![p] = "wr"]
    /\ Go(p, "utilopen")
    /\ UNCHANGED <<cell, celllock, lockpos, scanpos, seen, torn, lockless>>

UtilRecover(p) ==
    /\ pc[p] = "utilopen"
    /\ torn' = {}
    /\ Go(p, "util")
    /\ UNCHANGED <<cell, celllock, glock, lockpos, scanpos, seen, lockless>>

UtilClose(p) ==
    /\ pc[p] = "util"
    /\ Ends(p, "off")
    /\ UNCHANGED <<cell, torn, lockless>>

-----------------------------------------------------------------------------
(* A crash: at any point of any process, with its locks dropped by the     *)
(* kernel and the cells of lockfile-p as they were.                        *)

Crash(p) ==
    /\ pc[p] \notin Idle
    /\ Tears(p)
    /\ Ends(p, "dead")
    /\ UNCHANGED <<cell, lockless>>

\* What a process does once it has started, and the bogoutil commands.
Progress(p) ==
    \/ ReadCell(p) \/ TestCell(p)
    \/ InitClean(p) \/ InitZombie(p)
    \/ LoopClean(p) \/ LoopZombie(p) \/ LockExclusive(p)
    \/ RecheckClean(p) \/ RecheckZombie(p)
    \/ RunRecovery(p) \/ ClearLockfile(p) \/ CloseRecovered(p)
    \/ LockShared(p)
    \/ SetLockRead(p) \/ SetLockTry(p) \/ SetLockMark(p)
    \/ SetLockFreshZombie(p) \/ SetLockFull(p)
    \/ OpenEnv(p) \/ AlarmClean(p) \/ AlarmZombie(p)
    \/ ClearCell(p) \/ ReleaseCell(p)
    \/ UtilLock(p) \/ UtilRecover(p) \/ UtilClose(p)

Step(p) == Start(p) \/ UtilStart(p) \/ Alarm(p) \/ CloseEnv(p) \/ Progress(p)

Next == \E p \in Proc : Step(p) \/ Crash(p)

Spec == Init /\ [][Next]_vars

\* The same processes when none of them crashes.
CrashFreeSpec == Init /\ [][\E p \in Proc : Step(p)]_vars

\* Every process that has started takes its next step, the alarm is re-armed
\* for as long as the environment is open, and mail keeps arriving; crashes
\* and the administrator's commands come to an end.
Fairness ==
    /\ \A p \in Proc :
        WF_vars(Progress(p)) /\ WF_vars(Alarm(p)) /\ WF_vars(Start(p))
    /\ <>[][\A p \in Proc : ~Crash(p) /\ ~UtilStart(p)]_vars

FairSpec == Spec /\ Fairness

-----------------------------------------------------------------------------
(* Properties *)

\* A cell that is marked by nobody who is alive: the trace of a crash.
Orphan(i) ==
    /\ cell[i] = "inuse"
    /\ ~ \E p \in Proc : pc[p] \in Marked /\ lockpos[p] = i

\* The values of the variables.
TypeOK ==
    /\ pc \in [Proc -> Location]
    /\ cell \in [Cell -> {"free", "inuse"}]
    /\ celllock \in [Cell -> Proc \cup {NoProc}]
    /\ glock \in [Proc -> {"none", "rd", "wr"}]
    /\ lockpos \in [Proc -> 0 .. NCells]
    /\ scanpos \in [Proc -> 0 .. NCells]
    /\ seen \in [Proc -> BOOLEAN]
    /\ torn \subseteq {"user", "recoverer", "utility"}
    /\ lockless \in BOOLEAN

\* A process that works in the environment holds the shared lock and the
\* lock of its cell, and its cell stays marked whatever other processes
\* start, recover or exit (db_lock.c: "1 with fcntl lock: process running");
\* otherwise its crash would leave no trace.
LiveCellMarked ==
    \A p \in Proc : pc[p] \in Marked =>
        /\ glock[p] = "rd"
        /\ celllock[lockpos[p]] = p
        /\ ~lockless => cell[lockpos[p]] = "inuse"

\* While one process recovers the environment, or runs a bogoutil command on
\* it, no other process has it open. The only way out of this is a recovery
\* that dbx_recover starts without the exclusive lock.
RecoveryAlone ==
    ~lockless =>
        \A p, q \in Proc :
            /\ p # q
            /\ pc[p] \in InRecovery \cup InUtility
            => pc[q] \notin InEnv \cup InRecovery \cup InUtility

\* The crash of a process that worked in the environment is not forgotten:
\* until the environment is recovered, a marked cell without a living owner
\* tells every later process to recover.
CrashRemembered ==
    ~lockless /\ "user" \in torn => \E i \in Cell : Orphan(i)

\* When set_lock gives up because of a "fresh zombie" (-2), the cell it had
\* read as free and then locked was marked by a process that is dead.
FreshZombieIsReal ==
    \A p \in Proc :
        pc[p] = "slreread" /\ cell[lockpos[p]] = "inuse"
            => Orphan(lockpos[p])

\* A process that has the environment open when another one crashes in it,
\* or that got in just after, does not stay: within a period of its alarm
\* it is gone, or the environment has been recovered.
TornEnvIsLeft ==
    \A p \in Proc :
        (pc[p] \in InEnv /\ "user" \in torn)
            ~> (pc[p] \notin InEnv \/ "user" \notin torn \/ lockless)

\* A crash is eventually repaired: the trace of a crash does not stay in the
\* table when processes keep being started.
OrphanRecovered == \A i \in Cell : Orphan(i) ~> ~Orphan(i)

\* db_lock.h: needs_recovery returns "0 if no process has previously
\* crashed", so without a crash no scan finds a zombie.
NoVerdictWithoutCrash ==
    \A p \in Proc : pc[p] \in Scanning => ~FoundZombie(p)

\* dbx_recover: "set exclusive/write lock for recovery".
RecoveryHoldsLock ==
    \A p \in Proc : pc[p] \in InRecovery => glock[p] = "wr"

\* README.db 3.2.1: the utilities "will automatically detect when regular
\* recovery is needed": whoever died in the environment, a cell tells it.
CrashDetected ==
    ~lockless /\ torn # {} => \E i \in Cell : Orphan(i)

\* README.db 3.2.1, of the process that opens the environment: when regular
\* recovery is needed it is run first.
OpenedWhole == [][\A p \in Proc : OpenEnv(p) => "user" \notin torn]_vars
=============================================================================
