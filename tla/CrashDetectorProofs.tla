------------------------ MODULE CrashDetectorProofs ------------------------
(***************************************************************************)
(* TLAPS proofs about CrashDetector, for any number of processes and any   *)
(* size of the process table.                                              *)
(*                                                                         *)
(* TypeOK is not inductive: set_lock and check_zombies advance a position  *)
(* that must be known to be inside the table, which Positions adds.        *)
(* LockInv says who holds which fcntl lock at which location; TableInv     *)
(* says what the cells and the state of the environment then are for as    *)
(* long as no recovery has run without the exclusive lock.                 *)
(***************************************************************************)
EXTENDS CrashDetector, TLAPS

\* A position that is about to be used or advanced is inside the table.
Positions ==
    \A p \in Proc :
        /\ pc[p] = "sllock" => lockpos[p] < NCells
        /\ seen[p] => scanpos[p] < NCells

TypeInv == TypeOK /\ Positions

\* Where a process holds the lock of the cell at its lockpos.
Owning == Marked \cup {"slreread", "unlocking"}

\* Where a process holds the shared lock on lockfile-d.
Sharing == Owning \cup {"slread", "sllock"}

LockInv ==
    /\ \A p \in Proc : pc[p] \in Owning =>
            lockpos[p] \in Cell /\ celllock[lockpos[p]] = p
    /\ \A p \in Proc : pc[p] \in Sharing => glock[p] = "rd"
    /\ \A p \in Proc : pc[p] \in InUtility => glock[p] = "wr"
    /\ ~lockless => \A p \in Proc : pc[p] \in InRecovery => glock[p] = "wr"
    /\ \A p, q \in Proc : p # q /\ glock[p] = "wr" => glock[q] = "none"

\* While a recovery is between DB_RECOVER and its end nobody can crash in
\* the environment; otherwise clear_lockfile would erase the trace.
TableInv ==
    ~lockless =>
        /\ \A p \in Proc : pc[p] \in Marked => cell[lockpos[p]] = "inuse"
        /\ \A p \in Proc : pc[p] \in {"recovered", "cleared"} => "user" \notin torn
        /\ "user" \in torn => \E i \in Cell : Orphan(i)

IInv == TypeInv /\ LockInv /\ TableInv

-----------------------------------------------------------------------------
(* Type correctness *)

\* Positions in the table: 0 .. NCells, and one more step from inside it.
LEMMA Advance ==
    /\ 0 \in 0 .. NCells
    /\ \A n \in 0 .. NCells :
        /\ n < NCells => n + 1 \in 0 .. NCells
        /\ n < NCells => n # NCells
        /\ n < NCells => n \in Cell
BY NCellsAssumption DEF Cell

\* The initial state is well typed, with every position at the first cell.
LEMMA TypeInit == Init => TypeInv
<1> SUFFICES ASSUME Init PROVE TypeInv
  OBVIOUS
<1> USE Advance DEF Init
<1>1. pc \in [Proc -> Location]
  BY DEF Location, Idle
<1>2. cell \in [Cell -> {"free", "inuse"}] /\ celllock \in [Cell -> Proc \cup {NoProc}]
  OBVIOUS
<1>3. TypeOK
  BY <1>1, <1>2 DEF TypeOK
<1>4. Positions
  BY DEF Positions
<1> QED
  BY <1>3, <1>4 DEF TypeInv

\* Every step keeps the types and the positions.
LEMMA TypeStep == TypeInv /\ [Next]_vars => TypeInv'
<1> SUFFICES ASSUME TypeInv, [Next]_vars PROVE TypeInv'
  OBVIOUS
<1> USE Advance DEF TypeInv, TypeOK, Positions, Location, Idle, Scanning,
        Marked, InEnv, InRecovery, InUtility, Go, GoScan, Ends
<1>1. ASSUME NEW p \in Proc, Start(p) PROVE TypeInv'
  BY <1>1 DEF Start
<1>2. ASSUME NEW p \in Proc, InitClean(p) PROVE TypeInv'
  BY <1>2 DEF InitClean
<1>3. ASSUME NEW p \in Proc, InitZombie(p) PROVE TypeInv'
  BY <1>3 DEF InitZombie
<1>4. ASSUME NEW p \in Proc, LoopClean(p) PROVE TypeInv'
  BY <1>4 DEF LoopClean
<1>5. ASSUME NEW p \in Proc, LoopZombie(p) PROVE TypeInv'
  BY <1>5 DEF LoopZombie
<1>6. ASSUME NEW p \in Proc, LockExclusive(p) PROVE TypeInv'
  BY <1>6 DEF LockExclusive
<1>7. ASSUME NEW p \in Proc, RecheckClean(p) PROVE TypeInv'
  BY <1>7 DEF RecheckClean
<1>8. ASSUME NEW p \in Proc, RecheckZombie(p) PROVE TypeInv'
  BY <1>8 DEF RecheckZombie
<1>9. ASSUME NEW p \in Proc, RunRecovery(p) PROVE TypeInv'
  BY <1>9 DEF RunRecovery
<1>10. ASSUME NEW p \in Proc, ClearLockfile(p) PROVE TypeInv'
  BY <1>10 DEF ClearLockfile
<1>11. ASSUME NEW p \in Proc, CloseRecovered(p) PROVE TypeInv'
  BY <1>11 DEF CloseRecovered
<1>12. ASSUME NEW p \in Proc, LockShared(p) PROVE TypeInv'
  BY <1>12 DEF LockShared
<1>13. ASSUME NEW p \in Proc, SetLockRead(p) PROVE TypeInv'
  BY <1>13 DEF SetLockRead
<1>14. ASSUME NEW p \in Proc, SetLockTry(p) PROVE TypeInv'
  BY <1>14 DEF SetLockTry
<1>15. ASSUME NEW p \in Proc, SetLockMark(p) PROVE TypeInv'
  BY <1>15 DEF SetLockMark
<1>16. ASSUME NEW p \in Proc, SetLockFreshZombie(p) PROVE TypeInv'
  BY <1>16 DEF SetLockFreshZombie
<1>17. ASSUME NEW p \in Proc, SetLockFull(p) PROVE TypeInv'
  BY <1>17 DEF SetLockFull
<1>18. ASSUME NEW p \in Proc, OpenEnv(p) PROVE TypeInv'
  BY <1>18 DEF OpenEnv
<1>19. ASSUME NEW p \in Proc, Alarm(p) PROVE TypeInv'
  BY <1>19 DEF Alarm
<1>20. ASSUME NEW p \in Proc, AlarmClean(p) PROVE TypeInv'
  BY <1>20 DEF AlarmClean
<1>21. ASSUME NEW p \in Proc, AlarmZombie(p) PROVE TypeInv'
  BY <1>21 DEF AlarmZombie, Tears
<1>22. ASSUME NEW p \in Proc, CloseEnv(p) PROVE TypeInv'
  BY <1>22 DEF CloseEnv
<1>23. ASSUME NEW p \in Proc, ClearCell(p) PROVE TypeInv'
  BY <1>23 DEF ClearCell
<1>24. ASSUME NEW p \in Proc, ReleaseCell(p) PROVE TypeInv'
  BY <1>24 DEF ReleaseCell
<1>25. ASSUME NEW p \in Proc, UtilStart(p) PROVE TypeInv'
  BY <1>25 DEF UtilStart
<1>26. ASSUME NEW p \in Proc, UtilLock(p) PROVE TypeInv'
  BY <1>26 DEF UtilLock
<1>27. ASSUME NEW p \in Proc, UtilRecover(p) PROVE TypeInv'
  BY <1>27 DEF UtilRecover
<1>28. ASSUME NEW p \in Proc, UtilClose(p) PROVE TypeInv'
  BY <1>28 DEF UtilClose
<1>29. ASSUME NEW p \in Proc, ReadCell(p) PROVE TypeInv'
  <2>1. CASE cell[scanpos[p]] = "inuse"
    BY <1>29, <2>1 DEF ReadCell
  <2>2. CASE cell[scanpos[p]] = "free"
    BY <1>29, <2>2 DEF ReadCell
  <2> QED
    BY <1>29, <2>1, <2>2 DEF ReadCell
<1>30. ASSUME NEW p \in Proc, TestCell(p) PROVE TypeInv'
  BY <1>30 DEF TestCell
<1>31. ASSUME NEW p \in Proc, Crash(p) PROVE TypeInv'
  BY <1>31 DEF Crash, Tears
<1>32. CASE UNCHANGED vars
  BY <1>32 DEF vars
<1> QED
  BY <1>1, <1>2, <1>3, <1>4, <1>5, <1>6, <1>7, <1>8, <1>9, <1>10, <1>11,
     <1>12, <1>13, <1>14, <1>15, <1>16, <1>17, <1>18, <1>19, <1>20, <1>21,
     <1>22, <1>23, <1>24, <1>25, <1>26, <1>27, <1>28, <1>29, <1>30, <1>31,
     <1>32
  DEF Next, Step, Progress

\* The variables of the crash detector keep their types in every behaviour,
\* for any number of processes and cells.
THEOREM TypeCorrect == Spec => []TypeOK
<1>1. TypeInv => TypeOK
  BY DEF TypeInv
<1> QED
  BY <1>1, TypeInit, TypeStep, PTL DEF Spec

-----------------------------------------------------------------------------
(* Who holds which lock *)

\* Nobody holds a lock at first.
LEMMA LockInit == Init => LockInv
BY DEF Init, LockInv, Owning, Sharing, Idle, Marked, InEnv, InRecovery, InUtility

\* A lock is taken where LockInv wants it, only its owner gives it up, and
\* the exclusive lock is granted to one process when the others hold none.
LEMMA LockStep == TypeInv /\ LockInv /\ [Next]_vars => LockInv'
<1> SUFFICES ASSUME TypeInv, LockInv, [Next]_vars PROVE LockInv'
  OBVIOUS
<1> USE NoProcAssumption, Advance DEF TypeInv, TypeOK, Positions, LockInv,
        Owning, Sharing, Idle, Scanning, Marked, InEnv, InRecovery, InUtility, Go, GoScan, Ends
<1>1. ASSUME NEW p \in Proc, Start(p) PROVE LockInv'
  BY <1>1 DEF Start
<1>2. ASSUME NEW p \in Proc, InitClean(p) PROVE LockInv'
  BY <1>2 DEF InitClean
<1>3. ASSUME NEW p \in Proc, InitZombie(p) PROVE LockInv'
  BY <1>3 DEF InitZombie
<1>4. ASSUME NEW p \in Proc, LoopClean(p) PROVE LockInv'
  BY <1>4 DEF LoopClean
<1>5. ASSUME NEW p \in Proc, LoopZombie(p) PROVE LockInv'
  BY <1>5 DEF LoopZombie
<1>6. ASSUME NEW p \in Proc, LockExclusive(p) PROVE LockInv'
  BY <1>6 DEF LockExclusive
<1>7. ASSUME NEW p \in Proc, RecheckClean(p) PROVE LockInv'
  BY <1>7 DEF RecheckClean
<1>8. ASSUME NEW p \in Proc, RecheckZombie(p) PROVE LockInv'
  <2>1. CASE glock[p] = "wr"
    BY <1>8, <2>1 DEF RecheckZombie
  <2>2. CASE glock[p] # "wr"
    <3>1. lockless' = TRUE
      BY <1>8, <2>2, Zenon DEF RecheckZombie
    <3> QED
      BY <1>8, <3>1 DEF RecheckZombie
  <2> QED
    BY <2>1, <2>2
<1>9. ASSUME NEW p \in Proc, RunRecovery(p) PROVE LockInv'
  BY <1>9 DEF RunRecovery
<1>10. ASSUME NEW p \in Proc, ClearLockfile(p) PROVE LockInv'
  BY <1>10 DEF ClearLockfile
<1>11. ASSUME NEW p \in Proc, CloseRecovered(p) PROVE LockInv'
  BY <1>11 DEF CloseRecovered
<1>12. ASSUME NEW p \in Proc, LockShared(p) PROVE LockInv'
  BY <1>12 DEF LockShared
<1>13. ASSUME NEW p \in Proc, SetLockRead(p) PROVE LockInv'
  BY <1>13 DEF SetLockRead
<1>14. ASSUME NEW p \in Proc, SetLockTry(p) PROVE LockInv'
  BY <1>14 DEF SetLockTry
<1>15. ASSUME NEW p \in Proc, SetLockMark(p) PROVE LockInv'
  BY <1>15 DEF SetLockMark
<1>16. ASSUME NEW p \in Proc, SetLockFreshZombie(p) PROVE LockInv'
  BY <1>16 DEF SetLockFreshZombie
<1>17. ASSUME NEW p \in Proc, SetLockFull(p) PROVE LockInv'
  BY <1>17 DEF SetLockFull
<1>18. ASSUME NEW p \in Proc, OpenEnv(p) PROVE LockInv'
  BY <1>18 DEF OpenEnv
<1>19. ASSUME NEW p \in Proc, Alarm(p) PROVE LockInv'
  BY <1>19 DEF Alarm
<1>20. ASSUME NEW p \in Proc, AlarmClean(p) PROVE LockInv'
  BY <1>20 DEF AlarmClean
<1>21. ASSUME NEW p \in Proc, AlarmZombie(p) PROVE LockInv'
  BY <1>21 DEF AlarmZombie, Tears
<1>22. ASSUME NEW p \in Proc, CloseEnv(p) PROVE LockInv'
  BY <1>22 DEF CloseEnv
<1>23. ASSUME NEW p \in Proc, ClearCell(p) PROVE LockInv'
  BY <1>23 DEF ClearCell
<1>24. ASSUME NEW p \in Proc, ReleaseCell(p) PROVE LockInv'
  BY <1>24 DEF ReleaseCell
<1>25. ASSUME NEW p \in Proc, UtilStart(p) PROVE LockInv'
  BY <1>25 DEF UtilStart
<1>26. ASSUME NEW p \in Proc, UtilLock(p) PROVE LockInv'
  BY <1>26 DEF UtilLock
<1>27. ASSUME NEW p \in Proc, UtilRecover(p) PROVE LockInv'
  BY <1>27 DEF UtilRecover
<1>28. ASSUME NEW p \in Proc, UtilClose(p) PROVE LockInv'
  BY <1>28 DEF UtilClose
<1>29. ASSUME NEW p \in Proc, ReadCell(p) PROVE LockInv'
  BY <1>29 DEF ReadCell
<1>30. ASSUME NEW p \in Proc, TestCell(p) PROVE LockInv'
  BY <1>30 DEF TestCell
<1>31. ASSUME NEW p \in Proc, Crash(p) PROVE LockInv'
  BY <1>31 DEF Crash, Tears
<1>32. CASE UNCHANGED vars
  BY <1>32 DEF vars
<1> QED
  BY <1>1, <1>2, <1>3, <1>4, <1>5, <1>6, <1>7, <1>8, <1>9, <1>10, <1>11,
     <1>12, <1>13, <1>14, <1>15, <1>16, <1>17, <1>18, <1>19, <1>20, <1>21,
     <1>22, <1>23, <1>24, <1>25, <1>26, <1>27, <1>28, <1>29, <1>30, <1>31,
     <1>32
  DEF Next, Step, Progress

-----------------------------------------------------------------------------
(* The table and the environment *)

\* Two processes never own the same cell.
LEMMA OwnersDiffer ==
    LockInv => \A p, q \in Proc :
        /\ pc[p] \in Owning /\ pc[q] \in Owning /\ p # q
        => lockpos[p] # lockpos[q]
BY DEF LockInv

\* At first no cell is marked and the environment is whole.
LEMMA TableInit == Init => TableInv
BY DEF Init, TableInv, Orphan, Idle, Marked, InEnv

\* A mark is made and erased by its owner, or erased by a recovery that has
\* the exclusive lock, when nobody owns a cell; a crash leaves the mark behind.
LEMMA TableStep ==
    TypeInv /\ LockInv /\ TableInv /\ [Next]_vars => TableInv'
<1> SUFFICES ASSUME TypeInv, LockInv, TableInv, [Next]_vars PROVE TableInv'
  OBVIOUS
<1> USE DEF TypeInv, TypeOK, LockInv, TableInv, Orphan,
        Owning, Sharing, Idle, Scanning, Marked, InEnv, InRecovery, InUtility, Go, GoScan, Ends
<1>1. ASSUME NEW p \in Proc, Start(p) PROVE TableInv'
  BY <1>1 DEF Start
<1>2. ASSUME NEW p \in Proc, InitClean(p) PROVE TableInv'
  BY <1>2 DEF InitClean
<1>3. ASSUME NEW p \in Proc, InitZombie(p) PROVE TableInv'
  BY <1>3 DEF InitZombie
<1>4. ASSUME NEW p \in Proc, LoopClean(p) PROVE TableInv'
  BY <1>4 DEF LoopClean
<1>5. ASSUME NEW p \in Proc, LoopZombie(p) PROVE TableInv'
  BY <1>5 DEF LoopZombie
<1>6. ASSUME NEW p \in Proc, LockExclusive(p) PROVE TableInv'
  BY <1>6 DEF LockExclusive
<1>7. ASSUME NEW p \in Proc, RecheckClean(p) PROVE TableInv'
  BY <1>7 DEF RecheckClean
<1>8. ASSUME NEW p \in Proc, RecheckZombie(p) PROVE TableInv'
  BY <1>8 DEF RecheckZombie
<1>9. ASSUME NEW p \in Proc, RunRecovery(p) PROVE TableInv'
  BY <1>9 DEF RunRecovery
<1>10. ASSUME NEW p \in Proc, ClearLockfile(p) PROVE TableInv'
  BY <1>10 DEF ClearLockfile
<1>11. ASSUME NEW p \in Proc, CloseRecovered(p) PROVE TableInv'
  BY <1>11 DEF CloseRecovered
<1>12. ASSUME NEW p \in Proc, LockShared(p) PROVE TableInv'
  BY <1>12 DEF LockShared
<1>13. ASSUME NEW p \in Proc, SetLockRead(p) PROVE TableInv'
  BY <1>13 DEF SetLockRead
<1>14. ASSUME NEW p \in Proc, SetLockTry(p) PROVE TableInv'
  BY <1>14 DEF SetLockTry
<1>15. ASSUME NEW p \in Proc, SetLockMark(p) PROVE TableInv'
  BY <1>15 DEF SetLockMark
<1>16. ASSUME NEW p \in Proc, SetLockFreshZombie(p) PROVE TableInv'
  BY <1>16 DEF SetLockFreshZombie
<1>17. ASSUME NEW p \in Proc, SetLockFull(p) PROVE TableInv'
  BY <1>17 DEF SetLockFull
<1>18. ASSUME NEW p \in Proc, OpenEnv(p) PROVE TableInv'
  BY <1>18 DEF OpenEnv
<1>19. ASSUME NEW p \in Proc, Alarm(p) PROVE TableInv'
  BY <1>19 DEF Alarm
<1>20. ASSUME NEW p \in Proc, AlarmClean(p) PROVE TableInv'
  BY <1>20 DEF AlarmClean
<1>21. ASSUME NEW p \in Proc, AlarmZombie(p) PROVE TableInv'
  BY <1>21 DEF AlarmZombie, Tears
<1>22. ASSUME NEW p \in Proc, CloseEnv(p) PROVE TableInv'
  BY <1>22 DEF CloseEnv
<1>23. ASSUME NEW p \in Proc, ClearCell(p) PROVE TableInv'
  BY <1>23 DEF ClearCell
<1>24. ASSUME NEW p \in Proc, ReleaseCell(p) PROVE TableInv'
  BY <1>24 DEF ReleaseCell
<1>25. ASSUME NEW p \in Proc, UtilStart(p) PROVE TableInv'
  BY <1>25 DEF UtilStart
<1>26. ASSUME NEW p \in Proc, UtilLock(p) PROVE TableInv'
  BY <1>26 DEF UtilLock
<1>27. ASSUME NEW p \in Proc, UtilRecover(p) PROVE TableInv'
  BY <1>27 DEF UtilRecover
<1>28. ASSUME NEW p \in Proc, UtilClose(p) PROVE TableInv'
  BY <1>28 DEF UtilClose
<1>29. ASSUME NEW p \in Proc, ReadCell(p) PROVE TableInv'
  BY <1>29 DEF ReadCell
<1>30. ASSUME NEW p \in Proc, TestCell(p) PROVE TableInv'
  BY <1>30 DEF TestCell
<1>31. ASSUME NEW p \in Proc, Crash(p) PROVE TableInv'
  BY <1>31 DEF Crash, Tears
<1>32. CASE UNCHANGED vars
  BY <1>32 DEF vars
<1> QED
  BY <1>1, <1>2, <1>3, <1>4, <1>5, <1>6, <1>7, <1>8, <1>9, <1>10, <1>11,
     <1>12, <1>13, <1>14, <1>15, <1>16, <1>17, <1>18, <1>19, <1>20, <1>21,
     <1>22, <1>23, <1>24, <1>25, <1>26, <1>27, <1>28, <1>29, <1>30, <1>31,
     <1>32
  DEF Next, Step, Progress

-----------------------------------------------------------------------------
(* The theorems *)

\* IInv is an inductive invariant of the crash detector.
LEMMA Inductive == Spec => []IInv
<1>1. Init => IInv
  BY TypeInit, LockInit, TableInit DEF IInv
<1>2. IInv /\ [Next]_vars => IInv'
  BY TypeStep, LockStep, TableStep DEF IInv
<1> QED
  BY <1>1, <1>2, PTL DEF Spec

\* A process that works in the environment has the shared lock and its own
\* locked, marked cell, whoever starts, recovers, exits or crashes meanwhile.
THEOREM LiveCells == Spec => []LiveCellMarked
<1>1. IInv => LiveCellMarked
  BY DEF IInv, LockInv, TableInv, LiveCellMarked, Owning, Sharing
<1> QED
  BY <1>1, Inductive, PTL

\* Recovery and maintenance exclude everyone else from the environment, for
\* as long as no recovery ran without the exclusive lock.
THEOREM RecoveryExclusion == Spec => []RecoveryAlone
<1>1. IInv => RecoveryAlone
  <2> SUFFICES ASSUME IInv, ~lockless,
                      NEW p \in Proc, NEW q \in Proc, p # q,
                      pc[p] \in InRecovery \cup InUtility
               PROVE  pc[q] \notin InEnv \cup InRecovery \cup InUtility
    BY DEF RecoveryAlone
  <2>1. glock[p] = "wr" /\ glock[q] = "none"
    BY DEF IInv, LockInv
  <2>2. pc[q] \in InEnv => glock[q] = "rd"
    BY DEF IInv, LockInv, Sharing, Owning, Marked
  <2>3. pc[q] \in InRecovery \cup InUtility => glock[q] = "wr"
    BY DEF IInv, LockInv
  <2> QED
    BY <2>1, <2>2, <2>3
<1> QED
  BY <1>1, Inductive, PTL

\* Whoever crashes in the environment leaves a marked cell that stays until
\* the environment has been recovered.
THEOREM CrashIsRemembered == Spec => []CrashRemembered
<1>1. IInv => CrashRemembered
  BY DEF IInv, TableInv, CrashRemembered
<1> QED
  BY <1>1, Inductive, PTL

\* set_lock never takes a living process for a fresh zombie.
THEOREM FreshZombies == Spec => []FreshZombieIsReal
<1>1. IInv => FreshZombieIsReal
  <2> SUFFICES ASSUME IInv, NEW p \in Proc,
                      pc[p] = "slreread", cell[lockpos[p]] = "inuse",
                      NEW q \in Proc, pc[q] \in Marked, lockpos[q] = lockpos[p]
               PROVE  FALSE
    BY DEF FreshZombieIsReal, Orphan
  <2>1. p # q
    BY DEF Marked, InEnv
  <2> QED
    BY <2>1, OwnersDiffer DEF IInv, Owning
<1> QED
  BY <1>1, Inductive, PTL
=============================================================================
