-------------------------- MODULE EnvironmentList --------------------------
(***************************************************************************)
(* The environments of a process whose wordlists are in several            *)
(* directories: list_searchinsert, open_wordlists and close_wordlists      *)
(* (wordlists.c) on top of the crash detector of db_lock.c, which keeps    *)
(* ONE open lockfile-p, ONE own cell and ONE mark in static variables.     *)
(*                                                                         *)
(* The steps are coarser than those of CrashDetector: a scan, or all of    *)
(* dbx_init once its lock is granted, is one step. What processes do to    *)
(* each other in the middle of these is the subject of CrashDetector.      *)
(***************************************************************************)
EXTENDS Naturals, Sequences, FiniteSets, SequencesExt

CONSTANTS
    Proc,
    Directory,
    NCells,         \* cells of each lockfile-p
    Assignments,    \* for each process, the directories of its wordlists
    NoProc,
    Closed          \* lockfd is -1

NCellsAssumption == NCells \in Nat \ {0}
NobodyAssumption == NoProc \notin Proc /\ Closed \notin Directory
AssignmentsAssumption ==
    \A ds \in Assignments :
        /\ ds \in [Proc -> Seq(Directory)]
        /\ \A p \in Proc : ds[p] # <<>> /\ IsInjective(ds[p])

VARIABLES
    directories, \* of each process, in order of its wordlists; never changes
    pc,         \* "off", "opening", "running" or "closing"
    cell,       \* content of each cell, per directory
    celllock,   \* holder of the fcntl lock of each cell, per directory
    glock,      \* the processes with the shared lock on each lockfile-d
    torn,       \* the directories whose environment needs recovery
    next,       \* the place of the list that open_wordlists is at
    retry,      \* a list was busy in this pass of open_wordlists
    envs,       \* envlisthead: the open environments, the last one first
    lockfd,     \* the directory whose lockfile-p is open
    lockpos,
    locked,
    globalfd    \* static lockfd of datastore_db_trans.c: the last lockfile-d

vars == <<directories, pc, cell, celllock, glock, torn, next, retry, envs,
          lockfd, lockpos, locked, globalfd>>

Cell == 0 .. NCells - 1

Init ==
    /\ directories \in Assignments
    /\ pc = [p \in Proc |-> "off"]
    /\ cell = [d \in Directory |-> [i \in Cell |-> "free"]]
    /\ celllock = [d \in Directory |-> [i \in Cell |-> NoProc]]
    /\ glock = [d \in Directory |-> {}]
    /\ torn = {}
    /\ next = [p \in Proc |-> 1]
    /\ retry = [p \in Proc |-> FALSE]
    /\ envs = [p \in Proc |-> <<>>]
    /\ lockfd = [p \in Proc |-> Closed]
    /\ lockpos = [p \in Proc |-> 0]
    /\ locked = [p \in Proc |-> FALSE]
    /\ globalfd = [p \in Proc |-> Closed]

-----------------------------------------------------------------------------
(* Auxiliary operators *)

Go(p, there) == pc' = [pc EXCEPT ![p] = there]

\* A table without the locks of p, as after a close of lockfile-p.
Unlocked(p, table) == [i \in Cell |-> IF table[i] = p THEN NoProc ELSE table[i]]

\* check_celllock: the kernel does not report p's own locks, and the statics
\* know of one of them.
CellLocked(p, d, i) ==
    \/ i = lockpos[p] /\ locked[p]
    \/ celllock[d][i] \notin {NoProc, p}

\* check_zombies on the table of d, called by p.
Zombies(p, d) == \E i \in Cell : cell[d][i] = "inuse" /\ ~CellLocked(p, d, i)

\* init_dbl: "do nothing and flag success if the file is open already".
Table(p, d) == IF lockfd[p] = Closed THEN d ELSE lockfd[p]

\* set_lock: the first cell that is free and can be locked.
FreeCells(p, cells, locks) ==
    {i \in Cell : cells[i] = "free" /\ locks[i] \in {NoProc, p}}

First(cells) == CHOOSE i \in cells : \A j \in cells : i <= j

\* The process ends: the kernel drops its locks.
Ends(p) ==
    /\ Go(p, "off")
    /\ celllock' = [d \in Directory |-> Unlocked(p, celllock[d])]
    /\ glock' = [d \in Directory |-> glock[d] \ {p}]
    /\ next' = [next EXCEPT ![p] = 1]
    /\ retry' = [retry EXCEPT ![p] = FALSE]
    /\ envs' = [envs EXCEPT ![p] = <<>>]
    /\ lockfd' = [lockfd EXCEPT ![p] = Closed]
    /\ lockpos' = [lockpos EXCEPT ![p] = 0]
    /\ locked' = [locked EXCEPT ![p] = FALSE]
    /\ globalfd' = [globalfd EXCEPT ![p] = Closed]

\* The directory open_wordlists is at, when its environment is not open yet.
Wants(p, d) ==
    /\ pc[p] = "opening"
    /\ next[p] <= Len(directories[p])
    /\ d = directories[p][next[p]]
    /\ d \notin ToSet(envs[p])

-----------------------------------------------------------------------------
(* open_wordlists, dbx_init *)

Start(p) ==
    /\ pc[p] = "off"
    /\ Go(p, "opening")
    /\ UNCHANGED <<cell, celllock, glock, torn, next, retry, envs, lockfd,
                   lockpos, locked, globalfd>>

\* set_lock on the table t, as the cells and locks are by then; after that
\* the environment of d is open and the lists in it are at hand.
Claim(p, d, t, cells, locks) ==
    LET free == FreeCells(p, cells[t], locks[t])
        i == First(free)
    IN  /\ free # {}
        /\ cell' = [cells EXCEPT ![t][i] = "inuse"]
        /\ celllock' = [locks EXCEPT ![t][i] = p]
        /\ lockfd' = [lockfd EXCEPT ![p] = t]
        /\ lockpos' = [lockpos EXCEPT ![p] = i]
        /\ locked' = [locked EXCEPT ![p] = TRUE]
        /\ glock' = [glock EXCEPT ![d] = @ \cup {p}]
        /\ globalfd' = [globalfd EXCEPT ![p] = d]
        /\ envs' = [envs EXCEPT ![p] = <<d>> \o @]
        /\ next' = [next EXCEPT ![p] = @ + 1]

OpenEnvironment(p) ==
    \E d \in Directory :
        /\ Wants(p, d)
        /\ ~Zombies(p, Table(p, d))
        /\ Claim(p, d, Table(p, d), cell, celllock)
        /\ UNCHANGED <<pc, torn, retry>>
\* Mutant: recovery does not wait for the users of the environment.
RecoverEnvironmentAtOnce(p) ==
    \E d \in Directory :
        LET t == Table(p, d) IN
        /\ Wants(p, d)
        /\ Zombies(p, t)
        /\ torn' = torn \ {d}
        /\ Claim(p, d, d, [cell EXCEPT ![t] = [i \in Cell |-> "free"]],
                          [celllock EXCEPT ![t] = Unlocked(p, @)])
        /\ UNCHANGED <<pc, retry>>

\* dbx_recover: the environment of d, the table that is open; clear_lock
\* closes that table, so that init_dbl opens the one of d.
RecoverEnvironment(p) ==
    \E d \in Directory :
        LET t == Table(p, d) IN
        /\ Wants(p, d)
        /\ Zombies(p, t)
        /\ glock[d] \subseteq {p}
        /\ torn' = torn \ {d}
        /\ Claim(p, d, d, [cell EXCEPT ![t] = [i \in Cell |-> "free"]],
                          [celllock EXCEPT ![t] = Unlocked(p, @)])
        /\ UNCHANGED <<pc, retry>>

\* No cell is left: dbx_init exits, and bf_exit closes what is open, with
\* lockpos at the end of the table.
TableFull(p) ==
    \E d \in Directory :
        /\ Wants(p, d)
        /\ ~Zombies(p, Table(p, d))
        /\ FreeCells(p, cell[Table(p, d)], celllock[Table(p, d)]) = {}
        /\ IF envs[p] = <<>>
              THEN Ends(p) /\ UNCHANGED <<cell, torn>>
              ELSE /\ Go(p, "closing")
                   /\ lockpos' = [lockpos EXCEPT ![p] = NCells]
                   /\ glock' = [glock EXCEPT ![d] = @ \cup {p}]
                   /\ globalfd' = [globalfd EXCEPT ![p] = d]
                   /\ retry' = [retry EXCEPT ![p] = FALSE]
                   /\ UNCHANGED <<cell, celllock, torn, next, envs, lockfd,
                                  locked>>

\* The lists in this directory are open already.
SkipDirectory(p) ==
    /\ pc[p] = "opening"
    /\ next[p] <= Len(directories[p])
    /\ directories[p][next[p]] \in ToSet(envs[p])
    /\ next' = [next EXCEPT ![p] = @ + 1]
    /\ UNCHANGED <<pc, cell, celllock, glock, torn, retry, envs, lockfd,
                   lockpos, locked, globalfd>>

\* A list in the environment just opened is busy (EAGAIN): everything is
\* closed, and the next list is tried before the pass is repeated.
ListBusy(p) ==
    /\ pc[p] = "opening"
    /\ envs[p] # <<>>
    /\ retry' = [retry EXCEPT ![p] = TRUE]
    /\ Go(p, "closing")
    /\ UNCHANGED <<cell, celllock, glock, torn, next, envs, lockfd, lockpos,
                   locked, globalfd>>

EndOfPass(p) ==
    /\ pc[p] = "opening"
    /\ next[p] > Len(directories[p])
    /\ IF retry[p]
          THEN /\ next' = [next EXCEPT ![p] = 1]
               /\ retry' = [retry EXCEPT ![p] = FALSE]
               /\ UNCHANGED pc
          ELSE /\ Go(p, "running")
               /\ UNCHANGED <<next, retry>>
    /\ UNCHANGED <<cell, celllock, glock, torn, envs, lockfd, lockpos, locked,
                   globalfd>>

-----------------------------------------------------------------------------
(* The signal handler check_lock: armed by set_lock, disarmed by clear_lock *)

\* A zombie in the table that is open: _exit with every environment open.
AlarmZombie(p) ==
    /\ locked[p]
    /\ Zombies(p, lockfd[p])
    /\ torn' = torn \cup ToSet(envs[p])
    /\ Ends(p)
    /\ UNCHANGED cell

-----------------------------------------------------------------------------
(* close_wordlists: ds_cleanup of one environment after the other *)

Finish(p) ==
    /\ pc[p] = "running"
    /\ Go(p, "closing")
    /\ UNCHANGED <<cell, celllock, glock, torn, next, retry, envs, lockfd,
                   lockpos, locked, globalfd>>
\* Mutant: clear_lock does not write its cell.
CleanupUnmarked(p) ==
    /\ pc[p] = "closing"
    /\ envs[p] # <<>>
    /\ envs' = [envs EXCEPT ![p] = Tail(@)]
    /\ lockfd[p] # Closed
    /\ celllock' = [celllock EXCEPT ![lockfd[p]] = Unlocked(p, @)]
    /\ lockfd' = [lockfd EXCEPT ![p] = Closed]
    /\ locked' = [locked EXCEPT ![p] = FALSE]
    /\ glock' = [d \in Directory |-> IF d = globalfd[p] THEN glock[d] \ {p}
                                                        ELSE glock[d]]
    /\ globalfd' = [globalfd EXCEPT ![p] = Closed]
    /\ UNCHANGED <<pc, cell, torn, next, retry, lockpos>>

\* dbx_cleanup_lite: the first call clears the own cell and closes the two
\* lock files; in the calls after it clear_lock and close fail.
Cleanup(p) ==
    /\ pc[p] = "closing"
    /\ envs[p] # <<>>
    /\ envs' = [envs EXCEPT ![p] = Tail(@)]
    /\ IF lockfd[p] # Closed
          THEN /\ cell' = [cell EXCEPT ![lockfd[p]] =
                       [i \in Cell |-> IF i = lockpos[p] THEN "free" ELSE @[i]]]
               /\ celllock' = [celllock EXCEPT ![lockfd[p]] = Unlocked(p, @)]
               /\ lockfd' = [lockfd EXCEPT ![p] = Closed]
               /\ locked' = [locked EXCEPT ![p] = FALSE]
          ELSE UNCHANGED <<cell, celllock, lockfd, locked>>
    /\ glock' = [d \in Directory |-> IF d = globalfd[p] THEN glock[d] \ {p}
                                                        ELSE glock[d]]
    /\ globalfd' = [globalfd EXCEPT ![p] = Closed]
    /\ UNCHANGED <<pc, torn, next, retry, lockpos>>

\* Everything is closed: the next list after a busy one, or the exit.
Cleaned(p) ==
    /\ pc[p] = "closing"
    /\ envs[p] = <<>>
    /\ IF retry[p]
          THEN /\ Go(p, "opening")
               /\ UNCHANGED <<celllock, glock, next, retry, envs, lockfd,
                              lockpos, locked, globalfd>>
          ELSE Ends(p)
    /\ UNCHANGED <<cell, torn>>

Crash(p) ==
    /\ pc[p] # "off"
    /\ torn' = torn \cup ToSet(envs[p])
    /\ Ends(p)
    /\ UNCHANGED cell

Step(p) ==
    \/ Start(p)
    \/ OpenEnvironment(p) \/ RecoverEnvironment(p) \/ TableFull(p)
    \/ SkipDirectory(p) \/ ListBusy(p) \/ EndOfPass(p)
    \/ AlarmZombie(p)
    \/ Finish(p) \/ Cleanup(p) \/ Cleaned(p)

Next == (\E p \in Proc : Step(p) \/ Crash(p)) /\ UNCHANGED directories

Spec == Init /\ [][Next]_vars

CrashFreeSpec ==
    Init /\ [][(\E p \in Proc : Step(p)) /\ UNCHANGED directories]_vars

-----------------------------------------------------------------------------
(* Properties *)

\* The types of the variables; the statics name a cell the process has
\* locked whenever they say it has one.
TypeOK ==
    /\ directories \in Assignments
    /\ pc \in [Proc -> {"off", "opening", "running", "closing"}]
    /\ cell \in [Directory -> [Cell -> {"free", "inuse"}]]
    /\ celllock \in [Directory -> [Cell -> Proc \cup {NoProc}]]
    /\ glock \in [Directory -> SUBSET Proc]
    /\ torn \subseteq Directory
    /\ \A p \in Proc :
        /\ next[p] \in 1 .. Len(directories[p]) + 1
        /\ retry[p] \in BOOLEAN
        /\ ToSet(envs[p]) \subseteq ToSet(directories[p])
        /\ lockfd[p] \in Directory \cup {Closed}
        /\ lockpos[p] \in 0 .. NCells
        /\ locked[p] /\ lockpos[p] \in Cell
              => celllock[lockfd[p]][lockpos[p]] = p
        /\ globalfd[p] \in Directory \cup {Closed}

\* An environment is recovered only while no other process has it open,
\* whichever lock file the crash was read from.
RecoveredAlone ==
    [][\A d \in torn \ torn' : \A p \in Proc : d \notin ToSet(envs[p])]_vars

\* A marked cell of nobody who runs.
Orphan(d, i) == cell[d][i] = "inuse" /\ celllock[d][i] = NoProc

\* db_lock.c, "1 without lock: process quit prematurely, recovery needed": a
\* process that closes its lists and exits leaves no marked cell behind.
TraceMeansCrash ==
    \A d \in Directory : (\E i \in Cell : Orphan(d, i)) => d \in torn

\* NEWS.0: the on-line crash detector does not take its own process for a
\* zombie.
OwnCellKnown ==
    \A p \in Proc : locked[p] =>
        \A i \in Cell :
            cell[lockfd[p]][i] = "inuse" /\ celllock[lockfd[p]][i] = p
                => CellLocked(p, lockfd[p], i)

\* db_lock.h: needs_recovery tells whether "a process has crashed
\* previously": every process that is about to open an environment in need
\* of recovery finds a zombie.
CrashSeen ==
    \A p \in Proc, d \in torn :
        Wants(p, d) => Zombies(p, Table(p, d))

\* As long as nobody has lists in two directories the statics are enough:
\* the three properties above hold.
OneDirectoryIsSafe ==
    (\A p \in Proc : Len(directories[p]) = 1)
        => TraceMeansCrash /\ OwnCellKnown /\ CrashSeen
=============================================================================
