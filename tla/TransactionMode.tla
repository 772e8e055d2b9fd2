--------------------------- MODULE TransactionMode ---------------------------
(***************************************************************************)
(* Whether a wordlist of Berkeley DB is used with transactions.  A program *)
(* that is built with or without them takes its own interface (dsm).  Any  *)
(* other decides it once in a process, from its options and from what it   *)
(* finds in the directory (dsm_init, probe_txn), keeps it in a global for  *)
(* every list it opens after that, and dispatches through                  *)
(* dsm_transactional or dsm_traditional.  The two modes lock different     *)
(* files, so processes in different modes do not see each other.  The      *)
(* commands of bogoutil on an environment or a list (--db-recover ...      *)
(* --db-verify) decide the same way.  How an environment is locked and     *)
(* recovered is in CrashDetector.                                          *)
(***************************************************************************)
EXTENDS Integers, Sequences, SequencesExt

CONSTANTS
    Proc,
    Lists,      \* the files
    Dir(_),     \* the directory of a list
    Home,       \* bogohome
    Uses,       \* what the processes are started with: jobs, givens, forced, faults
    Disks       \* the directories before the first process

Dirs == {Dir(l) : l \in Lists}
EnvironmentCommands == {"recover", "checkpoint", "purgelogs", "remove", "list_logfiles"}
FileCommands == {"verify", "leafpages", "pagesize"}

Modes == {"enabled", "disabled"}

Disk == [regions : SUBSET Dirs, logs : SUBSET Dirs, made : [Lists -> {"absent"} \cup Modes]]
Job == [program : {"bogofilter", "bogoutil"}, lists : Seq(Lists), access : {"read", "write"},
        command : {"none"} \cup EnvironmentCommands \cup FileCommands]

\* Before the first process there are the log files of the lists that were made with
\* transactions, and no others in the directories of those without.
ModeAssumption ==
    /\ Home \in Dirs
    /\ \A u \in Uses : /\ u.jobs \subseteq Job /\ \A j \in u.jobs : j.lists # <<>>
                      /\ u.givens \subseteq {"default"} \cup Modes
                      /\ u.forced \in {"none"} \cup Modes /\ u.faults \in BOOLEAN
    /\ Disks \subseteq Disk
    /\ \A d \in Disks, l \in Lists :
          /\ d.made[l] = "enabled" => Dir(l) \in d.regions \cup d.logs
          /\ d.made[l] = "disabled" => Dir(l) \notin d.regions \cup d.logs

VARIABLES
    use,
    build,          \* "probing", or built with ENABLE_ ("enabled") or DISABLE_TRANSACTIONS
    disk,           \* regions, logs: directories; made: of each list the mode it was made in
    pc, job,
    eTransaction,   \* "default" until it is decided
    at, retry,      \* place in the lists of the job; a list was busy in this pass
    envs,           \* directories whose environment is initialised
    opened,         \* of each list the mode it is open in
    alone,          \* what the process has locked for itself: a directory, a list or "none"
    result

vars == <<use, build, disk, pc, job, eTransaction, at, retry, envs, opened, alone, result>>

NotOpen == [l \in Lists |-> "no"]

\* Lists that a program of this build may have made.
Init == /\ use \in Uses /\ build \in {"probing", "enabled", "disabled"} /\ disk \in Disks
        /\ build # "probing" => \A l \in Lists : disk.made[l] \in {"absent", build}
        /\ build = "disabled" => disk.logs = {}
        /\ pc = [p \in Proc |-> "off"]
        /\ job = [p \in Proc |-> "none"]
        /\ eTransaction = [p \in Proc |-> "default"]
        /\ at = [p \in Proc |-> 1] /\ retry = [p \in Proc |-> FALSE]
        /\ envs = [p \in Proc |-> {}] /\ opened = [p \in Proc |-> NotOpen]
        /\ alone = [p \in Proc |-> "none"] /\ result = [p \in Proc |-> "none"]

Go(p, there) == pc' = [pc EXCEPT ![p] = there]

\* A process with lists, or bogoutil on a list, which must be there.
Start(p) ==
    /\ pc[p] = "off"
    /\ \E j \in use.jobs, given \in use.givens :
        /\ j.program = "bogoutil" => disk.made[j.lists[1]] # "absent"
        /\ job' = [job EXCEPT ![p] = j]
        /\ eTransaction' = [eTransaction EXCEPT ![p] = given]
        /\ Go(p, IF j.program = "bogoutil" THEN "command" ELSE "list")
    /\ at' = [at EXCEPT ![p] = 1] /\ retry' = [retry EXCEPT ![p] = FALSE]
    /\ result' = [result EXCEPT ![p] = "none"]
    /\ UNCHANGED <<use, build, disk, envs, opened, alone>>

\* The end of a process, of its own or not: its locks are gone, the files stay.
Ends(p, how) == /\ Go(p, "off")
                /\ envs' = [envs EXCEPT ![p] = {}] /\ opened' = [opened EXCEPT ![p] = NotOpen]
                /\ alone' = [alone EXCEPT ![p] = "none"]
                /\ result' = [result EXCEPT ![p] = how]
                /\ UNCHANGED <<use, build, disk, job, eTransaction, at, retry>>

-----------------------------------------------------------------------------
(* dsm_init *)

\* Mutant: the log files are not looked for when no environment can be joined.
probe_txn_regions(l) ==
    IF Dir(l) \in disk.regions THEN "enabled"
    ELSE IF disk.made[l] # "absent" THEN "disabled" ELSE "unknown"

\* An environment that can be joined, or its log files, or a list without them.
probe_txn(l) ==
    IF Dir(l) \in disk.regions \cup disk.logs THEN "enabled"
    ELSE IF disk.made[l] # "absent" THEN "disabled" ELSE "unknown"

\* The probe may fail as well: that counts as if nothing was found.
Probes(l) == {probe_txn(l)} \cup (IF use.faults THEN {"unknown"} ELSE {})

\* set_txn_mode: the default of the build, which is off where it is probed for.
set_txn_mode(txn) == IF txn \in Modes THEN txn
                     ELSE IF build = "enabled" THEN "enabled" ELSE "disabled"

\* get_txn_state.  What was decided once is not probed for again.
Decided(p, probe) ==
    LET txn == IF use.forced # "none" THEN use.forced ELSE eTransaction[p] IN
    set_txn_mode(IF build # "probing" THEN eTransaction[p]
                 ELSE IF txn = "default" THEN probe ELSE txn)

dsm_init(p, l) ==
    \E probe \in Probes(l) : eTransaction' = [eTransaction EXCEPT ![p] = Decided(p, probe)]

-----------------------------------------------------------------------------
(* open_wordlists: one list after the other *)

List(p) == job[p].lists[at[p]]
Opening(p) == pc[p] = "list" /\ at[p] <= Len(job[p].lists)

\* check_path: a bogofilter with transactions has all its lists in bogohome.  It looks
\* at the mode before the probe.
check_path(p, l) == job[p].program # "bogofilter" \/ eTransaction[p] = "disabled" \/ Dir(l) = Home

Refused(p) == /\ Opening(p) /\ Dir(List(p)) \notin envs[p] /\ ~check_path(p, List(p))
              /\ Ends(p, "refused")

\* dbe_init until the environment is there.
Probe(p) ==
    /\ Opening(p) /\ Dir(List(p)) \notin envs[p] /\ check_path(p, List(p))
    /\ dsm_init(p, List(p)) /\ Go(p, "init")
    /\ UNCHANGED <<use, build, disk, job, at, retry, envs, opened, alone, result>>

\* The interface that is dispatched through, of the build or of the option.
dsm(p) == IF build = "probing" THEN eTransaction[p] ELSE build
Enabled(p) == dsm(p) = "enabled"
WithEnvironment(d) == [disk EXCEPT !.regions = @ \cup {d}, !.logs = @ \cup {d}]

\* dsm_env_init: dbx_init takes part in the lock of the directory and makes the
\* environment if need be; bft_init does nothing of that.
InitEnvironment(p) ==
    LET d == Dir(List(p)) IN
    /\ pc[p] = "init" /\ Go(p, "list")
    /\ Enabled(p) => \A q \in Proc : alone[q] # d
    /\ disk' = IF Enabled(p) THEN WithEnvironment(d) ELSE disk
    /\ envs' = [envs EXCEPT ![p] = @ \cup {d}]
    /\ UNCHANGED <<use, build, job, eTransaction, at, retry, opened, alone, result>>

\* db_lock: without transactions the file is locked, for one writer or many readers.
Locked(p, l) ==
    \E q \in Proc \ {p} :
        \/ alone[q] = l
        \/ opened[q][l] = "disabled" /\ ~(job[p].access = "read" /\ job[q].access = "read")

\* DB_OPEN without an environment but with the option: the name without its directory.
Elsewhere(p) == ~Enabled(p) /\ eTransaction[p] = "enabled"

NextList(p) == at' = [at EXCEPT ![p] = @ + 1]

OpenList(p) ==
    /\ Opening(p) /\ Dir(List(p)) \in envs[p]
    /\ IF opened[p][List(p)] # "no" THEN UNCHANGED <<disk, opened>>
       ELSE /\ Enabled(p) \/ Elsewhere(p) \/ ~Locked(p, List(p))
            /\ Elsewhere(p) \/ disk.made[List(p)] # "absent" \/ job[p].access = "write"
            /\ disk' = IF Elsewhere(p) \/ disk.made[List(p)] # "absent" THEN disk
                       ELSE [disk EXCEPT !.made[List(p)] = dsm(p)]
            /\ opened' = [opened EXCEPT ![p][List(p)] =
                             IF Elsewhere(p) THEN "elsewhere" ELSE dsm(p)]
    /\ NextList(p)
    /\ UNCHANGED <<use, build, pc, job, eTransaction, retry, envs, alone, result>>

\* A list that is not there and may not be made.
CannotOpen(p) == /\ Opening(p) /\ Dir(List(p)) \in envs[p]
                 /\ disk.made[List(p)] = "absent" \/ Elsewhere(p)
                 /\ job[p].access = "read"
                 /\ Ends(p, "error")

\* EAGAIN: everything is closed, the next list is tried, and then all of them again.
ListBusy(p) ==
    /\ Opening(p) /\ Dir(List(p)) \in envs[p] /\ opened[p][List(p)] = "no"
    /\ ~Enabled(p) /\ ~Elsewhere(p) /\ Locked(p, List(p))
    /\ envs' = [envs EXCEPT ![p] = {}] /\ opened' = [opened EXCEPT ![p] = NotOpen]
    /\ retry' = [retry EXCEPT ![p] = TRUE] /\ NextList(p)
    /\ UNCHANGED <<use, build, disk, pc, job, eTransaction, alone, result>>

EndOfPass(p) ==
    /\ pc[p] = "list" /\ at[p] > Len(job[p].lists)
    /\ IF retry[p] THEN /\ at' = [at EXCEPT ![p] = 1]
                        /\ retry' = [retry EXCEPT ![p] = FALSE] /\ UNCHANGED pc
       ELSE Go(p, "running") /\ UNCHANGED <<at, retry>>
    /\ UNCHANGED <<use, build, disk, job, eTransaction, envs, opened, alone, result>>

\* Every operation on a list asserts that the option and the transaction agree.
Asserts(p) == /\ pc[p] \in {"list", "running"} /\ opened[p] # NotOpen
              /\ dsm(p) # eTransaction[p] /\ Ends(p, "assertion")

-----------------------------------------------------------------------------
(* The commands of bogoutil *)

InitCommand(p) ==
    /\ pc[p] = "command" /\ dsm_init(p, List(p)) /\ Go(p, "dispatch")
    /\ UNCHANGED <<use, build, disk, job, at, retry, envs, opened, alone, result>>

\* dsm_traditional has no functions for the environment: there is nothing to do, and
\* recovery is an error.
NoFunction(p) ==
    /\ pc[p] = "dispatch" /\ ~Enabled(p) /\ job[p].command \in EnvironmentCommands
    /\ Ends(p, IF job[p].command = "recover" THEN "error" ELSE "ok")

\* dbe_recover_open, dbx_recover: recovery, with the directory locked; to remove an
\* environment it is recovered in private memory.
RecoverOpen(p) ==
    LET d == Dir(List(p)) IN
    /\ pc[p] = "dispatch" /\ Enabled(p)
    /\ \A q \in Proc \ {p} : alone[q] # d /\ ~(d \in envs[q] /\ Enabled(q))
    /\ alone' = [alone EXCEPT ![p] = d] /\ Go(p, "alone")
    /\ disk' = IF job[p].command = "remove"
               THEN [disk EXCEPT !.regions = @ \ {d}, !.logs = @ \cup {d}]
               ELSE WithEnvironment(d)
    /\ UNCHANGED <<use, build, job, eTransaction, at, retry, envs, opened, result>>

\* bft_recover_open: the file is locked for writing.
LockFile(p) ==
    /\ pc[p] = "dispatch" /\ ~Enabled(p) /\ job[p].command \in FileCommands
    /\ \A q \in Proc \ {p} : alone[q] # List(p) /\ opened[q][List(p)] # "disabled"
    /\ alone' = [alone EXCEPT ![p] = List(p)] /\ Go(p, "alone")
    /\ UNCHANGED <<use, build, disk, job, eTransaction, at, retry, envs, opened, result>>

\* Of the log files the last one always stays.
Done(p) == /\ pc[p] = "alone"
           /\ \E how \in {"ok", "error"} : Ends(p, how)

Quits(p) == pc[p] \notin {"off", "alone"} /\ Ends(p, "quit")

Next == \E p \in Proc :
    \/ Start(p) \/ Refused(p) \/ Probe(p) \/ InitEnvironment(p)
    \/ OpenList(p) \/ CannotOpen(p) \/ ListBusy(p) \/ EndOfPass(p) \/ Asserts(p)
    \/ InitCommand(p) \/ NoFunction(p) \/ RecoverOpen(p) \/ LockFile(p) \/ Done(p)
    \/ Quits(p)

Spec == Init /\ [][Next]_vars

-----------------------------------------------------------------------------
(* Properties *)

TypeOK == /\ use \in Uses /\ build \in {"probing"} \cup Modes
          /\ disk \in Disk
          /\ pc \in [Proc -> {"off", "list", "init", "running", "command", "dispatch", "alone"}]
          /\ DOMAIN job = Proc /\ DOMAIN alone = Proc
          /\ eTransaction \in [Proc -> {"default"} \cup Modes]
          /\ at \in [Proc -> Nat \ {0}] /\ retry \in [Proc -> BOOLEAN]
          /\ envs \in [Proc -> SUBSET Dirs]
          /\ opened \in [Proc -> [Lists -> {"no", "elsewhere"} \cup Modes]]

\* Nobody gives --db-transaction, the lists of a process are in one directory, and it
\* can be looked into.
Ordinary == /\ use.givens = {"default"} /\ use.forced = "none" /\ ~use.faults
            /\ \A j \in use.jobs : \A k, l \in ToSet(j.lists) : Dir(k) = Dir(l)

\* Processes that use a list at the same time use the same locks: without options, the
\* mode a list was made in is found again, whatever was done to the environment.
OneMode ==
    Ordinary => \A p \in Proc, l \in Lists : opened[p][l] # "no" => opened[p][l] = disk.made[l]

\* datastore_db.c:1189, "we must hold the global lock": a list is verified, and its
\* pages counted, while nobody has it open.
VerifiedAlone ==
    Ordinary => \A p, q \in Proc :
        pc[p] = "alone" /\ job[p].command \in FileCommands /\ p # q => opened[q][List(p)] = "no"

\* "only one database _environment_ can be used at a time": a bogofilter has never two
\* of them, unless the test suite forces the mode or an option contradicts the build.
OneEnvironment ==
    use.forced = "none" /\ (build # "probing" => use.givens = {"default"}) =>
        \A p \in Proc : pc[p] \in {"list", "running"} /\ job[p].program = "bogofilter" /\ Enabled(p)
                            => envs[p] \subseteq {Home}

\* bogoutil's help: --db-transaction is "only effective at creation time".  It fails: with
\* the option nothing is looked at (datastore_db.c:123).
OnlyAtCreation ==
    ~use.faults /\ use.forced = "none" /\ (\A j \in use.jobs : Len(j.lists) = 1) =>
        \A p \in Proc, l \in Lists : opened[p][l] # "no" => opened[p][l] = disk.made[l]

\* The same for lists of several directories.  It fails: the mode of the first list is
\* taken for all of them (datastore_db.c:123).
EachAsMade ==
    use.givens = {"default"} /\ use.forced = "none" /\ ~use.faults =>
        \A p \in Proc, l \in Lists : opened[p][l] # "no" => opened[p][l] = disk.made[l]

\* Lists without transactions may be in several directories (the message of check_path
\* says to build with --disable-transactions).  It fails: the mode is looked at before it
\* is decided (datastore_db.c:348).
TraditionalMayBeApart ==
    build = "disabled" /\ use.givens = {"default"} => \A p \in Proc : result[p] # "refused"

\* --db-transaction is an option of every build.  It fails: with one of ENABLE_ and
\* DISABLE_TRANSACTIONS the option is kept but the interface stays the build's, and the
\* first operation runs into an assertion (datastore_db.c:801).
NoAssertion == \A p \in Proc : result[p] # "assertion"
=============================================================================
