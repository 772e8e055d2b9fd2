----------------------------- MODULE SqliteStore -----------------------------
(***************************************************************************)
(* The SQLite backend, datastore_sqlite.c, over the locks the library      *)
(* keeps with a rollback journal: any number of processes read (SHARED),   *)
(* one of them may write (RESERVED), and to commit it shuts out new        *)
(* readers (PENDING) until the others have finished.  BEGIN TRANSACTION    *)
(* takes no lock: the first statement does.  The library calls the busy    *)
(* handler, which waits and tries again for ever, except where that could  *)
(* not end: a reader that asks to write while another process may already  *)
(* write is told SQLITE_BUSY.                                              *)
(***************************************************************************)
CONSTANTS Proc, Word, Value, Absent, Same, None

ASSUME NoneAssumption == None \notin Proc

VARIABLES
  table,    \* the table bogofilter is there, with its .ENDIAN32 row
  disk,     \* the committed rows
  shared,   \* holders of a SHARED lock
  reserved, \* holder of the RESERVED lock, or None
  pending,  \* its PENDING lock
  pc,       \* per process
  created,  \* per process: dbh->created
  asked,    \* per process: the rows its transaction has set or deleted
  saw       \* history, per process: the list at the first statement

locks == <<shared, reserved, pending>>
vars == <<table, disk, locks, pc, created, asked, saw>>

Nothing == [w \in Word |-> Same]
Promise == INSTANCE AtomicStore WITH store <- disk

Init == /\ table = FALSE /\ disk = [w \in Word |-> Absent]
        /\ shared = {} /\ reserved = None /\ pending = FALSE
        /\ pc = [p \in Proc |-> "closed"]
        /\ created = [p \in Proc |-> FALSE]
        /\ asked = [p \in Proc |-> Nothing]
        /\ saw = [p \in Proc |-> None]

-----------------------------------------------------------------------------
(* The library's locks.                                                    *)

\* A statement that reads: a process without the lock waits for the end of a
\* commit.
MayRead(p) == p \in shared \/ ~pending

TakeShared(p) == shared' = shared \cup {p}

\* A statement that writes.  Without a SHARED lock the process waits for the
\* other writer; with one it is told SQLITE_BUSY at once.
MayWrite(p) == MayRead(p) /\ reserved \in {None, p}
IsBusy(p) == p \in shared /\ reserved \notin {None, p}

TakeReserved(p) == TakeShared(p) /\ reserved' = p

Unlock(p) == /\ shared' = shared \ {p}
             /\ reserved' = IF reserved = p THEN None ELSE reserved
             /\ pending' = (pending /\ reserved # p)

-----------------------------------------------------------------------------
\* The process is in its COMMIT, and waits for the readers.
Committing(p) == reserved = p /\ pending

\* The end of a transaction, or of the process.
Leave(p, to) ==
  /\ Unlock(p)
  /\ pc' = [pc EXCEPT ![p] = to]
  /\ asked' = [asked EXCEPT ![p] = Nothing]
  /\ saw' = [saw EXCEPT ![p] = None]

\* db_open for writing begins a transaction and looks for the table ...
LookForTable(p) ==
  /\ pc[p] = "closed" /\ MayRead(p)
  /\ TakeShared(p)
  /\ pc' = [pc EXCEPT ![p] = IF table THEN "found" ELSE "missing"]
  /\ UNCHANGED <<table, disk, reserved, pending, created, asked, saw>>

\* ... which is there ...
TableFound(p) ==
  /\ pc[p] = "found"
  /\ Leave(p, "open")
  /\ UNCHANGED <<table, disk, created>>

\* ... or is made, with the marker of the byte order.  sqlexec does not roll
\* back when it is busy: the open fails.
MakeTable(p) ==
  /\ pc[p] = "missing" /\ ~IsBusy(p) /\ MayWrite(p)
  /\ TakeReserved(p)
  /\ pc' = [pc EXCEPT ![p] = "making"]
  /\ UNCHANGED <<table, disk, pending, created, asked, saw>>

OpenFails(p) ==
  /\ pc[p] = "missing" /\ IsBusy(p)
  /\ Leave(p, "closed")
  /\ UNCHANGED <<table, disk, created>>

\* A reader prepares its SELECT and looks for the marker; without the table it
\* says so and exits.
OpenReader(p) ==
  /\ pc[p] = "closed" /\ table /\ MayRead(p)
  /\ pc' = [pc EXCEPT ![p] = "open"]
  /\ UNCHANGED <<table, disk, locks, created, asked, saw>>

Close(p) ==
  /\ pc[p] = "open"
  /\ pc' = [pc EXCEPT ![p] = "closed"]
  /\ created' = [created EXCEPT ![p] = FALSE]
  /\ UNCHANGED <<table, disk, locks, asked, saw>>

\* sql_txn_begin: BEGIN TRANSACTION, which is deferred.
Begin(p) ==
  /\ pc[p] = "open"
  /\ pc' = [pc EXCEPT ![p] = "txn"]
  /\ UNCHANGED <<table, disk, locks, created, asked, saw>>

Seen(p) == IF p \in shared THEN saw[p] ELSE disk

\* db_get_dbvalue and db_foreach.
Read(p) ==
  /\ pc[p] = "txn" /\ p \notin shared /\ MayRead(p)
  /\ TakeShared(p)
  /\ saw' = [saw EXCEPT ![p] = disk]
  /\ UNCHANGED <<table, disk, reserved, pending, pc, created, asked>>

\* db_set_dbvalue and db_delete: the statement is stepped ...
Ask(p) ==
  /\ pc[p] = "txn" /\ ~Committing(p)
  /\ pc' = [pc EXCEPT ![p] = "writing"]
  /\ UNCHANGED <<table, disk, locks, created, asked, saw>>

\* ... and done once the lock is there.
Write(p) ==
  /\ pc[p] = "writing" /\ ~IsBusy(p) /\ MayWrite(p)
  /\ TakeReserved(p)
  /\ pc' = [pc EXCEPT ![p] = "txn"]
  /\ saw' = [saw EXCEPT ![p] = Seen(p)]
  /\ \E w \in Word, v \in Value \cup {Absent} : asked' = [asked EXCEPT ![p][w] = v]
  /\ UNCHANGED <<table, disk, pending, created>>

\* Mutant: the locks go, and the statement alone is tried again.
WriteIsBusyAlone(p) ==
  /\ pc[p] = "writing" /\ IsBusy(p)
  /\ Unlock(p)
  /\ UNCHANGED <<table, disk, pc, created, asked, saw>>

\* Mutant: the statement is tried again without end.
WriteIsBusyWaits(p) == pc[p] = "writing" /\ IsBusy(p) /\ UNCHANGED vars

\* SQLITE_BUSY: sql_fastpath rolls the transaction back and the caller begins
\* it again.
WriteIsBusy(p) ==
  /\ pc[p] = "writing" /\ IsBusy(p)
  /\ Leave(p, "open")
  /\ UNCHANGED <<table, disk, created>>

\* sql_txn_abort.
Abort(p) ==
  /\ pc[p] = "txn" /\ ~Committing(p)
  /\ Leave(p, "open")
  /\ UNCHANGED <<table, disk, created>>

\* sql_txn_commit: a transaction that wrote nothing gives up its lock; one
\* that wrote shuts out new readers and waits for the others.
CommitRead(p) ==
  /\ pc[p] = "txn" /\ reserved # p
  /\ Leave(p, "open")
  /\ UNCHANGED <<table, disk, created>>

StartCommit(p) ==
  /\ pc[p] \in {"txn", "making"} /\ reserved = p /\ ~pending
  /\ pending' = TRUE
  /\ UNCHANGED <<table, disk, shared, reserved, pc, created, asked, saw>>

Commit(p) ==
  /\ Committing(p) /\ shared = {p}
  /\ disk' = Promise!Overlay(disk, asked[p])
  /\ table' = TRUE
  /\ created' = [created EXCEPT ![p] = @ \/ pc[p] = "making"]
  /\ Leave(p, "open")

\* The next process to open the list rolls the journal back.
Crash(p) ==
  /\ pc[p] # "closed"
  /\ Leave(p, "closed")
  /\ created' = [created EXCEPT ![p] = FALSE]
  /\ UNCHANGED <<table, disk>>

Opening(p) == LookForTable(p) \/ TableFound(p) \/ MakeTable(p) \/ OpenFails(p)
Using(p) == Begin(p) \/ Read(p) \/ Ask(p) \/ Write(p) \/ WriteIsBusy(p) \/ Abort(p)
Ending(p) == CommitRead(p) \/ StartCommit(p) \/ Commit(p)

Next == \E p \in Proc : \/ Opening(p) \/ OpenReader(p) \/ Close(p) \/ Crash(p)
                        \/ Using(p) \/ Ending(p)

\* A process that has taken a lock goes on to the end of its transaction: a
\* statement that is told to wait is tried again and again, and every program
\* ends its transactions.
Fairness == \A p \in Proc : /\ WF_vars(TableFound(p) \/ MakeTable(p) \/ OpenFails(p))
                            /\ WF_vars(Write(p) \/ WriteIsBusy(p))
                            /\ WF_vars(CommitRead(p))
                            /\ WF_vars(StartCommit(p) \/ Commit(p))

Spec == Init /\ [][Next]_vars /\ Fairness

-----------------------------------------------------------------------------
(* Properties.                                                             *)

TypeOK ==
  /\ table \in BOOLEAN /\ disk \in [Word -> Value \cup {Absent}]
  /\ shared \subseteq Proc /\ reserved \in shared \cup {None}
  /\ pending \in BOOLEAN /\ (pending => reserved # None)
  /\ pc \in [Proc -> {"closed", "found", "missing", "making", "open", "txn", "writing"}]
  /\ created \in [Proc -> BOOLEAN]
  /\ asked \in [Proc -> [Word -> Value \cup {Absent, Same}]]
  /\ saw \in [Proc -> [Word -> Value \cup {Absent}] \cup {None}]
  /\ \A p \in Proc : asked[p] # Nothing => p = reserved

\* A commit stores all that its transaction asked for and nothing else does
\* (datastore.h): whichever statement is told SQLITE_BUSY, and wherever a
\* process is killed.
KeepsThePromise == Promise!ASpec

\* A transaction that goes on has read the list as it is now: a commit waits
\* for the readers, and a reader that may not write begins again.
NotOvertaken == \A p \in Proc : saw[p] # None => saw[p] = disk

\* Two processes that find no table do not both make it: at most one has to
\* write the version and the encoding.
OneCreator == \A p, q \in Proc : created[p] /\ created[q] => p = q

\* A commit that shuts the readers out is done in the end: nobody keeps a lock
\* while it waits for the committer.
CommitsEnd == \A p \in Proc : (pending /\ reserved = p) ~> ~(pending /\ reserved = p)
=============================================================================
