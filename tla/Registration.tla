---------------------------- MODULE Registration ---------------------------
(***************************************************************************)
(* Processes that register messages in, or look them up from, one wordlist *)
(* of the transactional Berkeley DB store: open_wordlists and db_open      *)
(* (create the file or find it, then try the fcntl lock), begin_wordlist,  *)
(* register_words with its retries, close_wordlists, and a crash at any    *)
(* point.                                                                  *)
(*                                                                         *)
(* The environment has no lock manager (no DB_INIT_LOCK): a write is seen  *)
(* by every process at once, and only the lock on the file keeps others    *)
(* out. `undo' is the transaction log: the counts a transaction has        *)
(* overwritten. A crash is followed by the recovery of CrashDetector,      *)
(* which rolls back what was not committed.                                *)
(***************************************************************************)
EXTENDS TokenCounts

CONSTANTS
    Proc,
    Job,        \* what each process was started for
    Retries,    \* attempts of register_words (60 in the code)
    NearLimit,  \* the file is within 16 pages of RLIMIT_FSIZE
    Seed        \* the counts of a wordlist that exists already

ASSUME JobAssumption == Job \in [Proc -> JobType]
ASSUME RetriesAssumption == Retries \in Nat \ {0}
ASSUME NearLimitAssumption == NearLimit \in BOOLEAN
ASSUME SeedAssumption == Seed \in [Key -> Count]

VARIABLES
    exists,     \* the file of the wordlist exists
    meta,       \* it has .WORDLIST_VERSION and .ENCODING
    db,         \* the counts of every key, as any process reads them
    undo,       \* for each process, what its transaction has overwritten
    lock,       \* the fcntl lock each process has on the file
    pc,
    created,    \* handle->created
    todo,       \* the keys the current attempt has not been through
    key, val,   \* the key that was read last and its counts
    tries,      \* retrycount of register_words
    committed   \* history: the processes whose ds_txn_commit succeeded

vars == <<exists, meta, db, undo, lock, pc, created, todo, key, val, tries,
          committed>>

Nothing == [spam |-> 0, good |-> 0]     \* what ds_read gives when not found
NoUndo == [k \in {} |-> Nothing]

\* "ok" and "error" are the exit codes of bogofilter, 0 to 2 and 3.
Final == {"ok", "error", "crashed"}
InTxn == {"read", "write"}

Init ==
    /\ exists \in BOOLEAN
    /\ meta = exists
    /\ db = IF exists THEN Seed ELSE [k \in Key |-> Nothing]
    /\ undo = [p \in Proc |-> NoUndo]
    /\ lock = [p \in Proc |-> "none"]
    /\ pc = [p \in Proc |-> "open"]
    /\ created = [p \in Proc |-> FALSE]
    /\ todo = [p \in Proc |-> {}]
    /\ key = [p \in Proc |-> MsgCount]
    /\ val = [p \in Proc |-> Nothing]
    /\ tries = [p \in Proc |-> Retries]
    /\ committed = {}

-----------------------------------------------------------------------------
(* Auxiliary operators *)

Go(p, there) == pc' = [pc EXCEPT ![p] = there]

\* The transaction of p is rolled back, by DB_TXN->abort or by recovery.
Rollback(p) ==
    /\ db' = [k \in Key |-> IF k \in DOMAIN undo[p] THEN undo[p][k] ELSE db[k]]
    /\ undo' = [undo EXCEPT ![p] = NoUndo]

\* The process drops the lock as it closes the file, or as it dies.
Unlock(p) == lock' = [lock EXCEPT ![p] = "none"]
\* Mutant: F_RDLCK for every mode.
LockModeShared(p) == "rd"

\* DS_READ or DS_WRITE: a process that registers opens the list for writing.
\* Near the file size limit db_open goes on as if the mode were DS_READ.
LockMode(p) == IF Registers(Job[p]) /\ ~NearLimit THEN "wr" ELSE "rd"

Compatible(p, mode) ==
    \A q \in Proc \ {p} :
        lock[q] = "none" \/ (lock[q] = "rd" /\ mode = "rd")

-----------------------------------------------------------------------------
(* db_open *)

OpenExisting(p) ==
    /\ pc[p] = "open"
    /\ exists
    /\ created' = [created EXCEPT ![p] = FALSE]
    /\ Go(p, "lock")
    /\ UNCHANGED <<exists, meta, db, undo, lock, todo, key, val, tries, committed>>

\* ENOENT: a writer goes on to create the file, a reader fails.
OpenMissing(p) ==
    /\ pc[p] = "open"
    /\ ~exists
    /\ Go(p, IF Registers(Job[p]) THEN "create" ELSE "error")
    /\ UNCHANGED <<exists, meta, db, undo, lock, created, todo, key, val, tries, committed>>

\* DB_CREATE|DB_EXCL; EEXIST when another process was faster: sleep, retry.
Create(p) ==
    /\ pc[p] = "create"
    /\ \/ /\ ~exists
          /\ exists' = TRUE
          /\ created' = [created EXCEPT ![p] = TRUE]
          /\ Go(p, "lock")
       \/ /\ exists
          /\ Go(p, "open")
          /\ UNCHANGED <<exists, created>>
    /\ UNCHANGED <<meta, db, undo, lock, todo, key, val, tries, committed>>
\* Mutant: the result of the lock call is not looked at.
TryLockUnchecked(p) ==
    /\ pc[p] = "lock"
    /\ lock' = [lock EXCEPT ![p] = LockMode(p)]
    /\ Go(p, IF created[p] THEN "meta" ELSE "begin")
    /\ UNCHANGED <<exists, meta, db, undo, created, todo, key, val, tries, committed>>

\* db_lock with F_SETLK. When the lock is not granted the handle is closed
\* and db_open, then open_wordlists after a sleep, open the file again.
TryLock(p) ==
    /\ pc[p] = "lock"
    /\ \/ /\ Compatible(p, LockMode(p))
          /\ lock' = [lock EXCEPT ![p] = LockMode(p)]
          /\ Go(p, IF created[p] THEN "meta" ELSE "begin")
       \/ /\ ~Compatible(p, LockMode(p))
          /\ Go(p, "open")
          /\ UNCHANGED lock
    /\ UNCHANGED <<exists, meta, db, undo, created, todo, key, val, tries, committed>>

(* ds_open: version and encoding of a new list, in a transaction of their own *)

WriteMeta(p) ==
    /\ pc[p] = "meta"
    /\ meta' = TRUE
    /\ Go(p, "begin")
    /\ UNCHANGED <<exists, db, undo, lock, created, todo, key, val, tries, committed>>

(* begin_wordlist, and the retry counter of register_words *)

Begin(p) ==
    /\ pc[p] = "begin"
    /\ tries[p] > 0
    /\ tries' = [tries EXCEPT ![p] = @ - 1]
    /\ todo' = [todo EXCEPT ![p] = Keys(Job[p])]
    /\ Go(p, "read")
    /\ UNCHANGED <<exists, meta, db, undo, lock, created, key, val, committed>>

\* "retry count exceeded, giving up": exit, and close_wordlists(false).
GiveUp(p) ==
    /\ pc[p] = "begin"
    /\ tries[p] = 0
    /\ Unlock(p)
    /\ Go(p, "error")
    /\ UNCHANGED <<exists, meta, db, undo, created, todo, key, val, tries, committed>>

(* register_words: the tokens in some order, then the message counts *)

ReadKey(p) ==
    /\ pc[p] = "read"
    /\ \E k \in todo[p] :
        /\ k = MsgCount => todo[p] = {MsgCount}
        /\ key' = [key EXCEPT ![p] = k]
        /\ val' = [val EXCEPT ![p] = db[k]]
        /\ IF Registers(Job[p])
              THEN Go(p, "write") /\ UNCHANGED todo
              ELSE todo' = [todo EXCEPT ![p] = @ \ {k}] /\ UNCHANGED pc
    /\ UNCHANGED <<exists, meta, db, undo, lock, created, tries, committed>>
\* Mutant: DB->put without handle->txn, so the write is not rolled back.
WriteKeyUnlogged(p) ==
    /\ pc[p] = "write"
    /\ db' = [db EXCEPT ![key[p]] = Updated(Job[p], key[p], val[p])]
    /\ todo' = [todo EXCEPT ![p] = @ \ {key[p]}]
    /\ Go(p, "read")
    /\ UNCHANGED <<exists, meta, undo, lock, created, key, val, tries, committed>>

WriteKey(p) ==
    /\ pc[p] = "write"
    /\ LET k == key[p] IN
        /\ db' = [db EXCEPT ![k] = Updated(Job[p], k, val[p])]
        /\ undo' = [undo EXCEPT ![p] =
                       [j \in DOMAIN @ \cup {k} |->
                           IF j \in DOMAIN @ THEN @[j] ELSE db[j]]]
        /\ todo' = [todo EXCEPT ![p] = @ \ {k}]
    /\ Go(p, "read")
    /\ UNCHANGED <<exists, meta, lock, created, key, val, tries, committed>>

\* DS_ABORT_RETRY from a read or a write: the store has aborted the
\* transaction; sleep, begin_wordlist, and start over with the first token.
AbortRetry(p) ==
    /\ Registers(Job[p])
    /\ \/ pc[p] = "write"
       \/ pc[p] = "read" /\ todo[p] # {}
    /\ Rollback(p)
    /\ Go(p, "begin")
    /\ UNCHANGED <<exists, meta, lock, created, todo, key, val, tries, committed>>

(* close_wordlists(true): commit, close the file; then the exit code *)

Commit(p) ==
    /\ pc[p] = "read"
    /\ todo[p] = {}
    /\ undo' = [undo EXCEPT ![p] = NoUndo]
    /\ committed' = committed \cup {p}
    /\ Go(p, "close")
    /\ UNCHANGED <<exists, meta, db, lock, created, todo, key, val, tries>>

\* bogomain does not look at what close_wordlists(true) returns.
CommitFails(p) ==
    /\ pc[p] = "read"
    /\ todo[p] = {}
    /\ Rollback(p)
    /\ Go(p, "close")
    /\ UNCHANGED <<exists, meta, lock, created, todo, key, val, tries, committed>>
\* Mutant: the file is not closed, so its lock stays.
CloseLocked(p) ==
    /\ pc[p] = "close"
    /\ Go(p, "ok")
    /\ UNCHANGED <<exists, meta, db, undo, lock, created, todo, key, val, tries, committed>>

Close(p) ==
    /\ pc[p] = "close"
    /\ Unlock(p)
    /\ Go(p, "ok")
    /\ UNCHANGED <<exists, meta, db, undo, created, todo, key, val, tries, committed>>

\* SIGTERM or SIGINT (fDie) after the registration: exit, and
\* close_wordlists(false) from bf_exit.
Terminated(p) ==
    /\ pc[p] = "read"
    /\ todo[p] = {}
    /\ Rollback(p)
    /\ Unlock(p)
    /\ Go(p, "error")
    /\ UNCHANGED <<exists, meta, created, todo, key, val, tries, committed>>

(* A crash, and the recovery that follows it *)

Crash(p) ==
    /\ pc[p] \notin Final
    /\ Rollback(p)
    /\ Unlock(p)
    /\ Go(p, "crashed")
    /\ UNCHANGED <<exists, meta, created, todo, key, val, tries, committed>>

Open(p) == OpenExisting(p) \/ OpenMissing(p) \/ Create(p) \/ TryLock(p)

Work(p) ==
    \/ WriteMeta(p) \/ Begin(p) \/ GiveUp(p)
    \/ ReadKey(p) \/ WriteKey(p) \/ AbortRetry(p)
    \/ Commit(p) \/ CommitFails(p) \/ Terminated(p) \/ Close(p)

Next == \E p \in Proc : Open(p) \/ Work(p) \/ Crash(p)

Spec == Init /\ [][Next]_vars

\* The same processes when none of them crashes or is interrupted.
CrashFreeSpec == Init /\ [][\E p \in Proc : Open(p) \/ Work(p)]_vars

\* A process that runs goes on; its retries of a busy lock are never given
\* up, whatever their order.
FairSpec == Spec /\ \A p \in Proc : WF_vars(Open(p) \/ Work(p))

-----------------------------------------------------------------------------
(* Properties *)

\* The types of the variables, and that every count stays a 32-bit word.
TypeOK ==
    /\ exists \in BOOLEAN
    /\ meta \in BOOLEAN
    /\ db \in [Key -> Count]
    /\ \A p \in Proc : DOMAIN undo[p] \subseteq Keys(Job[p])
    /\ lock \in [Proc -> {"none", "rd", "wr"}]
    /\ pc \in [Proc -> {"open", "create", "lock", "meta", "begin", "close"}
                       \cup InTxn \cup Final]
    /\ created \in [Proc -> BOOLEAN]
    /\ todo \in [Proc -> SUBSET Key]
    /\ key \in [Proc -> Key]
    /\ val \in [Proc -> Count]
    /\ tries \in [Proc -> 0 .. Retries]
    /\ committed \subseteq Proc

\* The wordlist without the transactions that are still open.
CommittedDb ==
    [k \in Key |->
        IF \E p \in Proc : k \in DOMAIN undo[p]
           THEN LET p == CHOOSE q \in Proc : k \in DOMAIN undo[q]
                IN  undo[p][k]
           ELSE db[k]]

Serial == INSTANCE SerialRegistration WITH
            store <- CommittedDb,
            applied <- {p \in committed : Registers(Job[p])}

\* However the processes interleave, abort, retry, fail and crash, the
\* wordlist is what some serial order of the committed registrations gives:
\* no update is lost, doubled by a retry, or kept in part.
RegistersSerially == Serial!Spec

\* A process that looks a message up sees no count that is rolled back later:
\* what it has read so far is what is committed, to the end of its lookup.
NoDirtyRead ==
    \A p \in Proc :
        pc[p] \in InTxn => \A q \in Proc \ {p} : DOMAIN undo[q] = {}

\* What register_words writes back is computed from the counts as they are.
NotStale ==
    \A p \in Proc : pc[p] = "write" => val[p] = db[key[p]]

\* Every process comes to an end, although locks are tried and not awaited.
EveryoneEnds == <>(\A p \in Proc : pc[p] \in Final)

\* datastore_db_private.h: handle->created is there "to add
\* .WORDLIST_VERSION" to a new list, so no list is registered in without it.
NewListHasMeta == committed # {} => meta

\* bogofilter.xml: the exit code is "3 for I/O or other errors".
SuccessIsDurable == \A p \in Proc : pc[p] = "ok" => p \in committed

\* check_fsize_limit: "Cowardly refusing to write to avoid data base
\* corruption."
NothingWrittenNearLimit == [][NearLimit => db' = db]_vars

-----------------------------------------------------------------------------
(* The instance for TLC: a process that registers spam (-s), one that      *)
(* moves a message from spam to good (-Sn), and one that classifies.       *)
(* Word is small enough for the counts to wrap and to be clamped at 0.     *)

MCJob ==
    [p \in Proc |->
        CASE p = "p1" -> [incr |-> "spam", decr |-> "none", msgs |-> 1,
                          freq |-> [t \in Token |-> 1]]
          [] p = "p2" -> [incr |-> "good", decr |-> "spam", msgs |-> 2,
                          freq |-> [t \in Token |-> IF t = "a" THEN 2 ELSE 0]]
          [] OTHER    -> [incr |-> "none", decr |-> "none", msgs |-> 0,
                          freq |-> [t \in Token |-> 1]]]

MCSeed ==
    [k \in Key |-> IF k = "a" THEN [spam |-> 1, good |-> 3]
                              ELSE [spam |-> 3, good |-> 0]]
=============================================================================
