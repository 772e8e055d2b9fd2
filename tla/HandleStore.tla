----------------------------- MODULE HandleStore -----------------------------
(***************************************************************************)
(* The backends that lock the file of the word list for as long as it is   *)
(* open: Tokyo Cabinet (datastore_tc.c), Kyoto Cabinet (datastore_kc.c)    *)
(* and QDBM (datastore_qdbm.c).  A writer has the file alone, readers      *)
(* share it, and an open waits for the lock.  The first two have           *)
(* transactions; QDBM has none, and what a process changed is in the file  *)
(* only when it has closed it (datastore_txn_dummies.c).                   *)
(***************************************************************************)
CONSTANTS Proc, Word, Value, Absent, Same,
          Version    \* stands for the version and the encoding: a word of the list

HandleAssumption ==
  Version \notin Word /\ Same \notin Value \cup {Absent} /\ Value # {}

VARIABLES
  backend,  \* "tc", "kc" or "qdbm"
  file,     \* the file is there
  disk,     \* the list in it
  opener,   \* processes that have it open
  pc,       \* per process
  created,  \* per process: handle->created
  view,     \* per process: the list as its handle shows it
  asked     \* per process: what its transaction has asked for

vars == <<backend, file, disk, opener, pc, created, view, asked>>

Words == Word \cup {Version}
Empty == [w \in Words |-> Absent]
Nothing == [w \in Words |-> Same]
Transactional == backend # "qdbm"

Init == /\ backend \in {"tc", "kc", "qdbm"}
        /\ file = FALSE /\ disk = Empty /\ opener = {}
        /\ pc = [p \in Proc |-> "closed"]
        /\ created = [p \in Proc |-> FALSE]
        /\ view = [p \in Proc |-> Empty]
        /\ asked = [p \in Proc |-> Nothing]

Opened(p, as) ==
  /\ opener' = opener \cup {p}
  /\ pc' = [pc EXCEPT ![p] = as]
  /\ view' = [view EXCEPT ![p] = disk]
  /\ UNCHANGED <<backend, disk, asked>>

-----------------------------------------------------------------------------
\* db_open for writing opens the file as it is ...
OpenWriter(p) ==
  /\ pc[p] = "closed"
  /\ IF file
     THEN /\ opener = {}
          /\ Opened(p, "open")
          /\ created' = [created EXCEPT ![p] = FALSE]
     ELSE /\ pc' = [pc EXCEPT ![p] = "missed"]
          /\ UNCHANGED <<backend, disk, opener, created, view, asked>>
  /\ UNCHANGED file

\* ... and when that has failed with leave to create it.  Whether this made
\* the file is not asked: it counts as created.
Create(p) ==
  /\ pc[p] = "missed" /\ opener = {}
  /\ Opened(p, "new")
  /\ created' = [created EXCEPT ![p] = TRUE]
  /\ file' = TRUE

CreateTc(p) == backend = "tc" /\ Create(p)
CreateKc(p) == backend = "kc" /\ Create(p)
CreateQdbm(p) == backend = "qdbm" /\ Create(p)

\* A reader shares the file with other readers; without it the open fails.
OpenReader(p) ==
  /\ pc[p] = "closed" /\ file
  /\ \A q \in opener : pc[q] = "reading"
  /\ Opened(p, "reading")
  /\ UNCHANGED <<file, created>>

Changes(p, v) == view' = [view EXCEPT ![p] = v]

\* A list that counts as created gets its version and encoding, in a
\* transaction of their own (ds_open); a list that is being loaded does not.
WriteVersion(p) ==
  /\ pc[p] = "new"
  /\ pc' = [pc EXCEPT ![p] = "open"]
  /\ \E loading \in BOOLEAN :
       LET v == IF created[p] /\ ~loading
                THEN [view[p] EXCEPT ![Version] = CHOOSE x \in Value : TRUE]
                ELSE view[p]
       IN  /\ Changes(p, v)
           /\ disk' = IF Transactional THEN v ELSE disk
  /\ UNCHANGED <<backend, file, opener, created, asked>>

Begin(p) ==
  /\ pc[p] = "open"
  /\ pc' = [pc EXCEPT ![p] = "txn"]
  /\ UNCHANGED <<backend, file, disk, opener, created, view, asked>>

Apply(p, w, v) ==
  /\ Changes(p, [view[p] EXCEPT ![w] = v])
  /\ asked' = [asked EXCEPT ![p][w] = v]
  /\ UNCHANGED <<backend, file, disk, opener, pc, created>>

Set(p) == pc[p] = "txn" /\ \E w \in Word, v \in Value : Apply(p, w, v)

SetTc(p) == backend = "tc" /\ Set(p)
SetKc(p) == backend = "kc" /\ Set(p)
SetQdbm(p) == backend = "qdbm" /\ Set(p)

\* The end of the process: the lock goes, and so does a transaction that was
\* not committed.  Of what QDBM has not yet written any part may be in the file.
Torn(p) == {d \in [Words -> Value \cup {Absent}] :
              \A w \in Words : d[w] \in {disk[w], view[p][w]}}

Gone(p) ==
  /\ opener' = opener \ {p}
  /\ pc' = [pc EXCEPT ![p] = "closed"]
  /\ created' = [created EXCEPT ![p] = FALSE]
  /\ view' = [view EXCEPT ![p] = Empty]
  /\ asked' = [asked EXCEPT ![p] = Nothing]
  /\ UNCHANGED <<backend, file>>

Lost(p) == /\ Gone(p)
           /\ IF Transactional THEN UNCHANGED disk ELSE disk' \in Torn(p)

\* Deleting a word that is not there ends the program.
Delete(p) == /\ pc[p] = "txn"
             /\ \E w \in Word :
                  IF view[p][w] # Absent THEN Apply(p, w, Absent) ELSE Lost(p)

DeleteTc(p) == backend = "tc" /\ Delete(p)
DeleteKc(p) == backend = "kc" /\ Delete(p)
DeleteQdbm(p) == backend = "qdbm" /\ Delete(p)

Crash(p) == pc[p] # "closed" /\ Lost(p)

Close(p) ==
  /\ pc[p] \in {"open", "reading"}
  /\ Gone(p)
  /\ disk' = IF Transactional \/ pc[p] = "reading" THEN disk ELSE view[p]

CloseTc(p) == backend = "tc" /\ Close(p)
CloseKc(p) == backend = "kc" /\ Close(p)
CloseQdbm(p) == backend = "qdbm" /\ Close(p)

EndTxn(p) ==
  /\ pc[p] = "txn"
  /\ pc' = [pc EXCEPT ![p] = "open"]
  /\ asked' = [asked EXCEPT ![p] = Nothing]
  /\ UNCHANGED <<backend, file, opener, created>>

\* Mutant: an abort leaves what was changed to the close.
AbortNothing(p) == EndTxn(p) /\ UNCHANGED <<disk, view>>

Commit(p) == EndTxn(p) /\ disk' = view[p] /\ UNCHANGED view
Abort(p) == EndTxn(p) /\ Changes(p, disk) /\ UNCHANGED disk

CommitTc(p) == backend = "tc" /\ Commit(p)
CommitKc(p) == backend = "kc" /\ Commit(p)
AbortTc(p) == backend = "tc" /\ Abort(p)
AbortKc(p) == backend = "kc" /\ Abort(p)

\* Without transactions the commit writes nothing, and the abort undoes
\* nothing.
EndWithoutTxn(p) == backend = "qdbm" /\ EndTxn(p) /\ UNCHANGED <<disk, view>>

Opening(p) == OpenWriter(p) \/ OpenReader(p) \/ WriteVersion(p)
              \/ CreateTc(p) \/ CreateKc(p) \/ CreateQdbm(p)
Changing(p) == SetTc(p) \/ SetKc(p) \/ SetQdbm(p)
               \/ DeleteTc(p) \/ DeleteKc(p) \/ DeleteQdbm(p)
Ending(p) == CommitTc(p) \/ CommitKc(p) \/ AbortTc(p) \/ AbortKc(p) \/ EndWithoutTxn(p)
             \/ CloseTc(p) \/ CloseKc(p) \/ CloseQdbm(p)

Next == \E p \in Proc :
          Opening(p) \/ Begin(p) \/ Changing(p) \/ Ending(p) \/ Crash(p)

Spec == Init /\ [][Next]_vars

-----------------------------------------------------------------------------
(* Properties.                                                             *)

\* A writer has the file alone; a handle that is not in a transaction of a
\* store that has them shows what is in the file.
TypeOK ==
  /\ backend \in {"tc", "kc", "qdbm"} /\ file \in BOOLEAN
  /\ disk \in [Words -> Value \cup {Absent}]
  /\ opener \subseteq Proc
  /\ pc \in [Proc -> {"closed", "missed", "new", "open", "txn", "reading"}]
  /\ \A p \in Proc : p \in opener <=> pc[p] \notin {"closed", "missed"}
  /\ \A p \in opener : pc[p] # "reading" => opener = {p}
  /\ created \in [Proc -> BOOLEAN]
  /\ view \in [Proc -> [Words -> Value \cup {Absent}]]
  /\ \A p \in opener : Transactional /\ pc[p] # "txn" => view[p] = disk
  /\ asked \in [Proc -> [Words -> Value \cup {Absent, Same}]]

\* The version is written by ds_open itself: for the promise it is not there.
Kept == [w \in Word |-> IF Transactional THEN disk[w] ELSE Absent]
AskedBy(p) == [w \in Word |-> IF Transactional THEN asked[p][w] ELSE Same]

Promise == INSTANCE AtomicStore WITH store <- Kept,
                                     asked <- [p \in Proc |-> AskedBy(p)]

\* Tokyo Cabinet and Kyoto Cabinet keep what datastore.h promises: a kill, an
\* abort and an exit on an error in mid-transaction store nothing.
KeepsThePromise == Promise!ASpec

\* A list has its version and encoding before it has words (not so when
\* bogoutil loads it, or when its creator is killed before it wrote them).
VersionFirst ==
  \A p \in Proc : pc[p] = "txn" => view[p][Version] # Absent

\* The version and the encoding are written once (not so when two processes
\* have found no file, the second to create it finds the first one's).
VersionOnce ==
  [][\A p \in Proc : WriteVersion(p) /\ created[p] => view[p][Version] = Absent]_vars

\* QDBM keeps it as well (it does not).
WholeWithoutTxn ==
  [][\A p \in Proc : pc[p] = "txn" /\ pc'[p] = "closed" => disk' = disk]_vars
=============================================================================
