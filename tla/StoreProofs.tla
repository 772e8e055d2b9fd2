----------------------------- MODULE StoreProofs -----------------------------
(***************************************************************************)
(* SQLite, Tokyo Cabinet and Kyoto Cabinet keep the promise of             *)
(* AtomicStore, and SQLite's transactions are applied to what they have    *)
(* read: for any processes, words and values.                              *)
(***************************************************************************)
EXTENDS MCStores, TLAPS

-----------------------------------------------------------------------------
(* SqliteStore *)

\* A process that has looked for the table keeps its lock until the table is
\* made, so that nobody else makes it: a commit waits for it.
TableInv ==
  \A p \in Proc :
    /\ pc[p] \in {"missing", "making"} => p \in shared /\ ~table
    /\ pc[p] = "making" => reserved = p
    /\ created[p] => table

\* What a transaction has read is protected by its SHARED lock.
ReadInv == \A p \in Proc : saw[p] # None => p \in shared /\ saw[p] = disk

SqliteInv == TypeOK /\ TableInv /\ ReadInv /\ OneCreator

\* The end of a transaction or a process drops its locks, and disturbs no one
\* else's.
LEMMA LeaveKeeps ==
    ASSUME SqliteInv, NEW p \in Proc, NEW to \in {"open", "closed"},
           Leave(p, to), UNCHANGED <<table, disk>>,
           created' \in [Proc -> BOOLEAN],
           \A q \in Proc : created'[q] => created[q]
    PROVE  SqliteInv'
<1> USE NoneAssumption DEF SqliteInv, TypeOK, Leave, Unlock
<1>1. TypeOK'
  <2>1. asked' \in [Proc -> [Word -> Value \cup {Absent, Same}]]
    BY DEF Nothing
  <2>2. \A q \in Proc : asked'[q] # Nothing => q = reserved'
    OBVIOUS
  <2> QED  BY <2>1, <2>2
<1>2. TableInv'
  BY DEF TableInv
<1>3. ReadInv'
  BY DEF ReadInv
<1>4. OneCreator'
  BY DEF OneCreator
<1> QED  BY <1>1, <1>2, <1>3, <1>4

\* Only processes that hold a lock can be disturbed by a commit, and there is
\* no other.
LEMMA CommitKeeps ==
    ASSUME SqliteInv, NEW p \in Proc, Commit(p)
    PROVE  SqliteInv'
<1> USE NoneAssumption DEF SqliteInv, TypeOK, Commit, Committing, Leave, Unlock
<1>1. TypeOK'
  <2>1. disk' \in [Word -> Value \cup {Absent}]
    BY DEF Promise!Overlay
  <2>2. asked' \in [Proc -> [Word -> Value \cup {Absent, Same}]]
    BY DEF Nothing
  <2> QED  BY <2>1, <2>2
<1>2. TableInv'
  BY DEF TableInv
<1>3. ReadInv'
  BY DEF ReadInv
<1>4. OneCreator'
  BY DEF OneCreator, TableInv
<1> QED  BY <1>1, <1>2, <1>3, <1>4

LEMMA SqliteStep ==
    ASSUME SqliteInv, NEW p \in Proc,
           Opening(p) \/ OpenReader(p) \/ Close(p) \/ Crash(p) \/ Using(p) \/ Ending(p)
    PROVE  SqliteInv'
<1> USE NoneAssumption DEF SqliteInv, TypeOK, TableInv, ReadInv, OneCreator
<1>1. CASE LookForTable(p)
  BY <1>1 DEF LookForTable, TakeShared
<1>2. CASE TableFound(p) \/ OpenFails(p) \/ WriteIsBusy(p) \/ Abort(p) \/ CommitRead(p)
           \/ Crash(p)
  <2>1. /\ Leave(p, "open") \/ Leave(p, "closed")
        /\ UNCHANGED <<table, disk>>
        /\ created' \in [Proc -> BOOLEAN]
        /\ \A q \in Proc : created'[q] => created[q]
    BY <1>2 DEF TableFound, OpenFails, WriteIsBusy, Abort, CommitRead, Crash
  <2> QED  BY <2>1, LeaveKeeps
<1>3. CASE MakeTable(p)
  BY <1>3 DEF MakeTable, MayWrite, TakeReserved, TakeShared
<1>4. CASE OpenReader(p)
  BY <1>4 DEF OpenReader, locks
<1>5. CASE Close(p)
  BY <1>5 DEF Close, locks
<1>6. CASE Begin(p) \/ Ask(p)
  BY <1>6 DEF Begin, Ask, locks
<1>7. CASE Read(p)
  BY <1>7 DEF Read, TakeShared
<1>8. CASE Write(p)
  <2>1. PICK w \in Word, v \in Value \cup {Absent} :
          asked' = [asked EXCEPT ![p][w] = v]
    BY <1>8 DEF Write
  <2>2. /\ shared' = shared \cup {p} /\ reserved' = p /\ reserved \in {None, p}
        /\ saw' = [saw EXCEPT ![p] = IF p \in shared THEN saw[p] ELSE disk]
        /\ pc' = [pc EXCEPT ![p] = "txn"]
        /\ UNCHANGED <<table, disk, pending, created>>
    BY <1>8 DEF Write, MayWrite, TakeReserved, TakeShared, Seen
  <2>3. /\ asked' \in [Proc -> [Word -> Value \cup {Absent, Same}]]
        /\ \A q \in Proc : asked'[q] # Nothing => q = p
    BY <2>1, <2>2
  <2> QED  BY <2>2, <2>3
<1>9. CASE StartCommit(p)
  BY <1>9 DEF StartCommit
<1>10. CASE Commit(p)
  BY <1>10, CommitKeeps
<1> QED  BY <1>1, <1>2, <1>3, <1>4, <1>5, <1>6, <1>7, <1>8, <1>9, <1>10
         DEF Opening, Using, Ending

\* Each step is one of the promise, or changes nothing it speaks of: the
\* commit keeps what was asked for, every other end discards it.
LEMMA SqlitePromised ==
    ASSUME SqliteInv, NEW p \in Proc,
           Opening(p) \/ OpenReader(p) \/ Close(p) \/ Crash(p) \/ Using(p) \/ Ending(p)
    PROVE  Promise!ANext \/ UNCHANGED <<disk, asked>>
<1> USE DEF SqliteInv, TypeOK, Promise!ANext
<1>1. CASE \/ LookForTable(p) \/ MakeTable(p) \/ OpenReader(p) \/ Close(p)
           \/ Begin(p) \/ Read(p) \/ Ask(p) \/ StartCommit(p)
  BY <1>1 DEF LookForTable, MakeTable, OpenReader, Close, Begin, Read, Ask, StartCommit
<1>2. CASE TableFound(p) \/ OpenFails(p) \/ WriteIsBusy(p) \/ Abort(p) \/ CommitRead(p)
           \/ Crash(p)
  <2>1. Promise!Discard(p)
    BY <1>2 DEF TableFound, OpenFails, WriteIsBusy, Abort, CommitRead, Crash, Leave,
                Nothing, Promise!Discard, Promise!Nothing
  <2> QED  BY <2>1
<1>3. CASE Write(p)
  <2>1. PICK w \in Word, v \in Value \cup {Absent} :
          asked' = [asked EXCEPT ![p][w] = v]
    BY <1>3 DEF Write
  <2>2. asked'[p][w] = v /\ UNCHANGED disk
    BY <1>3, <2>1 DEF Write
  <2>3. Promise!Ask(p)
    BY <2>1, <2>2 DEF Promise!Ask
  <2> QED  BY <2>3
<1>4. CASE Commit(p)
  <2>1. Promise!Keep(p)
    BY <1>4 DEF Commit, Leave, Nothing, Promise!Keep, Promise!Nothing
  <2> QED  BY <2>1
<1> QED  BY <1>1, <1>2, <1>3, <1>4 DEF Opening, Using, Ending

-----------------------------------------------------------------------------
(* HandleStore *)

\* Outside of a transaction nothing is asked for; in one, the handle shows the
\* list with what was asked for.
Shown ==
  \A p \in HandleProc :
    IF hpc[p] = "txn"
    THEN Handle!Transactional =>
           \A w \in Handle!Words :
             hview[p][w] = IF hasked[p][w] = Same THEN list[w] ELSE hasked[p][w]
    ELSE hasked[p] = Handle!Nothing

HandleInv == Handle!TypeOK /\ Shown

\* A process that changes the list in a handle that others do not share
\* disturbs nobody's: this is what the lock on the file is for.
LEMMA AloneInFile ==
    ASSUME HandleInv, NEW p \in HandleProc, hpc[p] \in {"new", "open", "txn"},
           NEW q \in HandleProc, q # p
    PROVE  hpc[q] \in {"closed", "missed"}
BY DEF HandleInv, Handle!TypeOK

LEMMA HandleStep ==
    ASSUME HandleInv, NEW p \in HandleProc,
           \/ Handle!Opening(p) \/ Handle!Begin(p) \/ Handle!Changing(p)
           \/ Handle!Ending(p) \/ Handle!Crash(p)
    PROVE  HandleInv'
<1> USE DEF HandleInv, Handle!TypeOK, Handle!Transactional
<1>1. Handle!Empty \in [Handle!Words -> Value \cup {Absent}]
      /\ Handle!Nothing \in [Handle!Words -> Value \cup {Absent, Same}]
  BY DEF Handle!Empty, Handle!Nothing
<1>2. CASE Handle!OpenWriter(p)
  <2>1. CASE file
    <3>1. Handle!TypeOK'
      <4>1. /\ opener = {} /\ opener' = {p}
            /\ hpc' = [hpc EXCEPT ![p] = "open"] /\ hview' = [hview EXCEPT ![p] = list]
            /\ hcreated' = [hcreated EXCEPT ![p] = FALSE]
            /\ UNCHANGED <<backend, file, list, hasked>>
        BY <1>2, <2>1 DEF Handle!OpenWriter, Handle!Opened
      <4>2. \A q \in HandleProc : hpc[q] \in {"closed", "missed"}
        BY <4>1
      <4> QED  BY <4>1, <4>2
    <3>2. Shown'
      BY <1>2, <2>1 DEF Handle!OpenWriter, Handle!Opened, Shown
    <3> QED  BY <3>1, <3>2
  <2>2. CASE ~file
    <3>1. Handle!TypeOK'
      <4>1. /\ hpc[p] = "closed" /\ hpc' = [hpc EXCEPT ![p] = "missed"]
            /\ UNCHANGED <<backend, file, list, opener, hcreated, hview, hasked>>
        BY <1>2, <2>2 DEF Handle!OpenWriter
      <4>2. hpc' \in [HandleProc -> {"closed", "missed", "new", "open", "txn", "reading"}]
        BY <4>1
      <4>3. \A q \in HandleProc : q \in opener <=> hpc'[q] \notin {"closed", "missed"}
        BY <4>1
      <4>4. \A q \in opener : /\ hpc'[q] # "reading" => opener = {q}
                             /\ Handle!Transactional /\ hpc'[q] # "txn" => hview[q] = list
        BY <4>1
      <4> QED  BY <4>1, <4>2, <4>3, <4>4
    <3>2. Shown'
      BY <1>2, <2>2 DEF Handle!OpenWriter, Shown
    <3> QED  BY <3>1, <3>2
  <2> QED  BY <2>1, <2>2
<1>3. CASE Handle!OpenReader(p)
  <2>1. Handle!TypeOK'
    BY <1>3 DEF Handle!OpenReader, Handle!Opened
  <2>2. Shown'
    BY <1>3 DEF Handle!OpenReader, Handle!Opened, Shown
  <2> QED  BY <2>1, <2>2
<1>4. CASE Handle!Create(p)
  BY <1>4 DEF Handle!Create, Handle!Opened, Shown
<1>5. CASE Handle!WriteVersion(p)
  <2>1. PICK v \in [Handle!Words -> Value \cup {Absent}] :
          /\ hview' = [hview EXCEPT ![p] = v]
          /\ list' = IF backend # "qdbm" THEN v ELSE list
    <3> DEFINE first == CHOOSE x \in Value : TRUE
    <3>1. first \in Value
      BY VersionAssumption DEF Handle!HandleAssumption
    <3>2. PICK v \in {hview[p], [hview[p] EXCEPT ![Version] = first]} :
            /\ hview' = [hview EXCEPT ![p] = v]
            /\ list' = IF backend # "qdbm" THEN v ELSE list
      BY <1>5 DEF Handle!WriteVersion, Handle!Changes
    <3>3. v \in [Handle!Words -> Value \cup {Absent}]
      BY <3>1, <3>2 DEF Handle!Words
    <3> QED  BY <3>2, <3>3
  <2>2. /\ hpc[p] = "new" /\ hpc' = [hpc EXCEPT ![p] = "open"]
        /\ UNCHANGED <<backend, file, opener, hcreated, hasked>>
    BY <1>5 DEF Handle!WriteVersion
  <2>3. \A q \in HandleProc \ {p} : hpc[q] \in {"closed", "missed"}
    BY <2>2, AloneInFile
  <2>4. Handle!TypeOK'
    BY <2>1, <2>2, <2>3
  <2>5. Shown'
    BY <2>1, <2>2, <2>3, SMTT(40) DEF Shown
  <2> QED  BY <2>4, <2>5
<1>6. CASE Handle!Begin(p)
  BY <1>6 DEF Handle!Begin, Handle!Nothing, Shown
<1>7. ASSUME NEW w \in Word, NEW v \in Value \cup {Absent},
             Handle!Apply(p, w, v), hpc[p] = "txn"
      PROVE  HandleInv'
  <2>1. w \in Handle!Words /\ v # Same
    BY VersionAssumption DEF Handle!HandleAssumption, Handle!Words
  <2>2. Handle!TypeOK'
    BY <1>7, <2>1 DEF Handle!Apply, Handle!Changes
  <2>3. Shown'
    BY <1>7, <2>1 DEF Handle!Apply, Handle!Changes, Shown
  <2> QED  BY <2>2, <2>3
<1>8. ASSUME Handle!Gone(p), list' \in [Handle!Words -> Value \cup {Absent}],
             \/ UNCHANGED list
             \/ backend = "qdbm" \/ \A q \in HandleProc \ {p} : hpc[q] \in {"closed", "missed"}
      PROVE  HandleInv'
  <2>1. /\ opener' = opener \ {p} /\ hpc' = [hpc EXCEPT ![p] = "closed"]
        /\ hview' = [hview EXCEPT ![p] = Handle!Empty]
        /\ hasked' = [hasked EXCEPT ![p] = Handle!Nothing]
        /\ hcreated' \in [HandleProc -> BOOLEAN]
        /\ UNCHANGED <<backend, file>>
    BY <1>8 DEF Handle!Gone
  <2>2. \A q \in opener' : backend # "qdbm" => list' = list
    BY <1>8, <2>1
  <2>3. Handle!TypeOK'
    BY <1>1, <1>8, <2>1, <2>2
  <2>4. Shown'
    BY <2>1, <2>2 DEF Shown
  <2> QED  BY <2>3, <2>4
<1>9. CASE Handle!Lost(p)
  BY <1>8, <1>9 DEF Handle!Lost, Handle!Torn
<1>10. CASE Handle!Close(p)
  BY <1>8, <1>10 DEF Handle!Close
<1>11. CASE Handle!Commit(p) /\ backend # "qdbm"
  <2>1. \A q \in HandleProc \ {p} : hpc[q] \in {"closed", "missed"}
    BY <1>11, AloneInFile DEF Handle!Commit, Handle!EndTxn
  <2>2. Handle!TypeOK'
    BY <1>1, <1>11, <2>1 DEF Handle!Commit, Handle!EndTxn
  <2>3. Shown'
    BY <1>1, <1>11, <2>1, SMTT(40) DEF Handle!Commit, Handle!EndTxn, Shown
  <2> QED  BY <2>2, <2>3
<1>12. CASE Handle!Abort(p)
  <2>1. Handle!TypeOK'
    BY <1>1, <1>12 DEF Handle!Abort, Handle!EndTxn, Handle!Changes
  <2>2. Shown'
    BY <1>1, <1>12 DEF Handle!Abort, Handle!EndTxn, Handle!Changes, Shown
  <2> QED  BY <2>1, <2>2
<1>13. CASE Handle!EndWithoutTxn(p)
  BY <1>1, <1>13 DEF Handle!EndWithoutTxn, Handle!EndTxn, Shown
<1>14. CASE Handle!Set(p) \/ Handle!Delete(p)
  BY <1>7, <1>9, <1>14 DEF Handle!Set, Handle!Delete
<1> QED
  BY <1>2, <1>3, <1>4, <1>5, <1>6, <1>9, <1>10, <1>11, <1>12, <1>13, <1>14
  DEF Handle!Opening, Handle!Changing, Handle!Ending, Handle!Crash,
      Handle!CreateTc, Handle!CreateKc, Handle!CreateQdbm, Handle!SetTc, Handle!SetKc,
      Handle!SetQdbm, Handle!DeleteTc, Handle!DeleteKc, Handle!DeleteQdbm,
      Handle!CommitTc, Handle!CommitKc, Handle!AbortTc, Handle!AbortKc,
      Handle!CloseTc, Handle!CloseKc, Handle!CloseQdbm

\* A store with transactions changes the list only in a commit, and then by
\* what was asked for; QDBM promises nothing.
LEMMA HandlePromised ==
    ASSUME HandleInv, NEW p \in HandleProc,
           \/ Handle!Opening(p) \/ Handle!Begin(p) \/ Handle!Changing(p)
           \/ Handle!Ending(p) \/ Handle!Crash(p)
    PROVE  \/ Handle!Promise!ANext
           \/ UNCHANGED <<Handle!Kept, [q \in HandleProc |-> Handle!AskedBy(q)]>>
<1> DEFINE Requests == [q \in HandleProc |-> Handle!AskedBy(q)]
<1> USE DEF HandleInv, Handle!TypeOK, Handle!Transactional
<1>1. backend' = backend
  BY DEF Handle!Opening, Handle!Begin, Handle!Changing, Handle!Ending, Handle!Crash,
      Handle!OpenWriter, Handle!OpenReader, Handle!WriteVersion, Handle!Opened,
      Handle!Create, Handle!Set, Handle!Delete, Handle!Apply, Handle!Lost, Handle!Gone,
      Handle!Close, Handle!Commit, Handle!Abort, Handle!EndTxn, Handle!EndWithoutTxn,
      Handle!CreateTc, Handle!CreateKc, Handle!CreateQdbm, Handle!SetTc, Handle!SetKc,
      Handle!SetQdbm, Handle!DeleteTc, Handle!DeleteKc, Handle!DeleteQdbm,
      Handle!CommitTc, Handle!CommitKc, Handle!AbortTc, Handle!AbortKc,
      Handle!CloseTc, Handle!CloseKc, Handle!CloseQdbm
<1>2. CASE backend = "qdbm"
  BY <1>1, <1>2 DEF Handle!Kept, Handle!AskedBy
<1>3. CASE backend # "qdbm"
  <2>1. ASSUME \A w \in Word : list'[w] = list[w], UNCHANGED hasked
        PROVE  UNCHANGED <<Handle!Kept, Requests>>
    BY <1>1, <1>3, <2>1 DEF Handle!Kept, Handle!AskedBy
  <2>2. CASE Handle!OpenWriter(p) \/ Handle!OpenReader(p) \/ Handle!Create(p)
             \/ Handle!Begin(p)
    BY <2>1, <2>2 DEF Handle!OpenWriter, Handle!OpenReader, Handle!Create, Handle!Opened,
                      Handle!Begin
  <2>3. CASE Handle!WriteVersion(p)
    <3>1. hview[p] = list /\ UNCHANGED hasked
      BY <1>3, <2>3 DEF Handle!WriteVersion
    <3>2. \A w \in Word : list'[w] = list[w]
      BY <1>3, <2>3, <3>1, VersionAssumption
      DEF Handle!WriteVersion, Handle!HandleAssumption, Handle!Words
    <3> QED  BY <2>1, <3>1, <3>2
  <2>4. ASSUME NEW w \in Word, NEW v \in Value \cup {Absent}, Handle!Apply(p, w, v)
        PROVE  Handle!Promise!ANext
    <3>1. /\ hasked' = [hasked EXCEPT ![p][w] = v] /\ UNCHANGED list
          /\ \A q \in HandleProc : Requests[q] = [u \in Word |-> hasked[q][u]]
          /\ \A q \in HandleProc : Requests'[q] = [u \in Word |-> hasked'[q][u]]
          /\ w \in Handle!Words
      BY <1>1, <1>3, <2>4 DEF Handle!Apply, Handle!AskedBy, Handle!Words
    <3>2. \A q \in HandleProc, u \in Word :
            hasked'[q][u] = IF q = p /\ u = w THEN v ELSE hasked[q][u]
      BY <3>1 DEF Handle!Words
    <3>3. Requests' = [Requests EXCEPT ![p][w] = v] /\ Requests'[p][w] = v
      <4>1. /\ Requests'[p] = [Requests[p] EXCEPT ![w] = v]
            /\ \A q \in HandleProc \ {p} : Requests'[q] = Requests[q]
        <5>1. Requests'[p] = [u \in Word |-> IF u = w THEN v ELSE hasked[p][u]]
          BY <3>1, <3>2
        <5>2. [Requests[p] EXCEPT ![w] = v] = [u \in Word |-> IF u = w THEN v ELSE hasked[p][u]]
          BY <3>1, SMTT(40)
        <5>3. ASSUME NEW q \in HandleProc \ {p}
              PROVE  Requests'[q] = Requests[q]
          BY <3>1, <3>2
        <5> HIDE DEF Requests
        <5> QED  BY <5>1, <5>2, <5>3
      <4>2. Requests[p] \in [Word -> Value \cup {Absent, Same}]
        BY <3>1 DEF Handle!Words
      <4>3. /\ Requests = [q \in HandleProc |-> Requests[q]]
            /\ Requests' = [q \in HandleProc |-> Requests'[q]]
        OBVIOUS
      <4> HIDE DEF Requests
      <4> QED  BY <4>1, <4>2, <4>3
    <3>4. UNCHANGED Handle!Kept
      BY <1>1, <3>1 DEF Handle!Kept
    <3>5. Handle!Promise!Ask(p)
      BY <3>3, <3>4 DEF Handle!Promise!Ask
    <3> QED  BY <3>5 DEF Handle!Promise!ANext
  <2>5. ASSUME UNCHANGED list, hasked' = [hasked EXCEPT ![p] = Handle!Nothing]
        PROVE  Handle!Promise!ANext
    <3>1. Requests' = [Requests EXCEPT ![p] = Handle!Promise!Nothing]
      BY <1>1, <1>3, <2>5, ZenonT(60)
      DEF Handle!AskedBy, Handle!Nothing, Handle!Promise!Nothing, Handle!Words
    <3>2. Handle!Promise!Discard(p)
      BY <1>1, <2>5, <3>1 DEF Handle!Promise!Discard, Handle!Kept
    <3> QED  BY <3>2 DEF Handle!Promise!ANext
  <2>6. CASE Handle!Lost(p) \/ Handle!Close(p) \/ Handle!Abort(p)
    BY <1>3, <2>5, <2>6 DEF Handle!Lost, Handle!Close, Handle!Gone, Handle!Abort, Handle!EndTxn
  <2>7. CASE Handle!Commit(p)
    <3>1. /\ hpc[p] = "txn" /\ list' = hview[p]
          /\ hasked' = [hasked EXCEPT ![p] = Handle!Nothing]
      BY <2>7 DEF Handle!Commit, Handle!EndTxn
    <3>2. Requests' = [Requests EXCEPT ![p] = Handle!Promise!Nothing]
      BY <1>1, <1>3, <3>1, ZenonT(60)
      DEF Handle!AskedBy, Handle!Nothing, Handle!Promise!Nothing, Handle!Words
    <3>3. Handle!Kept' = Handle!Promise!Overlay(Handle!Kept, Requests[p])
      BY <1>1, <1>3, <3>1
      DEF Handle!Kept, Handle!AskedBy, Handle!Promise!Overlay, Shown, Handle!Words
    <3>4. Handle!Promise!Keep(p)
      BY <3>2, <3>3 DEF Handle!Promise!Keep
    <3> QED  BY <3>4 DEF Handle!Promise!ANext
  <2>8. CASE Handle!Set(p) \/ Handle!Delete(p)
    BY <2>4, <2>6, <2>8 DEF Handle!Set, Handle!Delete
  <2> QED
    BY <1>3, <2>2, <2>3, <2>6, <2>7, <2>8
    DEF Handle!Opening, Handle!Changing, Handle!Ending, Handle!Crash,
        Handle!CreateTc, Handle!CreateKc, Handle!CreateQdbm, Handle!SetTc, Handle!SetKc,
        Handle!SetQdbm, Handle!DeleteTc, Handle!DeleteKc, Handle!DeleteQdbm,
        Handle!CommitTc, Handle!CommitKc, Handle!AbortTc, Handle!AbortKc,
        Handle!EndWithoutTxn, Handle!CloseTc, Handle!CloseKc, Handle!CloseQdbm
<1> QED  BY <1>2, <1>3 DEF Handle!TypeOK

-----------------------------------------------------------------------------
(* The stores, of which a behaviour has one *)

LEMMA StoresInvariance == StoresSpec => [](SqliteInv /\ HandleInv)
<1>1. StoresInit => SqliteInv /\ HandleInv
  <2> SUFFICES ASSUME StoresInit PROVE SqliteInv /\ HandleInv
    OBVIOUS
  <2>1. SqliteInv
    BY NoneAssumption DEF StoresInit, Init, SqliteInv, TypeOK, TableInv, ReadInv, OneCreator, Nothing
  <2>2. HandleInv
    BY DEF StoresInit, Handle!Init, HandleInv, Handle!TypeOK, Shown, Handle!Empty,
           Handle!Nothing
  <2> QED  BY <2>1, <2>2
<1>2. SqliteInv /\ HandleInv /\ [StoresNext]_allVars => (SqliteInv /\ HandleInv)'
  <2> SUFFICES ASSUME SqliteInv, HandleInv, [StoresNext]_allVars
               PROVE  (SqliteInv /\ HandleInv)'
    OBVIOUS
  <2>1. SqliteInv'
    <3>1. CASE UNCHANGED sqliteVars
      <4>1. UNCHANGED <<table, disk, shared, reserved, pending, pc, created, asked, saw>>
        BY <3>1 DEF sqliteVars, locks
      <4> QED  BY <4>1 DEF SqliteInv, TypeOK, TableInv, ReadInv, OneCreator
    <3>2. CASE Next
      BY <3>2, SqliteStep DEF Next
    <3> QED  BY <3>1, <3>2 DEF StoresNext, allVars, handleVars
  <2>2. HandleInv'
    <3>1. CASE UNCHANGED handleVars
      BY <3>1 DEF handleVars, HandleInv, Handle!TypeOK, Shown, Handle!Transactional
    <3>2. CASE Handle!Next
      BY <3>2, HandleStep DEF Handle!Next
    <3> QED  BY <3>1, <3>2 DEF StoresNext, allVars, sqliteVars
  <2> QED  BY <2>1, <2>2
<1> QED  BY <1>1, <1>2, PTL DEF StoresSpec

\* Types of the stores (datastore_sqlite.c, datastore_tc.c, datastore_kc.c,
\* datastore_qdbm.c), with what their locks promise.
THEOREM StoresTypeCorrect == StoresSpec => [](TypeOK /\ Handle!TypeOK)
<1>1. SqliteInv /\ HandleInv => TypeOK /\ Handle!TypeOK
  BY DEF SqliteInv, HandleInv
<1> QED  BY <1>1, StoresInvariance, PTL

\* datastore_sqlite.c: a transaction that goes on has read the list as it is
\* now, and at most one process has made the table.
THEOREM SqliteIsSound == StoresSpec => []SqliteSound
<1>1. SqliteInv => SqliteSound
  BY DEF SqliteInv, ReadInv, SqliteSound, NotOvertaken
<1> QED  BY <1>1, StoresInvariance, PTL

\* What datastore.h promises of transactions is kept by SQLite, Tokyo Cabinet
\* and Kyoto Cabinet: all of a transaction is stored at once, or nothing.
THEOREM StoresImplementAtomicStore == StoresSpec => StoresKeepThePromise
<1> DEFINE Requests == [q \in HandleProc |-> Handle!AskedBy(q)]
<1>1. StoresInit => Promise!AInit /\ Handle!Promise!AInit
  <2> SUFFICES ASSUME StoresInit PROVE Promise!AInit /\ Handle!Promise!AInit
    OBVIOUS
  <2>1. Promise!AInit
    BY DEF StoresInit, Init, Promise!AInit, Nothing, Promise!Nothing
  <2>2. Handle!Promise!AInit
    BY DEF StoresInit, Handle!Init, Handle!Promise!AInit, Handle!Kept, Handle!AskedBy,
           Handle!Empty, Handle!Nothing, Handle!Promise!Nothing, Handle!Words
  <2> QED  BY <2>1, <2>2
<1>2. SqliteInv /\ [StoresNext]_allVars => [Promise!ANext]_(Promise!avars)
  <2> SUFFICES ASSUME SqliteInv, [StoresNext]_allVars
               PROVE  Promise!ANext \/ UNCHANGED <<disk, asked>>
    BY DEF Promise!avars
  <2>1. CASE Next
    BY <2>1, SqlitePromised DEF Next
  <2>2. CASE UNCHANGED sqliteVars
    BY <2>2 DEF sqliteVars
  <2> QED  BY <2>1, <2>2 DEF StoresNext, allVars
<1>3. HandleInv /\ [StoresNext]_allVars
        => [Handle!Promise!ANext]_(Handle!Promise!avars)
  <2> SUFFICES ASSUME HandleInv, [StoresNext]_allVars
               PROVE  Handle!Promise!ANext \/ UNCHANGED <<Handle!Kept, Requests>>
    BY DEF Handle!Promise!avars
  <2>1. CASE Handle!Next
    BY <2>1, HandlePromised DEF Handle!Next
  <2>2. CASE UNCHANGED handleVars
    BY <2>2 DEF handleVars, Handle!Kept, Handle!AskedBy, Handle!Transactional
  <2> QED  BY <2>1, <2>2 DEF StoresNext, allVars
<1> QED
  BY <1>1, <1>2, <1>3, StoresInvariance, PTL
  DEF StoresSpec, StoresKeepThePromise, KeepsThePromise, Handle!KeepsThePromise,
      Promise!ASpec, Handle!Promise!ASpec
=============================================================================
