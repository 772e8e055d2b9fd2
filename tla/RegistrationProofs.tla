------------------------- MODULE RegistrationProofs -------------------------
(***************************************************************************)
(* Registration for any number of processes, tokens and retries: the types *)
(* always, and, when the file is not near its size limit (near it db_open  *)
(* takes a shared lock and nothing below holds), clean reads, fresh values *)
(* and the implementation of SerialRegistration.                           *)
(***************************************************************************)
EXTENDS Registration, TLAPS

(* What register_words computes *)

\* A job adds to and takes from the counts of a key a number below Word.
LEMMA AmountType ==
    ASSUME NEW job \in JobType, NEW k \in Key
    PROVE  Amount(job, k) \in 0 .. Word - 1
<1>1. CASE k \in Token
  BY <1>1 DEF Amount, JobType
<1>2. CASE k \notin Token
  BY <1>2, WordAssumption DEF Amount, JobType
<1> QED  BY <1>1, <1>2

\* An addition wraps around at Word, a subtraction stops at 0.
LEMMA ArithmeticType ==
    ASSUME NEW n \in 0 .. Word - 1, NEW amount \in 0 .. Word - 1
    PROVE  /\ Added(n, amount) \in 0 .. Word - 1
           /\ Removed(n, amount) \in 0 .. Word - 1
<1>1. Word \in Nat /\ Word > 0
  BY WordAssumption
<1>2. (n + amount) % Word \in 0 .. Word - 1
  BY <1>1
<1> QED  BY <1>1, <1>2 DEF Added, Removed

\* The counts that are written back are counts again.
LEMMA UpdatedType ==
    ASSUME NEW job \in JobType, NEW k \in Key, NEW count \in Count
    PROVE  Updated(job, k, count) \in Count
<1> DEFINE sum(ix) == IF job.incr = ix THEN Added(count[ix], Amount(job, k))
                                       ELSE count[ix]
           new(ix) == IF job.decr = ix THEN Removed(sum(ix), Amount(job, k))
                                       ELSE sum(ix)
<1>1. Amount(job, k) \in 0 .. Word - 1
  BY AmountType
<1>2. count.spam \in 0 .. Word - 1 /\ count.good \in 0 .. Word - 1
  BY DEF Count
<1>3. sum("spam") \in 0 .. Word - 1 /\ sum("good") \in 0 .. Word - 1
  BY <1>1, <1>2, ArithmeticType
<1> HIDE DEF sum
<1>4. new("spam") \in 0 .. Word - 1 /\ new("good") \in 0 .. Word - 1
  BY <1>1, <1>3, ArithmeticType
<1>5. Updated(job, k, count) = [spam |-> new("spam"), good |-> new("good")]
  BY DEF Updated, sum
<1> HIDE DEF new
<1> QED  BY <1>4, <1>5 DEF Count

-----------------------------------------------------------------------------
(* Types *)

\* A transaction has overwritten counts, of keys of its own job, and a
\* process in its transaction deals with the keys of its job.
Undone ==
    /\ undo = [p \in Proc |-> undo[p]]
    /\ \A p \in Proc : undo[p] \in [DOMAIN undo[p] -> Count]

OwnKeys ==
    \A p \in Proc :
        /\ pc[p] \in InTxn => todo[p] \subseteq Keys(Job[p])
        /\ pc[p] = "write" => key[p] \in Keys(Job[p])

TypeInv == TypeOK /\ Undone /\ OwnKeys

LEMMA KeysAreKeys ==
    \A p \in Proc : Keys(Job[p]) \subseteq Key /\ MsgCount \in Key
BY DEF Keys, Key, Tokens

\* A rollback puts counts back where counts were.
LEMMA RollbackTypes ==
    ASSUME TypeInv, NEW p \in Proc, Rollback(p)
    PROVE  /\ db' \in [Key -> Count]
           /\ Undone'
           /\ \A q \in Proc : DOMAIN undo'[q] \subseteq Keys(Job[q])
<1>1. db' \in [Key -> Count]
  BY DEF TypeInv, TypeOK, Undone, Rollback
<1>2. undo' = [q \in Proc |-> IF q = p THEN NoUndo ELSE undo[q]]
  BY DEF TypeInv, Undone, Rollback
<1>3. DOMAIN NoUndo = {} /\ NoUndo \in [DOMAIN NoUndo -> Count]
  BY DEF NoUndo
<1> HIDE DEF NoUndo
<1>4. Undone'
  BY <1>2, <1>3 DEF TypeInv, Undone
<1>5. \A q \in Proc : DOMAIN undo'[q] \subseteq Keys(Job[q])
  BY <1>2, <1>3 DEF TypeInv, TypeOK
<1> QED  BY <1>1, <1>4, <1>5

LEMMA TypeInit == Init => TypeInv
<1> SUFFICES ASSUME Init PROVE TypeInv
  OBVIOUS
<1>1. Nothing \in Count /\ Retries \in 0 .. Retries
  BY WordAssumption, RetriesAssumption DEF Nothing, Count
<1>2. DOMAIN NoUndo = {} /\ NoUndo \in [DOMAIN NoUndo -> Count]
  BY DEF NoUndo
<1> HIDE DEF NoUndo, Nothing
<1>3. TypeOK
  BY <1>1, <1>2, SeedAssumption, KeysAreKeys DEF Init, TypeOK, Key
<1>4. Undone
  BY <1>2 DEF Init, Undone
<1>5. OwnKeys
  BY DEF Init, OwnKeys, InTxn
<1> QED  BY <1>3, <1>4, <1>5 DEF TypeInv

LEMMA TypeStep == TypeInv /\ [Next]_vars => TypeInv'
<1> SUFFICES ASSUME TypeInv, [Next]_vars PROVE TypeInv'
  OBVIOUS
<1> USE DEF InTxn, Final
<1>1. CASE UNCHANGED vars
  BY <1>1 DEF TypeInv, TypeOK, Undone, OwnKeys, vars
<1>2. ASSUME NEW p \in Proc, Open(p) PROVE TypeInv'
  <2>1. UNCHANGED <<db, undo, todo, key, val, tries, committed>>
    BY <1>2 DEF Open, OpenExisting, OpenMissing, Create, TryLock
  <2>2. TypeOK'
    BY <1>2, <2>1 DEF TypeInv, TypeOK, Open, OpenExisting, OpenMissing, Create,
                      TryLock, Go, LockMode
  <2>3. OwnKeys'
    BY <1>2, <2>1 DEF TypeInv, TypeOK, OwnKeys, Open, OpenExisting, OpenMissing,
                      Create, TryLock, Go
  <2> QED  BY <2>1, <2>2, <2>3 DEF TypeInv, Undone
<1>3. ASSUME NEW p \in Proc, WriteMeta(p) \/ GiveUp(p) \/ Close(p) PROVE TypeInv'
  <2>1. TypeOK'
    BY <1>3 DEF TypeInv, TypeOK, WriteMeta, GiveUp, Close, Go, Unlock
  <2>2. Undone' /\ OwnKeys'
    BY <1>3 DEF TypeInv, TypeOK, Undone, OwnKeys, WriteMeta, GiveUp, Close, Go
  <2> QED  BY <2>1, <2>2 DEF TypeInv
<1>4. ASSUME NEW p \in Proc, Begin(p) PROVE TypeInv'
  <2>1. TypeOK'
    BY <1>4, KeysAreKeys, RetriesAssumption DEF TypeInv, TypeOK, Begin, Go
  <2>2. Undone' /\ OwnKeys'
    BY <1>4 DEF TypeInv, TypeOK, Undone, OwnKeys, Begin, Go
  <2> QED  BY <2>1, <2>2 DEF TypeInv
<1>5. ASSUME NEW p \in Proc, ReadKey(p) PROVE TypeInv'
  <2>1. TypeOK'
    BY <1>5 DEF TypeInv, TypeOK, ReadKey, Go
  <2>2. Undone' /\ OwnKeys'
    BY <1>5 DEF TypeInv, TypeOK, Undone, OwnKeys, ReadKey, Go
  <2> QED  BY <2>1, <2>2 DEF TypeInv
<1>6. ASSUME NEW p \in Proc, WriteKey(p) PROVE TypeInv'
  <2> DEFINE k == key[p]
             new == [j \in DOMAIN undo[p] \cup {k} |->
                        IF j \in DOMAIN undo[p] THEN undo[p][j] ELSE db[j]]
  <2>1. k \in Keys(Job[p]) /\ k \in Key /\ val[p] \in Count /\ Job[p] \in JobType
    BY <1>6, JobAssumption, KeysAreKeys DEF TypeInv, TypeOK, OwnKeys, WriteKey
  <2>2. Updated(Job[p], k, val[p]) \in Count
    BY <2>1, UpdatedType
  <2>3. db' = [db EXCEPT ![k] = Updated(Job[p], k, val[p])]
    BY <1>6 DEF WriteKey
  <2>4. db' \in [Key -> Count]
    BY <2>1, <2>2, <2>3 DEF TypeInv, TypeOK
  <2>5. undo' = [q \in Proc |-> IF q = p THEN new ELSE undo[q]]
    BY <1>6 DEF TypeInv, Undone, WriteKey
  <2>6. new \in [DOMAIN new -> Count] /\ DOMAIN new \subseteq Keys(Job[p])
    BY <2>1 DEF TypeInv, TypeOK, Undone
  <2> HIDE DEF new
  <2>7. Undone' /\ \A q \in Proc : DOMAIN undo'[q] \subseteq Keys(Job[q])
    BY <2>5, <2>6 DEF TypeInv, TypeOK, Undone
  <2>8. TypeOK'
    BY <1>6, <2>4, <2>7 DEF TypeInv, TypeOK, WriteKey, Go
  <2>9. OwnKeys'
    BY <1>6 DEF TypeInv, TypeOK, OwnKeys, WriteKey, Go
  <2> QED  BY <2>7, <2>8, <2>9 DEF TypeInv
<1>7. ASSUME NEW p \in Proc, Commit(p) PROVE TypeInv'
  <2>1. undo' = [q \in Proc |-> IF q = p THEN NoUndo ELSE undo[q]]
    BY <1>7 DEF TypeInv, Undone, Commit
  <2>2. DOMAIN NoUndo = {} /\ NoUndo \in [DOMAIN NoUndo -> Count]
    BY DEF NoUndo
  <2> HIDE DEF NoUndo
  <2>3. Undone' /\ \A q \in Proc : DOMAIN undo'[q] \subseteq Keys(Job[q])
    BY <2>1, <2>2 DEF TypeInv, TypeOK, Undone
  <2>4. TypeOK'
    BY <1>7, <2>3 DEF TypeInv, TypeOK, Commit, Go
  <2>5. OwnKeys'
    BY <1>7 DEF TypeInv, TypeOK, OwnKeys, Commit, Go
  <2> QED  BY <2>3, <2>4, <2>5 DEF TypeInv
<1>8. ASSUME NEW p \in Proc,
             AbortRetry(p) \/ CommitFails(p) \/ Terminated(p) \/ Crash(p)
      PROVE  TypeInv'
  <2>1. Rollback(p)
    BY <1>8 DEF AbortRetry, CommitFails, Terminated, Crash
  <2>2. /\ db' \in [Key -> Count]
        /\ Undone'
        /\ \A q \in Proc : DOMAIN undo'[q] \subseteq Keys(Job[q])
    BY <2>1, RollbackTypes
  <2>3. TypeOK'
    BY <1>8, <2>2 DEF TypeInv, TypeOK, AbortRetry, CommitFails, Terminated,
                      Crash, Go, Unlock
  <2>4. OwnKeys'
    BY <1>8 DEF TypeInv, TypeOK, OwnKeys, AbortRetry, CommitFails, Terminated,
                Crash, Go
  <2> QED  BY <2>2, <2>3, <2>4 DEF TypeInv
<1> QED
  BY <1>1, <1>2, <1>3, <1>4, <1>5, <1>6, <1>7, <1>8 DEF Next, Work

\* The types hold for every number of processes and retries, and every count
\* that register_words writes is an unsigned word.
THEOREM RegistrationTypeCorrect == Spec => []TypeOK
<1>1. TypeInv => TypeOK
  BY DEF TypeInv
<1> QED  BY <1>1, TypeInit, TypeStep, PTL DEF Spec

-----------------------------------------------------------------------------
(* Locks and transactions *)

\* Whoever is past the lock has it, and a write lock is alone.
Locked ==
    /\ \A p \in Proc :
        pc[p] \in {"meta", "begin", "close"} \cup InTxn => lock[p] = LockMode(p)
    /\ \A p, q \in Proc : p # q /\ lock[p] = "wr" => lock[q] = "none"

\* Only the open transaction of a writer has overwritten anything: the counts
\* of exactly those keys it has been through in this attempt, each from what
\* it had been. Nothing is committed twice.
Logged ==
    \A p \in Proc :
        /\ DOMAIN undo[p] # {} => Registers(Job[p]) /\ pc[p] \in InTxn
        /\ pc[p] = "write" => Registers(Job[p]) /\ key[p] \in todo[p]
        /\ Registers(Job[p]) /\ pc[p] \in InTxn =>
              todo[p] = Keys(Job[p]) \ DOMAIN undo[p]
        /\ \A k \in DOMAIN undo[p] : db[k] = Updated(Job[p], k, undo[p][k])
        /\ p \in committed => pc[p] \in {"close"} \cup Final

IInv == TypeInv /\ Locked /\ Logged /\ NotStale

\* While a writer is in its transaction, nobody else is in one.
LEMMA WriterAlone ==
    ASSUME ~NearLimit, Locked, Logged,
           NEW p \in Proc, Registers(Job[p]), pc[p] \in InTxn,
           NEW q \in Proc, q # p
    PROVE  pc[q] \notin InTxn /\ DOMAIN undo[q] = {}
<1>1. lock[p] = "wr"
  BY DEF Locked, LockMode
<1>2. lock[q] = "none"
  BY <1>1 DEF Locked
<1>3. pc[q] \notin InTxn
  BY <1>2 DEF Locked, LockMode
<1> QED  BY <1>3 DEF Logged

LEMMA InvInit == Init => IInv
<1> SUFFICES ASSUME Init PROVE IInv
  OBVIOUS
<1>1. DOMAIN NoUndo = {}
  BY DEF NoUndo
<1> HIDE DEF NoUndo
<1>2. Locked /\ Logged /\ NotStale
  BY <1>1 DEF Init, Locked, Logged, NotStale, InTxn
<1> QED  BY <1>2, TypeInit DEF IInv

\* A rollback by a process that leaves its transaction.
LEMMA RollbackStep ==
    ASSUME ~NearLimit, IInv, TypeInv', NEW p \in Proc, Rollback(p),
           NEW there \in {"begin", "close"} \cup Final, Go(p, there),
           IF there \in Final THEN Unlock(p) ELSE lock' = lock,
           there = "begin" => pc[p] \in InTxn,
           there = "close" => pc[p] \in InTxn,
           UNCHANGED <<todo, key, val, committed>>
    PROVE  IInv'
<1> USE DEF InTxn, Final
<1>1. DOMAIN NoUndo = {}
  BY DEF NoUndo
<1> HIDE DEF NoUndo
<1>2. /\ undo' = [q \in Proc |-> IF q = p THEN NoUndo ELSE undo[q]]
      /\ pc' = [pc EXCEPT ![p] = there]
  BY DEF IInv, TypeInv, Undone, Rollback, Go
<1>3. Locked'
  BY <1>2 DEF IInv, TypeInv, TypeOK, Locked, Unlock, LockMode
<1>4. ASSUME NEW q \in Proc, q # p, Registers(Job[q]), pc[q] \in InTxn PROVE db' = db
  <2>1. DOMAIN undo[p] = {}
    BY <1>4, WriterAlone DEF IInv
  <2> QED  BY <2>1 DEF Rollback, IInv, TypeInv, TypeOK
<1>5. \A q \in Proc : q # p => undo'[q] = undo[q] /\ pc'[q] = pc[q]
  BY <1>2 DEF IInv, TypeInv, TypeOK
<1>6. DOMAIN undo'[p] = {} /\ pc'[p] = there
  BY <1>1, <1>2 DEF IInv, TypeInv, TypeOK
<1>7. Logged'
  <2> SUFFICES ASSUME NEW q \in Proc
      PROVE /\ DOMAIN undo'[q] # {} => Registers(Job[q]) /\ pc'[q] \in InTxn
            /\ pc'[q] = "write" => Registers(Job[q]) /\ key'[q] \in todo'[q]
            /\ Registers(Job[q]) /\ pc'[q] \in InTxn =>
                  todo'[q] = Keys(Job[q]) \ DOMAIN undo'[q]
            /\ \A k \in DOMAIN undo'[q] :
                  db'[k] = Updated(Job[q], k, undo'[q][k])
            /\ q \in committed' => pc'[q] \in {"close"} \cup Final
    BY DEF Logged, Registers, Keys, Updated
  <2>1. CASE q = p
    BY <2>1, <1>6 DEF IInv, Logged
  <2>2. CASE q # p
    <3>1. undo'[q] = undo[q] /\ pc'[q] = pc[q]
      BY <2>2, <1>5
    <3>2. DOMAIN undo[q] # {} => db' = db
      BY <2>2, <1>4 DEF IInv, Logged
    <3> QED  BY <3>1, <3>2 DEF IInv, Logged
  <2> QED  BY <2>1, <2>2
<1>8. NotStale'
  <2> SUFFICES ASSUME NEW q \in Proc, pc'[q] = "write"
               PROVE  val'[q] = db'[key'[q]]
    BY DEF NotStale
  <2>1. q # p /\ pc[q] = "write"
    BY <1>5, <1>6
  <2>2. db' = db
    BY <2>1, <1>4 DEF IInv, Logged
  <2> QED  BY <2>1, <2>2 DEF IInv, NotStale
<1> QED  BY <1>3, <1>7, <1>8 DEF IInv

LEMMA InvStep == ~NearLimit /\ IInv /\ [Next]_vars => IInv'
<1> SUFFICES ASSUME ~NearLimit, IInv, [Next]_vars PROVE IInv'
  OBVIOUS
<1> USE DEF InTxn, Final
<1>t. TypeInv'
  BY TypeStep DEF IInv
<1>1. CASE UNCHANGED vars
  BY <1>1, <1>t DEF IInv, Locked, Logged, NotStale, vars
<1>2. ASSUME NEW p \in Proc, Open(p) \/ WriteMeta(p) \/ Begin(p) PROVE IInv'
  <2>1. UNCHANGED <<db, undo, key, val, committed>>
    BY <1>2 DEF Open, OpenExisting, OpenMissing, Create, TryLock, WriteMeta, Begin
  <2>2. \A q \in Proc : q # p => pc'[q] = pc[q] /\ todo'[q] = todo[q]
    BY <1>2 DEF Open, OpenExisting, OpenMissing, Create, TryLock, WriteMeta,
                Begin, Go, IInv, TypeInv, TypeOK
  <2>3. /\ pc[p] \notin {"write", "close"} \cup Final
        /\ pc'[p] # "write"
    BY <1>2 DEF Open, OpenExisting, OpenMissing, Create, TryLock, WriteMeta,
                Begin, Go, IInv, TypeInv, TypeOK
  <2>4. Locked'
    BY <1>2 DEF Open, OpenExisting, OpenMissing, Create, TryLock, WriteMeta,
                Begin, Go, Compatible, LockMode, IInv, TypeInv, TypeOK, Locked
  <2>5. Logged'
    BY <1>2, <2>1, <2>2, <2>3
       DEF Open, OpenExisting, OpenMissing, Create, TryLock, WriteMeta, Begin,
           Go, IInv, TypeInv, TypeOK, Logged
  <2>6. NotStale'
    BY <2>1, <2>2, <2>3 DEF IInv, NotStale
  <2> QED  BY <1>t, <2>4, <2>5, <2>6 DEF IInv
<1>3. ASSUME NEW p \in Proc, GiveUp(p) \/ Close(p) PROVE IInv'
  <2>1. Locked'
    BY <1>3 DEF GiveUp, Close, Go, Unlock, IInv, TypeInv, TypeOK, Locked, LockMode
  <2>2. Logged' /\ NotStale'
    BY <1>3 DEF GiveUp, Close, Go, IInv, TypeInv, TypeOK, Logged, NotStale
  <2> QED  BY <1>t, <2>1, <2>2 DEF IInv
<1>4. ASSUME NEW p \in Proc, ReadKey(p) PROVE IInv'
  <2>1. Locked'
    BY <1>4 DEF ReadKey, Go, IInv, TypeInv, TypeOK, Locked, LockMode
  <2>2. Logged' /\ NotStale'
    BY <1>4 DEF ReadKey, Go, IInv, TypeInv, TypeOK, Logged, NotStale
  <2> QED  BY <1>t, <2>1, <2>2 DEF IInv
<1>5. ASSUME NEW p \in Proc, WriteKey(p) PROVE IInv'
  <2> DEFINE k == key[p]
             new == [j \in DOMAIN undo[p] \cup {k} |->
                        IF j \in DOMAIN undo[p] THEN undo[p][j] ELSE db[j]]
  <2>1. /\ Registers(Job[p]) /\ k \in todo[p]
        /\ todo[p] = Keys(Job[p]) \ DOMAIN undo[p]
        /\ val[p] = db[k] /\ k \in Key
    BY <1>5 DEF WriteKey, IInv, TypeInv, TypeOK, Logged, NotStale
  <2>2. /\ undo' = [q \in Proc |-> IF q = p THEN new ELSE undo[q]]
        /\ db' = [db EXCEPT ![k] = Updated(Job[p], k, db[k])]
        /\ pc' = [pc EXCEPT ![p] = "read"]
        /\ todo' = [todo EXCEPT ![p] = @ \ {k}]
        /\ UNCHANGED <<lock, key, val, committed>>
    BY <1>5, <2>1 DEF WriteKey, Go, IInv, TypeInv, Undone
  <2>3. \A q \in Proc : q # p => pc[q] \notin InTxn /\ DOMAIN undo[q] = {}
    BY <1>5, <2>1, WriterAlone DEF WriteKey, IInv
  <2>4. pc[p] = "write"
    BY <1>5 DEF WriteKey
  <2>5. Locked'
    BY <2>2, <2>4 DEF IInv, TypeInv, TypeOK, Locked, LockMode
  <2>6. \A j \in DOMAIN new : db'[j] = Updated(Job[p], j, new[j])
    BY <2>1, <2>2 DEF IInv, TypeInv, TypeOK, Logged
  <2>7. DOMAIN new = DOMAIN undo[p] \cup {k}
    OBVIOUS
  <2> HIDE DEF new
  <2>8. undo'[p] = new /\ \A q \in Proc : q # p => undo'[q] = undo[q]
    BY <2>2
  <2>9. Logged'
    <3> SUFFICES ASSUME NEW q \in Proc
        PROVE /\ DOMAIN undo'[q] # {} => Registers(Job[q]) /\ pc'[q] \in InTxn
              /\ pc'[q] = "write" => Registers(Job[q]) /\ key'[q] \in todo'[q]
              /\ Registers(Job[q]) /\ pc'[q] \in InTxn =>
                    todo'[q] = Keys(Job[q]) \ DOMAIN undo'[q]
              /\ \A j \in DOMAIN undo'[q] :
                    db'[j] = Updated(Job[q], j, undo'[q][j])
              /\ q \in committed' => pc'[q] \in {"close"} \cup Final
      BY DEF Logged, Registers, Keys, Updated
    <3>1. CASE q = p
      <4>1. pc'[p] = "read" /\ todo'[p] = todo[p] \ {k} /\ p \notin committed
        BY <2>2, <2>4 DEF IInv, TypeInv, TypeOK, Logged
      <4> QED  BY <3>1, <4>1, <2>1, <2>2, <2>6, <2>7, <2>8
    <3>2. CASE q # p
      <4>1. pc'[q] = pc[q] /\ todo'[q] = todo[q]
        BY <3>2, <2>2 DEF IInv, TypeInv, TypeOK
      <4> QED  BY <3>2, <4>1, <2>2, <2>3, <2>8 DEF IInv, Logged
    <3> QED  BY <3>1, <3>2
  <2>10. NotStale'
    BY <2>2, <2>3 DEF IInv, TypeInv, TypeOK, NotStale
  <2> QED  BY <1>t, <2>5, <2>9, <2>10 DEF IInv
<1>6. ASSUME NEW p \in Proc, Commit(p) PROVE IInv'
  <2>1. /\ undo' = [q \in Proc |-> IF q = p THEN NoUndo ELSE undo[q]]
        /\ pc' = [pc EXCEPT ![p] = "close"]
        /\ committed' = committed \cup {p}
        /\ UNCHANGED <<db, lock, todo, key, val>>
    BY <1>6 DEF Commit, Go, IInv, TypeInv, Undone
  <2>2. DOMAIN NoUndo = {}
    BY DEF NoUndo
  <2> HIDE DEF NoUndo
  <2>3. Locked'
    BY <1>6, <2>1 DEF Commit, IInv, TypeInv, TypeOK, Locked, LockMode
  <2>4. Logged' /\ NotStale'
    BY <2>1, <2>2 DEF IInv, TypeInv, TypeOK, Logged, NotStale
  <2> QED  BY <1>t, <2>3, <2>4 DEF IInv
<1>7. ASSUME NEW p \in Proc,
             AbortRetry(p) \/ CommitFails(p) \/ Terminated(p) \/ Crash(p)
      PROVE  IInv'
  <2>1. CASE AbortRetry(p)
    BY <1>t, <2>1, RollbackStep DEF AbortRetry
  <2>2. CASE CommitFails(p)
    BY <1>t, <2>2, RollbackStep DEF CommitFails
  <2>3. CASE Terminated(p)
    BY <1>t, <2>3, RollbackStep DEF Terminated
  <2>4. CASE Crash(p)
    BY <1>t, <2>4, RollbackStep DEF Crash
  <2> QED  BY <1>7, <2>1, <2>2, <2>3, <2>4
<1> QED
  BY <1>1, <1>2, <1>3, <1>4, <1>5, <1>6, <1>7 DEF Next, Work

\* With the exclusive lock of every writer, what a process reads in its
\* transaction is never taken back, for every number of processes and keys.
THEOREM CleanReads ==
    ASSUME ~NearLimit
    PROVE  Spec => []NoDirtyRead
<1>1. IInv => NoDirtyRead
  <2> SUFFICES ASSUME IInv, NEW p \in Proc, pc[p] \in InTxn, NEW q \in Proc \ {p}
               PROVE  DOMAIN undo[q] = {}
    BY DEF NoDirtyRead
  <2> SUFFICES ASSUME DOMAIN undo[q] # {} PROVE FALSE
    OBVIOUS
  <2>1. Registers(Job[q]) /\ pc[q] \in InTxn
    BY DEF IInv, Logged
  <2> QED  BY <2>1, WriterAlone DEF IInv
<1> QED  BY <1>1, InvInit, InvStep, PTL DEF Spec

\* register_words never writes back a value computed from counts that have
\* changed since it read them.
THEOREM FreshValues ==
    ASSUME ~NearLimit
    PROVE  Spec => []NotStale
<1>1. IInv => NotStale
  BY DEF IInv
<1> QED  BY <1>1, InvInit, InvStep, PTL DEF Spec

-----------------------------------------------------------------------------
(* Concurrent registration implements SerialRegistration *)

\* With at most one open transaction CommittedDb has nothing to choose.
LEMMA OneOpen ==
    ASSUME NEW u, NEW d, NEW p \in Proc,
           \A q \in Proc : q # p => DOMAIN u[q] = {}
    PROVE  \A k \in Key :
              (IF \E q \in Proc : k \in DOMAIN u[q]
                  THEN LET q == CHOOSE r \in Proc : k \in DOMAIN u[r] IN u[q][k]
                  ELSE d[k])
            = IF k \in DOMAIN u[p] THEN u[p][k] ELSE d[k]
OBVIOUS

\* A rollback takes nothing from what is committed.
LEMMA RollbackKeeps ==
    ASSUME ~NearLimit, IInv, NEW p \in Proc, Rollback(p)
    PROVE  CommittedDb' = CommittedDb
<1>1. undo' = [q \in Proc |-> IF q = p THEN NoUndo ELSE undo[q]]
  BY DEF IInv, TypeInv, Undone, Rollback
<1>2. CASE DOMAIN undo[p] = {}
  <2>1. undo[p] = NoUndo
    BY <1>2 DEF IInv, TypeInv, Undone, NoUndo
  <2>2. undo' = undo
    BY <1>1, <2>1 DEF IInv, TypeInv, Undone
  <2>3. db' = db
    BY <1>2 DEF Rollback, IInv, TypeInv, TypeOK
  <2> QED  BY <2>2, <2>3 DEF CommittedDb
<1>3. CASE DOMAIN undo[p] # {}
  <2>1. \A q \in Proc : q # p => DOMAIN undo[q] = {}
    BY <1>3, WriterAlone DEF IInv, Logged
  <2>2. \A q \in Proc : DOMAIN undo'[q] = {}
    BY <1>1, <2>1 DEF NoUndo
  <2>3. CommittedDb' = [k \in Key |-> db'[k]]
    BY <2>2 DEF CommittedDb
  <2>4. CommittedDb =
          [k \in Key |-> IF k \in DOMAIN undo[p] THEN undo[p][k] ELSE db[k]]
    BY <2>1, OneOpen DEF CommittedDb
  <2> QED  BY <2>3, <2>4 DEF Rollback
<1> QED  BY <1>2, <1>3

\* A write takes nothing from what is committed.
LEMMA WriteKeeps ==
    ASSUME ~NearLimit, IInv, NEW p \in Proc, WriteKey(p)
    PROVE  CommittedDb' = CommittedDb
<1> DEFINE k == key[p]
           new == [j \in DOMAIN undo[p] \cup {k} |->
                      IF j \in DOMAIN undo[p] THEN undo[p][j] ELSE db[j]]
<1>1. pc[p] \in InTxn /\ Registers(Job[p]) /\ k \in Key
  BY DEF WriteKey, IInv, TypeInv, TypeOK, Logged, InTxn
<1>2. \A q \in Proc : q # p => DOMAIN undo[q] = {}
  BY <1>1, WriterAlone DEF IInv
<1>3. /\ undo' = [q \in Proc |-> IF q = p THEN new ELSE undo[q]]
      /\ \A j \in Key \ {k} : db'[j] = db[j]
  BY DEF WriteKey, IInv, TypeInv, TypeOK, Undone
<1>4. /\ DOMAIN new = DOMAIN undo[p] \cup {k}
      /\ \A j \in DOMAIN new :
            new[j] = IF j \in DOMAIN undo[p] THEN undo[p][j] ELSE db[j]
  OBVIOUS
<1> HIDE DEF new
<1>5. undo'[p] = new /\ \A q \in Proc : q # p => DOMAIN undo'[q] = {}
  BY <1>2, <1>3
<1>6. CommittedDb' = [j \in Key |-> IF j \in DOMAIN new THEN new[j] ELSE db'[j]]
  BY <1>5, OneOpen DEF CommittedDb
<1>7. CommittedDb =
        [j \in Key |-> IF j \in DOMAIN undo[p] THEN undo[p][j] ELSE db[j]]
  BY <1>2, OneOpen DEF CommittedDb
<1> QED  BY <1>3, <1>4, <1>6, <1>7

\* The commit of a registration changes what is committed by the whole job.
LEMMA CommitRegisters ==
    ASSUME ~NearLimit, IInv, NEW p \in Proc, Commit(p), Registers(Job[p])
    PROVE  /\ CommittedDb' = Registered(Job[p], CommittedDb)
           /\ p \notin committed
<1>1. pc[p] = "read" /\ todo[p] = {} /\ db' = db
  BY DEF Commit
<1>2. \A q \in Proc : q # p => DOMAIN undo[q] = {}
  BY <1>1, WriterAlone DEF IInv, InTxn
<1>3. DOMAIN undo[p] = Keys(Job[p])
  BY <1>1 DEF IInv, TypeInv, TypeOK, Logged, InTxn
<1>4. CommittedDb =
        [k \in Key |-> IF k \in Keys(Job[p]) THEN undo[p][k] ELSE db[k]]
  BY <1>2, <1>3, OneOpen DEF CommittedDb
<1>5. undo' = [q \in Proc |-> IF q = p THEN NoUndo ELSE undo[q]]
  BY DEF IInv, TypeInv, Undone, Commit
<1>6. \A q \in Proc : DOMAIN undo'[q] = {}
  BY <1>2, <1>5 DEF NoUndo
<1>7. CommittedDb' = [k \in Key |-> db[k]]
  BY <1>1, <1>6 DEF CommittedDb
<1>8. \A k \in Keys(Job[p]) : db[k] = Updated(Job[p], k, undo[p][k])
  BY <1>3 DEF IInv, Logged
<1> QED  BY <1>1, <1>4, <1>7, <1>8 DEF Registered, IInv, Logged, InTxn, Final

\* The two modules mean the same by a job that is registered.
LEMMA SameRegistration ==
    \A p \in Proc :
        /\ Serial!Registers(Job[p]) = Registers(Job[p])
        /\ \A s : Serial!Registered(Job[p], s) = Registered(Job[p], s)
BY DEF Serial!Registers, Serial!Registered, Serial!Key, Serial!Keys,
       Serial!Tokens, Serial!Updated, Serial!Added, Serial!Removed,
       Serial!Amount, Registers, Registered, Key, Keys, Tokens, Updated,
       Added, Removed, Amount

LEMMA SerialInit == Init => Serial!Init
<1> SUFFICES ASSUME Init PROVE Serial!Init
  OBVIOUS
<1>1. \A p \in Proc : DOMAIN undo[p] = {}
  BY DEF Init, NoUndo
<1>2. CommittedDb = [k \in Key |-> db[k]]
  BY <1>1 DEF CommittedDb
<1>3. db \in [Key -> Count]
  BY TypeInit DEF TypeInv, TypeOK
<1>4. CommittedDb \in [Key -> Count]
  BY <1>2, <1>3
<1>5. {p \in committed : Registers(Job[p])} = {}
  BY DEF Init
<1> QED
  BY <1>4, <1>5 DEF Serial!Init, Serial!Key, Serial!Count, Key, Count

\* A commit of a writer is the step Register; nothing else is a step.
LEMMA SerialStep ==
    ASSUME ~NearLimit, IInv, [Next]_vars
    PROVE  [Serial!Next]_(Serial!vars)
<1> DEFINE applied == {p \in committed : Registers(Job[p])}
<1>1. CASE UNCHANGED <<db, undo, committed>>
  BY <1>1 DEF Serial!vars, CommittedDb
<1>2. ASSUME NEW p \in Proc, Rollback(p), committed' = committed
      PROVE  UNCHANGED Serial!vars
  BY <1>2, RollbackKeeps DEF Serial!vars
<1>3. ASSUME NEW p \in Proc, WriteKey(p) PROVE UNCHANGED Serial!vars
  BY <1>3, WriteKeeps DEF WriteKey, Serial!vars
<1>4. ASSUME NEW p \in Proc, Commit(p), ~Registers(Job[p])
      PROVE  UNCHANGED Serial!vars
  <2>1. DOMAIN undo[p] = {}
    BY <1>4 DEF IInv, Logged
  <2>2. undo[p] = NoUndo
    BY <2>1 DEF IInv, TypeInv, Undone, NoUndo
  <2>3. undo' = undo /\ db' = db
    BY <1>4, <2>2 DEF Commit, IInv, TypeInv, Undone
  <2>4. applied' = applied
    BY <1>4 DEF Commit, Registers
  <2> QED  BY <2>3, <2>4 DEF Serial!vars, CommittedDb
<1>5. ASSUME NEW p \in Proc, Commit(p), Registers(Job[p]) PROVE Serial!Next
  <2>1. /\ CommittedDb' = Registered(Job[p], CommittedDb)
        /\ p \notin applied
    BY <1>5, CommitRegisters
  <2>2. applied' = applied \cup {p}
    BY <1>5 DEF Commit, Registers
  <2>3. Serial!Register(p)
    BY <1>5, <2>1, <2>2, SameRegistration DEF Serial!Register
  <2> QED  BY <2>3 DEF Serial!Next
<1>6. CASE UNCHANGED vars
  BY <1>1, <1>6 DEF vars
<1>7. ASSUME NEW p \in Proc, Open(p) PROVE UNCHANGED <<db, undo, committed>>
  BY <1>7 DEF Open, OpenExisting, OpenMissing, Create, TryLock
<1>8. ASSUME NEW p \in Proc, Work(p) PROVE [Serial!Next]_(Serial!vars)
  <2>1. CASE WriteMeta(p) \/ Begin(p) \/ GiveUp(p) \/ ReadKey(p) \/ Close(p)
    BY <1>1, <2>1 DEF WriteMeta, Begin, GiveUp, ReadKey, Close
  <2>2. CASE AbortRetry(p) \/ CommitFails(p) \/ Terminated(p)
    BY <1>2, <2>2 DEF AbortRetry, CommitFails, Terminated
  <2> QED  BY <1>3, <1>4, <1>5, <1>8, <2>1, <2>2 DEF Work
<1>9. ASSUME NEW p \in Proc, Crash(p) PROVE UNCHANGED Serial!vars
  BY <1>2, <1>9 DEF Crash
<1> QED  BY <1>1, <1>6, <1>7, <1>8, <1>9 DEF Next

\* Whatever the processes do to each other, the committed registrations have
\* happened one after the other, each of them once and completely.
THEOREM RegistrationIsSerial ==
    ASSUME ~NearLimit
    PROVE  Spec => RegistersSerially
BY InvInit, InvStep, SerialInit, SerialStep, PTL
   DEF Spec, RegistersSerially, Serial!Spec
=============================================================================
