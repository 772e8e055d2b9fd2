--------------------------- MODULE CommandsProofs ---------------------------
(***************************************************************************)
(* TLAPS proofs about the components of MCCommands, for all constants that *)
(* its assumptions let through: the queue of bogoutil (TokenTransaction), the*)
(* environments of a process (EnvironmentList), the messages of a run      *)
(* (MessageLoop), bogoutil -m (Maintenance), bogoutil -d and -l (LoadDump),*)
(* and what the options ask for (Configuration). Each has an invariant of  *)
(* its own, which the steps of the other components leave alone.           *)
(***************************************************************************)
EXTENDS MCCommands, SequenceTheorems, FiniteSetTheorems, SumProofs, TLAPS

-----------------------------------------------------------------------------
(* The queue (transaction.c) *)

\* Among the items of a queue for a key there is a last one.
LEMMA LastExists ==
    ASSUME NEW S, NEW q \in Seq(S), NEW t, Places(q, t) # {}
    PROVE  \E i \in Places(q, t) : \A j \in Places(q, t) : j <= i
<1>1. Len(q) \in Nat /\ Places(q, t) \subseteq 1 .. Len(q)
  BY LenProperties DEF Places
<1> DEFINE T == {n \in Nat : Len(q) - n \in Places(q, t)}
<1>2. \A i \in Places(q, t) : Len(q) - i \in T
  BY <1>1
<1>3. PICK n \in T : \A i \in T : n <= i
  BY <1>2, LeastNat
<1>4. \A j \in Places(q, t) : j <= Len(q) - n
  BY <1>1, <1>2, <1>3
<1> QED BY <1>3, <1>4

\* The item ta_read finds is the last one for its key.
LEMMA LastIsLast ==
    ASSUME NEW S, NEW s, NEW q \in Seq(S), NEW t, NEW i \in Places(q, t),
           \A j \in Places(q, t) : j <= i
    PROVE  TaRead(s, q, t) = q[i].val
<1>1. Places(q, t) # {} /\ Places(q, t) \subseteq Nat
  BY LenProperties DEF Places
<1>2. /\ Last(q, t) \in Places(q, t)
      /\ \A j \in Places(q, t) : j <= Last(q, t)
  BY DEF Last
<1>3. Last(q, t) = i
  BY <1>1, <1>2
<1> QED  BY <1>1, <1>3 DEF TaRead

\* A queue with an item more at its end: that item is what its key reads,
\* all other keys read what they read before.
LEMMA ReadAfterAppend ==
    ASSUME NEW S, NEW s, NEW q \in Seq(S), NEW item \in S, NEW t
    PROVE  TaRead(s, Append(q, item), t) =
              IF t = item.word THEN item.val ELSE TaRead(s, q, t)
<1> DEFINE new == Append(q, item)
           n == Len(q) + 1
<1>1. /\ new \in Seq(S)
      /\ Len(new) = n
      /\ new[n] = item
      /\ \A i \in 1 .. Len(q) : new[i] = q[i]
  BY AppendProperties
<1>2. DOMAIN new = 1 .. n /\ DOMAIN q = 1 .. Len(q) /\ Len(q) \in Nat
  BY <1>1, LenProperties
<1> HIDE DEF new
<1>3. CASE t = item.word
  <2>1. n \in Places(new, t) /\ \A j \in Places(new, t) : j <= n
    BY <1>1, <1>2, <1>3 DEF Places
  <2>2. TaRead(s, new, t) = item.val
    BY <1>1, <2>1, LastIsLast
  <2> QED  BY <1>3, <2>2 DEF new
<1>4. CASE t # item.word
  <2>1. Places(new, t) = Places(q, t)
    BY <1>1, <1>2, <1>4 DEF Places
  <2>2. CASE Places(q, t) = {}
    <3>1. TaRead(s, new, t) = s[t] /\ TaRead(s, q, t) = s[t]
      BY <2>1, <2>2 DEF TaRead
    <3> QED  BY <1>4, <3>1 DEF new
  <2>3. CASE Places(q, t) # {}
    <3>1. PICK i \in Places(q, t) : \A j \in Places(q, t) : j <= i
      BY <2>3, LastExists
    <3>2. TaRead(s, q, t) = q[i].val
      BY <3>1, LastIsLast
    <3>3. TaRead(s, new, t) = new[i].val
      BY <1>1, <2>1, <3>1, LastIsLast
    <3>4. new[i] = q[i]
      BY <1>1, <1>2, <3>1 DEF Places
    <3> QED  BY <1>4, <3>2, <3>3, <3>4 DEF new
  <2> QED  BY <2>2, <2>3
<1> QED  BY <1>3, <1>4

\* Applying the first item and taking it off the queue changes no reading.
LEMMA ReadAfterFlush ==
    ASSUME NEW S, NEW s, NEW q \in Seq(S), q # <<>>, NEW t \in DOMAIN s
    PROVE  TaRead(Applied(s, Head(q)), Tail(q), t) = TaRead(s, q, t)
<1> DEFINE rest == Tail(q)
           first == Head(q)
           new == Applied(s, first)
<1>1. /\ rest \in Seq(S)
      /\ Len(rest) = Len(q) - 1
      /\ \A i \in 1 .. Len(rest) : rest[i] = q[i + 1]
      /\ first = q[1]
  BY HeadTailProperties
<1>2. /\ Len(q) \in Nat
      /\ Len(q) >= 1
      /\ DOMAIN q = 1 .. Len(q)
      /\ DOMAIN rest = 1 .. Len(q) - 1
  BY <1>1, LenProperties, EmptySeq
<1>3. new[t] = IF t = first.word THEN first.val ELSE s[t]
  BY DEF Applied
<1> HIDE DEF rest, first, new
<1>4. \A i \in Nat : i \in Places(rest, t) <=> i >= 1 /\ i + 1 \in Places(q, t)
  BY <1>1, <1>2 DEF Places
<1>5. Places(q, t) \subseteq 1 .. Len(q) /\ Places(rest, t) \subseteq Nat
  BY <1>2 DEF Places
<1>6. CASE \E i \in Places(q, t) : i # 1
  <2>1. PICK i \in Places(q, t) : \A j \in Places(q, t) : j <= i
    BY <1>6, LastExists
  <2>2. i >= 2 /\ i \in Nat
    BY <1>2, <1>5, <1>6, <2>1
  <2>3. i - 1 \in Places(rest, t) /\ \A j \in Places(rest, t) : j <= i - 1
    BY <1>4, <1>5, <2>1, <2>2
  <2>4. TaRead(s, q, t) = q[i].val
    BY <2>1, LastIsLast
  <2>5. TaRead(new, rest, t) = rest[i - 1].val
    BY <1>1, <2>3, LastIsLast
  <2>6. rest[i - 1] = q[i]
    BY <1>1, <1>2, <1>5, <2>1, <2>2
  <2> QED  BY <2>4, <2>5, <2>6 DEF rest, first, new
<1>7. CASE \A i \in Places(q, t) : i = 1
  <2>1. Places(rest, t) = {}
    BY <1>4, <1>5, <1>7
  <2>2. TaRead(new, rest, t) = new[t]
    BY <2>1 DEF TaRead
  <2>3. CASE t = first.word
    <3>1. 1 \in Places(q, t) /\ \A j \in Places(q, t) : j <= 1
      BY <1>1, <1>2, <1>7, <2>3 DEF Places
    <3>2. TaRead(s, q, t) = first.val
      BY <1>1, <3>1, LastIsLast
    <3> QED  BY <1>3, <2>2, <2>3, <3>2 DEF rest, first, new
  <2>4. CASE t # first.word
    <3>1. Places(q, t) = {}
      BY <1>1, <1>7, <2>4 DEF Places
    <3>2. TaRead(s, q, t) = s[t]
      BY <3>1 DEF TaRead
    <3> QED  BY <1>3, <2>2, <2>4, <3>2 DEF rest, first, new
  <2> QED  BY <2>3, <2>4
<1> QED  BY <1>6, <1>7

\* Every step keeps the types of the variables.
LEMMA QueueStep == TypeOK /\ [Next]_vars => TypeOK'
<1> SUFFICES ASSUME TypeOK, [Next]_vars
             PROVE  TypeOK'
  OBVIOUS
<1> USE DEF TypeOK
<1>1. CASE TaInit
  BY <1>1 DEF TaInit
<1>2. ASSUME NEW item \in Item, TaAdd(item)
      PROVE  TypeOK'
  BY <1>2, AppendProperties DEF TaAdd
<1>3. CASE TaCommit
  BY <1>3 DEF TaCommit
<1>4. CASE Flush
  <2>1. CASE queue # <<>>
    <3>1. /\ store' = Applied(store, Head(queue))
          /\ queue' = Tail(queue)
          /\ UNCHANGED <<pc, asked>>
          /\ pc # "none"
      BY <1>4, <2>1 DEF Flush
    <3>2. Head(queue) \in Item /\ queue' \in Seq(Item)
      BY <2>1, <3>1, HeadTailProperties
    <3>3. store' \in Contents
      BY <3>1, <3>2 DEF Applied, Contents, Item
    <3> QED  BY <3>1, <3>2, <3>3
  <2>2. CASE queue = <<>>
    BY <1>4, <2>2 DEF Flush
  <2> QED  BY <2>1, <2>2
<1>5. CASE TaRollback
  BY <1>5, EmptySeq DEF TaRollback
<1>6. CASE UNCHANGED vars
  BY <1>6 DEF vars
<1> QED  BY <1>1, <1>2, <1>3, <1>4, <1>5, <1>6 DEF Next

\* The types of the variables (transaction.c: the anchor of the queue).
THEOREM QueueTypeCorrect == Spec => []TypeOK
<1>1. Init => TypeOK
  BY EmptySeq DEF Init, TypeOK
<1> QED  BY <1>1, QueueStep, PTL DEF Spec

\* transaction.c implements DirectStore: a transaction reads what it wrote,
\* no round of ta_flush changes what is read, and in the end the wordlist
\* holds what was committed, or what it held before.
THEOREM TransactionImplementsDirectStore == Spec => ReadsOwnWrites
<1> USE DEF Direct!vars, Direct!Begin, Direct!Update, Direct!Commit,
            Direct!Rollback
<1>1. Init => Direct!Init
  <2> SUFFICES ASSUME Init PROVE Direct!Init
    OBVIOUS
  <2>1. View = store
    BY DEF Init, View, TaRead, Places, Contents
  <2> QED  BY <2>1 DEF Init, Direct!Init, Contents
<1>2. TypeOK /\ [Next]_vars => [Direct!Next]_(Direct!vars)
  <2> SUFFICES ASSUME TypeOK, [Next]_vars
               PROVE  Direct!Next \/ UNCHANGED Direct!vars
    OBVIOUS
  <2> USE DEF TypeOK
  <2>1. CASE TaInit
    <3>1. View' = View
      BY <2>1 DEF TaInit, View
    <3>2. Direct!Begin
      BY <2>1, <3>1 DEF TaInit
    <3> QED  BY <3>2 DEF Direct!Next
  <2>2. ASSUME NEW item \in Item, TaAdd(item)
        PROVE  Direct!Next
    <3>1. item.word \in Word /\ item.val \in Value \cup {Absent}
      BY DEF Item
    <3>2. \A t \in Word :
            TaRead(store, queue', t) =
              IF t = item.word THEN item.val ELSE TaRead(store, queue, t)
      BY <2>2, ReadAfterAppend DEF TaAdd
    <3>3. View' = [View EXCEPT ![item.word] = item.val]
      BY <2>2, <3>1, <3>2 DEF TaAdd, View
    <3>4. asked' = [word |-> item.word, val |-> item.val]
      BY <2>2 DEF TaAdd, Item
    <3>5. Direct!Update(item.word, item.val)
      BY <2>2, <3>3, <3>4 DEF TaAdd
    <3> QED  BY <3>1, <3>5 DEF Direct!Next
  <2>3. CASE TaCommit
    <3>1. View' = View
      BY <2>3 DEF TaCommit, View
    <3>2. Direct!Commit
      BY <2>3, <3>1 DEF TaCommit
    <3> QED  BY <3>2 DEF Direct!Next
  <2>4. CASE Flush
    <3>1. CASE queue # <<>>
      <4>1. \A t \in Word : TaRead(store', queue', t) = TaRead(store, queue, t)
        <5>1. DOMAIN store = Word
          BY DEF Contents
        <5> QED  BY <2>4, <3>1, <5>1, ReadAfterFlush DEF Flush
      <4>2. View' = View
        BY <4>1 DEF View
      <4>3. UNCHANGED Direct!vars
        BY <2>4, <3>1, <4>2 DEF Flush
      <4> QED  BY <4>3
    <3>2. CASE queue = <<>>
      <4>1. View = store /\ View' = View /\ UNCHANGED store
        BY <2>4, <3>2 DEF Flush, View, TaRead, Places, Contents
      <4>2. UNCHANGED Direct!vars
        BY <2>4, <3>2, <4>1 DEF Flush
      <4> QED  BY <4>2
    <3> QED  BY <3>1, <3>2
  <2>5. CASE TaRollback
    <3>1. View' = store
      BY <2>5 DEF TaRollback, View, TaRead, Places, Contents
    <3>2. Direct!Rollback
      BY <2>5, <3>1 DEF TaRollback
    <3> QED  BY <3>2 DEF Direct!Next
  <2>6. CASE UNCHANGED vars
    BY <2>6 DEF vars, View
  <2> QED  BY <2>1, <2>2, <2>3, <2>4, <2>5, <2>6 DEF Next
<1> QED  BY <1>1, <1>2, QueueTypeCorrect, PTL DEF Spec, ReadsOwnWrites, Direct!Spec

-----------------------------------------------------------------------------
(* The environments: the invariant *)

\* The types of the variables.
EnvTypes ==
    /\ directories \in Assignments
    /\ epc \in [EnvProc -> {"off", "opening", "running", "closing"}]
    /\ cell \in [ListDirectory -> [E!Cell -> {"free", "inuse"}]]
    /\ celllock \in [ListDirectory -> [E!Cell -> EnvProc \cup {NoProc}]]
    /\ glock \in [ListDirectory -> SUBSET EnvProc]
    /\ torn \subseteq ListDirectory
    /\ next \in [EnvProc -> Nat \ {0}]
    /\ retry \in [EnvProc -> BOOLEAN]
    /\ envs \in [EnvProc -> Seq(ListDirectory)]
    /\ lockfd \in [EnvProc -> ListDirectory \cup {Closed}]
    /\ lockpos \in [EnvProc -> Nat]
    /\ locked \in [EnvProc -> BOOLEAN]
    /\ globalfd \in [EnvProc -> ListDirectory \cup {Closed}]

\* The environments of a process are different ones, and each but the last has
\* a lock that the process has forgotten: it keeps it until it ends.
HoldsItsEnvs(p) ==
    /\ \A i \in DOMAIN envs[p] : p \in glock[envs[p][i]]
    /\ \A i, j \in DOMAIN envs[p] : i # j => envs[p][i] # envs[p][j]
    /\ \A i \in DOMAIN envs[p] : i # 1 => envs[p][i] # globalfd[p]

EnvLocked == \A p \in EnvProc : HoldsItsEnvs(p)

\* With one directory for each process: its lists are open with a marked cell
\* that it has locked, or it has no cell; and an environment is in need of
\* recovery while its table has a marked cell of nobody, and only then.
OneDirectory1 == \A p \in EnvProc : Len(directories[p]) = 1

HasNoCell(p) ==
    /\ envs[p] = <<>> /\ lockfd[p] = Closed /\ ~locked[p]
    /\ \A d \in ListDirectory, i \in E!Cell : celllock[d][i] # p

HasItsCell(p, d) ==
    /\ envs[p] = <<d>> /\ lockfd[p] = d /\ locked[p]
    /\ lockpos[p] \in E!Cell /\ cell[d][lockpos[p]] = "inuse"
    /\ \A c \in ListDirectory, i \in E!Cell :
            celllock[c][i] = p <=> c = d /\ i = lockpos[p]

OneCell ==
    OneDirectory1 =>
        /\ \A p \in EnvProc : HasNoCell(p) \/ HasItsCell(p, directories[p][1])
        /\ \A d \in ListDirectory : d \in torn <=> \E i \in E!Cell : E!Orphan(d, i)

\* A cell that is free, and what set_lock takes of it.
LEMMA FirstIsFree ==
    ASSUME NEW p, NEW cells, NEW locks, E!FreeCells(p, cells, locks) # {}
    PROVE  E!First(E!FreeCells(p, cells, locks)) \in E!FreeCells(p, cells, locks)
<1> DEFINE free == E!FreeCells(p, cells, locks)
<1>1. free \in SUBSET Nat
  BY EnvAssumption DEF E!FreeCells, E!Cell, E!NCellsAssumption
<1>2. \E n \in free : \A i \in free : n <= i
  BY <1>1, LeastNat
<1> QED BY <1>2 DEF E!First

\* A step keeps the types of the variables.
LEMMA EnvTypesKept ==
    ASSUME EnvTypes, E!Next
    PROVE  EnvTypes'
<1> USE DEF EnvTypes
<1>1. PICK p \in EnvProc : E!Step(p) \/ E!Crash(p)
  BY DEF E!Next
<1>2. directories' \in Assignments
  BY DEF E!Next
<1>e. ASSUME E!Ends(p), UNCHANGED cell, torn' \subseteq ListDirectory
      PROVE  EnvTypes'
  <2>1. \A d \in ListDirectory : E!Unlocked(p, celllock[d]) \in [E!Cell -> EnvProc \cup {NoProc}]
    BY DEF E!Unlocked
  <2> QED BY <1>2, <1>e, <2>1, EmptySeq DEF E!Ends, E!Go
<1>c. ASSUME NEW d \in ListDirectory, NEW t \in ListDirectory,
             NEW cells \in [ListDirectory -> [E!Cell -> {"free", "inuse"}]],
             NEW locks \in [ListDirectory -> [E!Cell -> EnvProc \cup {NoProc}]],
             E!Claim(p, d, t, cells, locks), UNCHANGED <<epc, retry>>, torn' \subseteq ListDirectory
      PROVE  EnvTypes'
  <2>1. E!First(E!FreeCells(p, cells[t], locks[t])) \in E!Cell
    <3>1. E!FreeCells(p, cells[t], locks[t]) # {}
      BY <1>c DEF E!Claim
    <3>2. E!First(E!FreeCells(p, cells[t], locks[t])) \in E!FreeCells(p, cells[t], locks[t])
      BY <3>1, FirstIsFree
    <3> QED BY <3>2 DEF E!FreeCells
  <2>2. E!Cell \subseteq Nat
    BY EnvAssumption DEF E!Cell, E!NCellsAssumption
  <2>3. envs' \in [EnvProc -> Seq(ListDirectory)]
    <3>1. <<d>> \o envs[p] \in Seq(ListDirectory)
      BY ConcatProperties
    <3> QED BY <1>c, <3>1 DEF E!Claim
  <2>4. /\ cell' \in [ListDirectory -> [E!Cell -> {"free", "inuse"}]]
        /\ celllock' \in [ListDirectory -> [E!Cell -> EnvProc \cup {NoProc}]]
    BY <1>c, <2>1 DEF E!Claim
  <2>5. /\ glock' \in [ListDirectory -> SUBSET EnvProc]
        /\ lockfd' \in [EnvProc -> ListDirectory \cup {Closed}]
        /\ globalfd' \in [EnvProc -> ListDirectory \cup {Closed}]
        /\ locked' \in [EnvProc -> BOOLEAN]
        /\ next' \in [EnvProc -> Nat \ {0}]
    BY <1>c DEF E!Claim
  <2>6. lockpos' \in [EnvProc -> Nat]
    BY <1>c, <2>1, <2>2 DEF E!Claim
  <2> QED BY <1>2, <1>c, <2>3, <2>4, <2>5, <2>6
<1>t. \A d \in ListDirectory : E!Table(p, d) \in ListDirectory
  BY DEF E!Table
<1>envs. ASSUME NEW e \in Seq(ListDirectory) PROVE E!ToSet(e) \subseteq ListDirectory
  BY DEF E!ToSet
<1>3. CASE E!Start(p)
  BY <1>2, <1>3 DEF E!Start, E!Go
<1>4. CASE E!OpenEnvironment(p)
  <2>1. PICK d \in ListDirectory : E!Claim(p, d, E!Table(p, d), cell, celllock)
                               /\ UNCHANGED <<epc, torn, retry>>
    BY <1>4 DEF E!OpenEnvironment
  <2> QED BY <1>c, <1>t, <2>1
<1>5. CASE E!RecoverEnvironment(p)
  <2>1. PICK d \in ListDirectory :
          LET t == E!Table(p, d) IN
          /\ torn' = torn \ {d}
          /\ E!Claim(p, d, d, [cell EXCEPT ![t] = [i \in E!Cell |-> "free"]],
                              [celllock EXCEPT ![t] = E!Unlocked(p, @)])
          /\ UNCHANGED <<epc, retry>>
    BY <1>5 DEF E!RecoverEnvironment
  <2> DEFINE t == E!Table(p, d)
             cells == [cell EXCEPT ![t] = [i \in E!Cell |-> "free"]]
             locks == [celllock EXCEPT ![t] = E!Unlocked(p, @)]
  <2>2. cells \in [ListDirectory -> [E!Cell -> {"free", "inuse"}]]
    BY <1>t
  <2>3. locks \in [ListDirectory -> [E!Cell -> EnvProc \cup {NoProc}]]
    BY <1>t DEF E!Unlocked
  <2>4. E!Claim(p, d, d, cells, locks) /\ UNCHANGED <<epc, retry>> /\ torn' \subseteq ListDirectory
    BY <2>1
  <2> HIDE DEF cells, locks
  <2> QED BY <1>c, <2>2, <2>3, <2>4
<1>6. CASE E!TableFull(p)
  <2>1. CASE E!Ends(p) /\ UNCHANGED <<cell, torn>>
    BY <1>e, <2>1
  <2>2. CASE ~(E!Ends(p) /\ UNCHANGED <<cell, torn>>)
    <3>1. NCells \in Nat
      BY EnvAssumption DEF E!NCellsAssumption
    <3>2. PICK d \in ListDirectory :
            /\ E!Go(p, "closing")
            /\ lockpos' = [lockpos EXCEPT ![p] = NCells]
            /\ glock' = [glock EXCEPT ![d] = @ \cup {p}]
            /\ globalfd' = [globalfd EXCEPT ![p] = d]
            /\ retry' = [retry EXCEPT ![p] = FALSE]
            /\ UNCHANGED <<cell, celllock, torn, next, envs, lockfd, locked>>
      BY <1>6, <2>2 DEF E!TableFull
    <3> QED BY <1>2, <3>1, <3>2 DEF E!Go
  <2> QED BY <2>1, <2>2
<1>7. CASE E!SkipDirectory(p)
  BY <1>2, <1>7 DEF E!SkipDirectory
<1>8. CASE E!ListBusy(p)
  BY <1>2, <1>8 DEF E!ListBusy, E!Go
<1>9. CASE E!EndOfPass(p)
  <2>1. CASE retry[p]
    <3>1. /\ next' = [next EXCEPT ![p] = 1] /\ retry' = [retry EXCEPT ![p] = FALSE]
          /\ UNCHANGED <<epc, cell, celllock, glock, torn, envs, lockfd, lockpos, locked,
                         globalfd>>
      BY <1>9, <2>1 DEF E!EndOfPass
    <3> QED BY <1>2, <3>1
  <2>2. CASE ~retry[p]
    BY <1>2, <1>9, <2>2 DEF E!EndOfPass, E!Go
  <2> QED BY <2>1, <2>2
<1>10. CASE E!AlarmZombie(p)
  BY <1>10, <1>e, <1>envs DEF E!AlarmZombie
<1>11. CASE E!Finish(p)
  BY <1>2, <1>11 DEF E!Finish, E!Go
<1>12. CASE E!Cleanup(p)
  <2>1. envs' \in [EnvProc -> Seq(ListDirectory)]
    BY <1>12, HeadTailProperties DEF E!Cleanup
  <2>2. CASE lockfd[p] # Closed
    <3>1. E!Unlocked(p, celllock[lockfd[p]]) \in [E!Cell -> EnvProc \cup {NoProc}]
      BY <2>2 DEF E!Unlocked
    <3>2. celllock' \in [ListDirectory -> [E!Cell -> EnvProc \cup {NoProc}]]
      BY <1>12, <2>2, <3>1 DEF E!Cleanup
    <3>4. [i \in E!Cell |-> IF i = lockpos[p] THEN "free" ELSE cell[lockfd[p]][i]]
             \in [E!Cell -> {"free", "inuse"}]
      BY <2>2
    <3>3. cell' \in [ListDirectory -> [E!Cell -> {"free", "inuse"}]]
      BY <1>12, <2>2, <3>4 DEF E!Cleanup
    <3> QED BY <1>2, <1>12, <2>1, <2>2, <3>2, <3>3 DEF E!Cleanup
  <2>3. CASE lockfd[p] = Closed
    BY <1>2, <1>12, <2>1, <2>3 DEF E!Cleanup
  <2> QED BY <2>2, <2>3
<1>13. CASE E!Cleaned(p)
  <2>1. CASE retry[p]
    BY <1>2, <1>13, <2>1 DEF E!Cleaned, E!Go
  <2>2. CASE ~retry[p]
    BY <1>13, <1>e, <2>2 DEF E!Cleaned
  <2> QED BY <2>1, <2>2
<1>14. CASE E!Crash(p)
  BY <1>14, <1>e, <1>envs DEF E!Crash
<1> QED BY <1>1, <1>3, <1>4, <1>5, <1>6, <1>7, <1>8, <1>9, <1>10, <1>11, <1>12, <1>13, <1>14
        DEF E!Step

\* A step keeps the locks that a process has on its environments.
LEMMA EnvLockedKept ==
    ASSUME EnvTypes, EnvLocked, E!Next
    PROVE  EnvLocked'
<1> USE DEF EnvTypes
<1>1. PICK p \in EnvProc : E!Step(p) \/ E!Crash(p)
  BY DEF E!Next
<1>s. ASSUME NEW e \in Seq(ListDirectory)
      PROVE  /\ DOMAIN e = 1 .. Len(e) /\ Len(e) \in Nat
             /\ \A i \in DOMAIN e : e[i] \in E!ToSet(e) /\ e[i] \in ListDirectory
  BY LenProperties, ElementOfSeq DEF E!ToSet
<1>u. ASSUME UNCHANGED <<glock, envs, globalfd>>
      PROVE  EnvLocked'
  BY <1>u DEF EnvLocked, HoldsItsEnvs
<1>e. ASSUME E!Ends(p)
      PROVE  EnvLocked'
  <2>1. /\ envs' = [envs EXCEPT ![p] = <<>>]
        /\ glock' = [d \in ListDirectory |-> glock[d] \ {p}]
        /\ globalfd' = [globalfd EXCEPT ![p] = Closed]
    BY <1>e DEF E!Ends
  <2>2. DOMAIN envs'[p] = {}
    BY <2>1, EmptySeq
  <2>3. ASSUME NEW q \in EnvProc, q # p
        PROVE  HoldsItsEnvs(q)'
    <3>1. \A i \in DOMAIN envs'[q] : q \in glock'[envs'[q][i]]
      BY <2>1, <2>3, <1>s DEF EnvLocked, HoldsItsEnvs
    <3>2. envs'[q] = envs[q] /\ globalfd'[q] = globalfd[q]
      BY <2>1, <2>3
    <3> QED BY <3>1, <3>2 DEF EnvLocked, HoldsItsEnvs
  <2>4. HoldsItsEnvs(p)'
    BY <2>2 DEF HoldsItsEnvs
  <2> QED BY <2>3, <2>4 DEF EnvLocked
<1>c. ASSUME NEW d \in ListDirectory, NEW t, NEW cells, NEW locks,
             E!Wants(p, d), E!Claim(p, d, t, cells, locks)
      PROVE  EnvLocked'
  <2>1. /\ envs' = [envs EXCEPT ![p] = <<d>> \o envs[p]]
        /\ glock' = [glock EXCEPT ![d] = @ \cup {p}]
        /\ globalfd' = [globalfd EXCEPT ![p] = d]
    BY <1>c DEF E!Claim
  <2>2. \A i \in DOMAIN envs[p] : envs[p][i] # d
    BY <1>c, <1>s DEF E!Wants
  <2>3. /\ Len(<<d>> \o envs[p]) = Len(envs[p]) + 1
        /\ <<d>> \o envs[p] \in Seq(ListDirectory)
        /\ \A i \in 1 .. Len(envs[p]) + 1 :
                (<<d>> \o envs[p])[i] = IF i = 1 THEN d ELSE envs[p][i - 1]
    BY ConcatProperties, LenProperties
  <2>4. DOMAIN envs'[p] = 1 .. Len(envs[p]) + 1
    BY <2>1, <2>3, <1>s
  <2>5. \A i \in DOMAIN envs'[p] :
            envs'[p][i] = IF i = 1 THEN d ELSE envs[p][i - 1]
    BY <2>1, <2>3, <2>4
  <2>6. \A i \in DOMAIN envs'[p] : i = 1 \/ i - 1 \in DOMAIN envs[p]
    BY <2>4, <1>s
  <2>7. DOMAIN envs'[p] \subseteq Nat
    BY <2>4
  <2>8. /\ \A i \in DOMAIN envs'[p] : p \in glock'[envs'[p][i]]
        /\ \A i, j \in DOMAIN envs'[p] : i # j => envs'[p][i] # envs'[p][j]
        /\ \A i \in DOMAIN envs'[p] : i # 1 => envs'[p][i] # globalfd'[p]
    <3>1. \A i \in DOMAIN envs'[p] : p \in glock'[envs'[p][i]]
      BY <2>1, <2>5, <2>6, <1>s DEF EnvLocked, HoldsItsEnvs
    <3>2. \A i \in DOMAIN envs'[p] : i # 1 => envs'[p][i] # d
      BY <2>2, <2>5, <2>6
    <3>3. \A i, j \in DOMAIN envs'[p] : i # j => envs'[p][i] # envs'[p][j]
      <4> SUFFICES ASSUME NEW i \in DOMAIN envs'[p], NEW j \in DOMAIN envs'[p], i # j
                   PROVE  envs'[p][i] # envs'[p][j]
        OBVIOUS
      <4>1. CASE i = 1 \/ j = 1
        BY <3>2, <2>5, <4>1
      <4>2. CASE i # 1 /\ j # 1
        <5>1. i - 1 \in DOMAIN envs[p] /\ j - 1 \in DOMAIN envs[p] /\ i - 1 # j - 1
          BY <2>6, <2>7, <4>2
        <5> QED BY <2>5, <4>2, <5>1 DEF EnvLocked, HoldsItsEnvs
      <4> QED BY <4>1, <4>2
    <3>4. globalfd'[p] = d
      BY <2>1
    <3> QED BY <3>1, <3>2, <3>3, <3>4
  <2>9. ASSUME NEW q \in EnvProc, q # p
        PROVE  HoldsItsEnvs(q)'
    <3>1. \A i \in DOMAIN envs'[q] : q \in glock'[envs'[q][i]]
      BY <2>1, <2>9, <1>s DEF EnvLocked, HoldsItsEnvs
    <3>2. envs'[q] = envs[q] /\ globalfd'[q] = globalfd[q]
      BY <2>1, <2>9
    <3> QED BY <3>1, <3>2 DEF EnvLocked, HoldsItsEnvs
  <2>10. HoldsItsEnvs(p)'
    BY <2>8 DEF HoldsItsEnvs
  <2> QED BY <2>9, <2>10 DEF EnvLocked
<1>3. CASE E!Start(p)
  BY <1>3, <1>u DEF E!Start
<1>4. CASE E!OpenEnvironment(p)
  BY <1>4, <1>c DEF E!OpenEnvironment
<1>5. CASE E!RecoverEnvironment(p)
  BY <1>5, <1>c DEF E!RecoverEnvironment
<1>6. CASE E!TableFull(p)
  <2>1. CASE E!Ends(p)
    BY <1>e, <2>1
  <2>2. CASE ~E!Ends(p)
    <3>1. PICK d \in ListDirectory :
            /\ E!Wants(p, d)
            /\ glock' = [glock EXCEPT ![d] = @ \cup {p}]
            /\ globalfd' = [globalfd EXCEPT ![p] = d]
            /\ UNCHANGED envs
      BY <1>6, <2>2 DEF E!TableFull
    <3>2. \A i \in DOMAIN envs[p] : envs[p][i] # d
      BY <3>1, <1>s DEF E!Wants
    <3>3. \A q \in EnvProc : \A i \in DOMAIN envs[q] : q \in glock'[envs[q][i]]
      BY <3>1, <1>s DEF EnvLocked, HoldsItsEnvs
    <3>4. \A q \in EnvProc : \A i \in DOMAIN envs[q] : i # 1 => envs[q][i] # globalfd'[q]
      BY <3>1, <3>2 DEF EnvLocked, HoldsItsEnvs
    <3> QED BY <3>1, <3>3, <3>4 DEF EnvLocked, HoldsItsEnvs
  <2> QED BY <2>1, <2>2
<1>7. CASE E!SkipDirectory(p)
  BY <1>7, <1>u DEF E!SkipDirectory
<1>8. CASE E!ListBusy(p)
  BY <1>8, <1>u DEF E!ListBusy
<1>9. CASE E!EndOfPass(p)
  BY <1>9, <1>u DEF E!EndOfPass
<1>10. CASE E!AlarmZombie(p)
  BY <1>10, <1>e DEF E!AlarmZombie
<1>11. CASE E!Finish(p)
  BY <1>11, <1>u DEF E!Finish
<1>12. CASE E!Cleanup(p)
  <2>1. /\ envs[p] # <<>>
        /\ envs' = [envs EXCEPT ![p] = Tail(@)]
        /\ glock' = [d \in ListDirectory |-> IF d = globalfd[p] THEN glock[d] \ {p} ELSE glock[d]]
        /\ globalfd' = [globalfd EXCEPT ![p] = Closed]
    BY <1>12 DEF E!Cleanup
  <2>2. /\ Len(Tail(envs[p])) = Len(envs[p]) - 1
        /\ Tail(envs[p]) \in Seq(ListDirectory)
        /\ \A i \in 1 .. Len(Tail(envs[p])) : Tail(envs[p])[i] = envs[p][i + 1]
    BY <2>1, HeadTailProperties
  <2>3. /\ DOMAIN envs'[p] = 1 .. Len(envs[p]) - 1
        /\ \A i \in DOMAIN envs'[p] : envs'[p][i] = envs[p][i + 1]
    BY <2>1, <2>2, <1>s
  <2>4. \A i \in DOMAIN envs'[p] : i \in Nat /\ i + 1 \in DOMAIN envs[p] /\ i + 1 # 1
    BY <2>3, <1>s
  <2>5. /\ \A i \in DOMAIN envs'[p] : p \in glock'[envs'[p][i]]
        /\ \A i, j \in DOMAIN envs'[p] : i # j => envs'[p][i] # envs'[p][j]
        /\ \A i \in DOMAIN envs'[p] : i # 1 => envs'[p][i] # globalfd'[p]
    <3>1. \A i \in DOMAIN envs'[p] : p \in glock'[envs'[p][i]]
      BY <2>1, <2>3, <2>4, <1>s DEF EnvLocked, HoldsItsEnvs
    <3>2. \A i, j \in DOMAIN envs'[p] : i # j => i + 1 # j + 1
      BY <2>4
    <3>3. \A i, j \in DOMAIN envs'[p] : i # j => envs'[p][i] # envs'[p][j]
      BY <2>3, <2>4, <3>2 DEF EnvLocked, HoldsItsEnvs
    <3>4. globalfd'[p] = Closed /\ Closed \notin ListDirectory
      BY <2>1, EnvAssumption DEF E!NobodyAssumption
    <3>5. \A i \in DOMAIN envs'[p] : envs'[p][i] \in ListDirectory
      BY <2>3, <2>4, <1>s
    <3> QED BY <3>1, <3>3, <3>4, <3>5
  <2>9. ASSUME NEW q \in EnvProc, q # p
        PROVE  HoldsItsEnvs(q)'
    <3>1. \A i \in DOMAIN envs'[q] : q \in glock'[envs'[q][i]]
      BY <2>1, <2>9, <1>s DEF EnvLocked, HoldsItsEnvs
    <3>2. envs'[q] = envs[q] /\ globalfd'[q] = globalfd[q]
      BY <2>1, <2>9
    <3> QED BY <3>1, <3>2 DEF EnvLocked, HoldsItsEnvs
  <2>10. HoldsItsEnvs(p)'
    BY <2>5 DEF HoldsItsEnvs
  <2> QED BY <2>9, <2>10 DEF EnvLocked
<1>13. CASE E!Cleaned(p)
  <2>1. CASE retry[p]
    BY <1>13, <2>1, <1>u DEF E!Cleaned
  <2>2. CASE ~retry[p]
    BY <1>13, <1>e, <2>2 DEF E!Cleaned
  <2> QED BY <2>1, <2>2
<1>14. CASE E!Crash(p)
  BY <1>14, <1>e DEF E!Crash
<1> QED BY <1>1, <1>3, <1>4, <1>5, <1>6, <1>7, <1>8, <1>9, <1>10, <1>11, <1>12, <1>13, <1>14
        DEF E!Step

\* What RecoveredAlone says of a step.
LEMMA RecoveredAloneStep ==
    ASSUME EnvTypes, EnvLocked, E!Next
    PROVE  \A d \in torn \ torn' : \A p \in EnvProc : d \notin E!ToSet(envs[p])
<1> USE DEF EnvTypes
<1>1. PICK p \in EnvProc : E!Step(p) \/ E!Crash(p)
  BY DEF E!Next
<1>2. CASE E!RecoverEnvironment(p)
  <2>1. PICK d \in ListDirectory : E!Wants(p, d) /\ glock[d] \subseteq {p} /\ torn' = torn \ {d}
    BY <1>2 DEF E!RecoverEnvironment
  <2>2. d \notin E!ToSet(envs[p])
    BY <2>1 DEF E!Wants
  <2>3. \A q \in EnvProc : d \in E!ToSet(envs[q]) => q \in glock[d]
    BY DEF EnvLocked, HoldsItsEnvs, E!ToSet
  <2> QED BY <2>1, <2>2, <2>3
<1>3. CASE ~E!RecoverEnvironment(p)
  <2>1. torn \subseteq torn'
    BY <1>1, <1>3 DEF E!Step, E!Start, E!OpenEnvironment, E!TableFull, E!SkipDirectory,
          E!ListBusy, E!EndOfPass, E!AlarmZombie, E!Finish, E!Cleanup, E!Cleaned, E!Crash
  <2> QED BY <2>1
<1> QED BY <1>2, <1>3

\* The cells of the other processes stay theirs in a step of p that takes no
\* lock of theirs and clears no cell that they hold.
LEMMA OthersKeepCells ==
    ASSUME EnvTypes, NEW p \in EnvProc, NEW q \in EnvProc, q # p,
           HasNoCell(q) \/ HasItsCell(q, directories[q][1]),
           directories' = directories, directories[q][1] \in ListDirectory,
           envs'[q] = envs[q], lockfd'[q] = lockfd[q], locked'[q] = locked[q],
           lockpos'[q] = lockpos[q],
           \A d \in ListDirectory, i \in E!Cell :
                /\ celllock'[d][i] = q <=> celllock[d][i] = q
                /\ celllock[d][i] = q /\ cell[d][i] = "inuse" => cell'[d][i] = "inuse"
    PROVE  HasNoCell(q)' \/ HasItsCell(q, directories[q][1])'
<1>1. CASE HasNoCell(q)
  BY <1>1 DEF HasNoCell
<1>2. CASE HasItsCell(q, directories[q][1])
  <2>1. celllock[directories[q][1]][lockpos[q]] = q
    BY <1>2 DEF HasItsCell
  <2> QED BY <1>2, <2>1 DEF HasItsCell
<1> QED BY <1>1, <1>2

\* With one directory each, a step keeps what the table says of the processes.
LEMMA OneCellKept ==
    ASSUME EnvTypes, EnvLocked, OneCell, E!Next
    PROVE  OneCell'
<1> USE DEF EnvTypes
<1>1. PICK p \in EnvProc : E!Step(p) \/ E!Crash(p)
  BY DEF E!Next
<1>2. directories' = directories
  BY DEF E!Next
<1> SUFFICES ASSUME OneDirectory1
             PROVE  /\ (\A q \in EnvProc : HasNoCell(q) \/ HasItsCell(q, directories[q][1]))'
                    /\ (\A d \in ListDirectory : d \in torn <=> \E i \in E!Cell : E!Orphan(d, i))'
  BY <1>2 DEF OneCell, OneDirectory1
<1>3. /\ \A q \in EnvProc : HasNoCell(q) \/ HasItsCell(q, directories[q][1])
      /\ \A d \in ListDirectory : d \in torn <=> \E i \in E!Cell : E!Orphan(d, i)
  BY DEF OneCell
<1>4. \A q \in EnvProc : directories[q] \in Seq(ListDirectory) /\ directories[q][1] \in ListDirectory
  <2>1. \A q \in EnvProc : directories[q] \in Seq(ListDirectory)
    BY EnvAssumption DEF E!AssignmentsAssumption
  <2> QED BY <2>1, ElementOfSeq DEF OneDirectory1
<1>5. NoProc \notin EnvProc /\ Closed \notin ListDirectory
  BY EnvAssumption DEF E!NobodyAssumption
<1>6. ASSUME NEW d \in ListDirectory, E!Wants(p, d)
      PROVE  d = directories[p][1] /\ HasNoCell(p) /\ E!Table(p, d) = d
  <2>1. d = directories[p][1]
    BY <1>6 DEF E!Wants, OneDirectory1
  <2>2. ~HasItsCell(p, d)
    <3>1. d \notin E!ToSet(envs[p])
      BY <1>6 DEF E!Wants
    <3>2. d \in E!ToSet(<<d>>)
      BY DEF E!ToSet
    <3> QED BY <3>1, <3>2 DEF HasItsCell
  <2> QED BY <1>3, <2>1, <2>2 DEF HasNoCell, E!Table
<1>u. ASSUME UNCHANGED <<cell, celllock, torn, envs, lockfd, lockpos, locked>>
      PROVE  /\ (\A q \in EnvProc : HasNoCell(q) \/ HasItsCell(q, directories[q][1]))'
             /\ (\A d \in ListDirectory : d \in torn <=> \E i \in E!Cell : E!Orphan(d, i))'
  BY <1>2, <1>3, <1>u DEF HasNoCell, HasItsCell, E!Orphan
<1>e. ASSUME E!Ends(p), UNCHANGED cell, torn' = torn \cup E!ToSet(envs[p])
      PROVE  /\ (\A q \in EnvProc : HasNoCell(q) \/ HasItsCell(q, directories[q][1]))'
             /\ (\A d \in ListDirectory : d \in torn <=> \E i \in E!Cell : E!Orphan(d, i))'
  <2>1. /\ envs' = [envs EXCEPT ![p] = <<>>]
        /\ lockfd' = [lockfd EXCEPT ![p] = Closed]
        /\ lockpos' = [lockpos EXCEPT ![p] = 0]
        /\ locked' = [locked EXCEPT ![p] = FALSE]
    BY <1>e DEF E!Ends
  <2>2. \A d \in ListDirectory, i \in E!Cell :
            celllock'[d][i] = IF celllock[d][i] = p THEN NoProc ELSE celllock[d][i]
    BY <1>e DEF E!Ends, E!Unlocked
  <2>3. HasNoCell(p)'
    BY <1>5, <2>1, <2>2 DEF HasNoCell
  <2>4. ASSUME NEW q \in EnvProc, q # p
        PROVE  HasNoCell(q)' \/ HasItsCell(q, directories[q][1])'
    <3>1. \A d \in ListDirectory, i \in E!Cell : celllock'[d][i] = q <=> celllock[d][i] = q
      BY <1>5, <2>2, <2>4
    <3>2. envs'[q] = envs[q] /\ lockfd'[q] = lockfd[q] /\ locked'[q] = locked[q]
          /\ lockpos'[q] = lockpos[q]
      BY <2>1, <2>4
    <3> QED BY <1>2, <1>3, <1>4, <1>e, <2>4, <3>1, <3>2, OthersKeepCells
  <2>5. \A d \in ListDirectory : d \in torn' <=> \E i \in E!Cell : E!Orphan(d, i)'
    <3>1. CASE HasNoCell(p)
      <4>1. \A d \in ListDirectory, i \in E!Cell : E!Orphan(d, i)' <=> E!Orphan(d, i)
        BY <1>e, <2>2, <3>1 DEF HasNoCell, E!Orphan
      <4>2. torn' = torn
        BY <1>e, <3>1, EmptySeq DEF HasNoCell, E!ToSet
      <4> QED BY <1>3, <4>1, <4>2
    <3>2. CASE HasItsCell(p, directories[p][1])
      <4> DEFINE D0 == directories[p][1]
      <4>1. torn' = torn \cup {D0}
        BY <1>e, <3>2 DEF HasItsCell, E!ToSet
      <4>2. /\ lockpos[p] \in E!Cell /\ D0 \in ListDirectory
            /\ cell'[D0][lockpos[p]] = "inuse" /\ celllock'[D0][lockpos[p]] = NoProc
        BY <1>4, <1>e, <2>2, <3>2 DEF HasItsCell
      <4>3. \A d \in ListDirectory, i \in E!Cell : d # D0 => (E!Orphan(d, i)' <=> E!Orphan(d, i))
        BY <1>e, <2>2, <3>2 DEF HasItsCell, E!Orphan
      <4>4. ASSUME NEW d \in ListDirectory, d = D0
            PROVE  \E i \in E!Cell : E!Orphan(d, i)'
        BY <4>2, <4>4 DEF E!Orphan
      <4> QED BY <1>3, <4>1, <4>3, <4>4
    <3> QED BY <1>3, <3>1, <3>2
  <2> QED BY <2>3, <2>4, <2>5
<1>c. ASSUME NEW d \in ListDirectory, E!Wants(p, d),
             NEW cells \in [ListDirectory -> [E!Cell -> {"free", "inuse"}]],
             \A c \in ListDirectory, j \in E!Cell :
                celllock[c][j] \in EnvProc => cells[c][j] = cell[c][j],
             E!Claim(p, d, d, cells, celllock),
             \A c \in ListDirectory : c \in torn' <=>
                \E i \in E!Cell : cells[c][i] = "inuse" /\ celllock[c][i] = NoProc
      PROVE  /\ (\A q \in EnvProc : HasNoCell(q) \/ HasItsCell(q, directories[q][1]))'
             /\ (\A c \in ListDirectory : c \in torn <=> \E i \in E!Cell : E!Orphan(c, i))'
  <2> DEFINE i == E!First(E!FreeCells(p, cells[d], celllock[d]))
  <2>1. d = directories[p][1] /\ HasNoCell(p)
    BY <1>6, <1>c
  <2>2. i \in E!Cell /\ cells[d][i] = "free" /\ celllock[d][i] = NoProc
    <3>1. E!FreeCells(p, cells[d], celllock[d]) # {}
      BY <1>c DEF E!Claim
    <3>2. i \in E!FreeCells(p, cells[d], celllock[d])
      BY <3>1, FirstIsFree
    <3>3. i \in E!Cell /\ cells[d][i] = "free" /\ celllock[d][i] \in {NoProc, p}
      BY <3>2 DEF E!FreeCells
    <3> QED BY <1>c, <2>1, <3>3 DEF HasNoCell
  <2>3. /\ cell' = [cells EXCEPT ![d][i] = "inuse"]
        /\ celllock' = [celllock EXCEPT ![d][i] = p]
        /\ lockfd' = [lockfd EXCEPT ![p] = d]
        /\ lockpos' = [lockpos EXCEPT ![p] = i]
        /\ locked' = [locked EXCEPT ![p] = TRUE]
        /\ envs' = [envs EXCEPT ![p] = <<d>> \o envs[p]]
    BY <1>c DEF E!Claim
  <2> HIDE DEF i
  <2>4. /\ \A c \in ListDirectory, j \in E!Cell :
                cell'[c][j] = IF c = d /\ j = i THEN "inuse" ELSE cells[c][j]
        /\ \A c \in ListDirectory, j \in E!Cell :
                celllock'[c][j] = IF c = d /\ j = i THEN p ELSE celllock[c][j]
    BY <1>c, <2>2, <2>3
  <2>5. HasItsCell(p, d)'
    <3>1. envs'[p] = <<d>>
      <4>1. envs[p] = <<>> /\ <<d>> \in Seq(ListDirectory)
        BY <2>1 DEF HasNoCell
      <4>2. <<d>> \o <<>> = <<d>>
        BY <4>1, ConcatEmptySeq
      <4> QED BY <2>3, <4>1, <4>2
    <3>2. lockfd'[p] = d /\ locked'[p] /\ lockpos'[p] = i
      BY <2>3
    <3>3. \A c \in ListDirectory, j \in E!Cell : celllock'[c][j] = p <=> c = d /\ j = i
      BY <2>1, <2>4 DEF HasNoCell
    <3> QED BY <2>2, <2>4, <3>1, <3>2, <3>3 DEF HasItsCell
  <2>6. ASSUME NEW q \in EnvProc, q # p
        PROVE  HasNoCell(q)' \/ HasItsCell(q, directories[q][1])'
    <3>1. \A c \in ListDirectory, j \in E!Cell :
                /\ celllock'[c][j] = q <=> celllock[c][j] = q
                /\ celllock[c][j] = q /\ cell[c][j] = "inuse" => cell'[c][j] = "inuse"
      BY <1>5, <1>c, <2>2, <2>4, <2>6
    <3>2. envs'[q] = envs[q] /\ lockfd'[q] = lockfd[q] /\ locked'[q] = locked[q]
          /\ lockpos'[q] = lockpos[q]
      BY <2>3, <2>6
    <3> QED BY <1>2, <1>3, <1>4, <2>6, <3>1, <3>2, OthersKeepCells
  <2>7. \A c \in ListDirectory : c \in torn' <=> \E j \in E!Cell : E!Orphan(c, j)'
    <3>1. \A c \in ListDirectory, j \in E!Cell :
            E!Orphan(c, j)' <=> cells[c][j] = "inuse" /\ celllock[c][j] = NoProc
      BY <1>5, <2>2, <2>4 DEF E!Orphan
    <3> QED BY <1>c, <3>1
  <2>8. directories'[p][1] = d
    BY <1>2, <2>1
  <2> QED BY <2>5, <2>6, <2>7, <2>8
<1>7. CASE E!Start(p)
  BY <1>7, <1>u DEF E!Start
<1>8. CASE E!OpenEnvironment(p)
  <2>1. PICK d \in ListDirectory : E!Wants(p, d) /\ E!Claim(p, d, E!Table(p, d), cell, celllock)
                               /\ UNCHANGED torn
    BY <1>8 DEF E!OpenEnvironment
  <2>2. E!Table(p, d) = d
    BY <1>6, <2>1
  <2>3. \A c \in ListDirectory : c \in torn' <=>
            \E i \in E!Cell : cell[c][i] = "inuse" /\ celllock[c][i] = NoProc
    BY <1>3, <2>1 DEF E!Orphan
  <2> QED BY <1>c, <2>1, <2>2, <2>3
<1>9. CASE E!RecoverEnvironment(p)
  <2>1. PICK d \in ListDirectory :
          LET t == E!Table(p, d) IN
          /\ E!Wants(p, d)
          /\ glock[d] \subseteq {p}
          /\ torn' = torn \ {d}
          /\ E!Claim(p, d, d, [cell EXCEPT ![t] = [i \in E!Cell |-> "free"]],
                              [celllock EXCEPT ![t] = E!Unlocked(p, @)])
    BY <1>9 DEF E!RecoverEnvironment
  <2> DEFINE cells == [cell EXCEPT ![d] = [i \in E!Cell |-> "free"]]
  <2>2. /\ cells \in [ListDirectory -> [E!Cell -> {"free", "inuse"}]]
        /\ \A c \in ListDirectory, j \in E!Cell :
                cells[c][j] = IF c = d THEN "free" ELSE cell[c][j]
    OBVIOUS
  <2>5. HasNoCell(p) /\ E!Table(p, d) = d
    BY <1>6, <2>1
  <2>6. E!Unlocked(p, celllock[d]) = celllock[d]
    BY <2>5 DEF E!Unlocked, HasNoCell
  <2>7. \A j \in E!Cell : celllock[d][j] = NoProc
    <3> SUFFICES ASSUME NEW j \in E!Cell, NEW q \in EnvProc, celllock[d][j] = q
                 PROVE  FALSE
      OBVIOUS
    <3>1. HasItsCell(q, d)
      <4>1. HasItsCell(q, directories[q][1])
        BY <1>3 DEF HasNoCell
      <4>2. directories[q][1] = d
        BY <4>1 DEF HasItsCell
      <4> QED BY <4>1, <4>2
    <3>2. q \in glock[d]
      <4>1. envs[q] = <<d>>
        BY <3>1 DEF HasItsCell
      <4>2. 1 \in DOMAIN envs[q] /\ envs[q][1] = d
        BY <4>1
      <4> QED BY <4>2 DEF EnvLocked, HoldsItsEnvs
    <3>3. q # p
      BY <2>5 DEF HasNoCell
    <3> QED BY <2>1, <3>2, <3>3
  <2>8. E!Claim(p, d, d, cells, celllock)
    <3>1. [celllock EXCEPT ![d] = E!Unlocked(p, @)] = celllock
      BY <2>6
    <3> QED BY <2>1, <2>5, <3>1
  <2>9. \A c \in ListDirectory : c \in torn' <=>
            \E i \in E!Cell : cells[c][i] = "inuse" /\ celllock[c][i] = NoProc
    BY <1>3, <2>1, <2>2 DEF E!Orphan
  <2>10. \A c \in ListDirectory, j \in E!Cell :
            celllock[c][j] \in EnvProc => cells[c][j] = cell[c][j]
    BY <1>5, <2>2, <2>7
  <2> HIDE DEF cells
  <2>11. E!Wants(p, d) /\ cells \in [ListDirectory -> [E!Cell -> {"free", "inuse"}]]
    BY <2>1, <2>2
  <2>12. ASSUME NEW cs \in [ListDirectory -> [E!Cell -> {"free", "inuse"}]],
               \A c \in ListDirectory, j \in E!Cell :
                  celllock[c][j] \in EnvProc => cs[c][j] = cell[c][j],
               E!Claim(p, d, d, cs, celllock),
               \A c \in ListDirectory : c \in torn' <=>
                  \E i \in E!Cell : cs[c][i] = "inuse" /\ celllock[c][i] = NoProc
         PROVE /\ (\A q \in EnvProc : HasNoCell(q) \/ HasItsCell(q, directories[q][1]))'
               /\ (\A c \in ListDirectory : c \in torn <=> \E i \in E!Cell : E!Orphan(c, i))'
     BY <1>c, <2>12, <2>11
  <2> QED BY <2>12, <2>11, <2>8, <2>9, <2>10
<1>10. CASE E!TableFull(p)
  <2>1. PICK d \in ListDirectory : E!Wants(p, d)
                               /\ (envs[p] = <<>> => E!Ends(p) /\ UNCHANGED <<cell, torn>>)
    BY <1>10 DEF E!TableFull
  <2>2. envs[p] = <<>>
    BY <1>6, <2>1 DEF HasNoCell
  <2>3. E!ToSet(envs[p]) = {}
    BY <2>2, EmptySeq DEF E!ToSet
  <2> QED BY <1>e, <2>1, <2>2, <2>3
<1>11. CASE E!SkipDirectory(p)
  BY <1>11, <1>u DEF E!SkipDirectory
<1>12. CASE E!ListBusy(p)
  BY <1>12, <1>u DEF E!ListBusy
<1>13. CASE E!EndOfPass(p)
  BY <1>13, <1>u DEF E!EndOfPass
<1>14. CASE E!AlarmZombie(p)
  BY <1>14, <1>e DEF E!AlarmZombie
<1>15. CASE E!Finish(p)
  BY <1>15, <1>u DEF E!Finish
<1>16. CASE E!Cleanup(p)
  <2> DEFINE D0 == directories[p][1]
  <2>1. HasItsCell(p, D0)
    BY <1>3, <1>16 DEF E!Cleanup, HasNoCell
  <2>2. lockfd[p] = D0 /\ D0 # Closed /\ D0 \in ListDirectory /\ lockpos[p] \in E!Cell
    BY <1>4, <1>5, <2>1 DEF HasItsCell
  <2>3. /\ envs' = [envs EXCEPT ![p] = Tail(@)]
        /\ cell' = [cell EXCEPT ![D0] =
                       [i \in E!Cell |-> IF i = lockpos[p] THEN "free" ELSE @[i]]]
        /\ celllock' = [celllock EXCEPT ![D0] = E!Unlocked(p, @)]
        /\ lockfd' = [lockfd EXCEPT ![p] = Closed]
        /\ locked' = [locked EXCEPT ![p] = FALSE]
        /\ UNCHANGED <<torn, lockpos>>
    BY <1>16, <2>2 DEF E!Cleanup
  <2>4. \A c \in ListDirectory, j \in E!Cell :
            cell'[c][j] = IF c = D0 /\ j = lockpos[p] THEN "free" ELSE cell[c][j]
    BY <2>2, <2>3
  <2>5. \A c \in ListDirectory, j \in E!Cell :
            celllock'[c][j] = IF c = D0 /\ j = lockpos[p] THEN NoProc ELSE celllock[c][j]
    <3>1. \A j \in E!Cell : E!Unlocked(p, celllock[D0])[j] =
                                IF j = lockpos[p] THEN NoProc ELSE celllock[D0][j]
      BY <2>1, <2>2 DEF E!Unlocked, HasItsCell
    <3> QED BY <2>2, <2>3, <3>1
  <2>6. celllock[D0][lockpos[p]] = p
    BY <2>1, <2>2 DEF HasItsCell
  <2>7. HasNoCell(p)'
    <3>1. envs'[p] = <<>>
      BY <2>1, <2>3 DEF HasItsCell
    <3>2. \A c \in ListDirectory, j \in E!Cell : celllock'[c][j] # p
      BY <1>5, <2>1, <2>5 DEF HasItsCell
    <3> QED BY <2>3, <3>1, <3>2 DEF HasNoCell
  <2>8. ASSUME NEW q \in EnvProc, q # p
        PROVE  HasNoCell(q)' \/ HasItsCell(q, directories[q][1])'
    <3>1. \A c \in ListDirectory, j \in E!Cell :
                /\ celllock'[c][j] = q <=> celllock[c][j] = q
                /\ celllock[c][j] = q /\ cell[c][j] = "inuse" => cell'[c][j] = "inuse"
      <4>1. \A c \in ListDirectory, j \in E!Cell : celllock'[c][j] = q <=> celllock[c][j] = q
        <5> SUFFICES ASSUME NEW c \in ListDirectory, NEW j \in E!Cell
                     PROVE  celllock'[c][j] = q <=> celllock[c][j] = q
          OBVIOUS
        <5>1. CASE c = D0 /\ j = lockpos[p]
          BY <1>5, <2>5, <2>6, <2>8, <5>1
        <5>2. CASE ~(c = D0 /\ j = lockpos[p])
          BY <2>5, <5>2
        <5> QED BY <5>1, <5>2
      <4>2. \A c \in ListDirectory, j \in E!Cell : celllock[c][j] = q => cell'[c][j] = cell[c][j]
        BY <2>4, <2>6, <2>8
      <4> QED BY <4>1, <4>2
    <3>2. envs'[q] = envs[q] /\ lockfd'[q] = lockfd[q] /\ locked'[q] = locked[q]
          /\ lockpos'[q] = lockpos[q]
      BY <2>3, <2>8
    <3> QED BY <1>2, <1>3, <1>4, <2>8, <3>1, <3>2, OthersKeepCells
  <2>9. \A c \in ListDirectory : c \in torn' <=> \E j \in E!Cell : E!Orphan(c, j)'
    <3>1. \A c \in ListDirectory, j \in E!Cell : E!Orphan(c, j)' <=> E!Orphan(c, j)
      BY <1>5, <2>4, <2>5, <2>6 DEF E!Orphan
    <3> QED BY <1>3, <2>3, <3>1
  <2> QED BY <2>7, <2>8, <2>9
<1>17. CASE E!Cleaned(p)
  <2>1. CASE retry[p]
    BY <1>17, <2>1, <1>u DEF E!Cleaned
  <2>2. CASE ~retry[p]
    <3>1. E!Ends(p) /\ UNCHANGED <<cell, torn>> /\ envs[p] = <<>>
      BY <1>17, <2>2 DEF E!Cleaned
    <3>2. E!ToSet(envs[p]) = {}
      BY <3>1, EmptySeq DEF E!ToSet
    <3> QED BY <1>e, <3>1, <3>2
  <2> QED BY <2>1, <2>2
<1>18. CASE E!Crash(p)
  BY <1>18, <1>e DEF E!Crash
<1> QED BY <1>1, <1>7, <1>8, <1>9, <1>10, <1>11, <1>12, <1>13, <1>14, <1>15, <1>16, <1>17, <1>18
        DEF E!Step

\* What the cells of one directory mean for the crash detector.
LEMMA OneCellIsSafe ==
    ASSUME EnvTypes, OneCell
    PROVE  E!OneDirectoryIsSafe
<1> USE DEF EnvTypes
<1> SUFFICES ASSUME OneDirectory1
             PROVE  E!TraceMeansCrash /\ E!OwnCellKnown /\ E!CrashSeen
  BY DEF E!OneDirectoryIsSafe, OneDirectory1
<1>1. /\ \A q \in EnvProc : HasNoCell(q) \/ HasItsCell(q, directories[q][1])
      /\ \A d \in ListDirectory : d \in torn <=> \E i \in E!Cell : E!Orphan(d, i)
  BY DEF OneCell
<1>2. E!TraceMeansCrash
  BY <1>1 DEF E!TraceMeansCrash
<1>3. E!OwnCellKnown
  <2> SUFFICES ASSUME NEW p \in EnvProc, locked[p], NEW i \in E!Cell,
                      celllock[lockfd[p]][i] = p
               PROVE  E!CellLocked(p, lockfd[p], i)
    BY DEF E!OwnCellKnown
  <2>1. HasItsCell(p, directories[p][1])
    BY <1>1 DEF HasNoCell
  <2>2. lockfd[p] \in ListDirectory
    BY <2>1, EnvAssumption, ElementOfSeq DEF HasItsCell, E!AssignmentsAssumption, OneDirectory1
  <2> QED BY <2>1, <2>2 DEF HasItsCell, E!CellLocked
<1>4. E!CrashSeen
  <2> SUFFICES ASSUME NEW p \in EnvProc, NEW d \in torn, E!Wants(p, d)
               PROVE  E!Zombies(p, E!Table(p, d))
    BY DEF E!CrashSeen
  <2>1. d = directories[p][1] /\ d \notin E!ToSet(envs[p])
    BY DEF E!Wants, OneDirectory1
  <2>2. HasNoCell(p)
    <3>1. d \in E!ToSet(<<d>>)
      BY DEF E!ToSet
    <3> QED BY <1>1, <2>1, <3>1 DEF HasItsCell
  <2>3. E!Table(p, d) = d /\ ~locked[p]
    BY <2>2 DEF HasNoCell, E!Table
  <2>4. PICK i \in E!Cell : E!Orphan(d, i)
    BY <1>1
  <2> QED BY <2>3, <2>4 DEF E!Zombies, E!CellLocked, E!Orphan
<1> QED BY <1>2, <1>3, <1>4

\* The invariant holds at the start: no process has opened a list.
LEMMA EnvStarts ==
    ASSUME EnvInit
    PROVE  EnvTypes /\ EnvLocked /\ OneCell
<1>1. E!Init /\ directories \in Assignments
  BY DEF EnvInit, E!Init
<1>2. E!Cell \subseteq Nat /\ 0 \in E!Cell
  BY EnvAssumption DEF E!Cell, E!NCellsAssumption
<1>3. EnvTypes
  BY <1>1, <1>2, EmptySeq DEF E!Init, EnvTypes
<1>4. EnvLocked
  BY <1>1, EmptySeq DEF E!Init, EnvLocked, HoldsItsEnvs
<1>5. OneCell
  <2>1. \A p \in EnvProc : HasNoCell(p)
    BY <1>1, EnvAssumption DEF E!Init, HasNoCell, E!NobodyAssumption
  <2>2. torn = {} /\ \A d \in ListDirectory, i \in E!Cell : ~E!Orphan(d, i)
    BY <1>1 DEF E!Init, E!Orphan
  <2> QED BY <2>1, <2>2 DEF OneCell
<1> QED BY <1>3, <1>4, <1>5

\* The steps of the other components keep it.
LEMMA EnvStutters ==
    ASSUME EnvTypes, EnvLocked, OneCell, UNCHANGED envVars
    PROVE  EnvTypes' /\ EnvLocked' /\ OneCell'
<1>1. EnvTypes'
  BY DEF EnvTypes, envVars
<1>2. EnvLocked'
  BY DEF EnvLocked, HoldsItsEnvs, envVars
<1>3. OneCell'
  <2> USE DEF envVars
  <2>1. \A p \in EnvProc : HasNoCell(p)' = HasNoCell(p)
    BY DEF HasNoCell
  <2>2. \A p \in EnvProc : HasItsCell(p, directories[p][1])' = HasItsCell(p, directories[p][1])
    BY DEF HasItsCell
  <2>3. \A d \in ListDirectory, i \in E!Cell : E!Orphan(d, i)' = E!Orphan(d, i)
    BY DEF E!Orphan
  <2> QED BY <2>1, <2>2, <2>3 DEF OneCell, OneDirectory1
<1> QED BY <1>1, <1>2, <1>3

\* A step is one of the environments, or leaves them alone.
LEMMA EnvSteps ==
    [CommandsNext]_allVars => E!Next \/ UNCHANGED envVars
BY DEF CommandsNext, allVars, Environments, Queue, Options, OtherOptions, Loop, Maintain,
       DumpOrLoad

\* The invariant of the environments.
LEMMA EnvInvariance == CommandsSpec => [](EnvTypes /\ EnvLocked /\ OneCell)
<1>1. CommandsInit => EnvTypes /\ EnvLocked /\ OneCell
  BY EnvStarts DEF CommandsInit
<1>2. EnvTypes /\ EnvLocked /\ OneCell /\ [CommandsNext]_allVars
        => (EnvTypes /\ EnvLocked /\ OneCell)'
  BY EnvSteps, EnvTypesKept, EnvLockedKept, OneCellKept, EnvStutters
<1> QED BY <1>1, <1>2, PTL DEF CommandsSpec

\* lock_init, set_lock and db_try_glock (datastore_db_trans.c, db_lock.c): for
\* any processes, directories and size of the table, while each process has its
\* lists in one directory, an environment that a crash has torn shows it by a
\* marked cell, and only such an environment does.
THEOREM CommandsOneDirectory == CommandsSpec => []OneDirectoryIsSafe
<1>1. EnvTypes /\ EnvLocked /\ OneCell => OneDirectoryIsSafe
  BY OneCellIsSafe DEF OneDirectoryIsSafe
<1> QED BY <1>1, EnvInvariance, PTL

\* For any processes and lists, in one directory or in several: db_recover runs
\* while no process has the environment open, the one that recovers excepted.
THEOREM CommandsRecoverAlone == CommandsSpec => RecoveredAlone
<1>1. EnvTypes /\ EnvLocked /\ OneCell /\ [CommandsNext]_allVars
        => [\A d \in torn \ torn' : \A p \in EnvProc : d \notin E!ToSet(envs[p])]_(E!vars)
  BY EnvSteps, RecoveredAloneStep DEF envVars, E!vars
<1> QED BY <1>1, EnvInvariance, PTL DEF CommandsSpec, RecoveredAlone, E!RecoveredAlone

-----------------------------------------------------------------------------
(* The loop over the messages: the invariant *)

\* A new wordlist.
LoopZero == [k \in M!Key |-> [spam |-> 0, good |-> 0]]

\* The types of the variables.
LoopTypes ==
    /\ mode \in Modes
    /\ mpc \in {"more", "classify", "next", "close", "done", "died"}
    /\ db \in [M!Key -> M!Count]
    /\ disk \in [M!Key -> M!Count]
    /\ left \in 0 .. MaxMessages
    /\ w \in SUBSET LoopToken
    /\ words \in [LoopToken -> 0 .. MaxMessages]
    /\ msgcount \in 0 .. MaxMessages
    /\ fDie \in BOOLEAN
    /\ history \in Seq([incr : {"spam", "good", "none"}, decr : {"spam", "good", "none"},
                        tokens : SUBSET LoopToken])

\* MaxMessages - left messages have been read.
LoopBounds ==
    /\ msgcount <= MaxMessages - left
    /\ \A t \in LoopToken : words[t] <= MaxMessages - left
    /\ Len(history) <= MaxMessages - left
    /\ mpc = "classify" => /\ msgcount >= 1 /\ M!Classifies
                           /\ mode.update => Len(history) < MaxMessages - left

\* Nothing is written before the end.
LoopDisk ==
    /\ disk = IF mpc = "done" THEN db ELSE LoopZero
    /\ mpc = "died" => db = disk

\* -s or -n without -p: the messages are registered together, at the end.
Pending ==
    mode.incr # "none" /\ ~mode.passthrough /\ mpc \in {"more", "next"}

\* The messages of the history that were registered for ix with t.
Times(t, ix) == Cardinality(M!RegisteredAs(ix) \cap M!With(t))

\* Where nothing is taken away, a count is the number of messages that were
\* registered with the token, at once or at the end.
LoopCounted ==
    mode.decr = "none" /\ mpc # "died" =>
        /\ \A t \in LoopToken, ix \in {"spam", "good"} :
            /\ db[t][ix] = IF Pending THEN 0 ELSE Times(t, ix)
            /\ db[t][ix] <= db[MsgCount][ix]
            /\ Pending => Times(t, ix) = IF ix = mode.incr THEN words[t] ELSE 0
        /\ Pending => \A t \in LoopToken : words[t] <= msgcount
        /\ mpc \notin {"close", "done"} =>
            \A ix \in {"spam", "good"} :
                db[MsgCount][ix] <= IF Pending THEN 0 ELSE Len(history) * MaxMessages

LoopInv == LoopTypes /\ LoopBounds /\ LoopDisk /\ LoopCounted

\* Sums that fit are not reduced.
LEMMA LoopSum ==
    ASSUME NEW n \in Nat, NEW k \in Nat
    PROVE  /\ (n + k) % LoopWord \in 0 .. LoopWord - 1
           /\ n + k < LoopWord => (n + k) % LoopWord = n + k
<1>1. LoopWord \in Nat /\ LoopWord > 0 /\ n + k \in Nat
  BY LoopAssumption DEF M!RoomAssumption
<1> QED BY <1>1

\* The numbers of a run fit in a word, whatever it counts.
LEMMA RoomForMessages ==
    ASSUME NEW n \in Nat, n < MaxMessages
    PROVE  /\ n * MaxMessages \in Nat
           /\ (n + 1) * MaxMessages = n * MaxMessages + MaxMessages
           /\ n * MaxMessages + MaxMessages < LoopWord
           /\ n < LoopWord /\ n + 1 < LoopWord /\ MaxMessages < LoopWord
<1>1. MaxMessages \in Nat /\ MaxMessages * MaxMessages < LoopWord /\ LoopWord \in Nat
  BY LoopAssumption DEF M!RoomAssumption, M!MaxMessagesAssumption
<1>2. /\ n * MaxMessages \in Nat
      /\ (n + 1) * MaxMessages = n * MaxMessages + MaxMessages
  BY <1>1
<1>3. (n + 1) * MaxMessages <= MaxMessages * MaxMessages
  BY <1>1
<1>4. MaxMessages <= MaxMessages * MaxMessages
  BY <1>1
<1> QED BY <1>1, <1>2, <1>3, <1>4

\* So do those below them.
LEMMA RoomBelow ==
    ASSUME NEW a \in Nat, NEW b \in Nat, NEW c \in Nat, NEW m \in Nat, NEW n \in Nat,
           a <= b, b <= c
    PROVE  /\ c + m < n => a + m < n
           /\ n <= b + m => n <= c + m
OBVIOUS

\* What a job is, and what it does to a count when it takes none away.
LoopJobs ==
    [incr : {"spam", "good", "none"}, decr : {"spam", "good", "none"},
     freq : [LoopToken -> Nat], msgs : Nat]

\* What a job adds to a key is a number.
LEMMA AmountIsNat ==
    ASSUME NEW job \in LoopJobs, NEW k \in M!Key
    PROVE  M!Amount(job, k) \in Nat
BY DEF LoopJobs, M!Amount, M!Key

\* A registration leaves counts.
LEMMA RegisteredTypes ==
    ASSUME NEW job \in LoopJobs, NEW list0 \in [M!Key -> M!Count]
    PROVE  M!Registered(job, list0) \in [M!Key -> M!Count]
<1>w. LoopWord \in Nat /\ LoopWord > 0
  BY LoopAssumption DEF M!RoomAssumption
<1>1. ASSUME NEW n \in 0 .. LoopWord - 1, NEW a \in Nat
      PROVE  M!Added(n, a) \in 0 .. LoopWord - 1 /\ M!Removed(n, a) \in 0 .. LoopWord - 1
  BY <1>w, LoopSum DEF M!Added, M!Removed
<1>2. \A k \in M!Key : M!Updated(job, k, list0[k]) \in M!Count
  BY <1>1, AmountIsNat DEF M!Updated, M!Count
<1> QED BY <1>2 DEF M!Registered

\* A registration that takes nothing away adds its amounts, if they fit.
LEMMA RegisteredCounts ==
    ASSUME NEW job \in LoopJobs, job.decr = "none", NEW list0 \in [M!Key -> M!Count],
           NEW k \in M!Key, NEW ix \in {"spam", "good"}
    PROVE  M!Registered(job, list0)[k][ix] =
              IF ix = job.incr THEN (list0[k][ix] + M!Amount(job, k)) % LoopWord
                               ELSE list0[k][ix]
<1>w. LoopWord \in Nat /\ LoopWord > 0
  BY LoopAssumption DEF M!RoomAssumption
<1>t. list0[k] \in M!Count /\ list0[k][ix] \in 0 .. LoopWord - 1
  BY DEF M!Count
<1>1. CASE k \in M!Keys(job)
  <2>1. M!Registered(job, list0)[k] = M!Updated(job, k, list0[k])
    BY <1>1 DEF M!Registered
  <2> QED BY <2>1 DEF M!Updated, M!Added
<1>2. CASE k \notin M!Keys(job)
  <2>1. M!Amount(job, k) = 0
    BY <1>2 DEF M!Amount, M!Keys, M!Tokens, M!Key, LoopJobs
  <2>2. M!Registered(job, list0)[k] = list0[k]
    BY <1>2 DEF M!Registered
  <2>3. (list0[k][ix] + 0) % LoopWord = list0[k][ix]
    BY <1>t, <1>w, LoopSum
  <2> QED BY <2>1, <2>2, <2>3
<1> QED BY <1>1, <1>2

\* The job of one message.
LEMMA JobOfMessage ==
    ASSUME NEW ix \in {"spam", "good", "none"}, NEW jx \in {"spam", "good", "none"},
           NEW tokens \in SUBSET LoopToken, NEW msgs \in Nat
    PROVE  /\ M!JobOf(ix, jx, tokens, msgs) \in LoopJobs
           /\ M!JobOf(ix, jx, tokens, msgs).incr = ix /\ M!JobOf(ix, jx, tokens, msgs).decr = jx
           /\ \A t \in LoopToken : M!Amount(M!JobOf(ix, jx, tokens, msgs), t)
                                    = IF t \in tokens THEN 1 ELSE 0
           /\ M!Amount(M!JobOf(ix, jx, tokens, msgs), MsgCount)
                = IF tokens = {} THEN 0 ELSE msgs
<1> DEFINE job == M!JobOf(ix, jx, tokens, msgs)
<1>1. /\ job \in LoopJobs /\ job.incr = ix /\ job.decr = jx /\ job.msgs = msgs
      /\ \A t \in LoopToken : job.freq[t] = IF t \in tokens THEN 1 ELSE 0
  BY DEF M!JobOf, LoopJobs
<1>2. M!Tokens(job) = tokens
  BY <1>1 DEF M!Tokens
<1>3. MsgCount \notin LoopToken
  BY LoopAssumption
<1> QED BY <1>1, <1>2, <1>3 DEF M!Amount

\* One message more in the history.
LEMMA OneMoreMessage ==
    ASSUME LoopTypes, NEW ix \in {"spam", "good", "none"}, NEW jx \in {"spam", "good", "none"},
           NEW tokens \in SUBSET LoopToken, M!Happened(ix, jx, tokens)
    PROVE  /\ history' \in Seq([incr : {"spam", "good", "none"},
                                decr : {"spam", "good", "none"}, tokens : SUBSET LoopToken])
           /\ Len(history') = Len(history) + 1
           /\ \A t \in LoopToken, kx \in {"spam", "good"} :
                Times(t, kx)' = Times(t, kx) + IF kx = ix /\ t \in tokens THEN 1 ELSE 0
<1> DEFINE Entries == [incr : {"spam", "good", "none"}, decr : {"spam", "good", "none"},
                       tokens : SUBSET LoopToken]
           new == [incr |-> ix, decr |-> jx, tokens |-> tokens]
<1>1. new \in Entries /\ history \in Seq(Entries) /\ history' = Append(history, new)
  BY DEF LoopTypes, M!Happened
<1>2. /\ history' \in Seq(Entries) /\ Len(history') = Len(history) + 1
      /\ \A i \in 1 .. Len(history) : history'[i] = history[i]
      /\ history'[Len(history) + 1] = new
  BY <1>1, AppendProperties
<1>3. DOMAIN history = 1 .. Len(history) /\ Len(history) \in Nat
      /\ DOMAIN history' = 1 .. Len(history) + 1
  BY <1>1, <1>2, LenProperties
<1>4. ASSUME NEW t \in LoopToken, NEW kx \in {"spam", "good"}
      PROVE  Times(t, kx)' = Times(t, kx) + IF kx = ix /\ t \in tokens THEN 1 ELSE 0
  <2> DEFINE S == {i \in 1 .. Len(history) : history[i].incr = kx /\ t \in history[i].tokens}
             n == Len(history) + 1
  <2>1. M!RegisteredAs(kx) \cap M!With(t) = S
    BY <1>3 DEF M!RegisteredAs, M!With
  <2>2. (M!RegisteredAs(kx) \cap M!With(t))' =
            {i \in 1 .. Len(history) + 1 : history'[i].incr = kx /\ t \in history'[i].tokens}
    BY <1>3 DEF M!RegisteredAs, M!With
  <2>3. (M!RegisteredAs(kx) \cap M!With(t))' = IF kx = ix /\ t \in tokens THEN S \cup {n} ELSE S
    BY <1>2, <1>3, <2>2
  <2>4. IsFiniteSet(S) /\ n \notin S
    <3>1. IsFiniteSet(1 .. Len(history))
      BY <1>3, FS_Interval
    <3>2. S \subseteq 1 .. Len(history)
      OBVIOUS
    <3> QED BY <1>3, <3>1, <3>2, FS_Subset
  <2>5. Cardinality(S \cup {n}) = Cardinality(S) + 1 /\ Cardinality(S) \in Nat
    BY <2>4, FS_AddElement, FS_CardinalityType
  <2> HIDE DEF S, n
  <2>6. Times(t, kx) = Cardinality(S)
    BY <2>1 DEF Times
  <2>7. Times(t, kx)' = Cardinality(IF kx = ix /\ t \in tokens THEN S \cup {n} ELSE S)
    BY <2>3 DEF Times
  <2>8. CASE kx = ix /\ t \in tokens
    BY <2>5, <2>6, <2>7, <2>8
  <2>9. CASE ~(kx = ix /\ t \in tokens)
    BY <2>5, <2>6, <2>7, <2>9
  <2> QED BY <2>8, <2>9
<1> QED BY <1>2, <1>4

\* What validate_args lets through.
LEMMA ModeFacts ==
    ASSUME LoopTypes
    PROVE  /\ mode.incr \in {"spam", "good", "none"} /\ mode.decr \in {"spam", "good", "none"}
           /\ mode.update \in BOOLEAN /\ mode.passthrough \in BOOLEAN /\ mode.logflag \in BOOLEAN
           /\ mode.update => mode.incr = "none" /\ mode.decr = "none"
           /\ MaxMessages \in Nat /\ LoopWord \in Nat /\ LoopWord > 0
BY LoopAssumption DEF LoopTypes, M!ModesAssumption, M!MaxMessagesAssumption, M!RoomAssumption

\* The counts are numbers.
LEMMA LoopCounts ==
    ASSUME LoopTypes
    PROVE  /\ LoopToken \subseteq M!Key /\ MsgCount \in M!Key
           /\ \A k \in M!Key, ix \in {"spam", "good"} : db[k][ix] \in 0 .. LoopWord - 1
           /\ Len(history) \in Nat
BY LenProperties DEF LoopTypes, M!Key, M!Count

\* The invariant holds at the start.
LEMMA LoopStarts == M!Init => LoopInv
<1> SUFFICES ASSUME M!Init PROVE LoopInv
  OBVIOUS
<1>m. MaxMessages \in Nat /\ LoopWord \in Nat /\ LoopWord > 0
  BY LoopAssumption DEF M!MaxMessagesAssumption, M!RoomAssumption
<1>1. /\ db = LoopZero /\ disk = LoopZero /\ LoopZero \in [M!Key -> M!Count]
      /\ \A k \in M!Key, ix \in {"spam", "good"} : LoopZero[k][ix] = 0
  BY <1>m DEF M!Init, LoopZero, M!Count
<1>2. history = <<>> /\ Len(history) = 0 /\ DOMAIN history = {}
  BY EmptySeq DEF M!Init
<1>3. \A t, ix : Times(t, ix) = 0
  BY <1>2, FS_EmptySet DEF Times, M!RegisteredAs, M!With
<1>4. LoopTypes
  <2>1. history \in Seq([incr : {"spam", "good", "none"}, decr : {"spam", "good", "none"},
                         tokens : SUBSET LoopToken])
    BY <1>2, EmptySeq
  <2>2. words \in [LoopToken -> 0 .. MaxMessages] /\ msgcount \in 0 .. MaxMessages
    BY <1>m DEF M!Init, M!NoFreq
  <2> QED BY <1>1, <2>1, <2>2 DEF M!Init, LoopTypes
<1>5. LoopBounds /\ LoopDisk
  BY <1>m, <1>1, <1>2 DEF M!Init, LoopBounds, LoopDisk, M!NoFreq
<1>6. LoopCounted
  <2>1. mpc = "more" /\ \A t \in LoopToken : words[t] = 0
    BY DEF M!Init, M!NoFreq
  <2>2. MsgCount \in M!Key /\ LoopToken \subseteq M!Key
    BY DEF M!Key
  <2>3. msgcount \in Nat
    BY DEF M!Init
  <2> QED BY <1>m, <1>1, <1>2, <1>3, <2>1, <2>2, <2>3 DEF LoopCounted
<1> QED BY <1>4, <1>5, <1>6 DEF LoopInv

\* A registration of one message that is counted as `msgs' messages.
LEMMA OneRegistration ==
    ASSUME LoopTypes, NEW ix \in {"spam", "good"}, NEW tokens \in SUBSET LoopToken,
           NEW msgs \in 1 .. MaxMessages, Len(history) < MaxMessages,
           mode.decr = "none", mpc # "died", ~Pending, mpc \notin {"close", "done"}, LoopCounted,
           db' = M!Registered(M!JobOf(ix, "none", tokens, msgs), db),
           M!Happened(ix, "none", tokens)
    PROVE  /\ \A t \in LoopToken, jx \in {"spam", "good"} :
                /\ db'[t][jx] = Times(t, jx)'
                /\ db'[t][jx] <= db'[MsgCount][jx]
           /\ \A jx \in {"spam", "good"} :
                db'[MsgCount][jx] <= Len(history') * MaxMessages
<1> DEFINE job == M!JobOf(ix, "none", tokens, msgs)
<1>m. MaxMessages \in Nat /\ LoopWord \in Nat /\ LoopWord > 0 /\ MaxMessages >= 1
  BY ModeFacts
<1>1. /\ job \in LoopJobs /\ job.incr = ix /\ job.decr = "none"
      /\ \A t \in LoopToken : M!Amount(job, t) = IF t \in tokens THEN 1 ELSE 0
      /\ M!Amount(job, MsgCount) = IF tokens = {} THEN 0 ELSE msgs
  <2>1. msgs \in Nat /\ ix \in {"spam", "good", "none"} /\ "none" \in {"spam", "good", "none"}
    BY <1>m
  <2> QED BY <2>1, JobOfMessage
<1>d. db' = M!Registered(job, db)
  OBVIOUS
<1> HIDE DEF job
<1>2. /\ LoopToken \subseteq M!Key /\ MsgCount \in M!Key /\ Len(history) \in Nat
      /\ \A k \in M!Key, jx \in {"spam", "good"} : db[k][jx] \in 0 .. LoopWord - 1
  BY LoopCounts
<1>3. \A k \in M!Key, jx \in {"spam", "good"} :
        db'[k][jx] = IF jx = ix THEN (db[k][jx] + M!Amount(job, k)) % LoopWord ELSE db[k][jx]
  <2>1. db \in [M!Key -> M!Count]
    BY DEF LoopTypes
  <2> QED BY <1>d, <1>1, <2>1, RegisteredCounts
<1>4. /\ Len(history') = Len(history) + 1
      /\ \A t \in LoopToken, jx \in {"spam", "good"} :
            Times(t, jx)' = Times(t, jx) + IF jx = ix /\ t \in tokens THEN 1 ELSE 0
  BY OneMoreMessage
<1> DEFINE room == Len(history) * MaxMessages
<1>5. /\ \A t \in LoopToken, jx \in {"spam", "good"} :
            db[t][jx] = Times(t, jx) /\ db[t][jx] <= db[MsgCount][jx]
      /\ \A jx \in {"spam", "good"} : db[MsgCount][jx] <= room
  BY DEF LoopCounted
<1>6. room \in Nat /\ room + MaxMessages < LoopWord
  BY <1>2, RoomForMessages
<1>r. Len(history') * MaxMessages = room + MaxMessages
  BY <1>2, <1>4, RoomForMessages
<1> HIDE DEF room
<1>7. \A jx \in {"spam", "good"} :
        db'[MsgCount][jx] = db[MsgCount][jx] + IF jx = ix /\ tokens # {} THEN msgs ELSE 0
  <2> SUFFICES ASSUME NEW jx \in {"spam", "good"}
               PROVE  db'[MsgCount][jx] =
                        db[MsgCount][jx] + IF jx = ix /\ tokens # {} THEN msgs ELSE 0
    OBVIOUS
  <2>1. db[MsgCount][jx] \in Nat /\ db[MsgCount][jx] + MaxMessages < LoopWord
    BY <1>m, <1>2, <1>5, <1>6
  <2>2. CASE jx = ix
    <3>1. M!Amount(job, MsgCount) \in 0 .. MaxMessages
      BY <1>m, <1>1
    <3>2. (db[MsgCount][jx] + M!Amount(job, MsgCount)) % LoopWord
                = db[MsgCount][jx] + M!Amount(job, MsgCount)
      <4>1. M!Amount(job, MsgCount) \in Nat /\ db[MsgCount][jx] + M!Amount(job, MsgCount) < LoopWord
        BY <1>m, <2>1, <3>1
      <4> QED BY <2>1, <4>1, LoopSum
    <3> QED BY <1>1, <1>2, <1>3, <2>2, <3>2
  <2>3. CASE jx # ix
    BY <1>2, <1>3, <2>1, <2>3
  <2> QED BY <2>2, <2>3
<1>8. \A t \in LoopToken, jx \in {"spam", "good"} :
        db'[t][jx] = db[t][jx] + IF jx = ix /\ t \in tokens THEN 1 ELSE 0
  <2> SUFFICES ASSUME NEW t \in LoopToken, NEW jx \in {"spam", "good"}
               PROVE  db'[t][jx] = db[t][jx] + IF jx = ix /\ t \in tokens THEN 1 ELSE 0
    OBVIOUS
  <2>1. db[t][jx] \in Nat /\ db[t][jx] + MaxMessages < LoopWord /\ MaxMessages >= 1
    <3>1. /\ db[t][jx] \in Nat /\ db[MsgCount][jx] \in Nat /\ db[t][jx] <= db[MsgCount][jx]
          /\ db[MsgCount][jx] <= room
      BY <1>m, <1>2, <1>5
    <3> QED BY <1>m, <1>6, <3>1, RoomBelow
  <2>2. CASE jx = ix
    <3>1. M!Amount(job, t) \in 0 .. 1
      BY <1>1
    <3>2. (db[t][jx] + M!Amount(job, t)) % LoopWord = db[t][jx] + M!Amount(job, t)
      <4>1. M!Amount(job, t) \in Nat /\ db[t][jx] + M!Amount(job, t) < LoopWord
        <5>1. M!Amount(job, t) \in Nat /\ M!Amount(job, t) <= 1
          BY <3>1
        <5> QED BY <1>m, <2>1, <5>1
      <4> QED BY <2>1, <4>1, LoopSum
    <3> QED BY <1>1, <1>2, <1>3, <2>2, <3>2
  <2>3. CASE jx # ix
    BY <1>2, <1>3, <2>1, <2>3
  <2> QED BY <2>2, <2>3
<1>9. \A t \in LoopToken, jx \in {"spam", "good"} : db'[t][jx] = Times(t, jx)'
  BY <1>4, <1>5, <1>8
<1>10. \A t \in LoopToken, jx \in {"spam", "good"} : db'[t][jx] <= db'[MsgCount][jx]
  <2> SUFFICES ASSUME NEW t \in LoopToken, NEW jx \in {"spam", "good"}
               PROVE  db'[t][jx] <= db'[MsgCount][jx]
    OBVIOUS
  <2>1. db[t][jx] \in Nat /\ db[MsgCount][jx] \in Nat /\ db[t][jx] <= db[MsgCount][jx]
    BY <1>m, <1>2, <1>5
  <2>2. t \in tokens => tokens # {}
    OBVIOUS
  <2> QED BY <1>m, <1>7, <1>8, <2>1, <2>2
<1>11. \A jx \in {"spam", "good"} : db'[MsgCount][jx] <= Len(history') * MaxMessages
  <2> SUFFICES ASSUME NEW jx \in {"spam", "good"}
               PROVE  db'[MsgCount][jx] <= Len(history') * MaxMessages
    OBVIOUS
  <2>1. db[MsgCount][jx] \in Nat /\ db[MsgCount][jx] <= room
    BY <1>m, <1>2, <1>5
  <2>2. db'[MsgCount][jx] <= db[MsgCount][jx] + MaxMessages
    BY <1>m, <1>7, <2>1
  <2>3. db'[MsgCount][jx] \in Nat
    BY <1>m, <1>7, <2>1
  <2>4. db'[MsgCount][jx] <= room + MaxMessages
    BY <1>m, <1>6, <2>1, <2>2, <2>3, RoomBelow
  <2> QED BY <1>r, <2>4
<1> QED BY <1>9, <1>10, <1>11

\* A message is read; with -u it is still to be classified.
LEMMA ReadMessageKeeps == LoopInv /\ M!ReadMessage => LoopInv'
<1> SUFFICES ASSUME LoopInv, M!ReadMessage PROVE LoopInv'
  OBVIOUS
<1>i. LoopTypes /\ LoopBounds /\ LoopDisk /\ LoopCounted
  BY DEF LoopInv
<1>m. /\ mode.incr \in {"spam", "good", "none"} /\ mode.decr \in {"spam", "good", "none"}
      /\ mode.update \in BOOLEAN /\ mode.passthrough \in BOOLEAN
      /\ mode.update => mode.incr = "none" /\ mode.decr = "none"
      /\ MaxMessages \in Nat
      /\ left \in 0 .. MaxMessages /\ msgcount \in 0 .. MaxMessages
      /\ Len(history) \in Nat
  BY <1>i, ModeFacts, LoopCounts DEF LoopTypes
<1>1. PICK tokens \in SUBSET LoopToken :
        /\ w' = tokens
        /\ db' = IF M!RegisterBef
                    THEN M!Registered(M!JobOf(mode.incr, mode.decr, tokens, 1), db) ELSE db
        /\ M!Accumulate(tokens)
        /\ IF M!RegisterOpt THEN M!Happened(mode.incr, mode.decr, tokens)
                            ELSE UNCHANGED history
  BY DEF M!ReadMessage
<1>2. /\ mpc = "more" /\ left > 0 /\ left' = left - 1 /\ msgcount' = msgcount + 1
      /\ mpc' = IF M!Classifies THEN "classify" ELSE "next"
      /\ UNCHANGED <<mode, disk, fDie>>
  BY DEF M!ReadMessage
<1>3. words' = IF M!RegisterAft
                  THEN [t \in LoopToken |-> IF t \in tokens THEN words[t] + 1 ELSE words[t]]
                  ELSE words
  BY <1>1 DEF M!Accumulate
<1>4. \A t \in LoopToken : words[t] \in Nat /\ words[t] <= MaxMessages - left
  BY <1>i DEF LoopTypes, LoopBounds
<1>5. /\ words' \in [LoopToken -> 0 .. MaxMessages]
      /\ \A t \in LoopToken : words'[t] <= MaxMessages - left'
  <2>1. CASE M!RegisterAft
    BY <1>m, <1>2, <1>3, <1>4, <2>1
  <2>2. CASE ~M!RegisterAft
    <3>1. words' = words
      BY <1>3, <2>2
    <3> QED BY <1>i, <1>m, <1>2, <1>4, <3>1 DEF LoopTypes
  <2> QED BY <2>1, <2>2
<1>6. /\ history' \in Seq([incr : {"spam", "good", "none"}, decr : {"spam", "good", "none"},
                           tokens : SUBSET LoopToken])
      /\ Len(history') = IF M!RegisterOpt THEN Len(history) + 1 ELSE Len(history)
      /\ \A t \in LoopToken, jx \in {"spam", "good"} :
            Times(t, jx)' = Times(t, jx) + IF M!RegisterOpt /\ jx = mode.incr /\ t \in tokens
                                              THEN 1 ELSE 0
  <2>1. CASE M!RegisterOpt
    <3>1. M!Happened(mode.incr, mode.decr, tokens)
      BY <1>1, <2>1
    <3>2. /\ history' \in Seq([incr : {"spam", "good", "none"},
                                decr : {"spam", "good", "none"}, tokens : SUBSET LoopToken])
          /\ Len(history') = Len(history) + 1
          /\ \A t \in LoopToken, jx \in {"spam", "good"} :
                Times(t, jx)' = Times(t, jx) + IF jx = mode.incr /\ t \in tokens THEN 1 ELSE 0
      <4>1. PICK ix \in {"spam", "good", "none"}, jx \in {"spam", "good", "none"} :
                ix = mode.incr /\ jx = mode.decr
        BY <1>m
      <4>2. M!Happened(ix, jx, tokens)
        BY <3>1, <4>1
      <4>3. /\ history' \in Seq([incr : {"spam", "good", "none"},
                                  decr : {"spam", "good", "none"}, tokens : SUBSET LoopToken])
            /\ Len(history') = Len(history) + 1
        BY <1>i, <4>2, OneMoreMessage
      <4>4. \A t \in LoopToken, kx \in {"spam", "good"} :
                Times(t, kx)' = Times(t, kx) + IF kx = ix /\ t \in tokens THEN 1 ELSE 0
        BY <1>i, <4>2, OneMoreMessage
      <4> QED BY <4>1, <4>3, <4>4
    <3> QED BY <2>1, <3>2
  <2>2. CASE ~M!RegisterOpt
    <3>1. UNCHANGED history
      BY <1>1, <2>2
    <3>2. \A t, jx : Times(t, jx)' = Times(t, jx) /\ Times(t, jx) \in Nat
      <4>1. \A t, jx : IsFiniteSet(M!RegisteredAs(jx) \cap M!With(t))
        <5>1. IsFiniteSet(DOMAIN history)
          BY <1>i, <1>m, FS_Interval, LenProperties DEF LoopTypes
        <5> QED BY <5>1, FS_Subset DEF M!RegisteredAs, M!With
      <4> QED BY <3>1, <4>1, FS_CardinalityType DEF Times, M!RegisteredAs, M!With
    <3> QED BY <1>i, <2>2, <3>1, <3>2 DEF LoopTypes
  <2> QED BY <2>1, <2>2
<1>7. db' \in [M!Key -> M!Count]
  <2>1. M!JobOf(mode.incr, mode.decr, tokens, 1) \in LoopJobs
    <3>1. 1 \in Nat
      OBVIOUS
    <3>2. PICK ix \in {"spam", "good", "none"}, jx \in {"spam", "good", "none"}, n \in Nat :
                ix = mode.incr /\ jx = mode.decr /\ n = 1
      BY <1>m, <3>1
    <3>3. M!JobOf(ix, jx, tokens, n) \in LoopJobs
      BY JobOfMessage
    <3> QED BY <3>2, <3>3
  <2>2. M!Registered(M!JobOf(mode.incr, mode.decr, tokens, 1), db) \in [M!Key -> M!Count]
    BY <1>i, <2>1, RegisteredTypes DEF LoopTypes
  <2> QED BY <1>i, <1>1, <2>2 DEF LoopTypes
<1>8. msgcount <= MaxMessages - left /\ Len(history) <= MaxMessages - left
  BY <1>i DEF LoopBounds
<1>9. LoopTypes'
  <2>1. left' \in 0 .. MaxMessages /\ msgcount' \in 0 .. MaxMessages
    BY <1>m, <1>2, <1>8
  <2> QED BY <1>i, <1>1, <1>2, <1>5, <1>6, <1>7, <2>1 DEF LoopTypes
<1>10. LoopBounds'
  <2>1. Len(history') <= MaxMessages - left' /\ msgcount' <= MaxMessages - left'
    BY <1>m, <1>2, <1>6, <1>8
  <2>2. mode.update => Len(history') < MaxMessages - left'
    BY <1>m, <1>2, <1>6, <1>8 DEF M!RegisterOpt
  <2>3. msgcount' >= 1
    BY <1>m, <1>2
  <2>4. mpc' = "classify" => M!Classifies'
    BY <1>2 DEF M!Classifies, M!RegisterOpt
  <2> QED BY <1>2, <1>5, <2>1, <2>2, <2>3, <2>4 DEF LoopBounds
<1>11. LoopDisk'
  BY <1>i, <1>2 DEF LoopDisk, LoopZero
<1>12. LoopCounted'
  <2> SUFFICES ASSUME mode.decr = "none"
               PROVE  LoopCounted'
    BY <1>2 DEF LoopCounted
  <2>1. /\ \A t \in LoopToken, jx \in {"spam", "good"} :
            /\ db[t][jx] = IF Pending THEN 0 ELSE Times(t, jx)
            /\ db[t][jx] <= db[MsgCount][jx]
            /\ Pending => Times(t, jx) = IF jx = mode.incr THEN words[t] ELSE 0
        /\ Pending => \A t \in LoopToken : words[t] <= msgcount
        /\ \A jx \in {"spam", "good"} :
                db[MsgCount][jx] <= IF Pending THEN 0 ELSE Len(history) * MaxMessages
    BY <1>i, <1>2 DEF LoopCounted
  <2>2. CASE M!RegisterBef
    <3>1. ~Pending /\ ~Pending' /\ mode.incr \in {"spam", "good"} /\ M!RegisterOpt
      BY <1>m, <1>2, <2>2 DEF Pending, M!RegisterBef, M!RegisterOpt
    <3>2. Len(history) < MaxMessages /\ 1 \in 1 .. MaxMessages
      BY <1>m, <1>2, <1>8
    <3>3. /\ \A t \in LoopToken, jx \in {"spam", "good"} :
                /\ db'[t][jx] = Times(t, jx)'
                /\ db'[t][jx] <= db'[MsgCount][jx]
          /\ \A jx \in {"spam", "good"} :
                db'[MsgCount][jx] <= Len(history') * MaxMessages
      BY <1>i, <1>1, <1>2, <2>2, <3>1, <3>2, OneRegistration
    <3> QED BY <3>1, <3>3 DEF LoopCounted
  <2>3. CASE mode.incr # "none" /\ ~mode.passthrough
    <3>1. Pending /\ Pending' /\ M!RegisterAft /\ M!RegisterOpt /\ ~M!RegisterBef
          /\ mode' = mode
      BY <1>m, <1>2, <2>3 DEF Pending, M!RegisterBef, M!RegisterOpt, M!RegisterAft, M!Classifies
    <3>2. db' = db
      BY <1>1, <3>1
    <3>3. \A t \in LoopToken : words'[t] = words[t] + IF t \in tokens THEN 1 ELSE 0
      BY <1>3, <1>4, <3>1
    <3>4. \A t \in LoopToken : words'[t] <= msgcount'
      BY <1>m, <1>2, <1>4, <2>1, <3>1, <3>3
    <3>5. \A t \in LoopToken, jx \in {"spam", "good"} :
                Times(t, jx)' = IF jx = mode.incr THEN words'[t] ELSE 0
      BY <1>6, <2>1, <3>1, <3>3
    <3> QED BY <2>1, <3>1, <3>2, <3>4, <3>5 DEF LoopCounted
  <2>4. CASE mode.incr = "none"
    <3>1. ~Pending /\ ~Pending' /\ ~M!RegisterOpt /\ ~M!RegisterBef
      BY <1>2, <2>4 DEF Pending, M!RegisterOpt, M!RegisterBef
    <3>2. db' = db /\ Len(history') = Len(history)
      BY <1>1, <1>6, <3>1
    <3>3. \A t \in LoopToken, jx \in {"spam", "good"} : Times(t, jx)' = Times(t, jx)
      <4>1. history' = history
        BY <1>1, <3>1
      <4> QED BY <4>1 DEF Times, M!RegisteredAs, M!With
    <3> QED BY <2>1, <3>1, <3>2, <3>3 DEF LoopCounted
  <2> QED BY <1>m, <2>2, <2>3, <2>4 DEF M!RegisterBef, M!RegisterOpt
<1> QED BY <1>9, <1>10, <1>11, <1>12 DEF LoopInv

\* A message is classified, and with -u registered at once.
LEMMA ClassifyKeeps == LoopInv /\ M!Classify => LoopInv'
<1> SUFFICES ASSUME LoopInv, M!Classify PROVE LoopInv'
  OBVIOUS
<1>i. LoopTypes /\ LoopBounds /\ LoopDisk /\ LoopCounted
  BY DEF LoopInv
<1>m. /\ mode.incr \in {"spam", "good", "none"} /\ mode.decr \in {"spam", "good", "none"}
      /\ mode.update \in BOOLEAN /\ mode.logflag \in BOOLEAN
      /\ mode.update => mode.incr = "none" /\ mode.decr = "none"
      /\ MaxMessages \in Nat /\ left \in 0 .. MaxMessages /\ msgcount \in 1 .. MaxMessages
      /\ Len(history) \in Nat /\ w \in SUBSET LoopToken
      /\ mode.update => Len(history) < MaxMessages - left
      /\ msgcount <= MaxMessages - left /\ Len(history) <= MaxMessages - left
      /\ \A t \in LoopToken : words[t] <= MaxMessages - left
  <2>1. mpc = "classify" /\ MaxMessages \in Nat
    BY <1>i, ModeFacts DEF M!Classify
  <2>2. /\ msgcount \in 0 .. MaxMessages /\ msgcount >= 1
        /\ mode.update => Len(history) < MaxMessages - left
        /\ msgcount <= MaxMessages - left /\ Len(history) <= MaxMessages - left
        /\ \A t \in LoopToken : words[t] <= MaxMessages - left
    BY <1>i, <2>1 DEF LoopTypes, LoopBounds
  <2>3. left \in 0 .. MaxMessages /\ w \in SUBSET LoopToken
    BY <1>i DEF LoopTypes
  <2> QED BY <1>i, <2>1, <2>2, <2>3, ModeFacts, LoopCounts
<1>2. /\ mpc = "classify" /\ mpc' = "next"
      /\ msgcount' = IF mode.logflag /\ ~M!RegisterOpt THEN 0 ELSE msgcount
      /\ UNCHANGED <<mode, disk, left, w, words, fDie>>
  BY DEF M!Classify
<1>3. msgcount' \in 0 .. MaxMessages /\ msgcount' <= MaxMessages - left
  BY <1>m, <1>2
<1>4. LoopDisk'
  BY <1>i, <1>2 DEF LoopDisk, LoopZero
<1>5. CASE UNCHANGED <<db, history>>
  <2>1. LoopTypes' /\ LoopBounds'
    BY <1>i, <1>m, <1>2, <1>3, <1>5 DEF LoopTypes, LoopBounds
  <2>2. \A t, jx : Times(t, jx)' = Times(t, jx)
    BY <1>5 DEF Times, M!RegisteredAs, M!With
  <2>3. mode.decr = "none" => ~Pending /\ ~Pending'
    BY <1>i, <1>2 DEF Pending, LoopBounds, M!Classifies, M!RegisterOpt
  <2>4. LoopCounted'
    BY <1>i, <1>2, <1>5, <2>2, <2>3 DEF LoopCounted
  <2> QED BY <1>4, <2>1, <2>4 DEF LoopInv
<1>6. CASE mode.update /\ \E ix \in {"spam", "good"} :
                /\ db' = M!Registered(M!JobOf(ix, "none", w, msgcount), db)
                /\ M!Happened(ix, "none", w)
  <2>1. PICK ix \in {"spam", "good"} :
                /\ db' = M!Registered(M!JobOf(ix, "none", w, msgcount), db)
                /\ M!Happened(ix, "none", w)
    BY <1>6
  <2>2. ~Pending /\ ~Pending' /\ mode.decr = "none"
    BY <1>m, <1>2, <1>6 DEF Pending
  <2>3. db' \in [M!Key -> M!Count]
    <3>1. M!JobOf(ix, "none", w, msgcount) \in LoopJobs
      <4>1. /\ msgcount \in Nat /\ w \in SUBSET LoopToken
            /\ ix \in {"spam", "good", "none"} /\ "none" \in {"spam", "good", "none"}
        BY <1>m
      <4> QED BY <4>1, JobOfMessage
    <3> QED BY <1>i, <2>1, <3>1, RegisteredTypes DEF LoopTypes
  <2>4. /\ history' \in Seq([incr : {"spam", "good", "none"}, decr : {"spam", "good", "none"},
                             tokens : SUBSET LoopToken])
        /\ Len(history') = Len(history) + 1
    BY <1>i, <1>m, <2>1, OneMoreMessage
  <2>5. LoopTypes'
    BY <1>i, <1>2, <1>3, <2>3, <2>4 DEF LoopTypes
  <2>6. LoopBounds'
    BY <1>m, <1>2, <1>3, <1>6, <2>4 DEF LoopBounds
  <2>7. Len(history) < MaxMessages
    BY <1>m, <1>6
  <2>8. /\ \A t \in LoopToken, jx \in {"spam", "good"} :
            /\ db'[t][jx] = Times(t, jx)'
            /\ db'[t][jx] <= db'[MsgCount][jx]
        /\ \A jx \in {"spam", "good"} : db'[MsgCount][jx] <= Len(history') * MaxMessages
    BY <1>i, <1>m, <1>2, <2>1, <2>2, <2>7, OneRegistration
  <2> QED BY <1>4, <2>2, <2>5, <2>6, <2>8 DEF LoopInv, LoopCounted
<1> QED BY <1>5, <1>6 DEF M!Classify

\* The loop goes on.
LEMMA NextMessageKeeps == LoopInv /\ M!NextMessage => LoopInv'
<1> SUFFICES ASSUME LoopInv, M!NextMessage PROVE LoopInv'
  OBVIOUS
<1>i. LoopTypes /\ LoopBounds /\ LoopDisk /\ LoopCounted
  BY DEF LoopInv
<1>1. /\ mpc = "next" /\ mpc' = IF fDie THEN "died" ELSE "more"
      /\ db' = IF fDie THEN disk ELSE db
      /\ w' = {}
      /\ UNCHANGED <<mode, left, disk, words, msgcount, fDie, history>>
  BY DEF M!NextMessage
<1>2. LoopTypes' /\ LoopBounds' /\ LoopDisk'
  BY <1>i, <1>1 DEF LoopTypes, LoopBounds, LoopDisk, LoopZero
<1>3. LoopCounted'
  <2>1. \A t, jx : Times(t, jx)' = Times(t, jx)
    BY <1>1 DEF Times, M!RegisteredAs, M!With
  <2>2. ~fDie => Pending' = Pending
    BY <1>1 DEF Pending
  <2> QED BY <1>i, <1>1, <2>1, <2>2 DEF LoopCounted
<1> QED BY <1>2, <1>3 DEF LoopInv

\* What is registered at the end: all messages since the first, or nothing.
LEMMA EndOfInputKeeps == LoopInv /\ M!EndOfInput => LoopInv'
<1> SUFFICES ASSUME LoopInv, M!EndOfInput PROVE LoopInv'
  OBVIOUS
<1>i. LoopTypes /\ LoopBounds /\ LoopDisk /\ LoopCounted
  BY DEF LoopInv
<1> DEFINE job == [incr |-> mode.incr, decr |-> mode.decr, freq |-> words, msgs |-> msgcount]
<1>1. /\ mpc = "more" /\ mpc' = "close"
      /\ db' = IF M!RegisterAft /\ ~mode.update THEN M!Registered(job, db) ELSE db
      /\ UNCHANGED <<mode, disk, left, w, words, msgcount, fDie, history>>
  BY DEF M!EndOfInput
<1>m. /\ mode.incr \in {"spam", "good", "none"} /\ mode.decr \in {"spam", "good", "none"}
      /\ mode.update \in BOOLEAN /\ mode.passthrough \in BOOLEAN
      /\ mode.update => mode.incr = "none" /\ mode.decr = "none"
      /\ MaxMessages \in Nat /\ LoopWord \in Nat /\ LoopWord > 0
      /\ msgcount \in 0 .. MaxMessages /\ words \in [LoopToken -> 0 .. MaxMessages]
  BY <1>i, ModeFacts DEF LoopTypes
<1>2. /\ job \in LoopJobs /\ job.incr = mode.incr /\ job.decr = mode.decr
      /\ job.freq = words /\ job.msgs = msgcount
  <2>1. words \in [LoopToken -> Nat] /\ msgcount \in Nat
    BY <1>m
  <2> QED BY <1>m, <2>1 DEF LoopJobs
<1> HIDE DEF job
<1>3. db' \in [M!Key -> M!Count]
  BY <1>i, <1>1, <1>2, RegisteredTypes DEF LoopTypes
<1>4. LoopTypes' /\ LoopBounds' /\ LoopDisk'
  BY <1>i, <1>1, <1>3 DEF LoopTypes, LoopBounds, LoopDisk, LoopZero
<1>5. LoopCounted'
  <2> SUFFICES ASSUME mode.decr = "none"
               PROVE  LoopCounted'
    BY <1>1 DEF LoopCounted
  <2>1. /\ \A t \in LoopToken, jx \in {"spam", "good"} :
            /\ db[t][jx] = IF Pending THEN 0 ELSE Times(t, jx)
            /\ db[t][jx] <= db[MsgCount][jx]
            /\ Pending => Times(t, jx) = IF jx = mode.incr THEN words[t] ELSE 0
        /\ Pending => \A t \in LoopToken : words[t] <= msgcount
        /\ Pending => \A jx \in {"spam", "good"} : db[MsgCount][jx] <= 0
    BY <1>i, <1>1 DEF LoopCounted
  <2>2. Pending <=> M!RegisterAft /\ ~mode.update
    BY <1>m, <1>1 DEF Pending, M!RegisterAft, M!RegisterOpt
  <2>3. ~Pending' /\ mpc' \in {"close", "done"}
    BY <1>1 DEF Pending
  <2>4. \A t, jx : Times(t, jx)' = Times(t, jx)
    BY <1>1 DEF Times, M!RegisteredAs, M!With
  <2>5. CASE ~Pending
    <3>1. db' = db
      BY <1>1, <2>2, <2>5
    <3> QED BY <2>1, <2>3, <2>4, <2>5, <3>1 DEF LoopCounted
  <2>6. CASE Pending
    <3>1. \A k \in M!Key, jx \in {"spam", "good"} :
            db'[k][jx] = IF jx = mode.incr THEN (db[k][jx] + M!Amount(job, k)) % LoopWord
                                           ELSE db[k][jx]
      <4>1. db \in [M!Key -> M!Count] /\ db' = M!Registered(job, db)
        BY <1>i, <1>1, <2>2, <2>6 DEF LoopTypes
      <4> QED BY <1>2, <4>1, RegisteredCounts
    <3>2. /\ LoopToken \subseteq M!Key /\ MsgCount \in M!Key
          /\ \A k \in M!Key, jx \in {"spam", "good"} : db[k][jx] \in 0 .. LoopWord - 1
      BY <1>i, LoopCounts
    <3>3. \A jx \in {"spam", "good"} : db[MsgCount][jx] = 0
      BY <1>m, <2>1, <2>6, <3>2
    <3>4. \A t \in LoopToken : M!Amount(job, t) = words[t]
      BY <1>2 DEF M!Amount
    <3>5. /\ M!Amount(job, MsgCount) \in 0 .. MaxMessages
          /\ \A t \in LoopToken : words[t] <= M!Amount(job, MsgCount)
      <4>1. M!Amount(job, MsgCount) =
                IF \A t \in LoopToken : ~(words[t] > 0) THEN 0 ELSE msgcount
        BY <1>2, LoopAssumption DEF M!Amount, M!Tokens
      <4>2. \A t \in LoopToken : words[t] \in Nat /\ words[t] <= msgcount
        BY <1>m, <2>1, <2>6
      <4>3. CASE \A t \in LoopToken : ~(words[t] > 0)
        BY <1>m, <4>1, <4>2, <4>3
      <4>4. CASE ~\A t \in LoopToken : ~(words[t] > 0)
        BY <1>m, <4>1, <4>2, <4>4
      <4> QED BY <4>3, <4>4
    <3>6. MaxMessages < LoopWord
      <4>1. CASE MaxMessages = 0
        BY <1>m, <4>1
      <4>2. CASE MaxMessages # 0
        <5>1. 0 \in Nat /\ 0 < MaxMessages
          BY <1>m, <4>2
        <5> QED BY <5>1, RoomForMessages
      <4> QED BY <4>1, <4>2
    <3>7. \A n \in 0 .. MaxMessages : (0 + n) % LoopWord = n
      <4> SUFFICES ASSUME NEW n \in 0 .. MaxMessages PROVE (0 + n) % LoopWord = n
        OBVIOUS
      <4>1. n \in Nat /\ 0 \in Nat /\ 0 + n = n /\ 0 + n < LoopWord
        BY <1>m, <3>6
      <4> QED BY <4>1, LoopSum
    <3>8. \A t \in LoopToken, jx \in {"spam", "good"} :
            db'[t][jx] = IF jx = mode.incr THEN words[t] ELSE 0
      <4>1. \A t \in LoopToken, jx \in {"spam", "good"} : db[t][jx] = 0
        BY <2>1, <2>6
      <4> QED BY <1>m, <3>1, <3>2, <3>4, <3>7, <4>1
    <3>9. \A jx \in {"spam", "good"} :
            db'[MsgCount][jx] = IF jx = mode.incr THEN M!Amount(job, MsgCount) ELSE 0
      BY <3>1, <3>2, <3>3, <3>5, <3>7
    <3>10. \A t \in LoopToken, jx \in {"spam", "good"} :
            db'[t][jx] = Times(t, jx)' /\ db'[t][jx] <= db'[MsgCount][jx]
      BY <2>1, <2>4, <2>6, <3>5, <3>8, <3>9
    <3> QED BY <2>3, <3>10 DEF LoopCounted
  <2> QED BY <2>5, <2>6
<1> QED BY <1>4, <1>5 DEF LoopInv

\* Every step keeps the invariant.
LEMMA LoopStep == LoopInv /\ M!Next => LoopInv'
<1> SUFFICES ASSUME LoopInv, M!Next PROVE LoopInv'
  OBVIOUS
<1>i. LoopTypes /\ LoopBounds /\ LoopDisk /\ LoopCounted
  BY DEF LoopInv
<1>1. CASE M!CloseWordlists
  <2>1. /\ mpc = "close" /\ mpc' = "done" /\ disk' = db
        /\ UNCHANGED <<mode, db, left, w, words, msgcount, fDie, history>>
    BY <1>1 DEF M!CloseWordlists
  <2>2. LoopTypes' /\ LoopBounds' /\ LoopDisk'
    BY <1>i, <2>1 DEF LoopTypes, LoopBounds, LoopDisk
  <2>3. \A t, jx : Times(t, jx)' = Times(t, jx)
    BY <2>1 DEF Times, M!RegisteredAs, M!With
  <2>4. ~Pending /\ ~Pending'
    BY <2>1 DEF Pending
  <2>5. LoopCounted'
    BY <1>i, <2>1, <2>3, <2>4 DEF LoopCounted
  <2> QED BY <2>2, <2>5 DEF LoopInv
<1>2. CASE M!Signal
  <2>1. /\ fDie' = TRUE
        /\ UNCHANGED <<mode, mpc, disk, db, left, w, words, msgcount, history>>
    BY <1>2 DEF M!Signal
  <2>2. LoopTypes' /\ LoopBounds' /\ LoopDisk'
    BY <1>i, <2>1 DEF LoopTypes, LoopBounds, LoopDisk, LoopZero, M!Classifies, M!RegisterOpt
  <2>3. LoopCounted'
    <3>1. Pending' = Pending
      BY <2>1 DEF Pending
    <3>2. \A t, jx : Times(t, jx)' = Times(t, jx)
      BY <2>1 DEF Times, M!RegisteredAs, M!With
    <3> QED BY <1>i, <2>1, <3>1, <3>2 DEF LoopCounted
  <2> QED BY <2>2, <2>3 DEF LoopInv
<1>3. CASE M!SecondSignal
  <2>1. /\ mpc \notin {"done", "died"} /\ mpc' = "died" /\ db' = disk
        /\ UNCHANGED <<mode, disk, left, w, words, msgcount, fDie, history>>
    BY <1>3 DEF M!SecondSignal
  <2>2. LoopTypes' /\ LoopBounds' /\ LoopDisk' /\ LoopCounted'
    BY <1>i, <2>1 DEF LoopTypes, LoopBounds, LoopDisk, LoopZero, LoopCounted
  <2> QED BY <2>2 DEF LoopInv
<1> QED BY <1>1, <1>2, <1>3, ReadMessageKeeps, ClassifyKeeps, NextMessageKeeps, EndOfInputKeeps
        DEF M!Next

\* The invariant has what the run checks.
LEMMA LoopIsSound == LoopInv => MessagesSound
<1> SUFFICES ASSUME LoopInv PROVE MessagesSound
  OBVIOUS
<1>i. LoopTypes /\ LoopBounds /\ LoopDisk /\ LoopCounted
  BY DEF LoopInv
<1>1. M!TokensCountedOnce
  <2>1. ASSUME mpc = "done", mode.decr = "none",
               NEW t \in LoopToken, NEW ix \in {"spam", "good"}
        PROVE  disk[t][ix] = Times(t, ix)
    <3>1. disk = db /\ ~Pending
      BY <1>i, <2>1 DEF LoopDisk, Pending
    <3> QED BY <1>i, <2>1, <3>1 DEF LoopCounted
  <2>2. \A S : M!Cardinality(S) = Cardinality(S)
    BY DEF M!Cardinality, Cardinality
  <2> QED BY <2>1, <2>2 DEF M!TokensCountedOnce, Times
<1>2. M!TokensWithinMessages
  <2> SUFFICES ASSUME mode.decr = "none", NEW t \in LoopToken, NEW ix \in {"spam", "good"}
               PROVE  db[t][ix] <= db[MsgCount][ix] /\ disk[t][ix] <= disk[MsgCount][ix]
    BY DEF M!TokensWithinMessages
  <2>1. LoopZero[t][ix] = 0 /\ LoopZero[MsgCount][ix] = 0
    BY DEF LoopZero, M!Key
  <2>2. mpc # "died" => db[t][ix] <= db[MsgCount][ix]
    BY <1>i DEF LoopCounted
  <2> QED BY <1>i, <2>1, <2>2 DEF LoopDisk
<1>3. M!InterruptedRegistersNothing
  BY <1>i DEF LoopDisk, LoopZero, M!InterruptedRegistersNothing
<1> QED BY <1>1, <1>2, <1>3 DEF MessagesSound

\* The steps of the other components keep the invariant of the loop.
LEMMA LoopStutters == LoopInv /\ UNCHANGED loopVars => LoopInv'
<1> SUFFICES ASSUME LoopInv, UNCHANGED loopVars
             PROVE  LoopInv'
  OBVIOUS
<1> USE DEF loopVars
<1>1. LoopTypes' /\ LoopBounds' /\ LoopDisk'
  BY DEF LoopInv, LoopTypes, LoopBounds, LoopDisk, LoopZero, M!Classifies, M!RegisterOpt
<1>2. \A t, jx : Times(t, jx)' = Times(t, jx)
  BY DEF Times, M!RegisteredAs, M!With
<1>3. Pending' = Pending
  BY DEF Pending
<1>4. LoopCounted'
  BY <1>2, <1>3 DEF LoopInv, LoopCounted
<1> QED BY <1>1, <1>4 DEF LoopInv

\* A step is one of the loop, or leaves it alone.
LEMMA LoopSteps ==
    [CommandsNext]_allVars => M!Next \/ UNCHANGED loopVars
BY DEF CommandsNext, allVars, Environments, Queue, Options, OtherOptions, Loop, Maintain,
       DumpOrLoad

\* bogofilter's loop over the messages (bogofilter.c, register.c), for any
\* number of messages and tokens and all options that validate_args lets through:
\* a run registers each token of each of its messages once, no token in more
\* messages than it has counted, and nothing when it dies.
THEOREM CommandsMessages == CommandsSpec => []MessagesSound
<1>1. CommandsInit => LoopInv
  BY LoopStarts DEF CommandsInit, LoopInit
<1>2. LoopInv /\ [CommandsNext]_allVars => LoopInv'
  BY LoopSteps, LoopStep, LoopStutters
<1>3. LoopInv => MessagesSound
  BY LoopIsSound
<1> QED BY <1>1, <1>2, <1>3, PTL DEF CommandsSpec

-----------------------------------------------------------------------------
(* bogoutil -m: the invariant *)

\* The items of the queue and the wordlist.
MaintItem == [word : MaintWord, val : N!Counts \cup {Absent}]
MaintStore == [MaintWord -> N!Counts \cup {Absent}]

\* The types of the variables, and what they keep of the start.
MaintTypes ==
    /\ npc \in {"walk", "flush", "done"}
    /\ \E task \in MaintTasks : nopt = task.opt /\ nbefore = task.list
    /\ nstore \in MaintStore
    /\ old = N!OldEncoding(nbefore)
    /\ cursor \in 1 .. Len(MaintOrder) + 1
    /\ nqueue \in Seq(MaintItem)
    /\ npc = "walk" => nstore = nbefore.store /\ enc = nbefore.enc
    /\ npc # "walk" => cursor = Len(MaintOrder) + 1
                       /\ enc = IF old # nopt.encoding THEN nopt.encoding ELSE nbefore.enc
    /\ npc = "done" => nqueue = <<>>

\* Item i of the queue q does not delete what a wordlist s does not have.
Finds(s, q, i) ==
    q[i].val = Absent =>
        /\ (\A j \in 1 .. i - 1 : q[j].word # q[i].word) => s[q[i].word] # Absent
        /\ \A j \in 1 .. i - 1 :
              q[j].word = q[i].word
              /\ (\A k \in j + 1 .. i - 1 : q[k].word # q[i].word)
                 => q[j].val # Absent
AllFound(s, q) == \A i \in DOMAIN q : Finds(s, q, i)
Deletions == ret = "EX_OK" /\ AllFound(nstore, nqueue)

\* The keys that the walk has been to.
Walked == {MaintOrder[i] : i \in 1 .. cursor - 1}

\* The tokens whose counts are in those of u when the walk has been to P.
Now(P, u) ==
    {t \in MaintWord : /\ nbefore.store[t] # Absent
                       /\ \/ /\ t \in P /\ t \in N!Kept(nopt, nbefore)
                             /\ N!Target(nopt, old, t) = u
                          \/ t = u /\ t \notin P}

\* Their counts.
Sum0(S) == IF S = {} THEN Absent ELSE N!Combined(S)

\* What ta_read gives for a key: the counts of all that has become it so far,
\* the version excepted, which is written at the end of the walk.
Added ==
    \A u \in MaintWord :
        npc = "walk" \/ u # Version => TaRead(nstore, nqueue, u) = Sum0(Now(Walked, u))

MaintInv ==
    IF component = "maintenance" THEN MaintTypes /\ (AnyChain \/ (Deletions /\ Added))
    ELSE npc = "off" /\ ret = "EX_OK"

-----------------------------------------------------------------------------
\* The queue of Maintenance is that of TokenTransaction.
LEMMA SameQueue ==
    /\ \A s, q, t : N!TaRead(s, q, t) = TaRead(s, q, t)
    /\ \A s, item : N!Applied(s, item) = Applied(s, item)
    /\ \A t, v : N!Deletion(t) = [word |-> t, val |-> Absent]
                 /\ N!Writing(t, v) = [word |-> t, val |-> v]
BY DEF N!TaRead, N!Last, N!Places, TaRead, Last, Places, N!Applied, Applied, N!Deletion, N!Writing

\* What is known of a task.
LEMMA MaintFacts ==
    ASSUME MaintTypes
    PROVE  /\ nopt \in N!Option /\ nbefore.store \in MaintStore
           /\ nbefore.enc \in N!EncodingKind \cup {"none"}
           /\ old \in N!EncodingKind
           /\ ~AnyChain => N!Regular(nopt, nbefore)
<1>1. PICK task \in MaintTasks : nopt = task.opt /\ nbefore = task.list
  BY DEF MaintTypes
<1>2. nopt \in N!Option /\ N!IsWordlist(nbefore)
  BY <1>1, MaintAssumption DEF N!TasksAssumption
<1>3. nbefore.store \in MaintStore /\ nbefore.enc \in N!EncodingKind \cup {"none"}
  BY <1>2, MaintAssumption DEF N!IsWordlist, N!ValueAssumption, MaintStore
<1>4. old \in N!EncodingKind
  BY <1>3 DEF MaintTypes, N!OldEncoding, N!EncodingKind
<1>5. ~AnyChain => N!Regular(nopt, nbefore)
  BY <1>1, MaintAssumption DEF N!RegularTasks
<1> QED BY <1>2, <1>3, <1>4, <1>5

\* The walk is through every key, once.
LEMMA OrderFacts ==
    /\ MaintOrder \in Seq(MaintWord) /\ Len(MaintOrder) \in Nat
    /\ DOMAIN MaintOrder = 1 .. Len(MaintOrder)
    /\ \A t \in MaintWord : \E i \in 1 .. Len(MaintOrder) : MaintOrder[i] = t
    /\ \A i \in 1 .. Len(MaintOrder) : MaintOrder[i] \in MaintWord
    /\ \A i, j \in 1 .. Len(MaintOrder) : MaintOrder[i] = MaintOrder[j] => i = j
<1>1. MaintOrder \in Seq(MaintWord)
  BY MaintAssumption DEF N!OrderAssumption
<1>2. DOMAIN MaintOrder = 1 .. Len(MaintOrder) /\ Len(MaintOrder) \in Nat
  BY <1>1, LenProperties
<1> QED BY <1>1, <1>2, MaintAssumption, ElementOfSeq DEF N!OrderAssumption

\* So there are finitely many keys.
LEMMA FiniteWords == IsFiniteSet(MaintWord)
<1> DEFINE T == 1 .. Len(MaintOrder)
           f == [i \in T |-> MaintOrder[i]]
<1>1. IsFiniteSet(T)
  BY OrderFacts, FS_Interval
<1>2. f \in Surjection(T, MaintWord)
  BY OrderFacts DEF Surjection
<1> QED BY <1>1, <1>2, FS_Surjection

\* What ta_read returns.
LEMMA ReadIsCounts ==
    ASSUME NEW s \in MaintStore, NEW q \in Seq(MaintItem), NEW t \in MaintWord
    PROVE  TaRead(s, q, t) \in N!Counts \cup {Absent}
<1>1. CASE Places(q, t) = {}
  BY <1>1 DEF TaRead, MaintStore
<1>2. CASE Places(q, t) # {}
  <2>1. PICK i \in Places(q, t) : \A j \in Places(q, t) : j <= i
    BY <1>2, LastExists
  <2>2. TaRead(s, q, t) = q[i].val
    BY <2>1, LastIsLast
  <2>3. q[i] \in MaintItem
    BY <2>1, ElementOfSeq, LenProperties DEF Places
  <2> QED BY <2>2, <2>3 DEF MaintItem
<1> QED BY <1>1, <1>2

\* The later of two dates.
LEMMA LaterDate ==
    ASSUME NEW m \in Nat, NEW n \in Nat
    PROVE  N!Max({m, n}) = IF m >= n THEN m ELSE n
BY DEF N!Max

\* merge_tokens makes counts of counts.
LEMMA SumIsCounts ==
    ASSUME NEW x \in N!Counts, NEW y \in N!Counts
    PROVE  N!Sum(x, y) \in N!Counts
<1>1. x.date \in Nat /\ y.date \in Nat /\ x.spam + y.spam \in Nat /\ x.good + y.good \in Nat
  BY DEF N!Counts
<1>2. N!Max({x.date, y.date}) \in Nat
  BY <1>1, LaterDate
<1> QED BY <1>1, <1>2 DEF N!Sum, N!Counts

\* merge_tokens and replace_token queue items.
LEMMA MergeTypes ==
    ASSUME NEW q \in Seq(MaintItem), NEW t \in MaintWord, NEW u \in MaintWord,
           NEW v \in N!Counts, nstore \in MaintStore
    PROVE  /\ N!MergeTokens(q, t, u, v) \in Seq(MaintItem)
           /\ N!ReplaceToken(q, t, u, v) \in Seq(MaintItem)
<1> DEFINE deleted == Append(q, N!Deletion(t))
           found == N!TaRead(nstore, deleted, u)
<1>1. deleted \in Seq(MaintItem)
  BY SameQueue, AppendProperties DEF MaintItem
<1>2. found \in N!Counts \cup {Absent}
  BY <1>1, SameQueue, ReadIsCounts
<1>3. \A y \in N!Counts : N!Writing(u, y) \in MaintItem
  BY SameQueue DEF MaintItem
<1>4. N!Writing(u, IF found = Absent THEN v ELSE N!Sum(found, v)) \in MaintItem
  BY <1>2, <1>3, SumIsCounts
<1>5. N!MergeTokens(q, t, u, v) \in Seq(MaintItem)
  BY <1>1, <1>4, AppendProperties DEF N!MergeTokens
<1>6. <<N!Deletion(t), N!Writing(u, v)>> \in Seq(MaintItem)
  BY <1>3, SameQueue DEF MaintItem
<1>7. N!ReplaceToken(q, t, u, v) \in Seq(MaintItem)
  BY <1>6, ConcatProperties DEF N!ReplaceToken
<1> QED BY <1>5, <1>7

\* A key becomes a key, and ".MSG_COUNT" stays what it is.
LEMMA TargetTypes ==
    ASSUME NEW t \in MaintWord, NEW from
    PROVE  /\ Replaced[t] \in MaintWord /\ Prefixed[t] \in MaintWord
           /\ N!Recoded(nopt, from, t) \in MaintWord
           /\ N!Target(nopt, from, t) \in MaintWord
           /\ N!Target(nopt, from, MsgCount) = MsgCount
<1>1. \A f \in {Replaced, FromRaw, ToRaw, Prefixed} :
            f \in [MaintWord -> MaintWord] /\ f[MsgCount] = MsgCount
  BY MaintAssumption DEF N!SpecialKeysAssumption
<1> QED BY <1>1 DEF N!Recoded, N!Target

\* The key the walk comes to.
LEMMA WalkFacts ==
    ASSUME MaintTypes, N!Walk
    PROVE  /\ npc = "walk" /\ cursor \in 1 .. Len(MaintOrder) /\ nstore = nbefore.store
           /\ MaintOrder[cursor] \in MaintWord
           /\ MaintOrder[cursor] \notin Walked
           /\ Walked' = Walked \cup {MaintOrder[cursor]}
           /\ nqueue' = IF nstore[MaintOrder[cursor]] = Absent THEN nqueue
                        ELSE N!Hook(MaintOrder[cursor], nstore[MaintOrder[cursor]])
           /\ UNCHANGED <<npc, nopt, nstore, enc, old, ret, nbefore>>
<1>1. /\ npc = "walk" /\ cursor <= Len(MaintOrder) /\ cursor' = cursor + 1
      /\ nqueue' = IF nstore[MaintOrder[cursor]] = Absent THEN nqueue
                   ELSE N!Hook(MaintOrder[cursor], nstore[MaintOrder[cursor]])
      /\ UNCHANGED <<npc, nopt, nstore, enc, old, ret, nbefore>>
  BY DEF N!Walk
<1>2. cursor \in 1 .. Len(MaintOrder) /\ Len(MaintOrder) \in Nat
  BY <1>1, OrderFacts DEF MaintTypes
<1>3. MaintOrder[cursor] \notin Walked
  BY <1>2, OrderFacts DEF Walked
<1>4. Walked' = Walked \cup {MaintOrder[cursor]}
  <2>1. 1 .. cursor' - 1 = (1 .. cursor - 1) \cup {cursor}
    BY <1>1, <1>2
  <2> QED BY <2>1 DEF Walked
<1> QED BY <1>1, <1>2, <1>3, <1>4, OrderFacts DEF MaintTypes

\* A step keeps the types of the variables.
LEMMA MaintTypesKept ==
    ASSUME MaintTypes, N!Next
    PROVE  MaintTypes'
<1>1. CASE N!Walk
  <2> DEFINE t == MaintOrder[cursor]
  <2>1. nqueue' \in Seq(MaintItem)
    <3>1. CASE nstore[t] = Absent
      BY <1>1, <3>1, WalkFacts DEF MaintTypes
    <3>2. CASE nstore[t] # Absent
      <4>1. nqueue' = N!Hook(t, nstore[t]) /\ t \in MaintWord /\ nstore[t] \in N!Counts
            /\ nqueue \in Seq(MaintItem) /\ nstore \in MaintStore
        BY <1>1, <3>2, WalkFacts DEF MaintTypes, MaintStore
      <4> HIDE DEF t
      <4>2. Append(nqueue, N!Deletion(t)) \in Seq(MaintItem)
        BY <4>1, SameQueue, AppendProperties DEF MaintItem
      <4> DEFINE replaced == IF nopt.replace THEN N!MergeTokens(nqueue, t, Replaced[t], nstore[t])
                             ELSE nqueue
                 recoded == N!MergeTokens(replaced, t, N!Recoded(nopt, old, t), nstore[t])
      <4>3. replaced \in Seq(MaintItem)
        BY <4>1, TargetTypes, MergeTypes
      <4> HIDE DEF replaced
      <4>4. recoded \in Seq(MaintItem)
        BY <4>1, <4>3, TargetTypes, MergeTypes
      <4> HIDE DEF recoded
      <4>5. N!ReplaceToken(recoded, t, Prefixed[t], nstore[t]) \in Seq(MaintItem)
        BY <4>1, <4>4, TargetTypes, MergeTypes
      <4> QED BY <4>1, <4>2, <4>4, <4>5 DEF N!Hook, replaced, recoded
    <3> QED BY <3>1, <3>2
  <2>2. cursor' \in 1 .. Len(MaintOrder) + 1
    <3>1. cursor \in 1 .. Len(MaintOrder) /\ cursor' = cursor + 1 /\ Len(MaintOrder) \in Nat
      BY <1>1, WalkFacts, OrderFacts DEF N!Walk
    <3> QED BY <3>1
  <2> QED BY <1>1, <2>1, <2>2, WalkFacts DEF MaintTypes, N!OldEncoding
<1>2. CASE N!EndOfWalk
  <2>1. nstore' \in MaintStore
    <3>1. [spam |-> CurrentVersion, good |-> 0, date |-> 0] \in N!Counts
      BY MaintAssumption DEF N!Counts
    <3> QED BY <1>2, <3>1 DEF N!EndOfWalk, MaintTypes, MaintStore
  <2>2. cursor = Len(MaintOrder) + 1
    BY <1>2, OrderFacts DEF N!EndOfWalk, MaintTypes
  <2> QED BY <1>2, <2>1, <2>2 DEF N!EndOfWalk, MaintTypes, N!OldEncoding
<1>3. CASE N!Flush
  <2>1. nqueue # <<>> /\ nqueue \in Seq(MaintItem)
    BY <1>3 DEF N!Flush, MaintTypes
  <2>2. Head(nqueue) \in MaintItem /\ Tail(nqueue) \in Seq(MaintItem)
    BY <2>1, HeadTailProperties
  <2>3. nstore' \in MaintStore
    BY <1>3, <2>2, SameQueue DEF N!Flush, MaintTypes, MaintStore, MaintItem, Applied
  <2> QED BY <1>3, <2>2, <2>3 DEF N!Flush, MaintTypes, N!OldEncoding
<1>4. CASE N!Commit
  BY <1>4 DEF N!Commit, MaintTypes, N!OldEncoding
<1> QED BY <1>1, <1>2, <1>3, <1>4 DEF N!Next

\* Two items at once are one after the other.
LEMMA TwoMore ==
    ASSUME NEW S, NEW q \in Seq(S), NEW x \in S, NEW y \in S
    PROVE  q \o <<x, y>> = Append(Append(q, x), y)
<1>1. Append(q, x) \in Seq(S) /\ Append(q, x) = q \o <<x>>
  BY AppendProperties, AppendIsConcat
<1>2. Append(Append(q, x), y) = (q \o <<x>>) \o <<y>>
  BY <1>1, AppendIsConcat
<1>3. <<x>> \in Seq(S) /\ <<y>> \in Seq(S) /\ <<x, y>> \in Seq(S)
  OBVIOUS
<1>4. <<x>> \o <<y>> = <<x, y>>
  <2>1. /\ Len(<<x>>) = 1 /\ Len(<<y>>) = 1 /\ Len(<<x, y>>) = 2
        /\ <<x>>[1] = x /\ <<y>>[1] = y /\ <<x, y>>[1] = x /\ <<x, y>>[2] = y
    OBVIOUS
  <2>2. /\ <<x>> \o <<y>> \in Seq(S) /\ Len(<<x>> \o <<y>>) = 2
        /\ \A i \in 1 .. 2 : (<<x>> \o <<y>>)[i] = <<x, y>>[i]
    BY <1>3, <2>1, ConcatProperties
  <2> QED BY <1>3, <2>1, <2>2, SeqEqual
<1> QED BY <1>2, <1>3, <1>4, ConcatAssociative

\* What a step of the walk queues.
LEMMA HookEffect ==
    ASSUME MaintTypes, ~AnyChain, NEW t \in MaintWord, nstore = nbefore.store,
           nstore[t] # Absent
    PROVE  LET found(u) == TaRead(nstore, Append(nqueue, N!Deletion(t)), u)
               u == N!Target(nopt, old, t)
           IN  IF t \notin N!Kept(nopt, nbefore)
                  THEN N!Hook(t, nstore[t]) = Append(nqueue, N!Deletion(t))
               ELSE IF u = t THEN N!Hook(t, nstore[t]) = nqueue
               ELSE N!Hook(t, nstore[t]) =
                        Append(Append(nqueue, N!Deletion(t)),
                               N!Writing(u, IF nopt.upgrade \/ found(u) = Absent THEN nstore[t]
                                            ELSE N!Sum(found(u), nstore[t])))
<1> DEFINE val == nstore[t]
           u == N!Target(nopt, old, t)
           deleted == Append(nqueue, N!Deletion(t))
           found(x) == TaRead(nstore, deleted, x)
           merged(x) == Append(deleted, N!Writing(x, IF found(x) = Absent THEN val
                                                     ELSE N!Sum(found(x), val)))
<1>f. /\ nopt \in N!Option /\ N!Regular(nopt, nbefore)
      /\ nqueue \in Seq(MaintItem) /\ val \in N!Counts /\ old = N!OldEncoding(nbefore)
  BY MaintFacts DEF MaintTypes, MaintStore
<1>k. t \in N!Kept(nopt, nbefore) <=> ~N!DiscardToken(nopt, t, val)
  BY DEF N!Kept
<1>m. \A x : N!MergeTokens(nqueue, t, x, val) = IF t = x THEN nqueue ELSE merged(x)
  BY SameQueue DEF N!MergeTokens
<1>1. CASE N!DiscardToken(nopt, t, val)
  BY <1>1, <1>k DEF N!Hook, N!DiscardToken
<1>2. CASE t = MsgCount
  <2>1. ~N!DiscardToken(nopt, t, val) /\ u = t
    BY <1>2, TargetTypes DEF N!DiscardToken
  <2> QED BY <1>2, <1>k, <2>1 DEF N!Hook
<1>3. CASE ~N!DiscardToken(nopt, t, val) /\ t # MsgCount /\ nopt.replace
  <2>1. ~nopt.upgrade /\ N!Recoded(nopt, old, t) = t /\ u = Replaced[t]
    BY <1>f, <1>3, <1>k DEF N!Regular, N!Target
  <2>2. N!Hook(t, val) = N!MergeTokens(N!MergeTokens(nqueue, t, Replaced[t], val), t, t, val)
    BY <1>3, <2>1 DEF N!Hook
  <2>3. N!Hook(t, val) = IF t = u THEN nqueue ELSE merged(u)
    BY <1>m, <2>1, <2>2 DEF N!MergeTokens
  <2> QED BY <1>3, <1>k, <2>1, <2>3
<1>4. CASE ~N!DiscardToken(nopt, t, val) /\ t # MsgCount /\ ~nopt.replace /\ nopt.upgrade
  <2>1. N!Recoded(nopt, old, t) = t /\ u = Prefixed[t]
    BY <1>f, <1>4, <1>k DEF N!Regular, N!Target
  <2>2. N!Hook(t, val) = N!ReplaceToken(nqueue, t, u, val)
    BY <1>4, <2>1 DEF N!Hook, N!MergeTokens
  <2>3. u # t => N!Hook(t, val) = Append(deleted, N!Writing(u, val))
    <3>0. u \in MaintWord
      BY TargetTypes
    <3>1. N!Deletion(t) \in MaintItem /\ N!Writing(u, val) \in MaintItem
      BY <1>f, <3>0, SameQueue DEF MaintItem
    <3> QED BY <1>f, <2>2, <3>1, TwoMore DEF N!ReplaceToken
  <2> QED BY <1>4, <1>k, <2>2, <2>3 DEF N!ReplaceToken
<1>5. CASE ~N!DiscardToken(nopt, t, val) /\ t # MsgCount /\ ~nopt.replace /\ ~nopt.upgrade
  <2>1. u = N!Recoded(nopt, old, t)
    BY <1>5 DEF N!Target
  <2>2. N!Hook(t, val) = N!MergeTokens(nqueue, t, u, val)
    BY <1>5, <2>1 DEF N!Hook
  <2> QED BY <1>5, <1>k, <1>m, <2>2
<1>6. nopt.replace \in BOOLEAN /\ nopt.upgrade \in BOOLEAN
  BY <1>f DEF N!Option
<1> QED BY <1>1, <1>2, <1>3, <1>4, <1>5, <1>6

\* A token that goes away was there with its own counts alone.
LEMMA AloneWhenMoved ==
    ASSUME MaintTypes, ~AnyChain, npc = "walk", cursor \in 1 .. Len(MaintOrder),
           NEW t \in MaintWord, t = MaintOrder[cursor], nbefore.store[t] # Absent,
           ~N!Stays(nopt, nbefore, t)
    PROVE  Now(Walked, t) = {t}
<1>f. N!Regular(nopt, nbefore) /\ old = N!OldEncoding(nbefore)
  BY MaintFacts DEF MaintTypes
<1>1. t \notin Walked
  BY OrderFacts DEF Walked, MaintTypes
<1>2. ASSUME NEW s \in MaintWord, s \in Walked, s \in N!Kept(nopt, nbefore),
             N!Target(nopt, old, s) = t
      PROVE  FALSE
  <2>1. N!Moves(nopt, nbefore, s, t)
    BY <1>1, <1>2, <1>f DEF N!Moves
  <2>2. N!WalkedBefore(t, s)
    BY <1>f, <2>1 DEF N!Regular
  <2>3. PICK i \in DOMAIN MaintOrder, j \in DOMAIN MaintOrder :
            i < j /\ MaintOrder[i] = t /\ MaintOrder[j] = s
    BY <2>2 DEF N!WalkedBefore
  <2>4. i = cursor
    BY <2>3, OrderFacts
  <2>5. PICK k \in 1 .. cursor - 1 : MaintOrder[k] = s
    BY <1>2 DEF Walked
  <2>6. k = j
    BY <2>3, <2>5, OrderFacts
  <2> QED BY <2>3, <2>4, <2>5, <2>6, OrderFacts
<1> QED BY <1>1, <1>2 DEF Now

\* A finite set has an element with the greatest value.
LEMMA GreatestExists ==
    ASSUME NEW W, IsFiniteSet(W), NEW h \in [W -> Nat], NEW S \in SUBSET W, S # {}
    PROVE  \E x \in S : \A y \in S : h[x] >= h[y]
<1> DEFINE Has(s) == \E x \in s : \A y \in s : h[x] >= h[y]
           Bad == {n \in Nat : \E s \in SUBSET W : s # {} /\ Cardinality(s) = n /\ ~Has(s)}
<1> SUFFICES ASSUME ~Has(S) PROVE FALSE
  OBVIOUS
<1>1. Cardinality(S) \in Bad /\ Bad \in SUBSET Nat
  BY FS_Subset, FS_CardinalityType
<1>2. PICK n \in Bad : \A i \in Bad : n <= i
  <2> HIDE DEF Bad
  <2> QED BY <1>1, LeastNat
<1>3. PICK s \in SUBSET W : s # {} /\ Cardinality(s) = n /\ ~Has(s)
  BY <1>2
<1>4. PICK x \in s : TRUE
  BY <1>3
<1>5. /\ s \ {x} \in SUBSET W /\ Cardinality(s \ {x}) \in Nat
      /\ Cardinality(s \ {x}) = n - 1 /\ n \in Nat
  BY <1>3, <1>4, SmallerSet
<1>6. s \ {x} = {} \/ Has(s \ {x})
  <2> SUFFICES ASSUME s \ {x} # {}, ~Has(s \ {x})
               PROVE  FALSE
    OBVIOUS
  <2>1. n - 1 \in Bad
    BY <1>5
  <2> QED BY <1>2, <1>5, <2>1
<1>7. \A y \in s : h[y] \in Nat
  OBVIOUS
<1>8. CASE s \ {x} = {}
  <2>1. \A y \in s : y = x
    BY <1>8
  <2> QED BY <1>3, <1>4, <1>7, <2>1
<1>9. CASE Has(s \ {x})
  <2>1. PICK z \in s \ {x} : \A y \in s \ {x} : h[z] >= h[y]
    BY <1>9
  <2>2. CASE h[z] >= h[x]
    <3>1. \A y \in s : h[z] >= h[y]
      BY <2>1, <2>2
    <3> QED BY <1>3, <2>1, <3>1
  <2>3. CASE ~(h[z] >= h[x])
    <3>1. \A y \in s : h[x] >= h[y]
      BY <1>4, <1>7, <2>1, <2>3
    <3> QED BY <1>3, <1>4, <3>1
  <2> QED BY <2>2, <2>3
<1> QED BY <1>6, <1>8, <1>9

-----------------------------------------------------------------------------
\* The keys that the wordlist had at the start, and their numbers.
Present == {t \in MaintWord : nbefore.store[t] # Absent}
MaintSpam == [t \in Present |-> nbefore.store[t].spam]
MaintGood == [t \in Present |-> nbefore.store[t].good]
MaintDate == [t \in Present |-> nbefore.store[t].date]
MaintDates(S) == {nbefore.store[t].date : t \in S}

\* The keys that the wordlist had, and what it had for them.
LEMMA PresentFacts ==
    ASSUME MaintTypes
    PROVE  /\ IsFiniteSet(Present) /\ Present \subseteq MaintWord
           /\ \A t \in Present : nbefore.store[t] \in N!Counts
           /\ MaintSpam \in [Present -> Nat] /\ MaintGood \in [Present -> Nat]
           /\ MaintDate \in [Present -> Nat]
<1>1. Present \subseteq MaintWord /\ \A t \in Present : nbefore.store[t] \in N!Counts
  BY MaintFacts DEF Present, MaintStore
<1>2. IsFiniteSet(Present)
  BY <1>1, FiniteWords, FS_Subset
<1> QED BY <1>1, <1>2 DEF MaintSpam, MaintGood, MaintDate, N!Counts

\* The latest date of one key more.
LEMMA DatesOfMore ==
    ASSUME MaintTypes, NEW S \in SUBSET Present, S # {}, NEW x \in Present
    PROVE  /\ N!Max(MaintDates(S)) \in Nat
           /\ N!Max(MaintDates(S \cup {x})) = N!Max({N!Max(MaintDates(S)), nbefore.store[x].date})
<1>1. ASSUME NEW T \in SUBSET Present, T # {}
      PROVE  /\ N!Max(MaintDates(T)) \in MaintDates(T) /\ MaintDates(T) \subseteq Nat
             /\ \A d \in MaintDates(T) : N!Max(MaintDates(T)) >= d
  <2>1. PICK y \in T : \A z \in T : MaintDate[y] >= MaintDate[z]
    BY <1>1, PresentFacts, GreatestExists
  <2>2. \A z \in T : MaintDate[z] = nbefore.store[z].date
    BY DEF MaintDate
  <2>3. /\ nbefore.store[y].date \in MaintDates(T)
        /\ \A d \in MaintDates(T) : nbefore.store[y].date >= d
    BY <2>1, <2>2 DEF MaintDates
  <2>4. MaintDates(T) \subseteq Nat
    BY PresentFacts DEF MaintDates, N!Counts
  <2> QED BY <2>3, <2>4 DEF N!Max
<1> DEFINE m == N!Max(MaintDates(S))
           n == N!Max(MaintDates(S \cup {x}))
           d == nbefore.store[x].date
<1>2. m \in Nat /\ m \in MaintDates(S) /\ \A e \in MaintDates(S) : m >= e
  BY <1>1
<1>3. n \in Nat /\ n \in MaintDates(S \cup {x}) /\ \A e \in MaintDates(S \cup {x}) : n >= e
  <2>1. S \cup {x} \in SUBSET Present /\ S \cup {x} # {}
    OBVIOUS
  <2> DEFINE T == S \cup {x}
  <2> HIDE DEF T
  <2>2. N!Max(MaintDates(T)) \in MaintDates(T) /\ MaintDates(T) \subseteq Nat
             /\ \A e \in MaintDates(T) : N!Max(MaintDates(T)) >= e
    BY <1>1, <2>1 DEF T
  <2> QED BY <2>2 DEF T
<1>4. MaintDates(S \cup {x}) = MaintDates(S) \cup {d}
  BY DEF MaintDates
<1>5. d \in Nat
  BY PresentFacts DEF N!Counts
<1> HIDE DEF m, n, d
<1>6. n = IF m >= d THEN m ELSE d
  <2>1. n >= m /\ n >= d
    BY <1>2, <1>3, <1>4
  <2>2. n = d \/ m >= n
    BY <1>2, <1>3, <1>4
  <2> QED BY <1>2, <1>3, <1>5, <2>1, <2>2
<1> QED BY <1>2, <1>5, <1>6, LaterDate DEF m, n, d

\* Combined is made of sums that can be reasoned about.
LEMMA CombinedTotals ==
    ASSUME MaintTypes, NEW S \in SUBSET Present
    PROVE  N!Combined(S) = [spam |-> Total(MaintSpam, S), good |-> Total(MaintGood, S),
                            date |-> N!Max(MaintDates(S))]
<1> DEFINE SpamSum(f) ==
               f = [s \in SUBSET S |->
                      IF s = {} THEN 0
                      ELSE nbefore.store[AnyOf(s)].spam + f[s \ {AnyOf(s)}]]
           GoodSum(f) ==
               f = [s \in SUBSET S |->
                      IF s = {} THEN 0
                      ELSE nbefore.store[AnyOf(s)].good + f[s \ {AnyOf(s)}]]
           spam == N!MapThenSumSet(LAMBDA t : nbefore.store[t].spam, S)
           good == N!MapThenSumSet(LAMBDA t : nbefore.store[t].good, S)
<1>1. \A s \in SUBSET S : s # {} => AnyOf(s) \in Present
  BY DEF AnyOf
<1>2. \A f : IsSum(MaintSpam, S, f) <=> SpamSum(f)
  BY <1>1 DEF IsSum, MaintSpam
<1>3. \A f : IsSum(MaintGood, S, f) <=> GoodSum(f)
  BY <1>1 DEF IsSum, MaintGood
<1>4. IsFiniteSet(S) /\ S \subseteq Present
  BY PresentFacts, FS_Subset
<1>5. ASSUME NEW g \in [Present -> Nat]
      PROVE  /\ \E f : IsSum(g, S, f)
             /\ \A f : IsSum(g, S, f) => f[S] = Total(g, S)
  <2>1. PICK h \in [SUBSET Present -> Nat] : IsSum(g, Present, h) /\ Total(g, S) = h[S]
    BY PresentFacts, TotalIsSum
  <2>2. \A f : IsSum(g, S, f) => f[S] = h[S]
    BY <1>4, <2>1, SumsAgree
  <2>3. \E f : IsSum(g, S, f)
    BY <1>4, PresentFacts, SumRestricts
  <2> QED BY <2>1, <2>2, <2>3
<1>6. spam = Total(MaintSpam, S)
  <2> DEFINE it == CHOOSE f : SpamSum(f)
  <2>1. SpamSum(it)
    BY <1>2, <1>5, PresentFacts
  <2>2. spam = it[S]
    BY DEF N!MapThenSumSet, N!MapThenFoldSet, AnyOf
  <2> QED BY <1>2, <1>5, <2>1, <2>2, PresentFacts
<1>7. good = Total(MaintGood, S)
  <2> DEFINE it == CHOOSE f : GoodSum(f)
  <2>1. GoodSum(it)
    BY <1>3, <1>5, PresentFacts
  <2>2. good = it[S]
    BY DEF N!MapThenSumSet, N!MapThenFoldSet, AnyOf
  <2> QED BY <1>3, <1>5, <2>1, <2>2, PresentFacts
<1> QED BY <1>6, <1>7 DEF N!Combined, MaintDates

\* One key combined is what it was.
LEMMA CombinedOne ==
    ASSUME MaintTypes, NEW x \in Present
    PROVE  N!Combined({x}) = nbefore.store[x]
<1> DEFINE c == nbefore.store[x]
<1>1. c \in N!Counts
  BY PresentFacts
<1>2. ASSUME NEW g \in [Present -> Nat] PROVE Total(g, {x}) = g[x]
  <2>1. {} \cup {x} = {x}
    OBVIOUS
  <2>2. Total(g, {} \cup {x}) = Total(g, {}) + g[x]
    BY PresentFacts, TotalOfMore
  <2>3. Total(g, {}) = 0 /\ g[x] \in Nat
    BY PresentFacts, TotalOfNone
  <2> QED BY <2>1, <2>2, <2>3
<1>3. Total(MaintSpam, {x}) = c.spam /\ Total(MaintGood, {x}) = c.good
  BY <1>2, PresentFacts DEF MaintSpam, MaintGood
<1>4. N!Max(MaintDates({x})) = c.date
  <2>1. MaintDates({x}) = {c.date} /\ c.date \in Nat
    BY <1>1 DEF MaintDates, N!Counts
  <2> QED BY <2>1 DEF N!Max
<1>5. c = [spam |-> c.spam, good |-> c.good, date |-> c.date]
  BY <1>1 DEF N!Counts
<1> QED BY <1>3, <1>4, <1>5, CombinedTotals

\* One key more is what merge_tokens adds.
LEMMA CombinedMore ==
    ASSUME MaintTypes, NEW S \in SUBSET Present, S # {}, NEW x \in Present \ S
    PROVE  /\ N!Combined(S) \in N!Counts
           /\ N!Combined(S \cup {x}) = N!Sum(N!Combined(S), nbefore.store[x])
<1> DEFINE c == nbefore.store[x]
           more == S \cup {x}
<1>1. c \in N!Counts
  BY PresentFacts
<1>2. /\ Total(MaintSpam, S) \in Nat /\ Total(MaintSpam, more) = Total(MaintSpam, S) + c.spam
      /\ Total(MaintGood, S) \in Nat /\ Total(MaintGood, more) = Total(MaintGood, S) + c.good
  <2>1. ASSUME NEW g \in [Present -> Nat]
        PROVE  Total(g, S) \in Nat /\ Total(g, S \cup {x}) = Total(g, S) + g[x]
    BY PresentFacts, TotalOfMore
  <2>2. MaintSpam[x] = c.spam /\ MaintGood[x] = c.good
    BY DEF MaintSpam, MaintGood
  <2> QED BY <2>1, <2>2, PresentFacts
<1>3. /\ N!Max(MaintDates(S)) \in Nat
      /\ N!Max(MaintDates(more)) = N!Max({N!Max(MaintDates(S)), c.date})
  BY DatesOfMore
<1>4. more \in SUBSET Present
  OBVIOUS
<1> HIDE DEF more
<1>5. N!Combined(more) = [spam |-> Total(MaintSpam, more), good |-> Total(MaintGood, more),
                          date |-> N!Max(MaintDates(more))]
  BY <1>4, CombinedTotals
<1>6. N!Combined(S) = [spam |-> Total(MaintSpam, S), good |-> Total(MaintGood, S),
                       date |-> N!Max(MaintDates(S))]
  BY CombinedTotals
<1>7. N!Combined(more) = N!Sum(N!Combined(S), c)
  BY <1>2, <1>3, <1>5, <1>6 DEF N!Sum
<1> QED BY <1>2, <1>3, <1>6, <1>7 DEF N!Counts, more

\* The tokens that became u, when the walk has been to one more.
LEMMA NowAfter ==
    ASSUME NEW P, NEW t \in MaintWord \ P, NEW u \in MaintWord
    PROVE  /\ t \in N!Kept(nopt, nbefore) /\ N!Target(nopt, old, t) = u
                => Now(P \cup {t}, u) = Now(P, u) \cup {t}
           /\ u # t /\ ~(t \in N!Kept(nopt, nbefore) /\ N!Target(nopt, old, t) = u)
                => Now(P \cup {t}, u) = Now(P, u)
           /\ u = t /\ ~(t \in N!Kept(nopt, nbefore) /\ N!Target(nopt, old, t) = u)
                => Now(P \cup {t}, u) = Now(P, u) \ {t}
           /\ u # t => t \notin Now(P, u)
           /\ Now(P, u) \subseteq Present
           /\ t = u /\ nbefore.store[t] # Absent => t \in Now(P, u)
           /\ nbefore.store[t] = Absent => t \notin N!Kept(nopt, nbefore) /\ t \notin Now(P, u)
           /\ t \in N!Kept(nopt, nbefore) => t \in Present
BY DEF Now, N!Kept, Present

\* Before a token is moved by -u, none has become what it becomes.
LEMMA FreeWhenUpgraded ==
    ASSUME MaintTypes, ~AnyChain, npc = "walk", cursor \in 1 .. Len(MaintOrder),
           NEW t \in MaintWord, t = MaintOrder[cursor], t \in N!Kept(nopt, nbefore),
           N!Target(nopt, old, t) # t, nopt.upgrade
    PROVE  Now(Walked, N!Target(nopt, old, t)) = {}
<1> DEFINE u == N!Target(nopt, old, t)
<1>f. N!Regular(nopt, nbefore) /\ old = N!OldEncoding(nbefore)
  BY MaintFacts DEF MaintTypes
<1>1. t \notin Walked /\ u \in MaintWord
  <2>1. t \notin Walked
    BY OrderFacts DEF Walked, MaintTypes
  <2> QED BY <2>1, TargetTypes
<1>2. N!Moves(nopt, nbefore, t, u)
  BY <1>f DEF N!Moves
<1>3. /\ ~N!Stays(nopt, nbefore, u)
      /\ \A v \in N!Kept(nopt, nbefore) : N!Target(nopt, old, v) = u => v = t
      /\ nbefore.store[u] # Absent => N!Stays(nopt, nbefore, u) \/ N!WalkedBefore(u, t)
  BY <1>f, <1>1, <1>2 DEF N!Regular
<1>4. nbefore.store[u] # Absent => u \in Walked
  <2> SUFFICES ASSUME nbefore.store[u] # Absent
               PROVE  u \in Walked
    OBVIOUS
  <2>1. PICK i \in DOMAIN MaintOrder, j \in DOMAIN MaintOrder :
            i < j /\ MaintOrder[i] = u /\ MaintOrder[j] = t
    BY <1>3 DEF N!WalkedBefore
  <2>2. j = cursor
    BY <2>1, OrderFacts
  <2>3. i \in 1 .. cursor - 1
    BY <2>1, <2>2, OrderFacts
  <2> QED BY <2>1, <2>3 DEF Walked
<1> QED BY <1>1, <1>3, <1>4 DEF Now

-----------------------------------------------------------------------------
(* No deletion of what is not there *)
\* An item more at the end: a deletion of what is read as present finds it.
LEMMA FoundMore ==
    ASSUME NEW s, NEW q \in Seq(MaintItem), NEW item \in MaintItem, AllFound(s, q),
           item.val = Absent => TaRead(s, q, item.word) # Absent
    PROVE  AllFound(s, Append(q, item))
<1> DEFINE new == Append(q, item)
           n == Len(q) + 1
<1>1. /\ Len(new) = n /\ new \in Seq(MaintItem)
      /\ new[n] = item
      /\ \A i \in 1 .. Len(q) : new[i] = q[i]
  BY AppendProperties
<1>2. DOMAIN new = 1 .. n /\ DOMAIN q = 1 .. Len(q) /\ Len(q) \in Nat
  BY <1>1, LenProperties
<1> HIDE DEF new
<1>3. ASSUME NEW i \in 1 .. Len(q)
      PROVE  Finds(s, new, i)
  <2>1. Finds(s, q, i)
    BY <1>2 DEF AllFound
  <2>2. \A j \in 1 .. i : new[j] = q[j]
    BY <1>1, <1>2
  <2> QED BY <1>2, <2>1, <2>2 DEF Finds
<1>4. Finds(s, new, n)
  <2> SUFFICES ASSUME item.val = Absent
               PROVE  Finds(s, new, n)
    BY <1>1 DEF Finds
  <2>0. TaRead(s, q, item.word) # Absent
    OBVIOUS
  <2>1. \A j \in 1 .. n - 1 : new[j] = q[j]
    BY <1>1, <1>2
  <2>2. (\A j \in 1 .. n - 1 : new[j].word # item.word) => s[item.word] # Absent
    <3> SUFFICES ASSUME \A j \in 1 .. n - 1 : new[j].word # item.word
                 PROVE  s[item.word] # Absent
      OBVIOUS
    <3>1. Places(q, item.word) = {}
      BY <1>2, <2>1 DEF Places
    <3> QED BY <2>0, <3>1 DEF TaRead
  <2>3. ASSUME NEW j \in 1 .. n - 1, new[j].word = item.word,
               \A k \in j + 1 .. n - 1 : new[k].word # item.word
        PROVE  new[j].val # Absent
    <3>1. j \in Places(q, item.word) /\ \A k \in Places(q, item.word) : k <= j
      BY <1>2, <2>1, <2>3 DEF Places
    <3>2. TaRead(s, q, item.word) = q[j].val
      BY <3>1, LastIsLast
    <3> QED BY <2>0, <2>1, <3>2
  <2> QED BY <1>1, <2>2, <2>3 DEF Finds
<1>5. \A i \in 1 .. n : i \in 1 .. Len(q) \/ i = n
  BY <1>2
<1> QED BY <1>2, <1>3, <1>4, <1>5 DEF AllFound, new

\* ta_flush: the first item finds what it deletes, and the rest still does.
LEMMA FoundRest ==
    ASSUME NEW s \in MaintStore, NEW q \in Seq(MaintItem), q # <<>>, AllFound(s, q)
    PROVE  /\ Head(q).val = Absent => s[Head(q).word] # Absent
           /\ AllFound(Applied(s, Head(q)), Tail(q))
<1> DEFINE rest == Tail(q)
           first == Head(q)
           new == Applied(s, first)
<1>1. /\ rest \in Seq(MaintItem)
      /\ Len(rest) = Len(q) - 1
      /\ \A i \in 1 .. Len(rest) : rest[i] = q[i + 1]
      /\ first = q[1]
  BY HeadTailProperties
<1>2. /\ Len(q) \in Nat
      /\ Len(q) >= 1
      /\ DOMAIN q = 1 .. Len(q)
      /\ DOMAIN rest = 1 .. Len(q) - 1
  BY <1>1, LenProperties, EmptySeq
<1>3. \A t \in MaintWord : new[t] = IF t = first.word THEN first.val ELSE s[t]
  BY DEF Applied, MaintStore
<1> HIDE DEF rest, first, new
<1>4. first.val = Absent => s[first.word] # Absent
  <2>1. Finds(s, q, 1)
    BY <1>2 DEF AllFound
  <2> QED BY <1>1, <2>1 DEF Finds
<1>5. ASSUME NEW i \in DOMAIN rest, rest[i].val = Absent
      PROVE  Finds(new, rest, i)
  <2> DEFINE t == rest[i].word
  <2>1. /\ i \in Nat /\ i >= 1 /\ i + 1 \in DOMAIN q /\ rest[i] = q[i + 1]
        /\ \A j \in 1 .. i : rest[j] = q[j + 1]
    BY <1>1, <1>2
  <2>2. Finds(s, q, i + 1)
    BY <2>1 DEF AllFound
  <2>3. t \in MaintWord
    <3>1. rest[i] \in MaintItem
      BY <1>1, <1>2, ElementOfSeq
    <3> QED BY <3>1 DEF MaintItem
  <2>4. /\ (\A j \in 1 .. i : q[j].word # t) => s[t] # Absent
        /\ \A j \in 1 .. i :
              q[j].word = t /\ (\A k \in j + 1 .. i : q[k].word # t) => q[j].val # Absent
    BY <1>5, <2>1, <2>2 DEF Finds
  <2>5. ASSUME \A j \in 1 .. i - 1 : rest[j].word # t
        PROVE  new[t] # Absent
    <3>1. \A k \in 2 .. i : q[k].word # t
      <4> TAKE k \in 2 .. i
      <4>1. k - 1 \in 1 .. i - 1 /\ k - 1 \in 1 .. i /\ (k - 1) + 1 = k
        BY <2>1
      <4>2. rest[k - 1] = q[k]
        BY <2>1, <4>1
      <4> QED BY <2>5, <4>1, <4>2
    <3>2. CASE t = first.word
      BY <1>1, <1>3, <2>1, <2>3, <2>4, <3>1, <3>2
    <3>3. CASE t # first.word
      <4>1. \A j \in 1 .. i : q[j].word # t
        BY <1>1, <2>1, <3>1, <3>3
      <4> QED BY <1>3, <2>3, <2>4, <3>3, <4>1
    <3> QED BY <3>2, <3>3
  <2>6. ASSUME NEW j \in 1 .. i - 1, rest[j].word = t,
               \A k \in j + 1 .. i - 1 : rest[k].word # t
        PROVE  rest[j].val # Absent
    <3>1. j + 1 \in 1 .. i /\ rest[j] = q[j + 1]
      BY <2>1
    <3>2. \A k \in (j + 1) + 1 .. i : q[k].word # t
      <4> TAKE k \in (j + 1) + 1 .. i
      <4>1. k - 1 \in j + 1 .. i - 1 /\ k - 1 \in 1 .. i /\ (k - 1) + 1 = k
        BY <2>1
      <4>2. rest[k - 1] = q[k]
        BY <2>1, <4>1
      <4> QED BY <2>6, <4>1, <4>2
    <3> QED BY <2>4, <2>6, <3>1, <3>2
  <2> QED BY <2>5, <2>6 DEF Finds
<1>6. \A i \in DOMAIN rest : Finds(new, rest, i)
  BY <1>5 DEF Finds
<1> QED BY <1>4, <1>6 DEF AllFound, rest, first, new

\* A wordlist with more keys has what is deleted.
LEMMA FoundStill ==
    ASSUME NEW s, NEW r, NEW q \in Seq(MaintItem), AllFound(s, q),
           \A t \in MaintWord : s[t] # Absent => r[t] # Absent
    PROVE  AllFound(r, q)
<1>1. \A i \in DOMAIN q : q[i].word \in MaintWord
  <2>1. \A i \in DOMAIN q : q[i] \in MaintItem
    BY ElementOfSeq, LenProperties
  <2> QED BY <2>1 DEF MaintItem
<1> QED BY <1>1 DEF AllFound, Finds

\* Added, for the queue q and the keys W walked to.
MaintReads(q, W) ==
    \A x \in MaintWord : TaRead(nstore, q, x) = Sum0(Now(W, x))

\* A step changes no sum but by what the walk has been to.
LEMMA SameSums ==
    ASSUME UNCHANGED <<nopt, old, nbefore>>
    PROVE  \A P, x : Sum0(Now(P, x))' = Sum0(Now(P, x))
<1>1. \A P, x : Now(P, x)' = Now(P, x)
  BY DEF Now, N!Kept
<1>2. \A S : N!Combined(S)' = N!Combined(S)
  BY DEF N!Combined, N!MapThenSumSet, N!MapThenFoldSet
<1>3. \A S : Sum0(S)' = Sum0(S)
  BY <1>2 DEF Sum0
<1> QED BY <1>1, <1>3

\* So for a step that does not walk.
LEMMA SameSumsWalked ==
    ASSUME UNCHANGED <<nopt, old, nbefore>>, UNCHANGED cursor
    PROVE  \A x : Sum0(Now(Walked, x))' = Sum0(Now(Walked, x))
<1>1. Walked' = Walked
  BY DEF Walked
<1> QED BY <1>1, SameSums

\* A key is walked to: its counts go where its token goes.
LEMMA WalkKeeps ==
    ASSUME MaintTypes, ~AnyChain, Deletions, Added, N!Walk
    PROVE  Deletions' /\ Added'
<1> DEFINE t == MaintOrder[cursor]
           W == Walked \cup {t}
           u == N!Target(nopt, old, t)
<1>w. /\ npc = "walk" /\ cursor \in 1 .. Len(MaintOrder) /\ nstore = nbefore.store
      /\ t \in MaintWord /\ t \notin Walked /\ Walked' = W
      /\ nqueue' = IF nstore[t] = Absent THEN nqueue ELSE N!Hook(t, nstore[t])
      /\ UNCHANGED <<npc, nopt, nstore, enc, old, ret, nbefore>>
  BY WalkFacts
<1>q. nqueue \in Seq(MaintItem) /\ nstore \in MaintStore /\ nqueue' \in Seq(MaintItem)
      /\ old = N!OldEncoding(nbefore)
  <2>1. MaintTypes'
    BY MaintTypesKept DEF N!Next
  <2> QED BY <2>1 DEF MaintTypes
<1>r. \A x \in MaintWord : TaRead(nstore, nqueue, x) = Sum0(Now(Walked, x))
  BY <1>w DEF Added
<1>u. u \in MaintWord
  BY <1>w, TargetTypes
<1>s. SUFFICES AllFound(nstore, nqueue') /\ MaintReads(nqueue', W)
  <2>1. ASSUME MaintReads(nqueue', W) PROVE Added'
    <3>1. \A x \in MaintWord : TaRead(nstore', nqueue', x) = Sum0(Now(W, x))
      BY <1>w, <2>1 DEF MaintReads
    <3>2. \A x \in MaintWord : Sum0(Now(Walked, x))' = Sum0(Now(W, x))
      BY <1>w, SameSums
    <3> QED BY <3>1, <3>2 DEF Added
  <2>2. ASSUME AllFound(nstore, nqueue') PROVE Deletions'
    BY <1>w, <2>2 DEF Deletions
  <2> QED BY <2>1, <2>2
<1>f. AllFound(nstore, nqueue)
  BY DEF Deletions
<1>0. t \in MaintWord \ Walked
  BY <1>w
<1> HIDE DEF t, W, u
<1>a. ASSUME NEW x \in MaintWord
      PROVE  (x # t => t \notin Now(Walked, x)) /\ Now(Walked, x) \subseteq Present
  BY <1>0, NowAfter
<1>k. t \in N!Kept(nopt, nbefore) => nstore[t] # Absent
  BY <1>w DEF N!Kept
<1>b. ~(t \in N!Kept(nopt, nbefore) /\ u = t) /\ nstore[t] # Absent => Now(Walked, t) = {t}
  <2>1. ~(t \in N!Kept(nopt, nbefore) /\ u = t) => ~N!Stays(nopt, nbefore, t)
    BY <1>q DEF N!Stays, u
  <2> QED BY <1>w, <2>1, AloneWhenMoved DEF t
<1>c. ASSUME NEW x \in MaintWord, ~(t \in N!Kept(nopt, nbefore) /\ u = x)
      PROVE  Now(W, x) = IF x = t THEN Now(Walked, x) \ {t} ELSE Now(Walked, x)
  <2>1. CASE x = t
    BY <1>0, <1>c, <2>1 DEF u, W, Now, N!Kept
  <2>2. CASE x # t
    BY <1>0, <1>c, <2>2 DEF u, W, Now, N!Kept
  <2> QED BY <2>1, <2>2
<1>d. t \in N!Kept(nopt, nbefore) => Now(W, u) = Now(Walked, u) \cup {t}
  BY <1>w, <1>u, NowAfter DEF u, W
<1>1. CASE nstore[t] = Absent
  <2>1. t \notin N!Kept(nopt, nbefore) /\ t \notin Now(Walked, t)
    BY <1>w, <1>1, NowAfter
  <2>2. \A x \in MaintWord : Now(W, x) = Now(Walked, x)
    BY <1>c, <2>1
  <2> QED BY <1>w, <1>1, <1>r, <1>f, <2>2 DEF MaintReads
<1>2. CASE nstore[t] # Absent /\ t \in N!Kept(nopt, nbefore) /\ u = t
  <2>1. nqueue' = nqueue
    BY <1>w, <1>2, HookEffect DEF u
  <2>2. t \in Now(Walked, t)
    BY <1>w, <1>2, NowAfter
  <2>3. \A x \in MaintWord : Now(W, x) = Now(Walked, x)
    BY <1>c, <1>d, <1>2, <2>2
  <2> QED BY <1>r, <1>f, <2>1, <2>3 DEF MaintReads
<1> DEFINE deleted == Append(nqueue, N!Deletion(t))
<1>e. N!Deletion(t) \in MaintItem /\ N!Deletion(t).word = t /\ N!Deletion(t).val = Absent
  BY <1>w, SameQueue DEF MaintItem
<1>g. /\ deleted \in Seq(MaintItem)
      /\ \A x \in MaintWord : TaRead(nstore, deleted, x) =
                                IF x = t THEN Absent ELSE TaRead(nstore, nqueue, x)
  <2>1. deleted \in Seq(MaintItem)
    BY <1>q, <1>e, AppendProperties
  <2> QED BY <1>q, <1>e, <2>1, ReadAfterAppend
<1>h. ASSUME nstore[t] # Absent, Now(Walked, t) = {t}
      PROVE  AllFound(nstore, deleted)
  <2>1. TaRead(nstore, nqueue, t) = N!Combined({t})
    BY <1>w, <1>r, <1>h DEF Sum0
  <2>2. t \in Present
    BY <1>w, <1>h DEF Present
  <2>3. TaRead(nstore, nqueue, t) # Absent
    BY <1>w, <1>h, <2>1, <2>2, CombinedOne
  <2> QED BY <1>q, <1>e, <1>f, <2>3, FoundMore
<1>3. CASE nstore[t] # Absent /\ t \notin N!Kept(nopt, nbefore)
  <2>1. nqueue' = deleted
    BY <1>w, <1>3, HookEffect
  <2>2. Now(Walked, t) = {t}
    BY <1>b, <1>3
  <2>3. Now(W, t) = {} /\ \A x \in MaintWord \ {t} : Now(W, x) = Now(Walked, x)
    BY <1>c, <1>3, <1>w, <2>2
  <2>4. \A x \in MaintWord : TaRead(nstore, deleted, x) = Sum0(Now(W, x))
    <3> HIDE DEF deleted
    <3>1. TaRead(nstore, deleted, t) = Sum0(Now(W, t))
      BY <1>g, <1>w, <2>3 DEF Sum0
    <3> QED BY <1>g, <1>r, <2>3, <3>1
  <2> QED BY <1>h, <1>3, <2>1, <2>2, <2>4 DEF MaintReads
<1>4. CASE t \in N!Kept(nopt, nbefore) /\ u # t
  <2> DEFINE found == TaRead(nstore, deleted, u)
             val == nstore[t]
             v == IF nopt.upgrade \/ found = Absent THEN val ELSE N!Sum(found, val)
             item == N!Writing(u, v)
  <2>0. nstore[t] # Absent
    BY <1>k, <1>4
  <2>1. nqueue' = Append(deleted, item)
    BY <1>w, <1>4, <2>0, HookEffect DEF u
  <2>2. Now(Walked, t) = {t}
    BY <1>b, <1>4, <2>0
  <2>3. found = Sum0(Now(Walked, u))
    BY <1>g, <1>r, <1>u, <1>4
  <2> HIDE DEF deleted, found, val
  <2>4. val = nbefore.store[t] /\ val \in N!Counts /\ t \in Present
    BY <1>w, <2>0, PresentFacts DEF val, Present
  <2>5. v \in N!Counts /\ v = N!Combined(Now(Walked, u) \cup {t})
    <3>1. CASE Now(Walked, u) = {}
      <4>1. found = Absent /\ Now(Walked, u) \cup {t} = {t}
        BY <2>3, <3>1 DEF Sum0
      <4> QED BY <2>4, <4>1, CombinedOne
    <3>2. CASE Now(Walked, u) # {}
      <4>1. ~nopt.upgrade
        BY <1>w, <1>4, <3>2, FreeWhenUpgraded DEF t, u
      <4>2. Now(Walked, u) \in SUBSET Present /\ t \in Present \ Now(Walked, u)
        BY <1>a, <1>u, <1>4, <2>4
      <4>3. found = N!Combined(Now(Walked, u))
        BY <2>3, <3>2 DEF Sum0
      <4>4. /\ found \in N!Counts
            /\ N!Combined(Now(Walked, u) \cup {t}) = N!Sum(found, val)
        BY <2>4, <3>2, <4>2, <4>3, CombinedMore
      <4>5. found # Absent
        BY <4>4, MaintAssumption DEF N!ValueAssumption
      <4> QED BY <2>4, <4>1, <4>4, <4>5, SumIsCounts
    <3> QED BY <3>1, <3>2
  <2> HIDE DEF v
  <2>6. item \in MaintItem /\ item.word = u /\ item.val = v
    BY <1>u, <2>5, SameQueue DEF MaintItem
  <2>7. \A x \in MaintWord :
            TaRead(nstore, nqueue', x) = IF x = u THEN v
                                         ELSE TaRead(nstore, deleted, x)
    BY <1>g, <2>1, <2>6, ReadAfterAppend
  <2>8. /\ Now(W, t) = {} /\ Now(W, u) = Now(Walked, u) \cup {t}
        /\ \A x \in MaintWord \ {t, u} : Now(W, x) = Now(Walked, x)
    BY <1>c, <1>d, <1>4, <1>w, <2>2
  <2>9. MaintReads(nqueue', W)
    <3>1. TaRead(nstore, nqueue', t) = Sum0(Now(W, t))
      BY <1>w, <1>g, <1>4, <2>7, <2>8 DEF Sum0
    <3>2. TaRead(nstore, nqueue', u) = Sum0(Now(W, u))
      BY <1>u, <2>5, <2>7, <2>8 DEF Sum0
    <3>3. \A x \in MaintWord \ {t, u} : TaRead(nstore, nqueue', x) = Sum0(Now(W, x))
      BY <1>g, <1>r, <2>7, <2>8
    <3> QED BY <3>1, <3>2, <3>3 DEF MaintReads
  <2>10. AllFound(nstore, nqueue')
    <3>1. AllFound(nstore, deleted)
      BY <1>h, <2>0, <2>2
    <3>2. item.val # Absent
      BY <2>5, <2>6, MaintAssumption DEF N!ValueAssumption
    <3> QED BY <1>g, <2>1, <2>6, <3>1, <3>2, FoundMore
  <2> QED BY <2>9, <2>10
<1> QED BY <1>1, <1>2, <1>3, <1>4

\* The version is written past the queue.
LEMMA EndOfWalkKeeps ==
    ASSUME MaintTypes, Deletions, Added, N!EndOfWalk
    PROVE  Deletions' /\ Added'
<1>1. /\ npc = "walk" /\ npc' = "flush" /\ UNCHANGED <<nopt, old, cursor, nqueue, ret, nbefore>>
      /\ nstore' = nstore \/ nstore' = [nstore EXCEPT ![Version] =
                                    [spam |-> CurrentVersion, good |-> 0, date |-> 0]]
  BY DEF N!EndOfWalk
<1>2. [spam |-> CurrentVersion, good |-> 0, date |-> 0] # Absent
  BY MaintAssumption DEF N!Counts, N!ValueAssumption
<1>3. \A x \in MaintWord : x # Version => nstore'[x] = nstore[x]
  BY <1>1 DEF MaintTypes, MaintStore
<1>4. \A x \in MaintWord : nstore[x] # Absent => nstore'[x] # Absent
  BY <1>1, <1>2 DEF MaintTypes, MaintStore
<1>5. AllFound(nstore', nqueue)
  BY <1>4, FoundStill DEF Deletions, MaintTypes
<1>6. \A x \in MaintWord : x # Version => TaRead(nstore', nqueue, x) = TaRead(nstore, nqueue, x)
  BY <1>3 DEF TaRead
<1>7. \A x \in MaintWord : Sum0(Now(Walked, x))' = Sum0(Now(Walked, x))
  BY <1>1, SameSumsWalked
<1> QED BY <1>1, <1>5, <1>6, <1>7 DEF Deletions, Added

\* ta_flush: an item moves from the queue to the wordlist, and no reading changes.
LEMMA FlushKeeps ==
    ASSUME MaintTypes, N!Flush
    PROVE  /\ \A x \in MaintWord : TaRead(nstore', nqueue', x) = TaRead(nstore, nqueue, x)
           /\ Deletions => Deletions'
           /\ Added => Added'
<1>1. /\ npc = "flush" /\ nqueue # <<>> /\ nqueue' = Tail(nqueue)
      /\ nstore' = Applied(nstore, Head(nqueue))
      /\ ret' = IF Head(nqueue).val = Absent /\ nstore[Head(nqueue).word] = Absent
                   THEN "EX_ERROR" ELSE ret
      /\ UNCHANGED <<npc, nopt, enc, old, cursor, nbefore>>
  BY SameQueue DEF N!Flush
<1>2. nqueue \in Seq(MaintItem) /\ nstore \in MaintStore
  BY DEF MaintTypes
<1>3. \A x \in MaintWord : TaRead(nstore', nqueue', x) = TaRead(nstore, nqueue, x)
  <2>1. DOMAIN nstore = MaintWord
    BY <1>2 DEF MaintStore
  <2> QED BY <1>1, <1>2, <2>1, ReadAfterFlush
<1>4. Deletions => Deletions'
  BY <1>1, <1>2, FoundRest DEF Deletions
<1>5. \A x \in MaintWord : Sum0(Now(Walked, x))' = Sum0(Now(Walked, x))
  BY <1>1, SameSumsWalked
<1>6. Added => Added'
  BY <1>1, <1>3, <1>5 DEF Added
<1> QED BY <1>3, <1>4, <1>6

\* Every step keeps the invariant.
LEMMA MaintStep ==
    ASSUME MaintTypes, AnyChain \/ (Deletions /\ Added), N!Next
    PROVE  MaintTypes' /\ (AnyChain \/ (Deletions' /\ Added'))
<1>1. CASE N!Commit
  <2>1. UNCHANGED <<nopt, nstore, enc, old, cursor, nqueue, ret, nbefore>> /\ npc = "flush"
        /\ npc' = "done"
    BY <1>1 DEF N!Commit
  <2>2. \A x \in MaintWord : Sum0(Now(Walked, x))' = Sum0(Now(Walked, x))
    BY <2>1, SameSumsWalked
  <2>3. (Deletions => Deletions') /\ (Added => Added')
    BY <2>1, <2>2 DEF Deletions, Added
  <2> QED BY <2>3, MaintTypesKept
<1> QED BY <1>1, MaintTypesKept, WalkKeeps, EndOfWalkKeeps, FlushKeeps DEF N!Next

\* The invariant holds at the start, when every key is its own sum.
LEMMA MaintStarts == N!Init => MaintTypes /\ Deletions /\ Added
<1> SUFFICES ASSUME N!Init PROVE MaintTypes /\ Deletions /\ Added
  OBVIOUS
<1>1. /\ npc = "walk" /\ nstore = nbefore.store /\ enc = nbefore.enc
      /\ old = N!OldEncoding(nbefore) /\ cursor = 1 /\ nqueue = <<>> /\ ret = "EX_OK"
      /\ \E task \in MaintTasks : nopt = task.opt /\ nbefore = task.list
  BY DEF N!Init
<1>2. PICK task \in MaintTasks : nopt = task.opt /\ nbefore = task.list
  BY <1>1
<1>3. nstore \in MaintStore
  <2>1. N!IsWordlist(nbefore)
    BY <1>2, MaintAssumption DEF N!TasksAssumption
  <2> QED BY <1>1, <2>1, MaintAssumption DEF N!IsWordlist, N!ValueAssumption, MaintStore
<1>4. MaintTypes
  BY <1>1, <1>3, OrderFacts, EmptySeq DEF MaintTypes
<1>5. Deletions
  BY <1>1 DEF Deletions, AllFound
<1>6. Added
  <2>1. Walked = {}
    BY <1>1 DEF Walked
  <2>2. ASSUME NEW x \in MaintWord
        PROVE  TaRead(nstore, nqueue, x) = Sum0(Now(Walked, x))
    <3>1. TaRead(nstore, nqueue, x) = nbefore.store[x]
      BY <1>1 DEF TaRead, Places
    <3>2. CASE nbefore.store[x] = Absent
      <4>1. Now(Walked, x) = {}
        BY <2>1, <3>2 DEF Now
      <4> QED BY <3>1, <3>2, <4>1 DEF Sum0
    <3>3. CASE nbefore.store[x] # Absent
      <4>1. Now(Walked, x) = {x} /\ x \in Present
        BY <2>1, <3>3 DEF Now, Present
      <4> QED BY <1>4, <3>1, <4>1, CombinedOne DEF Sum0
    <3> QED BY <3>2, <3>3
  <2> QED BY <2>2 DEF Added
<1> QED BY <1>4, <1>5, <1>6

\* The invariant has what the run checks: at the end the queue is empty.
LEMMA MaintIsWhole ==
    ASSUME MaintTypes
    PROVE  N!EncodingMarked /\ (Deletions => N!NeverFails) /\ (Added => N!KeptAreCombined)
<1>1. N!EncodingMarked
  BY DEF MaintTypes, N!EncodingMarked, N!OldEncoding
<1>2. Deletions => N!NeverFails
  BY DEF Deletions, N!NeverFails
<1>3. ASSUME Added, npc = "done", NEW x \in MaintWord \ {Version}
      PROVE  nstore[x] = IF N!Sources(x) = {} THEN Absent ELSE N!Combined(N!Sources(x))
  <2>1. nqueue = <<>> /\ cursor = Len(MaintOrder) + 1
    BY <1>3 DEF MaintTypes
  <2>2. Walked = MaintWord
    <3>1. cursor - 1 = Len(MaintOrder)
      BY <2>1, OrderFacts
    <3>2. Walked = {MaintOrder[i] : i \in 1 .. Len(MaintOrder)}
      BY <3>1 DEF Walked
    <3> QED BY <3>2, OrderFacts
  <2>3. Now(Walked, x) = N!Sources(x)
    BY <2>2 DEF Now, N!Sources, N!Kept
  <2>4. TaRead(nstore, nqueue, x) = nstore[x]
    BY <2>1 DEF TaRead, Places
  <2> QED BY <1>3, <2>3, <2>4 DEF Added, Sum0
<1> QED BY <1>1, <1>2, <1>3 DEF N!KeptAreCombined

\* A step is one of bogoutil -m, or leaves it alone.
LEMMA MaintSteps ==
    [CommandsNext]_allVars =>
        component' = component /\ ((component = "maintenance" /\ N!Next) \/ UNCHANGED maintainVars)
BY DEF CommandsNext, allVars, Environments, Queue, Options, OtherOptions, Loop, Maintain,
       DumpOrLoad

\* The steps of the other components keep the invariant.
LEMMA MaintStutters ==
    MaintInv /\ UNCHANGED <<component, maintainVars>> => MaintInv'
<1> SUFFICES ASSUME MaintInv, UNCHANGED <<component, maintainVars>>
             PROVE  MaintInv'
  OBVIOUS
<1> USE DEF maintainVars
<1>1. MaintTypes => MaintTypes'
  BY DEF MaintTypes, N!OldEncoding
<1>2. Deletions => Deletions'
  BY DEF Deletions
<1>3. \A x \in MaintWord : Sum0(Now(Walked, x))' = Sum0(Now(Walked, x))
  BY SameSumsWalked
<1>4. Added => Added'
  BY <1>3 DEF Added
<1> QED BY <1>1, <1>2, <1>4 DEF MaintInv

\* The invariant of bogoutil -m.
LEMMA MaintInvariance == CommandsSpec => []MaintInv
<1>1. CommandsInit => MaintInv
  BY MaintStarts DEF CommandsInit, MaintainInit, MaintInv
<1>2. MaintInv /\ [CommandsNext]_allVars => MaintInv'
  <2> SUFFICES ASSUME MaintInv, [CommandsNext]_allVars
               PROVE  MaintInv'
    OBVIOUS
  <2>1. CASE component = "maintenance" /\ N!Next
    BY <2>1, MaintSteps, MaintStep DEF MaintInv
  <2>2. CASE UNCHANGED maintainVars
    BY <2>2, MaintSteps, MaintStutters
  <2> QED BY <2>1, <2>2, MaintSteps
<1> QED BY <1>1, <1>2, PTL DEF CommandsSpec

\* bogoutil -m (maint.c, transaction.c), for any keys, counts, walk and command
\* lines with RegularTasks: the counts of the tokens that become one are added
\* up, no other count changes, nothing that was discarded comes back, no key is
\* deleted that is not there, and a converted list says so.
THEOREM CommandsMaintain == CommandsSpec => [](AnyChain \/ MaintainedWhole)
<1>1. MaintInv => (AnyChain \/ MaintainedWhole)
  <2> SUFFICES ASSUME MaintInv, ~AnyChain
               PROVE  MaintainedWhole
    OBVIOUS
  <2>1. CASE component = "maintenance"
    BY <2>1, MaintIsWhole DEF MaintInv, MaintainedWhole, KeptAreCombined
  <2>2. CASE component # "maintenance"
    BY <2>2 DEF MaintInv, MaintainedWhole, KeptAreCombined, N!NeverFails, N!EncodingMarked
  <2> QED BY <2>1, <2>2
<1> QED BY <1>1, MaintInvariance, PTL

\* ta_flush does what the walk has decided, also where RegularTasks does not
\* hold: no step of the commit changes what ta_read gives for a key.
THEOREM CommandsFlushSilently == CommandsSpec => FlushIsSilent
<1>1. MaintInv /\ [CommandsNext]_allVars
        => [npc = "flush" =>
              \A t \in MaintWord : N!TaRead(nstore', nqueue', t) = N!TaRead(nstore, nqueue, t)]_(N!vars)
  <2> SUFFICES ASSUME MaintInv, [CommandsNext]_allVars, npc = "flush", ~UNCHANGED N!vars
               PROVE  \A x \in MaintWord :
                        TaRead(nstore', nqueue', x) = TaRead(nstore, nqueue, x)
    BY SameQueue
  <2>1. component = "maintenance" /\ N!Next /\ MaintTypes
    BY MaintSteps DEF MaintInv, N!vars, maintainVars
  <2>2. CASE N!Flush
    BY <2>1, <2>2, FlushKeeps
  <2>3. CASE N!Commit
    BY <2>3 DEF N!Commit
  <2> QED BY <2>1, <2>2, <2>3 DEF N!Next, N!Walk, N!EndOfWalk
<1> QED BY <1>1, MaintInvariance, PTL DEF CommandsSpec, FlushIsSilent, N!FlushIsSilent
-----------------------------------------------------------------------------
(* Dump and load: the invariant *)

\* The keys that a walk comes to before place n, and those of them that are written.
WalkedTo(n) == {ListOrder[i] : i \in 1 .. n - 1}
Dumped(K) == {k \in K : list[k] # Absent /\ ~D!Discarded(k, list[k])}

\* Each line of the text is that of a key of its own; src[i] is the key of line i.
LinesOf(src, K) ==
    /\ src \in [1 .. Len(text) -> D!Key]
    /\ \A i, j \in 1 .. Len(text) : src[i] = src[j] => i = j
    /\ \A k : k \in Dumped(K) <=> \E i \in 1 .. Len(text) : src[i] = k
    /\ \A i \in 1 .. Len(text) : text[i] = [list[src[i]] EXCEPT !.key = D!Name(src[i])]

\* The keys of the first lines that became k.
KeptSoFar(src, n, k) == D!Kept(k) \cap {src[i] : i \in 1 .. n - 1}

\* The keys that the list has, and what they count.
Listed == {k \in D!Key : list[k] # Absent}
SpamListed == [k \in Listed |-> list[k].spam]
GoodListed == [k \in Listed |-> list[k].good]

DateOf(e) == IF list[e].date = 0 THEN Today ELSE list[e].date

\* What v shows of k when the lines of the keys S have been loaded.
ShowsSum(v, k, S) ==
    /\ D!Counts(v[k]) = <<D!Counts(before[k])[1] + Total(SpamListed, S),
                             D!Counts(before[k])[2] + Total(GoodListed, S)>>
    /\ S # {} => v[k].date \in {DateOf(e) : e \in S}

LoadedSoFar(src) ==
    /\ view \in D!List
    /\ \A k \in D!Key : ShowsSum(view, k, KeptSoFar(src, pos, k))

DumpTypes ==
    /\ dpc \in {"dump", "load", "loaded", "failed"}
    /\ opt \in [count : Nat, replace : BOOLEAN, max_token_len : BOOLEAN]
    /\ list \in D!List /\ before \in D!List
    /\ pos \in Nat \ {0} /\ text \in Seq(D!Entry)
    /\ whole \in BOOLEAN /\ rv \in {0, 1, 2}

\* The dump is on its way, or it ended well and is loaded, or it did not.
DumpLines ==
    /\ dpc = "dump" => /\ view = before /\ rv = 0 /\ pos <= Len(ListOrder) + 1
                       /\ \E src : LinesOf(src, WalkedTo(pos))
    /\ dpc = "load" /\ whole =>
        \E src : LinesOf(src, D!Key) /\ (D!Fits /\ rv = 0 => LoadedSoFar(src))

\* The list changes at the end.
TargetIsKept ==
    /\ dpc # "loaded" => target = before
    /\ dpc = "loaded" /\ whole /\ D!Fits => \A k \in D!Key : ShowsSum(target, k, D!Kept(k))
    /\ dpc = "loaded" => rv = 0

DumpInv ==
    IF component = "dump" THEN DumpTypes /\ DumpLines /\ TargetIsKept
    ELSE dpc = "off" /\ target = before

-----------------------------------------------------------------------------
\* What the assumptions say of the order of the walk.
LEMMA DumpConstants ==
    /\ IntMax \in Nat /\ Today \in Nat \ {0}
    /\ ListOrder \in Seq(D!Key) /\ Len(ListOrder) \in Nat /\ DOMAIN ListOrder = 1 .. Len(ListOrder)
    /\ \A k : k \in D!Key <=> \E i \in 1 .. Len(ListOrder) : ListOrder[i] = k
    /\ \A i, j \in 1 .. Len(ListOrder) : ListOrder[i] = ListOrder[j] => i = j
    /\ IsFiniteSet(D!Key)
    /\ Absent \notin D!Entry
<1>1. /\ IntMax \in Nat /\ Today \in Nat \ {0}
      /\ ListOrder \in Seq(D!Key) /\ Absent \notin D!Entry /\ D!IsInjective(ListOrder)
  BY DumpAssumption DEF D!LoadDumpAssumption
<1>2. Len(ListOrder) \in Nat /\ DOMAIN ListOrder = 1 .. Len(ListOrder)
  BY <1>1, LenProperties
<1>3. D!Key = {ListOrder[i] : i \in 1 .. Len(ListOrder)}
  BY <1>2 DEF D!Key, D!ToSet
<1>4. IsFiniteSet(D!Key)
  <2> DEFINE f == [i \in 1 .. Len(ListOrder) |-> ListOrder[i]]
  <2>1. IsFiniteSet(1 .. Len(ListOrder))
    BY <1>2, FS_Interval
  <2>2. f \in Surjection(1 .. Len(ListOrder), D!Key)
    BY <1>3 DEF Surjection
  <2> QED BY <2>1, <2>2, FS_Surjection
<1> QED BY <1>1, <1>2, <1>3, <1>4 DEF D!IsInjective

\* Names: that of a key is one, and its own name.
LEMMA NameFacts ==
    ASSUME opt \in [count : Nat, replace : BOOLEAN, max_token_len : BOOLEAN], NEW e \in D!Key
    PROVE  /\ D!Name(e) \in D!Key /\ D!Name(D!Name(e)) = D!Name(e)
           /\ e \in D!Special <=> D!Name(e) \in D!Special
           /\ e \in D!Special => D!Name(e) = e
BY DumpAssumption DEF D!LoadDumpAssumption, D!Name

\* What the list has are counts, of finitely many keys.
LEMMA ListedFacts ==
    ASSUME list \in D!List
    PROVE  /\ IsFiniteSet(Listed) /\ \A k : D!Kept(k) \in SUBSET Listed
           /\ SpamListed \in [Listed -> Nat] /\ GoodListed \in [Listed -> Nat]
           /\ \A e \in Listed : e \in D!Key /\ list[e] \in D!Entry
                                /\ list[e].spam \in D!Count /\ list[e].good \in D!Count
                                /\ list[e].date \in Nat
<1>1. \A e \in Listed : e \in D!Key /\ list[e] \in D!Entry
  BY DEF D!List, Listed
<1>2. D!Count \subseteq Nat
  BY DumpConstants DEF D!Count
<1>3. \A e \in Listed : list[e].spam \in D!Count /\ list[e].good \in D!Count /\ list[e].date \in Nat
  BY <1>1 DEF D!Entry
<1>4. IsFiniteSet(Listed)
  BY DumpConstants, FS_Subset DEF Listed
<1> QED BY <1>1, <1>2, <1>3, <1>4 DEF Listed, SpamListed, GoodListed, D!Kept

\* The sums of LoadDump, as SumProofs has them.
LEMMA DumpTotals ==
    ASSUME list \in D!List, NEW S \in SUBSET Listed
    PROVE  D!Spam(S) = Total(SpamListed, S) /\ D!Good(S) = Total(GoodListed, S)
<1> DEFINE SpamSum(f) ==
               f = [s \in SUBSET S |->
                      IF s = {} THEN 0 ELSE list[AnyOf(s)].spam + f[s \ {AnyOf(s)}]]
           GoodSum(f) ==
               f = [s \in SUBSET S |->
                      IF s = {} THEN 0 ELSE list[AnyOf(s)].good + f[s \ {AnyOf(s)}]]
<1>1. \A s \in SUBSET S : s # {} => AnyOf(s) \in Listed
  BY DEF AnyOf
<1>2. \A f : IsSum(SpamListed, S, f) <=> SpamSum(f)
  BY <1>1 DEF IsSum, SpamListed
<1>3. \A f : IsSum(GoodListed, S, f) <=> GoodSum(f)
  BY <1>1 DEF IsSum, GoodListed
<1>4. IsFiniteSet(S) /\ S \subseteq Listed
  BY ListedFacts, FS_Subset
<1>5. ASSUME NEW g \in [Listed -> Nat]
      PROVE  /\ \E f : IsSum(g, S, f)
             /\ \A f : IsSum(g, S, f) => f[S] = Total(g, S)
  <2>1. PICK h \in [SUBSET Listed -> Nat] : IsSum(g, Listed, h) /\ Total(g, S) = h[S]
    BY ListedFacts, TotalIsSum
  <2>2. \A f : IsSum(g, S, f) => f[S] = h[S]
    BY <1>4, <2>1, SumsAgree
  <2>3. \E f : IsSum(g, S, f)
    BY <1>4, ListedFacts, SumRestricts
  <2> QED BY <2>1, <2>2, <2>3
<1>6. D!Spam(S) = Total(SpamListed, S)
  <2> DEFINE it == CHOOSE f : SpamSum(f)
  <2>1. SpamSum(it)
    BY <1>2, <1>5, ListedFacts
  <2>2. D!Spam(S) = it[S]
    BY DEF D!Spam, D!MapThenSumSet, D!MapThenFoldSet, AnyOf
  <2> QED BY <1>2, <1>5, <2>1, <2>2, ListedFacts
<1>7. D!Good(S) = Total(GoodListed, S)
  <2> DEFINE it == CHOOSE f : GoodSum(f)
  <2>1. GoodSum(it)
    BY <1>3, <1>5, ListedFacts
  <2>2. D!Good(S) = it[S]
    BY DEF D!Good, D!MapThenSumSet, D!MapThenFoldSet, AnyOf
  <2> QED BY <1>3, <1>5, <2>1, <2>2, ListedFacts
<1> QED BY <1>6, <1>7

-----------------------------------------------------------------------------
(* Dump and load: the steps *)

\* The walk comes to a key, and writes a line for it or not.
LEMMA LinesGrow ==
    ASSUME DumpTypes, NEW src, LinesOf(src, WalkedTo(pos)), D!Dump
    PROVE  text' \in Seq(D!Entry) /\ \E s : LinesOf(s, WalkedTo(pos))'
<1> DEFINE k == ListOrder[pos]
           line == [list[k] EXCEPT !.key = D!Name(k)]
           n == Len(text)
<1>0. /\ pos \in 1 .. Len(ListOrder) /\ pos \in Nat /\ pos' = pos + 1 /\ UNCHANGED <<opt, list>>
      /\ text' = IF list[k] = Absent \/ D!Discarded(k, list[k]) THEN text ELSE Append(text, line)
  BY DumpConstants DEF D!Dump, DumpTypes
<1>1. k \in D!Key /\ n \in Nat /\ text \in Seq(D!Entry)
  BY <1>0, DumpConstants, LenProperties DEF DumpTypes
<1>2. /\ k \notin WalkedTo(pos)
      /\ WalkedTo(pos + 1) = WalkedTo(pos) \cup {k}
  <2>1. \A i \in 1 .. pos - 1 : i \in 1 .. Len(ListOrder) /\ i # pos
    BY <1>0, DumpConstants
  <2>2. 1 .. (pos + 1) - 1 = (1 .. pos - 1) \cup {pos}
    BY <1>0
  <2>3. k \notin WalkedTo(pos)
    BY <1>0, <2>1, DumpConstants DEF WalkedTo
  <2> QED BY <2>2, <2>3 DEF WalkedTo
<1>3. /\ \A K : Dumped(K)' = Dumped(K')
      /\ \A e : D!Name(e)' = D!Name(e)
  BY <1>0 DEF Dumped, D!Discarded, D!Name
<1>4. WalkedTo(pos)' = WalkedTo(pos + 1)
  BY <1>0 DEF WalkedTo
<1>5. CASE k \notin Dumped({k})
  <2>1. text' = text
    BY <1>0, <1>5 DEF Dumped
  <2>2. Dumped(WalkedTo(pos + 1)) = Dumped(WalkedTo(pos))
    BY <1>2, <1>5 DEF Dumped
  <2>3. LinesOf(src, WalkedTo(pos))'
    BY <1>0, <1>3, <1>4, <2>1, <2>2 DEF LinesOf, Dumped, D!Discarded, D!Name
  <2> QED BY <1>1, <2>1, <2>3
<1>6. CASE k \in Dumped({k})
  <2>1. text' = Append(text, line) /\ list[k] # Absent
    BY <1>0, <1>6 DEF Dumped
  <2>2. line \in D!Entry
    <3>1. list[k] \in D!Entry /\ D!Name(k) \in D!Key
      BY <1>1, <2>1, NameFacts DEF DumpTypes, D!List
    <3> QED BY <3>1 DEF D!Entry
  <2>3. /\ text' \in Seq(D!Entry) /\ Len(text') = n + 1
        /\ \A i \in 1 .. n : text'[i] = text[i]
        /\ text'[n + 1] = line
    BY <1>1, <2>1, <2>2, AppendProperties
  <2>4. Dumped(WalkedTo(pos + 1)) = Dumped(WalkedTo(pos)) \cup {k}
    BY <1>2, <1>6 DEF Dumped
  <2>5. /\ src \in [1 .. n -> D!Key]
        /\ \A i, j \in 1 .. n : src[i] = src[j] => i = j
        /\ \A e : e \in Dumped(WalkedTo(pos)) <=> \E i \in 1 .. n : src[i] = e
        /\ \A i \in 1 .. n : text[i] = [list[src[i]] EXCEPT !.key = D!Name(src[i])]
    BY DEF LinesOf
  <2>6. \A i \in 1 .. n : src[i] # k
    BY <1>2, <2>5 DEF Dumped
  <2>7. PICK s : /\ s \in [1 .. n + 1 -> D!Key] /\ s[n + 1] = k
                 /\ \A i \in 1 .. n : s[i] = src[i]
    <3>1. LET s == [i \in 1 .. n + 1 |-> IF i = n + 1 THEN k ELSE src[i]]
          IN /\ s \in [1 .. n + 1 -> D!Key] /\ s[n + 1] = k
             /\ \A i \in 1 .. n : s[i] = src[i]
      BY <1>1, <2>5
    <3> QED BY <3>1
  <2>0. /\ \A i \in 1 .. n + 1 : i \in 1 .. n \/ i = n + 1
        /\ \A i \in 1 .. n : i \in 1 .. n + 1
        /\ n + 1 \in 1 .. n + 1
    BY <1>1
  <2>8. \A i, j \in 1 .. n + 1 : s[i] = s[j] => i = j
    BY <2>0, <2>5, <2>6, <2>7
  <2>9. \A e : e \in Dumped(WalkedTo(pos + 1)) <=> \E i \in 1 .. n + 1 : s[i] = e
    BY <2>0, <2>4, <2>5, <2>7
  <2>10. \A i \in 1 .. n + 1 : text'[i] = [list[s[i]] EXCEPT !.key = D!Name(s[i])]
    BY <2>0, <2>3, <2>5, <2>7
  <2>11. LinesOf(s, WalkedTo(pos))'
    <3>1. Dumped(WalkedTo(pos))' = Dumped(WalkedTo(pos + 1))
      BY <1>3, <1>4
    <3>2. \A i \in 1 .. n + 1 : text'[i] = [list'[s[i]] EXCEPT !.key = D!Name(s[i])']
      BY <1>0, <1>3, <2>10
    <3> QED BY <2>3, <2>7, <2>8, <2>9, <3>1, <3>2 DEF LinesOf
  <2> QED BY <2>3, <2>11
<1> QED BY <1>5, <1>6

\* At the end it has come to every key.
LEMMA WalkedToAll ==
    ASSUME pos \in Nat, pos > Len(ListOrder), pos <= Len(ListOrder) + 1
    PROVE  WalkedTo(pos) = D!Key
<1>1. 1 .. pos - 1 = 1 .. Len(ListOrder)
  BY DumpConstants
<1> QED BY <1>1, DumpConstants DEF WalkedTo

\* The entry of a key in the wordlist, other in the list, when the line of e is added to it.
Entered(other, e) ==
    [key |-> D!Name(e),
     spam |-> (list[e].spam + (IF other = Absent THEN 0 ELSE other.spam)) % (2 * IntMax + 2),
     good |-> (list[e].good + (IF other = Absent THEN 0 ELSE other.good)) % (2 * IntMax + 2),
     date |-> DateOf(e)]

\* The line of a key that is not discarded is loaded, and no other.
LEMMA LoadedIsKept ==
    ASSUME DumpTypes, D!Fits, NEW e \in Listed, ~D!Discarded(e, list[e]),
           NEW l, l = [list[e] EXCEPT !.key = D!Name(e)]
    PROVE  /\ e \notin D!Kept(D!Name(e)) => D!Loaded(l) = view
           /\ e \in D!Kept(D!Name(e)) => D!Loaded(l) = [view EXCEPT ![D!Name(e)] = Entered(@, e)]
<1> DEFINE k == D!Name(e)
           v == [key |-> k, spam |-> list[e].spam, good |-> list[e].good, date |-> DateOf(e)]
<1>1. /\ e \in D!Key /\ list[e] \in D!Entry /\ list[e] # Absent
      /\ list[e].spam <= IntMax /\ list[e].good <= IntMax /\ list[e].spam \in Nat /\ list[e].good \in Nat
  BY ListedFacts, DumpConstants DEF DumpTypes, D!Fits, Listed, D!Count
<1>2. l.key = k /\ l.spam = list[e].spam /\ l.good = list[e].good /\ l.date = list[e].date
  BY <1>1 DEF D!Entry
<1>3. D!Atoi(l.spam) = list[e].spam /\ D!Atoi(l.good) = list[e].good
  BY <1>1, <1>2, DumpConstants DEF D!Atoi
<1>4. D!Name(l.key) = k
  BY <1>1, <1>2, NameFacts DEF DumpTypes
<1>5. ~D!Discarded(k, v)
  BY <1>1, NameFacts DEF D!Discarded, DumpTypes, D!Special
<1>6. D!is_count(k) <=> D!is_count(e)
  BY <1>1, NameFacts DEF D!is_count, DumpTypes, D!Special
<1>7. e \in D!Kept(k) <=> D!is_count(k) /\ ~(opt.max_token_len /\ l.key \in Long)
  BY <1>1, <1>2, <1>6 DEF D!Kept, D!Name
<1> HIDE DEF k
<1>8. (IF l.date = 0 THEN Today ELSE l.date) = DateOf(e)
  BY <1>2 DEF DateOf
<1>9. v = [key |-> D!Name(l.key), spam |-> D!Atoi(l.spam), good |-> D!Atoi(l.good),
           date |-> IF l.date = 0 THEN Today ELSE l.date]
  BY <1>3, <1>4, <1>8
<1>10. /\ D!Name(l.key) = k
       /\ (opt.max_token_len /\ l.key \in Long) \/ ~D!is_count(k) \/ D!Discarded(k, v)
             <=> e \notin D!Kept(k)
  BY <1>4, <1>5, <1>7
<1> DEFINE Add(a, b) == (a + b) % (2 * IntMax + 2)
           More(c, x) == IF x = Absent THEN c
                         ELSE [c EXCEPT !.spam = Add(@, x.spam), !.good = Add(@, x.good)]
           Skipped(c) == \/ opt.max_token_len /\ l.key \in Long
                         \/ ~D!is_count(D!Name(l.key)) \/ D!Discarded(D!Name(l.key), c)
           u == [key |-> D!Name(l.key), spam |-> D!Atoi(l.spam), good |-> D!Atoi(l.good),
                 date |-> IF l.date = 0 THEN Today ELSE l.date]
<1>11. D!Loaded(l) = IF Skipped(u) THEN view
                     ELSE [view EXCEPT ![D!Name(l.key)] = More(u, view[D!Name(l.key)])]
  BY DEF D!Loaded
<1>12. u = v /\ (Skipped(v) <=> e \notin D!Kept(k))
  BY <1>9, <1>10
<1> HIDE DEF u, v
<1>13. D!Loaded(l) = IF e \notin D!Kept(k) THEN view ELSE [view EXCEPT ![k] = More(v, view[k])]
  BY <1>10, <1>11, <1>12
<1>14. More(v, view[k]) = Entered(view[k], e)
  <2>1. ASSUME view[k] # Absent PROVE More(v, view[k]) = Entered(view[k], e)
    BY <2>1 DEF Entered, v, k
  <2>2. ASSUME view[k] = Absent PROVE More(v, view[k]) = Entered(view[k], e)
    <3>1. ASSUME NEW n \in Nat, n <= IntMax PROVE ((n + 0) % (2 * IntMax + 2)) = n
      <4>1. n + 0 = n /\ n < 2 * IntMax + 2 /\ 2 * IntMax + 2 \in Nat
        BY <3>1, DumpConstants
      <4> QED BY <4>1
    <3>2. /\ ((list[e].spam + 0) % (2 * IntMax + 2)) = list[e].spam
          /\ ((list[e].good + 0) % (2 * IntMax + 2)) = list[e].good
      BY <1>1, <3>1
    <3> QED BY <2>2, <3>2 DEF Entered, v, k
  <2> QED BY <2>1, <2>2
<1> HIDE DEF More
<1> QED BY <1>13, <1>14 DEF k

\* The counts an entry shows are numbers.
LEMMA CountsTyped ==
    ASSUME NEW other \in D!List, NEW k \in D!Key
    PROVE  /\ D!Counts(other[k]) = <<D!Counts(other[k])[1], D!Counts(other[k])[2]>>
           /\ D!Counts(other[k])[1] \in Nat /\ D!Counts(other[k])[2] \in Nat
           /\ D!Counts(other[k])[1] = (IF other[k] = Absent THEN 0 ELSE other[k].spam)
           /\ D!Counts(other[k])[2] = (IF other[k] = Absent THEN 0 ELSE other[k].good)
<1>1. other[k] = Absent \/ (other[k] # Absent /\ other[k].spam \in Nat /\ other[k].good \in Nat)
  BY DumpConstants DEF D!List, D!Entry, D!Count
<1> QED BY <1>1 DEF D!Counts

\* A key is added to the sum of the name it gets.
LEMMA SumGrows ==
    ASSUME DumpTypes, D!Fits, view \in D!List, NEW k \in D!Key, NEW e \in D!Kept(k),
           NEW S \in SUBSET D!Kept(k), e \notin S, ShowsSum(view, k, S),
           NEW other, other[k] = Entered(view[k], e)
    PROVE  /\ Entered(view[k], e) \in D!Entry
           /\ ShowsSum(other, k, S \cup {e})
<1>1. /\ S \in SUBSET Listed /\ e \in Listed \ S /\ S \cup {e} \in SUBSET D!Kept(k)
      /\ D!Kept(k) \in SUBSET Listed /\ IsFiniteSet(Listed) /\ e \in D!Key
      /\ D!Name(e) = k
  BY ListedFacts DEF DumpTypes, D!Kept
<1>2. ASSUME NEW g \in [Listed -> Nat]
      PROVE  /\ Total(g, S) \in Nat /\ g[e] \in Nat /\ Total(g, S \cup {e}) = Total(g, S) + g[e]
             /\ Total(g, D!Kept(k)) \in Nat /\ Total(g, S \cup {e}) <= Total(g, D!Kept(k))
  BY <1>1, TotalOfMore, TotalOfPart
<1> DEFINE m == 2 * IntMax + 2
<1>3. /\ D!Counts(before[k])[1] + Total(SpamListed, D!Kept(k)) < m
      /\ D!Counts(before[k])[2] + Total(GoodListed, D!Kept(k)) < m
      /\ m \in Nat
  <2>1. /\ D!Spam(D!Kept(k)) = Total(SpamListed, D!Kept(k))
        /\ D!Good(D!Kept(k)) = Total(GoodListed, D!Kept(k))
    BY <1>1, DumpTotals DEF DumpTypes
  <2> QED BY <2>1, DumpConstants DEF D!Fits, D!Count
<1>4. SpamListed \in [Listed -> Nat] /\ GoodListed \in [Listed -> Nat]
      /\ SpamListed[e] = list[e].spam /\ GoodListed[e] = list[e].good
      /\ list[e].date \in Nat
  BY <1>1, ListedFacts DEF DumpTypes, SpamListed, GoodListed
<1>5. ASSUME NEW g \in [Listed -> Nat], NEW b \in Nat, NEW c \in Nat, c = b + Total(g, S),
             b + Total(g, D!Kept(k)) < m
      PROVE  /\ ((g[e] + c) % m) = b + Total(g, S \cup {e})
             /\ b + Total(g, S \cup {e}) \in 0 .. m - 1
  <2>0. \A x, y, z \in Nat : x + (y + z) = y + (z + x)
    OBVIOUS
  <2>1. g[e] + c = b + Total(g, S \cup {e})
    <3>1. /\ Total(g, S) \in Nat /\ g[e] \in Nat
          /\ Total(g, S \cup {e}) = Total(g, S) + g[e]
      BY <1>2
    <3> QED BY <1>5, <2>0, <3>1
  <2>2. g[e] + c \in Nat /\ g[e] + c < m
    BY <1>2, <1>5, <2>1, <1>3
  <2> HIDE DEF m
  <2>3. ((g[e] + c) % m) = g[e] + c
    <3>1. \A x \in Nat : x < m => ((x) % m) = x
      BY <1>3
    <3> DEFINE y == g[e] + c
    <3>2. y \in Nat /\ y < m
      BY <2>2
    <3> HIDE DEF y
    <3>3. ((y) % m) = y
      BY <3>1, <3>2
    <3> QED BY <3>3 DEF y
  <2> QED BY <1>3, <2>1, <2>2, <2>3
<1> DEFINE b == before[k] v == view[k]
           sum1 == D!Counts(b)[1] + Total(SpamListed, S \cup {e})
           sum2 == D!Counts(b)[2] + Total(GoodListed, S \cup {e})
<1>6. /\ D!Counts(b)[1] \in Nat /\ D!Counts(b)[2] \in Nat
      /\ D!Counts(v)[1] \in Nat /\ D!Counts(v)[2] \in Nat
      /\ D!Counts(v)[1] = D!Counts(b)[1] + Total(SpamListed, S)
      /\ D!Counts(v)[2] = D!Counts(b)[2] + Total(GoodListed, S)
      /\ D!Counts(v)[1] = (IF v = Absent THEN 0 ELSE v.spam)
      /\ D!Counts(v)[2] = (IF v = Absent THEN 0 ELSE v.good)
  BY CountsTyped DEF DumpTypes, ShowsSum
<1>7. /\ ((list[e].spam + D!Counts(v)[1]) % m) = sum1 /\ sum1 \in 0 .. m - 1
      /\ ((list[e].good + D!Counts(v)[2]) % m) = sum2 /\ sum2 \in 0 .. m - 1
  <2>1. D!Counts(b)[1] + Total(SpamListed, D!Kept(k)) < m
    BY <1>3
  <2>2. D!Counts(b)[2] + Total(GoodListed, D!Kept(k)) < m
    BY <1>3
  <2> HIDE DEF m, b, v
  <2>3. ((SpamListed[e] + D!Counts(v)[1]) % m) = sum1 /\ sum1 \in 0 .. m - 1
    BY <1>4, <1>5, <1>6, <2>1
  <2>4. ((GoodListed[e] + D!Counts(v)[2]) % m) = sum2 /\ sum2 \in 0 .. m - 1
    BY <1>4, <1>5, <1>6, <2>2
  <2> QED BY <1>4, <2>3, <2>4
<1>8. Entered(v, e) = [key |-> k, spam |-> sum1, good |-> sum2, date |-> DateOf(e)]
  <2> HIDE DEF sum1, sum2
  <2> QED BY <1>1, <1>6, <1>7 DEF Entered
<1>9. DateOf(e) \in Nat
  BY <1>4, DumpConstants DEF DateOf
<1>10. Entered(v, e) \in D!Entry
  <2>1. m - 1 = 2 * IntMax + 1
    BY DumpConstants
  <2>2. sum1 \in D!Count /\ sum2 \in D!Count
    BY <1>7, <2>1 DEF D!Count
  <2> HIDE DEF sum1, sum2
  <2> QED BY <1>8, <1>9, <2>2 DEF D!Entry
<1>11. other[k] # Absent /\ D!Counts(other[k]) = <<sum1, sum2>> /\ other[k].date = DateOf(e)
  <2>1. other[k] # Absent
    BY <1>10, DumpConstants
  <2> HIDE DEF sum1, sum2
  <2> QED BY <1>8, <2>1 DEF D!Counts
<1> QED BY <1>10, <1>11 DEF ShowsSum

\* A line is loaded.
LEMMA LoadingSums ==
    ASSUME DumpTypes, NEW src, LinesOf(src, D!Key), D!Fits, LoadedSoFar(src), D!LoadLine
    PROVE  LoadedSoFar(src)'
<1> DEFINE e == src[pos]
           k0 == D!Name(e)
<1>1. /\ pos \in 1 .. Len(text) /\ pos \in Nat /\ pos' = pos + 1
      /\ UNCHANGED <<opt, list, before>> /\ view' = D!Loaded(text[pos])
  BY LenProperties DEF D!LoadLine, DumpTypes
<1>2. /\ e \in Listed /\ ~D!Discarded(e, list[e]) /\ e \in D!Key
      /\ text[pos] = [list[e] EXCEPT !.key = k0]
  BY <1>1 DEF LinesOf, Dumped, Listed
<1>3. /\ e \notin D!Kept(k0) => view' = view
      /\ e \in D!Kept(k0) => view' = [view EXCEPT ![k0] = Entered(@, e)]
  BY <1>1, <1>2, LoadedIsKept
<1>4. \A k : e \in D!Kept(k) => k = k0
  BY DEF D!Kept
<1>5. ASSUME NEW k \in D!Key
      PROVE  /\ e \notin KeptSoFar(src, pos, k)
             /\ KeptSoFar(src, pos + 1, k) =
                    KeptSoFar(src, pos, k) \cup (IF e \in D!Kept(k) THEN {e} ELSE {})
  <2>1. \A i \in 1 .. pos - 1 : i \in 1 .. Len(text) /\ i # pos
    BY <1>1, LenProperties DEF DumpTypes
  <2>2. 1 .. (pos + 1) - 1 = (1 .. pos - 1) \cup {pos}
    BY <1>1
  <2>3. \A i \in 1 .. pos - 1 : src[i] # e
    BY <1>1, <2>1 DEF LinesOf
  <2> QED BY <2>2, <2>3 DEF KeptSoFar
<1>6. view \in D!List /\ \A k \in D!Key : ShowsSum(view, k, KeptSoFar(src, pos, k))
  BY DEF LoadedSoFar
<1>7. k0 \in D!Key
  BY <1>2, NameFacts DEF DumpTypes
<1>8. /\ view' \in D!List
      /\ \A k \in D!Key : ShowsSum(view', k, KeptSoFar(src, pos + 1, k))
  <2>1. CASE e \notin D!Kept(k0)
    <3>1. \A k \in D!Key : e \notin D!Kept(k)
      BY <1>4, <2>1
    <3> QED BY <1>3, <1>5, <1>6, <2>1, <3>1
  <2>2. CASE e \in D!Kept(k0)
    <3>1. view'[k0] = Entered(view[k0], e) /\ \A k \in D!Key : k # k0 => view'[k] = view[k]
      BY <1>3, <1>6, <1>7, <2>2 DEF D!List
    <3>2. /\ Entered(view[k0], e) \in D!Entry
          /\ ShowsSum(view', k0, KeptSoFar(src, pos, k0) \cup {e})
      <4>1. KeptSoFar(src, pos, k0) \in SUBSET D!Kept(k0)
        BY DEF KeptSoFar
      <4> HIDE DEF e, k0
      <4> QED BY <1>5, <1>6, <1>7, <2>2, <3>1, <4>1, SumGrows
    <3>3. ASSUME NEW k \in D!Key, k # k0
          PROVE  ShowsSum(view', k, KeptSoFar(src, pos + 1, k))
      <4>1. KeptSoFar(src, pos + 1, k) = KeptSoFar(src, pos, k)
        BY <1>4, <1>5, <3>3
      <4> QED BY <1>6, <3>1, <3>3, <4>1 DEF ShowsSum
    <3>4. view' \in D!List
      BY <1>3, <1>6, <1>7, <2>2, <3>2 DEF D!List
    <3> QED BY <1>5, <1>7, <2>2, <3>2, <3>3, <3>4
  <2> QED BY <2>1, <2>2
<1>9. /\ \A k : KeptSoFar(src, pos, k)' = KeptSoFar(src, pos + 1, k)
      /\ \A k, S : ShowsSum(view, k, S)' <=> ShowsSum(view', k, S)
  BY <1>1 DEF KeptSoFar, D!Kept, D!Discarded, D!Name, ShowsSum, SpamListed, GoodListed, Listed, DateOf
<1> QED BY <1>8, <1>9 DEF LoadedSoFar

\* The sums and lines depend on the list and the options.
LEMMA SameLines ==
    ASSUME UNCHANGED <<opt, list, before>>
    PROVE  /\ \A src, K : UNCHANGED text => (LinesOf(src, K)' <=> LinesOf(src, K))
           /\ D!Fits' <=> D!Fits
           /\ \A k : D!Kept(k)' = D!Kept(k)
           /\ \A v, k, S : ShowsSum(v, k, S)' <=> ShowsSum(v, k, S)
           /\ \A src : UNCHANGED <<view, pos>> => (LoadedSoFar(src)' <=> LoadedSoFar(src))
<1>1. \A e : D!Name(e)' = D!Name(e)
  BY DEF D!Name
<1>2. \A K : Dumped(K)' = Dumped(K)
  BY DEF Dumped, D!Discarded
<1>3. \A k : D!Kept(k)' = D!Kept(k)
  BY DEF D!Kept, D!Name, D!Discarded
<1>4. \A v, k, S : ShowsSum(v, k, S)' <=> ShowsSum(v, k, S)
  BY DEF ShowsSum, SpamListed, GoodListed, Listed, DateOf
<1>5. D!Fits' <=> D!Fits
  <2>1. \A S : D!Spam(S)' = D!Spam(S) /\ D!Good(S)' = D!Good(S)
    BY DEF D!Spam, D!Good, D!MapThenSumSet, D!MapThenFoldSet
  <2> QED BY <1>3, <2>1 DEF D!Fits
<1>6. \A src : UNCHANGED <<view, pos>> => (LoadedSoFar(src)' <=> LoadedSoFar(src))
  BY <1>3, <1>4 DEF LoadedSoFar, KeptSoFar
<1> QED BY <1>1, <1>2, <1>3, <1>4, <1>5, <1>6 DEF LinesOf

\* No line was loaded when the load begins.
LEMMA NothingLoaded ==
    ASSUME DumpTypes, view = before, NEW src, NEW k \in D!Key
    PROVE  \A n \in {1} : ShowsSum(view, k, KeptSoFar(src, n, k))
<1>1. KeptSoFar(src, 1, k) = {}
  BY DEF KeptSoFar
<1>2. Total(SpamListed, {}) = 0 /\ Total(GoodListed, {}) = 0
  BY ListedFacts, TotalOfNone DEF DumpTypes
<1>3. /\ D!Counts(before[k]) = <<D!Counts(before[k])[1], D!Counts(before[k])[2]>>
      /\ D!Counts(before[k])[1] + 0 = D!Counts(before[k])[1]
      /\ D!Counts(before[k])[2] + 0 = D!Counts(before[k])[2]
  BY CountsTyped DEF DumpTypes
<1> QED BY <1>1, <1>2, <1>3 DEF ShowsSum

\* Each step of the two commands keeps the invariant.
LEMMA DumpStep ==
    ASSUME DumpTypes, DumpLines, TargetIsKept, D!Next
    PROVE  DumpTypes' /\ DumpLines' /\ TargetIsKept'
<1>c. UNCHANGED <<opt, list, before>>
  BY DEF D!Next, D!Dump, D!DumpFails, D!DumpEnds, D!LoadLine, D!LineFails,
         D!ReadFails, D!LoadEnds, D!Killed
<1>u. ASSUME pos' \in Nat \ {0}, text' \in Seq(D!Entry), dpc' \in {"dump", "load", "loaded", "failed"},
             whole' \in BOOLEAN, rv' \in {0, 1, 2}
      PROVE  DumpTypes'
  BY <1>c, <1>u DEF DumpTypes
<1>t. ASSUME dpc # "loaded", dpc' # "loaded", UNCHANGED target PROVE TargetIsKept'
  BY <1>c, <1>t DEF TargetIsKept
<1>1. CASE D!Dump
  <2>1. PICK src : LinesOf(src, WalkedTo(pos))
    BY <1>1 DEF D!Dump, DumpLines
  <2>2. text' \in Seq(D!Entry) /\ \E s : LinesOf(s, WalkedTo(pos))'
    BY <1>1, <2>1, LinesGrow
  <2>3. pos' \in Nat \ {0} /\ pos' <= Len(ListOrder) + 1
    BY <1>1, DumpConstants DEF D!Dump, DumpTypes
  <2>4. dpc = "dump" /\ UNCHANGED <<dpc, whole, target, view, rv>>
    BY <1>1 DEF D!Dump
  <2>5. DumpTypes' /\ TargetIsKept'
    BY <1>u, <1>t, <2>2, <2>3, <2>4 DEF DumpTypes
  <2> QED BY <1>c, <2>2, <2>3, <2>4, <2>5 DEF DumpLines
<1>2. CASE D!DumpFails
  <2>1. dpc = "dump" /\ dpc' = "load" /\ whole' = FALSE /\ pos' = 1 /\ UNCHANGED <<text, target, rv>>
    BY <1>2 DEF D!DumpFails
  <2>2. whole' \in BOOLEAN
    BY <2>1
  <2>3. dpc' \in {"dump", "load", "loaded", "failed"} /\ pos' \in Nat \ {0}
    BY <2>1
  <2>4. text' \in Seq(D!Entry) /\ rv' \in {0, 1, 2}
    BY <2>1 DEF DumpTypes
  <2>5. DumpTypes' /\ TargetIsKept'
    BY <1>u, <1>t, <2>1, <2>2, <2>3, <2>4
  <2> QED BY <2>1, <2>5 DEF DumpLines
<1>3. CASE D!DumpEnds
  <2>1. /\ dpc = "dump" /\ dpc' = "load" /\ pos > Len(ListOrder) /\ pos' = 1
        /\ UNCHANGED <<text, whole, target, view, rv>>
    BY <1>3 DEF D!DumpEnds
  <2>2. DumpTypes' /\ TargetIsKept'
    BY <1>u, <1>t, <2>1 DEF DumpTypes
  <2>3. PICK src : LinesOf(src, WalkedTo(pos))
    BY <2>1 DEF DumpLines
  <2>4. WalkedTo(pos) = D!Key /\ view = before
    BY <2>1, WalkedToAll DEF DumpTypes, DumpLines
  <2>5. LinesOf(src, D!Key)'
    BY <1>c, <2>1, <2>3, <2>4, SameLines
  <2>6. view' \in D!List /\ \A k \in D!Key : ShowsSum(view, k, KeptSoFar(src, 1, k))
    BY <2>1, <2>4, NothingLoaded DEF DumpTypes
  <2>7. \A k : KeptSoFar(src, pos, k)' = KeptSoFar(src, 1, k)
    BY <1>c, <2>1, SameLines DEF KeptSoFar
  <2>8. LoadedSoFar(src)'
    BY <1>c, <2>1, <2>6, <2>7, SameLines DEF LoadedSoFar
  <2> QED BY <2>1, <2>2, <2>5, <2>8 DEF DumpLines
<1>4. CASE D!LoadLine
  <2>1. dpc = "load" /\ rv # 2 /\ pos' = pos + 1 /\ UNCHANGED <<dpc, text, whole, target, rv>>
    BY <1>4 DEF D!LoadLine
  <2>2. DumpTypes' /\ TargetIsKept'
    BY <1>u, <1>t, <2>1 DEF DumpTypes
  <2>3. ASSUME whole PROVE \E src : LinesOf(src, D!Key)' /\ (D!Fits' /\ rv' = 0 => LoadedSoFar(src)')
    <3>1. PICK src : LinesOf(src, D!Key) /\ (D!Fits /\ rv = 0 => LoadedSoFar(src))
      BY <2>1, <2>3 DEF DumpLines
    <3>2. LinesOf(src, D!Key)' /\ (D!Fits' <=> D!Fits)
      BY <1>c, <2>1, <3>1, SameLines
    <3>3. ASSUME D!Fits, rv = 0 PROVE LoadedSoFar(src)'
      BY <1>4, <3>1, <3>3, LoadingSums
    <3> QED BY <2>1, <3>2, <3>3
  <2> QED BY <2>1, <2>2, <2>3 DEF DumpLines
<1>5. CASE D!LineFails
  <2>1. /\ dpc = "load" /\ rv' = 1 /\ pos' = pos + 1
        /\ UNCHANGED <<dpc, text, whole, target, view>>
    BY <1>5 DEF D!LineFails
  <2>2. DumpTypes' /\ TargetIsKept'
    BY <1>u, <1>t, <2>1 DEF DumpTypes
  <2>3. ASSUME whole PROVE \E src : LinesOf(src, D!Key)'
    BY <1>c, <2>1, <2>3, SameLines DEF DumpLines
  <2> QED BY <2>1, <2>2, <2>3 DEF DumpLines
<1>6. CASE D!ReadFails
  <2>1. dpc = "load" /\ rv' = 2 /\ UNCHANGED <<dpc, pos, text, whole, target, view>>
    BY <1>6 DEF D!ReadFails
  <2>2. DumpTypes' /\ TargetIsKept'
    BY <1>u, <1>t, <2>1 DEF DumpTypes
  <2>3. ASSUME whole PROVE \E src : LinesOf(src, D!Key)'
    BY <1>c, <2>1, <2>3, SameLines DEF DumpLines
  <2> QED BY <2>1, <2>2, <2>3 DEF DumpLines
<1>7. CASE D!LoadEnds
  <2>1. /\ dpc = "load" /\ (rv = 2 \/ pos > Len(text)) /\ UNCHANGED <<pos, text, whole, view, rv>>
        /\ dpc' \in {"loaded", "failed"}
        /\ dpc' = "loaded" => rv = 0 /\ target' = view
        /\ dpc' # "loaded" => target' = target
    BY <1>7 DEF D!LoadEnds
  <2>2. DumpTypes' /\ DumpLines'
    BY <1>u, <2>1 DEF DumpTypes, DumpLines
  <2>3. ASSUME dpc' = "loaded", whole, D!Fits, NEW k \in D!Key PROVE ShowsSum(view, k, D!Kept(k))
    <3>1. PICK src : LinesOf(src, D!Key) /\ LoadedSoFar(src)
      BY <2>1, <2>3 DEF DumpLines
    <3>2. pos > Len(text) /\ pos \in Nat /\ Len(text) \in Nat
      BY <2>1, <2>3, LenProperties DEF DumpTypes
    <3>3. \A e \in D!Kept(k) : e \in Dumped(D!Key)
      BY DEF D!Kept, Dumped
    <3>4. \A i \in 1 .. Len(text) : i \in 1 .. pos - 1
      BY <3>2
    <3>5. KeptSoFar(src, pos, k) = D!Kept(k)
      BY <3>1, <3>3, <3>4 DEF KeptSoFar, LinesOf
    <3> QED BY <2>3, <3>1, <3>5 DEF LoadedSoFar
  <2>4. TargetIsKept'
    BY <1>c, <2>1, <2>3, SameLines DEF TargetIsKept
  <2> QED BY <2>2, <2>4
<1>8. CASE D!Killed
  <2>1. dpc = "load" /\ dpc' = "failed" /\ UNCHANGED <<pos, text, whole, target, view, rv>>
    BY <1>8 DEF D!Killed
  <2>2. DumpTypes' /\ TargetIsKept'
    BY <1>u, <1>t, <2>1 DEF DumpTypes
  <2> QED BY <2>1, <2>2 DEF DumpLines
<1> QED BY <1>1, <1>2, <1>3, <1>4, <1>5, <1>6, <1>7, <1>8 DEF D!Next

\* The invariant holds before the dump.
LEMMA DumpStarts ==
    D!Init => DumpTypes /\ DumpLines /\ TargetIsKept
<1> SUFFICES ASSUME D!Init PROVE DumpTypes /\ DumpLines /\ TargetIsKept
  OBVIOUS
<1>1. /\ dpc = "dump" /\ pos = 1 /\ text = <<>> /\ whole = TRUE /\ rv = 0
      /\ target = before /\ view = before
  BY DEF D!Init
<1>2. PICK task \in DumpTasks : opt = task.opt /\ list = task.from /\ before = task.into
  BY DEF D!Init
<1>3. task \in [opt : [count : Nat, replace : BOOLEAN, max_token_len : BOOLEAN],
                from : D!List, into : D!List]
  BY DumpAssumption DEF D!LoadDumpAssumption
<1>4. DumpTypes
  BY <1>1, <1>2, <1>3, EmptySeq DEF DumpTypes
<1>5. Len(text) = 0 /\ WalkedTo(pos) = {} /\ 1 .. Len(text) = {}
  BY <1>1, EmptySeq DEF WalkedTo
<1>6. LinesOf([i \in {} |-> i], WalkedTo(pos))
  BY <1>5 DEF LinesOf, Dumped
<1>7. pos <= Len(ListOrder) + 1
  BY <1>1, DumpConstants
<1> QED BY <1>1, <1>4, <1>6, <1>7 DEF DumpLines, TargetIsKept

\* A step is one of bogoutil -d or -l, or leaves the list alone.
LEMMA DumpSteps ==
    [CommandsNext]_allVars =>
        component' = component /\ ((component = "dump" /\ D!Next) \/ UNCHANGED dumpVars)
BY DEF CommandsNext, allVars, Environments, Queue, Options, OtherOptions, Loop, Maintain,
       DumpOrLoad

\* The steps of the other components keep the invariant.
LEMMA DumpStutters ==
    DumpInv /\ UNCHANGED <<component, dumpVars>> => DumpInv'
<1> SUFFICES ASSUME DumpInv, UNCHANGED <<component, dumpVars>> PROVE DumpInv'
  OBVIOUS
<1> USE DEF dumpVars
<1>1. UNCHANGED <<opt, list, before>>
  OBVIOUS
<1>2. DumpTypes => DumpTypes'
  BY DEF DumpTypes
<1>3. \A src : /\ LinesOf(src, WalkedTo(pos))' <=> LinesOf(src, WalkedTo(pos))
               /\ LinesOf(src, D!Key)' <=> LinesOf(src, D!Key)
  BY <1>1, SameLines DEF WalkedTo
<1>4. \A src : LoadedSoFar(src)' <=> LoadedSoFar(src)
  BY <1>1, SameLines
<1>5. DumpLines => DumpLines'
  BY <1>1, <1>3, <1>4, SameLines DEF DumpLines
<1>6. TargetIsKept => TargetIsKept'
  BY <1>1, SameLines DEF TargetIsKept
<1> QED BY <1>2, <1>5, <1>6 DEF DumpInv

\* The invariant of bogoutil -d and -l.
LEMMA DumpInvariance == CommandsSpec => []DumpInv
<1>1. CommandsInit => DumpInv
  BY DumpStarts DEF CommandsInit, DumpInit, DumpInv
<1>2. DumpInv /\ [CommandsNext]_allVars => DumpInv'
  <2> SUFFICES ASSUME DumpInv, [CommandsNext]_allVars PROVE DumpInv'
    OBVIOUS
  <2>1. CASE component = "dump" /\ D!Next
    BY <2>1, DumpSteps, DumpStep DEF DumpInv
  <2>2. CASE UNCHANGED dumpVars
    BY <2>2, DumpSteps, DumpStutters
  <2> QED BY <2>1, <2>2, DumpSteps
<1> QED BY <1>1, <1>2, PTL DEF CommandsSpec

\* bogoutil -d into bogoutil -l, for any lists, options and order of the keys: as long
\* as the sums fit, each token and the message counts are what they were in both
\* lists together; after a failure the list is as it was.
THEOREM CommandsMoveTheList == CommandsSpec => []ListMoved
<1>1. DumpInv => ListMoved
  <2> SUFFICES ASSUME DumpInv PROVE D!ListMoved
    BY DEF ListMoved
  <2>1. CASE component # "dump"
    BY <2>1 DEF DumpInv, D!ListMoved
  <2>2. CASE component = "dump"
    <3>1. ASSUME dpc = "loaded", whole, D!Fits, NEW k \in D!Key
          PROVE  /\ D!Counts(target[k]) = <<D!Counts(before[k])[1] + D!Spam(D!Kept(k)),
                                            D!Counts(before[k])[2] + D!Good(D!Kept(k))>>
                 /\ D!Kept(k) # {} => target[k].date \in
                      {IF list[e].date = 0 THEN Today ELSE list[e].date : e \in D!Kept(k)}
      <4>1. ShowsSum(target, k, D!Kept(k)) /\ list \in D!List
        BY <2>2, <3>1 DEF DumpInv, TargetIsKept, DumpTypes
      <4>2. D!Kept(k) \in SUBSET Listed
        BY <4>1, ListedFacts
      <4> QED BY <4>1, <4>2, DumpTotals DEF ShowsSum, DateOf
    <3> QED BY <2>2, <3>1 DEF DumpInv, TargetIsKept, D!ListMoved
  <2> QED BY <2>1, <2>2
<1> QED BY <1>1, DumpInvariance, PTL


-----------------------------------------------------------------------------
(* What bogofilter is to do (Configuration)                                *)

\* One kind of mail is counted up, another down, by the run types chosen so far;
\* after the first walk one is chosen, and those validated go together.
RunFits == \A r \in o.run \cap C!RunTypes : o.run \cap C!Conflict(r) = {}

RunInv ==
    component = "options" =>
        /\ "run" \in DOMAIN o
        /\ o.run \subseteq C!RunTypes \cup {"normal", "update"}
        /\ RunFits
        /\ case.program = "bogofilter" /\ cpc \in {"site", "user", "last", "validated", "ready"}
            => o.run # {}
        /\ case.program = "bogofilter" /\ cpc \in {"validated", "ready"}
            => o.run \cap C!RunTypes = {} \/ o.run \cap {"normal", "update"} = {}

\* An option adds at most a run type, or -u, and leaves the others.
LEMMA SetAdds ==
    ASSUME "run" \in DOMAIN o, NEW opt0, NEW pass0, NEW prec0
    PROVE  LET n == C!Set(opt0, pass0, prec0)
           IN /\ "run" \in DOMAIN n
              /\ \/ n.run = o.run
                 \/ /\ opt0.name \in C!RunTypes \cup {"update"}
                    /\ n.run = o.run \cup {opt0.name}
<1> DEFINE n == C!Set(opt0, pass0, prec0)
<1>1. CASE opt0.name \in C!RunTypes \cup {"update"}
  <2>1. n = [o EXCEPT !.run = @ \cup {opt0.name}]
    BY <1>1 DEF C!Set, C!RunTypes, C!ValueOptions
  <2> QED BY <1>1, <2>1
<1>2. CASE opt0.name \notin C!RunTypes \cup {"update"}
  <2>1. CASE opt0.name \in C!ValueOptions
    <3>1. n = IF opt0.name \in C!Guarded /\ pass0 = 1 THEN o
              ELSE [o EXCEPT !.value[opt0.name] = opt0.val]
      BY <2>1 DEF C!Set, C!ValueOptions, C!RunTypes
    <3>2. n = o \/ n = [o EXCEPT !.value[opt0.name] = opt0.val]
      BY <3>1
    <3> DEFINE v == [o.value EXCEPT ![opt0.name] = opt0.val]
    <3>3. n = o \/ n = [o EXCEPT !.value = v]
      BY <3>2
    <3> HIDE DEF n, v
    <3>4. "run" \in DOMAIN n /\ n.run = o.run
      BY <3>3
    <3> QED BY <3>4 DEF n
  <2>2. CASE opt0.name = "dir"
    <3>1. n = o \/ n = [o EXCEPT !.bogohome = opt0.val, !.saved = prec0]
      BY <2>2 DEF C!Set, C!Directory, C!RunTypes, C!ValueOptions
    <3> QED BY <3>1
  <2>3. CASE opt0.name \notin C!ValueOptions \cup {"dir"}
    <3>1. \/ n = o
          \/ n = [o EXCEPT !.verbose = @ + 1]
          \/ n = [o EXCEPT !.passthrough = TRUE]
          \/ n = [o EXCEPT !.bulk = TRUE]
          \/ n = [o EXCEPT !.lists = @ \cup {opt0.val}]
          \/ n = [o EXCEPT !.suppress = TRUE]
          \/ n = [o EXCEPT !.user_config_file = opt0.val]
      BY <1>2, <2>3 DEF C!Set
    <3> QED BY <3>1
  <2> QED BY <2>1, <2>2, <2>3
<1> QED BY <1>1, <1>2

\* At first nothing is to be registered.
LEMMA RunStarts == C!Init => "run" \in DOMAIN o /\ o.run = {} /\ cpc = "first"
BY DEF C!Init, C!Defaults

\* No step lets the run types conflict.
LEMMA RunStep ==
    RunInv /\ component = "options" /\ component' = component /\ C!Next => RunInv'
<1> SUFFICES ASSUME RunInv, component = "options", component' = component, C!Next
             PROVE  RunInv'
  OBVIOUS
<1>1. /\ "run" \in DOMAIN o /\ o.run \subseteq C!RunTypes \cup {"normal", "update"} /\ RunFits
      /\ case.program = "bogofilter" /\ cpc \in {"site", "user", "last", "validated", "ready"}
          => o.run # {}
      /\ case.program = "bogofilter" /\ cpc \in {"validated", "ready"}
          => o.run \cap C!RunTypes = {} \/ o.run \cap {"normal", "update"} = {}
  BY DEF RunInv
<1>2. CASE C!ProcessArg
  <2>1. case' = case /\ cpc \in {"first", "site", "user", "last"}
    BY <1>2 DEF C!ProcessArg
  <2>2. CASE cpc' = "exit" /\ o' = o
    BY <1>1, <2>1, <2>2 DEF RunInv, RunFits
  <2>3. CASE cpc' = cpc /\ ~C!Ends(Head(todo))
             /\ o' = C!Set(Head(todo).opt, Head(todo).pass, Head(todo).precedence)
    <3> DEFINE now == Head(todo)
    <3> HIDE DEF now
    <3>1. /\ "run" \in DOMAIN o'
          /\ \/ o'.run = o.run
             \/ /\ now.opt.name \in C!RunTypes \cup {"update"}
                /\ o'.run = o.run \cup {now.opt.name}
      BY <1>1, <2>3, SetAdds DEF now
    <3>2. now.opt.name \in C!RunTypes => o.run \cap C!Conflict(now.opt.name) = {}
      BY <2>3 DEF C!Ends, now
    <3>3. CASE o'.run = o.run
      BY <1>1, <2>1, <2>3, <3>1, <3>3 DEF RunInv, RunFits
    <3>4. CASE /\ now.opt.name \in C!RunTypes \cup {"update"}
               /\ o'.run = o.run \cup {now.opt.name}
      <4>1. RunFits'
        BY <1>1, <3>2, <3>4 DEF RunFits, C!Conflict, C!RunTypes
      <4> QED BY <1>1, <2>1, <2>3, <3>1, <3>4, <4>1 DEF RunInv
    <3> QED BY <3>1, <3>3, <3>4
  <2> QED BY <1>2, <2>2, <2>3 DEF C!ProcessArg
<1>3. CASE C!EndOfFirstPass
  <2>1. /\ cpc' = "site" /\ case' = case
        /\ o' = (IF case.program = "bogofilter" /\ o.run = {} THEN [o EXCEPT !.run = {"normal"}]
                 ELSE o)
    BY <1>3 DEF C!EndOfFirstPass
  <2>2. CASE o' = o /\ (case.program = "bogofilter" => o.run # {})
    BY <1>1, <2>1, <2>2 DEF RunInv, RunFits
  <2>3. CASE o' = [o EXCEPT !.run = {"normal"}]
    <3>1. "run" \in DOMAIN o' /\ o'.run = {"normal"}
      BY <1>1, <2>3
    <3> QED BY <2>1, <3>1 DEF RunInv, RunFits, C!RunTypes
  <2> QED BY <2>1, <2>2, <2>3
<1>4. CASE C!EndOfSiteFile
  BY <1>1, <1>4 DEF C!EndOfSiteFile, RunInv, RunFits
<1>5. CASE C!EndOfUserFile
  BY <1>1, <1>5 DEF C!EndOfUserFile, RunInv, RunFits
<1>6. CASE C!EndOfLastPass
  BY <1>1, <1>6 DEF C!EndOfLastPass, C!Valid, RunInv, RunFits
<1>7. CASE C!SetBogohome
  <2>1. /\ cpc = "validated" /\ cpc' \in {"exit", "ready"} /\ case' = case
        /\ \E v, u : o' = [o EXCEPT !.bogohome = v, !.lists = u]
    BY <1>7 DEF C!SetBogohome
  <2>2. "run" \in DOMAIN o' /\ o'.run = o.run
    BY <1>1, <2>1
  <2> QED BY <1>1, <2>1, <2>2 DEF RunInv, RunFits
<1> QED BY <1>2, <1>3, <1>4, <1>5, <1>6, <1>7 DEF C!Next

\* A step is one of the options, or leaves them alone.
LEMMA OptionSteps ==
    [CommandsNext]_allVars =>
        component' = component /\ ((component = "options" /\ C!Next) \/ UNCHANGED optionVars)
BY DEF CommandsNext, allVars, Environments, Queue, Options, OtherOptions, Loop, Maintain,
       DumpOrLoad

\* So RunInv holds as long as the program runs.
LEMMA RunInvariance == CommandsSpec => []RunInv
<1>1. CommandsInit => RunInv
  BY RunStarts DEF CommandsInit, OptionInit, RunInv, RunFits
<1>2. RunInv /\ [CommandsNext]_allVars => RunInv'
  <2> SUFFICES ASSUME RunInv, [CommandsNext]_allVars PROVE RunInv'
    OBVIOUS
  <2>1. CASE component = "options" /\ C!Next
    BY <2>1, OptionSteps, RunStep
  <2>2. CASE UNCHANGED optionVars
    BY <2>2, OptionSteps DEF optionVars, RunInv, RunFits
  <2> QED BY <2>1, <2>2, OptionSteps
<1> QED BY <1>1, <1>2, PTL DEF CommandsSpec

\* Whatever the command line and the files say, in any order and any number of
\* options: bogofilter classifies, or changes the counts of one kind of mail up and
\* of the other down, and never both (check_run_type and validate_args).
THEOREM CommandsDoOneThing == CommandsSpec => [](component = "options" => C!RunTypeFits)
<1>1. RunInv => (component = "options" => C!RunTypeFits)
  <2> SUFFICES ASSUME RunInv, component = "options", cpc = "ready", case.program = "bogofilter"
               PROVE  \/ o.run \in {{"normal"}, {"normal", "update"}, {"update"}}
                      \/ o.run # {} /\ o.run \subseteq {"spam", "ungood"}
                      \/ o.run # {} /\ o.run \subseteq {"good", "unspam"}
    BY DEF C!RunTypeFits
  <2>1. /\ o.run \subseteq C!RunTypes \cup {"normal", "update"} /\ RunFits /\ o.run # {}
        /\ o.run \cap C!RunTypes = {} \/ o.run \cap {"normal", "update"} = {}
    BY DEF RunInv
  <2>2. CASE o.run \cap C!RunTypes = {}
    <3>1. o.run \subseteq {"normal", "update"}
      BY <2>1, <2>2
    <3> QED BY <2>1, <3>1
  <2>3. CASE o.run \cap {"normal", "update"} = {}
    <3>1. o.run \subseteq {"spam", "good", "unspam", "ungood"}
      BY <2>1, <2>3 DEF C!RunTypes
    <3>2. /\ "spam" \in o.run => o.run \cap {"good", "unspam"} = {}
          /\ "good" \in o.run => o.run \cap {"spam", "ungood"} = {}
          /\ "unspam" \in o.run => o.run \cap {"spam", "ungood"} = {}
          /\ "ungood" \in o.run => o.run \cap {"good", "unspam"} = {}
      BY <2>1 DEF RunFits, C!RunTypes, C!Conflict
    <3> QED BY <2>1, <3>1, <3>2
  <2> QED BY <2>1, <2>2, <2>3
<1> QED BY <1>1, RunInvariance, PTL
=============================================================================
