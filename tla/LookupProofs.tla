---------------------------- MODULE LookupProofs ----------------------------
(***************************************************************************)
(* TLAPS proofs about Lookup, for any configuration, lists and tokens, and *)
(* about Tuning, for any messages (at the end).                            *)
(*                                                                         *)
(* What lookup relies on is the order init_wordlist keeps (ListsOrdered):  *)
(* the override it carries from a list to the next never exceeds that of   *)
(* the next, so that no list in front of an ignore list, and no precedence,*)
(* ends the lookup of an ignored token before its list is asked.           *)
(*                                                                         *)
(* What a token is worth is the sum over the lists (SumInv): the counts of *)
(* the lists asked so far while it is looked up, of all lists afterwards.  *)
(***************************************************************************)
EXTENDS Lookup, SequenceTheorems, FiniteSetTheorems, SumProofs, TLAPS

\* The lines of the configuration are read before any token is looked up,
\* and there is at least one list then.
ListsInit ==
    /\ Len(config) + Len(word_lists) <= MaxLists
    /\ config = <<>> => word_lists # <<>>
    /\ config # <<>> => todo = WordSeq /\ cursor = 1 /\ override = 0

\* The cursor is in the lists, and override is that of the list before it.
AtList ==
    /\ config = <<>> => cursor \in DOMAIN word_lists
    /\ override = IF cursor = 1 THEN 0 ELSE word_lists[cursor - 1].override

\* The lists that were asked for the first token do not ignore it.
NotIgnoredYet ==
    todo # <<>> => \A i \in 1 .. cursor - 1 : i \notin IgnoredBy(Head(todo))

\* The ignored tokens that were looked up have no counts.
IgnoredDone ==
    Documented =>
        \A t \in Token \ ToSet(todo) : IgnoredBy(t) # {} => cnts[t] = 0

LookupInv ==
    /\ TypeOK
    /\ ListsOrdered
    /\ ListsInit
    /\ AtList
    /\ NotIgnoredYet
    /\ IgnoredDone

-----------------------------------------------------------------------------
(* Facts about the operators of the model *)

\* The positions that are not after one of a set of positions, if they all
\* are in the set, are the first ones, as many as there are.
LEMMA FirstOnes ==
    ASSUME NEW n \in Nat, NEW D \in SUBSET (1 .. n),
           \A i \in D : \A j \in 1 .. i : j \in D
    PROVE  /\ Cardinality(D) \in 0 .. n
           /\ D = 1 .. Cardinality(D)
<1>1. IsFiniteSet(1 .. n) /\ Cardinality(1 .. n) = n
  BY FS_Interval
<1>2. IsFiniteSet(D) /\ Cardinality(D) <= n
  BY <1>1, FS_Subset, ZenonT(60)
<1>3. Cardinality(D) \in Nat
  BY <1>2, FS_CardinalityType
<1>4. D \subseteq 1 .. Cardinality(D)
  <2> SUFFICES ASSUME NEW i \in D PROVE i <= Cardinality(D)
    BY <1>3
  <2>1. 1 .. i \subseteq D
    OBVIOUS
  <2>2. Cardinality(1 .. i) = i
    BY FS_Interval
  <2> QED BY <1>2, <2>1, <2>2, FS_Subset
<1>5. Cardinality(1 .. Cardinality(D)) = Cardinality(D)
      /\ IsFiniteSet(1 .. Cardinality(D))
  BY <1>3, FS_Interval
<1>6. D = 1 .. Cardinality(D)
  BY <1>4, <1>5, FS_Subset
<1> QED BY <1>2, <1>3, <1>6

\* What InsertAt makes of a sequence.
LEMMA Inserted ==
    ASSUME NEW S, NEW s \in Seq(S), NEW e \in S, NEW k \in 1 .. Len(s) + 1
    PROVE  /\ InsertAt(s, k, e) \in Seq(S)
           /\ Len(InsertAt(s, k, e)) = Len(s) + 1
           /\ \A i \in 1 .. Len(s) + 1 :
                /\ i < k => InsertAt(s, k, e)[i] = s[i]
                /\ i = k => InsertAt(s, k, e)[i] = e
                /\ i > k => InsertAt(s, k, e)[i] = s[i - 1]
<1> DEFINE before == SubSeq(s, 1, k - 1)
           after == SubSeq(s, k, Len(s))
           front == before \o <<e>>
<1>0. Len(s) \in Nat /\ k \in Nat
  OBVIOUS
<1>1. /\ before \in Seq(S) /\ Len(before) = k - 1
      /\ \A i \in 1 .. k - 1 : before[i] = s[i]
  <2>1. \A i \in 1 .. k - 1 : s[i] \in S
    BY <1>0, ElementOfSeq
  <2>2. /\ before \in Seq(S)
        /\ Len(before) = IF 1 <= k - 1 THEN k - 1 - 1 + 1 ELSE 0
        /\ \A i \in 1 .. k - 1 - 1 + 1 : before[i] = s[1 + i - 1]
    BY <1>0, <2>1, SubSeqProperties
  <2> HIDE DEF before
  <2> QED BY <1>0, <2>2
<1>2. /\ after \in Seq(S) /\ Len(after) = Len(s) - k + 1
      /\ \A i \in 1 .. Len(s) - k + 1 : after[i] = s[k + i - 1]
  <2>1. \A i \in k .. Len(s) : s[i] \in S
    BY <1>0, ElementOfSeq
  <2>2. /\ after \in Seq(S)
        /\ Len(after) = IF k <= Len(s) THEN Len(s) - k + 1 ELSE 0
        /\ \A i \in 1 .. Len(s) - k + 1 : after[i] = s[k + i - 1]
    BY <1>0, <2>1, SubSeqProperties
  <2> HIDE DEF after
  <2> QED BY <1>0, <2>2
<1>3. <<e>> \in Seq(S) /\ Len(<<e>>) = 1 /\ <<e>>[1] = e
  OBVIOUS
<1> HIDE DEF before, after
<1>4. /\ front \in Seq(S) /\ Len(front) = k
      /\ \A i \in 1 .. k - 1 : front[i] = s[i]
      /\ front[k] = e
  <2>1. /\ front \in Seq(S)
        /\ Len(front) = Len(before) + Len(<<e>>)
        /\ \A i \in 1 .. Len(before) + Len(<<e>>) : front[i] =
                IF i <= Len(before) THEN before[i] ELSE <<e>>[i - Len(before)]
    BY <1>1, <1>3, ConcatProperties
  <2> HIDE DEF front
  <2> QED BY <1>0, <1>1, <1>3, <2>1
<1> HIDE DEF front
<1>5. /\ front \o after \in Seq(S)
      /\ Len(front \o after) = Len(front) + Len(after)
      /\ \A i \in 1 .. Len(front) + Len(after) : (front \o after)[i] =
              IF i <= Len(front) THEN front[i] ELSE after[i - Len(front)]
  BY <1>2, <1>4, ConcatProperties
<1>6. InsertAt(s, k, e) = front \o after
  BY DEF InsertAt, front, before, after
<1> DEFINE r == front \o after
<1> HIDE DEF r
<1>7. r \in Seq(S) /\ Len(r) = Len(s) + 1
  BY <1>0, <1>2, <1>4, <1>5 DEF r
<1>8. ASSUME NEW i \in 1 .. Len(s) + 1
      PROVE  /\ i < k => r[i] = s[i]
             /\ i = k => r[i] = e
             /\ i > k => r[i] = s[i - 1]
  <2>1. r[i] = IF i <= k THEN front[i] ELSE after[i - k]
    BY <1>0, <1>2, <1>4, <1>5 DEF r
  <2>2. i > k => after[i - k] = s[k + (i - k) - 1]
    BY <1>0, <1>2
  <2> QED BY <1>0, <1>4, <2>1, <2>2
<1> QED BY <1>6, <1>7, <1>8 DEF r

\* A new list comes after those whose precedence is not higher, and before
\* the others.
LEMMA PlaceSplits ==
    ASSUME word_lists \in Seq(ConfigLines), ListsOrdered,
           NEW list \in ConfigLines
    PROVE  /\ Place(list) \in 1 .. Len(word_lists) + 1
           /\ \A i \in 1 .. Len(word_lists) :
                i < Place(list) <=> word_lists[i].override <= list.override
<1> DEFINE D == {i \in DOMAIN word_lists :
                    word_lists[i].override <= list.override}
<1>1. Len(word_lists) \in Nat /\ DOMAIN word_lists = 1 .. Len(word_lists)
  OBVIOUS
<1>2. \A i \in 1 .. Len(word_lists) : word_lists[i].override \in Int
  BY ElementOfSeq, ConfigLinesAssumption
<1>3. list.override \in Int
  BY ConfigLinesAssumption
<1>4. ASSUME NEW i \in D, NEW j \in 1 .. i PROVE j \in D
  <2>1. j \in DOMAIN word_lists /\ i \in DOMAIN word_lists
    BY <1>1
  <2>2. word_lists[j].override <= word_lists[i].override
    <3>1. CASE j = i
      BY <1>1, <1>2, <2>1, <3>1
    <3>2. CASE j # i
      BY <1>1, <2>1, <3>2 DEF ListsOrdered
    <3> QED BY <3>1, <3>2
  <2> QED BY <1>1, <1>2, <1>3, <2>1, <2>2
<1>5. D \in SUBSET (1 .. Len(word_lists))
  BY <1>1
<1>6. Cardinality(D) \in 0 .. Len(word_lists) /\ D = 1 .. Cardinality(D)
  BY <1>1, <1>4, <1>5, FirstOnes
<1>7. Place(list) = 1 + Cardinality(D)
  BY DEF Place
<1>8. \A i \in 1 .. Len(word_lists) :
         i \in D <=> word_lists[i].override <= list.override
  BY <1>1
<1> HIDE DEF D
<1> QED BY <1>1, <1>6, <1>7, <1>8

\* What is left of the tokens after the first of them.
LEMMA OneTokenLess ==
    ASSUME NEW n \in 1 .. Len(WordSeq) + 1, NEW rest,
           rest = SubSeq(WordSeq, n, Len(WordSeq)), rest # <<>>
    PROVE  /\ Head(rest) \in Token
           /\ n + 1 \in 1 .. Len(WordSeq) + 1
           /\ Tail(rest) = SubSeq(WordSeq, n + 1, Len(WordSeq))
           /\ ToSet(rest) = {Head(rest)} \cup ToSet(Tail(rest))
<1>1. Len(WordSeq) \in Nat /\ WordSeq \in Seq(Token)
  BY WordSeqAssumption
<1>2. n <= Len(WordSeq)
  BY <1>1, SubSeqEmpty
<1>3. n \in 1 .. Len(WordSeq) /\ Len(WordSeq) \in n .. Len(WordSeq)
  BY <1>1, <1>2
<1>4. Head(rest) = WordSeq[n] /\ Tail(rest) = SubSeq(WordSeq, n + 1, Len(WordSeq))
  BY <1>1, <1>3, HeadTailOfSubSeq
<1>5. Head(rest) \in Token
  BY <1>1, <1>3, <1>4, ElementOfSeq
<1>6. rest \in Seq(Token)
  <2>1. \A i \in n .. Len(WordSeq) : WordSeq[i] \in Token
    BY <1>1, <1>3, ElementOfSeq
  <2> QED BY <1>1, <1>3, <2>1, SubSeqProperties
<1>7. /\ Tail(rest) \in Seq(Token) /\ Len(Tail(rest)) = Len(rest) - 1
      /\ \A i \in 1 .. Len(Tail(rest)) : Tail(rest)[i] = rest[i + 1]
  BY <1>6, HeadTailProperties
<1>8. /\ DOMAIN rest = 1 .. Len(rest) /\ Len(rest) \in Nat \ {0}
      /\ DOMAIN Tail(rest) = 1 .. Len(Tail(rest))
  BY <1>6, <1>7, EmptySeq, LenProperties
<1>9. Head(rest) = rest[1]
  BY <1>6
<1>10. \A i \in DOMAIN rest : rest[i] \in {Head(rest)} \cup ToSet(Tail(rest))
  <2> TAKE i \in DOMAIN rest
  <2>1. CASE i = 1
    BY <1>9, <2>1
  <2>2. CASE i # 1
    <3>1. i - 1 \in DOMAIN Tail(rest) /\ Tail(rest)[i - 1] = rest[i]
      BY <1>7, <1>8, <2>2
    <3> QED BY <3>1 DEF ToSet
  <2> QED BY <2>1, <2>2
<1>11. \A i \in DOMAIN Tail(rest) : i + 1 \in DOMAIN rest /\ Tail(rest)[i] = rest[i + 1]
  BY <1>7, <1>8
<1>12. ToSet(rest) = {Head(rest)} \cup ToSet(Tail(rest))
  <2>1. ToSet(rest) \subseteq {Head(rest)} \cup ToSet(Tail(rest))
    BY <1>10 DEF ToSet
  <2>2. ToSet(Tail(rest)) \subseteq ToSet(rest)
    BY <1>11 DEF ToSet
  <2>3. Head(rest) \in ToSet(rest)
    BY <1>8, <1>9, SMTT(40) DEF ToSet
  <2> QED BY <2>1, <2>2, <2>3
<1> QED BY <1>1, <1>3, <1>4, <1>5, <1>12

\* All tokens are among the remaining ones of the whole message.
LEMMA AllTokens ==
    /\ 1 \in 1 .. Len(WordSeq) + 1
    /\ WordSeq = SubSeq(WordSeq, 1, Len(WordSeq))
    /\ Token \ ToSet(WordSeq) = {}
BY WordSeqAssumption, SubSeqFull DEF Token

-----------------------------------------------------------------------------
(* The invariant *)

\* No token has been looked up and no list is open at the start.
LEMMA LookupStarts == Init => LookupInv
<1> SUFFICES ASSUME Init PROVE LookupInv
  OBVIOUS
<1>1. PICK n \in 1 .. MaxLists : config \in [1 .. n -> ConfigLines]
  BY DEF Init
<1>2. n \in Nat /\ MaxLists \in Nat \ {0}
  BY MaxListsAssumption
<1>3. config \in Seq(ConfigLines) /\ Len(config) = n /\ config # <<>>
  <2>1. config \in Seq(ConfigLines) /\ DOMAIN config = 1 .. n
    BY <1>1, <1>2, SeqDef
  <2>2. Len(config) = n
    BY <1>2, <2>1
  <2> QED BY <1>2, <2>1, <2>2
<1>4. /\ word_lists = <<>> /\ content \in [File -> Content] /\ todo = WordSeq
      /\ cursor = 1 /\ override = 0 /\ retries = 0
      /\ cnts = [t \in Token |-> 0] /\ msgs = [t \in Token |-> 0]
  BY DEF Init
<1>5. word_lists \in Seq(ConfigLines) /\ Len(word_lists) = 0 /\ DOMAIN word_lists = {}
  BY <1>4
<1>6. TypeOK
  <2>1. \E m \in 1 .. Len(WordSeq) + 1 : todo = SubSeq(WordSeq, m, Len(WordSeq))
    BY <1>4, AllTokens
  <2> QED BY <1>2, <1>3, <1>4, <1>5, <2>1, MaxRetriesAssumption DEF TypeOK
<1>7. ListsOrdered
  BY <1>5 DEF ListsOrdered
<1>8. ListsInit /\ AtList
  BY <1>2, <1>3, <1>4, <1>5 DEF ListsInit, AtList
<1>9. NotIgnoredYet
  BY <1>4 DEF NotIgnoredYet
<1>10. IgnoredDone
  BY <1>4, AllTokens DEF IgnoredDone
<1> QED BY <1>6, <1>7, <1>8, <1>9, <1>10 DEF LookupInv

\* init_wordlist keeps the order.
LEMMA InsertKeepsOrder ==
    ASSUME word_lists \in Seq(ConfigLines), ListsOrdered,
           NEW list \in ConfigLines, list \notin ToSet(word_lists),
           word_lists' = InsertAt(word_lists, Place(list), list)
    PROVE  /\ word_lists' \in Seq(ConfigLines)
           /\ Len(word_lists') = Len(word_lists) + 1
           /\ ListsOrdered'
<1> DEFINE k == Place(list)
           n == Len(word_lists)
<1>1. n \in Nat /\ DOMAIN word_lists = 1 .. n
  OBVIOUS
<1>2. /\ k \in 1 .. n + 1
      /\ \A i \in 1 .. n : i < k <=> word_lists[i].override <= list.override
  BY PlaceSplits
<1>3. /\ word_lists' \in Seq(ConfigLines)
      /\ Len(word_lists') = n + 1
      /\ \A i \in 1 .. n + 1 :
            /\ i < k => word_lists'[i] = word_lists[i]
            /\ i = k => word_lists'[i] = list
            /\ i > k => word_lists'[i] = word_lists[i - 1]
  <2>1. k \in 1 .. Len(word_lists) + 1
    BY <1>2
  <2> HIDE DEF k
  <2>2. /\ InsertAt(word_lists, k, list) \in Seq(ConfigLines)
        /\ Len(InsertAt(word_lists, k, list)) = Len(word_lists) + 1
        /\ \A i \in 1 .. Len(word_lists) + 1 :
            /\ i < k => InsertAt(word_lists, k, list)[i] = word_lists[i]
            /\ i = k => InsertAt(word_lists, k, list)[i] = list
            /\ i > k => InsertAt(word_lists, k, list)[i] = word_lists[i - 1]
    BY <2>1, Inserted
  <2>3. word_lists' = InsertAt(word_lists, k, list)
    BY DEF k
  <2> QED BY <2>2, <2>3
<1>4. \A i \in 1 .. n : word_lists[i].override \in Int
  BY <1>1, ElementOfSeq, ConfigLinesAssumption
<1>5. list.override \in Int
  BY ConfigLinesAssumption
<1>6. \A i \in 1 .. n : word_lists[i] # list
  BY <1>1 DEF ToSet
<1>7. \A i, j \in 1 .. n : i < j =>
            /\ word_lists[i].override <= word_lists[j].override
            /\ word_lists[i] # word_lists[j]
  BY <1>1 DEF ListsOrdered
<1>8. DOMAIN word_lists' = 1 .. n + 1
  BY <1>1, <1>3
<1> HIDE DEF k, n
<1>9. ASSUME NEW i \in 1 .. n + 1, NEW j \in 1 .. n + 1, i < j
      PROVE  /\ word_lists'[i].override <= word_lists'[j].override
             /\ word_lists'[i] # word_lists'[j]
  <2>1. CASE i < k /\ j < k
    BY <1>1, <1>2, <1>3, <1>7, <1>9, <2>1
  <2>2. CASE i < k /\ j = k
    <3>1. i \in 1 .. n
      BY <1>1, <1>2, <2>2
    <3>2. word_lists'[i] = word_lists[i] /\ word_lists'[j] = list
      BY <1>3, <2>2
    <3> QED BY <1>2, <1>6, <2>2, <3>1, <3>2
  <2>3. CASE i < k /\ j > k
    <3>1. i \in 1 .. n /\ j - 1 \in 1 .. n /\ i < j - 1
      BY <1>1, <1>2, <2>3
    <3>2. word_lists'[i] = word_lists[i] /\ word_lists'[j] = word_lists[j - 1]
      BY <1>3, <2>3
    <3> QED BY <1>7, <3>1, <3>2
  <2>4. CASE i = k
    <3>1. j - 1 \in 1 .. n /\ ~(j - 1 < k)
      BY <1>1, <1>2, <1>9, <2>4
    <3>2. word_lists'[i] = list /\ word_lists'[j] = word_lists[j - 1]
      BY <1>3, <1>9, <2>4
    <3>3. ~(word_lists[j - 1].override <= list.override)
      BY <1>2, <3>1
    <3>4. list.override <= word_lists[j - 1].override
      BY <1>4, <1>5, <3>1, <3>3
    <3> QED BY <1>6, <3>1, <3>2, <3>4
  <2>5. CASE i > k
    <3>1. i - 1 \in 1 .. n /\ j - 1 \in 1 .. n /\ i - 1 < j - 1
      BY <1>1, <1>2, <1>9, <2>5
    <3>2. word_lists'[i] = word_lists[i - 1] /\ word_lists'[j] = word_lists[j - 1]
      BY <1>1, <1>2, <1>3, <1>9, <2>5, SMTT(40)
    <3> QED BY <1>7, <3>1, <3>2
  <2>6. k \in Nat /\ i \in Nat /\ j \in Nat
    BY <1>1, <1>2
  <2> QED BY <2>1, <2>2, <2>3, <2>4, <2>5, <2>6
<1>10. ListsOrdered'
  BY <1>8, <1>9 DEF ListsOrdered
<1> QED BY <1>3, <1>10 DEF n

\* Reading a line of the configuration.
LEMMA LineRead == LookupInv /\ InitWordlist => LookupInv'
<1> SUFFICES ASSUME LookupInv, InitWordlist PROVE LookupInv'
  OBVIOUS
<1>1. /\ TypeOK /\ ListsOrdered /\ ListsInit /\ AtList
  BY DEF LookupInv
<1>2. /\ config # <<>> /\ config' = Tail(config)
      /\ UNCHANGED <<content, todo, cursor, override, cnts, msgs, retries>>
  BY DEF InitWordlist
<1>3. config \in Seq(ConfigLines) /\ word_lists \in Seq(ConfigLines)
  BY <1>1 DEF TypeOK
<1>4. /\ Head(config) \in ConfigLines /\ config' \in Seq(ConfigLines)
      /\ Len(config') = Len(config) - 1
  BY <1>2, <1>3, HeadTailProperties
<1>5. Len(config) \in Nat \ {0} /\ Len(word_lists) \in Nat /\ Len(config') \in Nat
  BY <1>2, <1>3, <1>4, EmptySeq, LenProperties
<1>6. /\ word_lists' \in Seq(ConfigLines) /\ ListsOrdered'
      /\ Len(word_lists') \in {Len(word_lists), Len(word_lists) + 1}
      /\ word_lists' # <<>>
  <2>1. CASE Head(config) \in ToSet(word_lists)
    <3>1. word_lists' = word_lists
      BY <2>1 DEF InitWordlist
    <3>2. word_lists # <<>>
      BY <2>1 DEF ToSet
    <3> QED BY <1>1, <1>3, <1>5, <3>1, <3>2 DEF ListsOrdered
  <2>2. CASE Head(config) \notin ToSet(word_lists)
    <3>1. word_lists' = InsertAt(word_lists, Place(Head(config)), Head(config))
      BY <2>2 DEF InitWordlist
    <3>2. /\ word_lists' \in Seq(ConfigLines)
          /\ Len(word_lists') = Len(word_lists) + 1
          /\ ListsOrdered'
      BY <1>1, <1>3, <1>4, <2>2, <3>1, InsertKeepsOrder
    <3> QED BY <1>5, <3>2
  <2> QED BY <2>1, <2>2
<1>7. todo = WordSeq /\ cursor = 1 /\ override = 0
  BY <1>1, <1>2 DEF ListsInit
<1>8. TypeOK'
  BY <1>1, <1>2, <1>4, <1>6 DEF TypeOK
<1>9. ListsInit'
  <2>1. Len(config) + Len(word_lists) <= MaxLists
    BY <1>1 DEF ListsInit
  <2> QED BY <1>2, <1>4, <1>5, <1>6, <1>7, <2>1, MaxListsAssumption DEF ListsInit
<1>10. AtList'
  <2>1. 1 \in DOMAIN word_lists'
    BY <1>6, EmptySeq, LenProperties
  <2> QED BY <1>2, <1>7, <2>1 DEF AtList
<1>11. NotIgnoredYet'
  BY <1>2, <1>7 DEF NotIgnoredYet
<1>12. IgnoredDone'
  BY <1>2, <1>7, AllTokens DEF IgnoredDone
<1> QED BY <1>6, <1>8, <1>9, <1>10, <1>11, <1>12 DEF LookupInv

\* While tokens are looked up the cursor is at a list, and what it holds of
\* the first token are numbers.
LEMMA WhileLookingUp ==
    ASSUME LookupInv, LookingUp
    PROVE  /\ Head(todo) \in Token
           /\ cursor \in 1 .. Len(word_lists)
           /\ Len(word_lists) \in Nat /\ Len(word_lists) <= MaxLists
           /\ List \in ConfigLines
           /\ CountOf(List, Head(todo)) \in Nat
           /\ MsgsSoFar(Head(todo)) \in Nat
           /\ content[List.file].msgs \in Nat
<1> DEFINE t == Head(todo)
<1>1. TypeOK /\ ListsInit /\ AtList /\ config = <<>> /\ todo # <<>>
  BY DEF LookupInv, LookingUp
<1>2. t \in Token
  BY <1>1, OneTokenLess DEF TypeOK
<1>3. word_lists \in Seq(ConfigLines)
  BY <1>1 DEF TypeOK
<1>4. Len(word_lists) \in Nat /\ DOMAIN word_lists = 1 .. Len(word_lists)
  BY <1>3, LenProperties
<1>5. cursor \in 1 .. Len(word_lists)
  BY <1>1, <1>4 DEF AtList
<1>6. Len(word_lists) <= MaxLists
  BY <1>1, <1>4, MaxListsAssumption DEF ListsInit
<1>7. List \in ConfigLines
  BY <1>3, <1>5, ElementOfSeq DEF List
<1>8. List.file \in File
  BY <1>7, ConfigLinesAssumption
<1>9. content[List.file] \in Content
  BY <1>1, <1>8 DEF TypeOK
<1>10. /\ content[List.file].msgs \in 0 .. MaxMsgs
       /\ \A u \in DOMAIN content[List.file].count :
            content[List.file].count[u] \in 0 .. MaxMsgs
  BY <1>9 DEF Content
<1> HIDE DEF t
<1>11. CountOf(List, t) \in Nat
  <2>1. CASE HasToken(List, t)
    BY <1>10, <2>1, MaxMsgsAssumption DEF CountOf, HasToken
  <2>2. CASE ~HasToken(List, t)
    BY <2>2 DEF CountOf
  <2> QED BY <2>1, <2>2
<1>12. MsgsSoFar(t) \in Nat
  BY <1>1, <1>2 DEF MsgsSoFar, TypeOK
<1>13. content[List.file].msgs \in Nat
  BY <1>10, MaxMsgsAssumption
<1> QED BY <1>2, <1>4, <1>5, <1>6, <1>7, <1>11, <1>12, <1>13 DEF t

\* The lookup of a token ends: it has no counts if it is ignored.
LEMMA TokenDone ==
    ASSUME LookupInv, LookingUp, NextToken,
           UNCHANGED <<config, word_lists, content, retries>>,
           cnts' \in [Token -> Nat], msgs' \in [Token -> Nat],
           \A u \in Token \ {Head(todo)} : cnts'[u] = cnts[u],
           Documented /\ IgnoredBy(Head(todo)) # {} => cnts'[Head(todo)] = 0
    PROVE  LookupInv'
<1> DEFINE t == Head(todo)
<1>1. /\ TypeOK /\ ListsOrdered /\ ListsInit /\ AtList /\ IgnoredDone
      /\ config = <<>> /\ todo # <<>>
  BY DEF LookupInv, LookingUp
<1>2. cursor \in 1 .. Len(word_lists) /\ Len(word_lists) \in Nat
  BY WhileLookingUp
<1>3. todo' = Tail(todo) /\ cursor' = 1 /\ override' = 0
  BY DEF NextToken
<1>4. PICK n \in 1 .. Len(WordSeq) + 1 : todo = SubSeq(WordSeq, n, Len(WordSeq))
  BY <1>1 DEF TypeOK
<1>5. /\ n + 1 \in 1 .. Len(WordSeq) + 1
      /\ Tail(todo) = SubSeq(WordSeq, n + 1, Len(WordSeq))
      /\ ToSet(todo) = {t} \cup ToSet(Tail(todo))
  BY <1>1, <1>4, OneTokenLess
<1>6. TypeOK'
  <2>1. \E m \in 1 .. Len(WordSeq) + 1 : todo' = SubSeq(WordSeq, m, Len(WordSeq))
    BY <1>3, <1>5
  <2>2. cursor' \in 1 .. MaxLists /\ override' \in Int
    BY <1>3, MaxListsAssumption
  <2> QED BY <1>1, <2>1, <2>2 DEF TypeOK
<1>7. ListsOrdered'
  BY <1>1 DEF ListsOrdered
<1>8. ListsInit'
  BY <1>1 DEF ListsInit
<1>9. AtList'
  <2>1. DOMAIN word_lists = 1 .. Len(word_lists)
    BY <1>1, LenProperties DEF TypeOK
  <2>2. 1 \in DOMAIN word_lists
    BY <1>2, <2>1
  <2> QED BY <1>3, <2>2 DEF AtList
<1>10. NotIgnoredYet'
  BY <1>3 DEF NotIgnoredYet
<1>11. IgnoredDone'
  <2> SUFFICES ASSUME Documented', NEW u \in Token \ ToSet(todo)', (IgnoredBy(u) # {})'
               PROVE  cnts'[u] = 0
    BY DEF IgnoredDone
  <2>1. Documented /\ IgnoredBy(u) # {}
    BY DEF Documented, IgnoredBy, HasToken
  <2>2. CASE u = t
    BY <2>1, <2>2
  <2>3. CASE u # t
    <3>1. u \in Token \ ToSet(todo)
      BY <1>3, <1>5, <2>3 DEF ToSet
    <3> QED BY <1>1, <2>1, <2>3, <3>1 DEF IgnoredDone
  <2> QED BY <2>2, <2>3
<1> QED BY <1>6, <1>7, <1>8, <1>9, <1>10, <1>11 DEF LookupInv

\* With precedences that are documented every list is asked: the override of
\* a list is not below that of the list before it.
LEMMA NeverCutShort ==
    ASSUME LookupInv, LookingUp, Documented
    PROVE  override <= List.override
<1>1. /\ ListsOrdered /\ AtList /\ word_lists \in Seq(ConfigLines)
  BY DEF LookupInv, TypeOK
<1>2. cursor \in 1 .. Len(word_lists) /\ Len(word_lists) \in Nat
  BY WhileLookingUp
<1>3. DOMAIN word_lists = 1 .. Len(word_lists)
  BY <1>1, LenProperties
<1>4. CASE cursor = 1
  <2>1. override = 0
    BY <1>1, <1>4 DEF AtList
  <2>2. List.override >= 0
    BY <1>2, <1>3 DEF Documented, List
  <2>3. List.override \in Int
    BY <1>1, <1>2, ElementOfSeq, ConfigLinesAssumption DEF List
  <2> QED BY <2>1, <2>2, <2>3
<1>5. CASE cursor # 1
  <2>1. override = word_lists[cursor - 1].override
    BY <1>1, <1>5 DEF AtList
  <2>2. cursor - 1 \in DOMAIN word_lists /\ cursor \in DOMAIN word_lists /\ cursor - 1 < cursor
    BY <1>2, <1>3, <1>5
  <2> QED BY <1>1, <2>1, <2>2 DEF ListsOrdered, List
<1> QED BY <1>4, <1>5

\* A list is read for the first token, or passed over.
LEMMA ListRead == LookupInv /\ ReadList => LookupInv'
<1> SUFFICES ASSUME LookupInv, ReadList PROVE LookupInv'
  OBVIOUS
<1> DEFINE t == Head(todo)
<1>1. LookingUp /\ UNCHANGED <<config, word_lists, content, retries>>
  BY DEF ReadList
<1>2. /\ TypeOK /\ ListsOrdered /\ ListsInit /\ AtList /\ NotIgnoredYet
      /\ IgnoredDone /\ config = <<>> /\ todo # <<>>
  BY <1>1 DEF LookupInv, LookingUp
<1>3. /\ t \in Token /\ cursor \in 1 .. Len(word_lists)
      /\ Len(word_lists) \in Nat /\ Len(word_lists) <= MaxLists
      /\ List \in ConfigLines
      /\ CountOf(List, t) \in Nat /\ MsgsSoFar(t) \in Nat
      /\ content[List.file].msgs \in Nat
  BY <1>1, WhileLookingUp
<1>4. cnts \in [Token -> Nat] /\ msgs \in [Token -> Nat]
  BY <1>2 DEF TypeOK
<1>5. DOMAIN word_lists = 1 .. Len(word_lists)
  BY <1>2, LenProperties DEF TypeOK
<1> HIDE DEF t
<1>6. CASE FoundIgnored(t)
  <2>1. /\ cnts' = [cnts EXCEPT ![t] = 0] /\ msgs' = [msgs EXCEPT ![t] = MsgsSoFar(t)]
        /\ NextToken
    BY <1>6 DEF FoundIgnored
  <2>2. cnts' \in [Token -> Nat] /\ msgs' \in [Token -> Nat] /\ cnts'[t] = 0
    BY <1>3, <1>4, <2>1
  <2>3. \A u \in Token \ {t} : cnts'[u] = cnts[u]
    BY <1>4, <2>1
  <2> QED BY <1>1, <2>1, <2>2, <2>3, TokenDone DEF t
<1>7. CASE AddCounts(t)
  <2>1. /\ cnts' = [cnts EXCEPT ![t] = @ + CountOf(List, t)]
        /\ msgs' = [msgs EXCEPT ![t] = MsgsSoFar(t) + content[List.file].msgs]
        /\ List.type = "regular" \/ ~HasToken(List, t)
    BY <1>7 DEF AddCounts
  <2>2. cnts[t] + CountOf(List, t) \in Nat /\ MsgsSoFar(t) + content[List.file].msgs \in Nat
    BY <1>3, <1>4, SMTT(40)
  <2>3. cnts' \in [Token -> Nat] /\ msgs' \in [Token -> Nat]
    BY <1>4, <2>1, <2>2
  <2>4. \A u \in Token \ {t} : cnts'[u] = cnts[u]
    BY <1>4, <2>1
  <2>5. cursor \notin IgnoredBy(t)
    BY <2>1 DEF IgnoredBy, List
  <2>6. \A i \in 1 .. cursor - 1 : i \notin IgnoredBy(t)
    BY <1>2 DEF NotIgnoredYet, t
  <2>7. CASE cursor < Len(word_lists)
    <3>1. cursor' = cursor + 1 /\ override' = List.override /\ todo' = todo
      BY <1>7, <2>7 DEF AddCounts
    <3>2. cursor + 1 \in 1 .. Len(word_lists) /\ cursor + 1 \in 1 .. MaxLists
      BY <1>3, <2>7, MaxListsAssumption
    <3>3. List.override \in Int
      BY <1>3, ConfigLinesAssumption
    <3>4. TypeOK'
      BY <1>1, <1>2, <2>3, <3>1, <3>2, <3>3 DEF TypeOK
    <3>5. ListsOrdered' /\ ListsInit'
      BY <1>1, <1>2 DEF ListsOrdered, ListsInit
    <3>6. AtList'
      <4>1. cursor' # 1 /\ cursor' - 1 = cursor
        BY <1>3, <3>1
      <4>2. cursor' \in DOMAIN word_lists'
        BY <1>1, <1>5, <3>1, <3>2
      <4>3. override' = word_lists'[cursor' - 1].override
        BY <1>1, <3>1, <4>1 DEF List
      <4> QED BY <4>1, <4>2, <4>3 DEF AtList
    <3>7. NotIgnoredYet'
      <4> SUFFICES ASSUME NEW i \in 1 .. cursor' - 1 PROVE (i \notin IgnoredBy(Head(todo)))'
        BY DEF NotIgnoredYet
      <4>1. i \in 1 .. cursor - 1 \/ i = cursor
        BY <1>3, <3>1
      <4>2. i \notin IgnoredBy(t)
        BY <2>5, <2>6, <4>1
      <4> QED BY <1>1, <3>1, <4>2 DEF IgnoredBy, HasToken, t
    <3>8. IgnoredDone'
      <4> SUFFICES ASSUME Documented', NEW u \in Token \ ToSet(todo)', (IgnoredBy(u) # {})'
                   PROVE  cnts'[u] = 0
        BY DEF IgnoredDone
      <4>1. Documented /\ IgnoredBy(u) # {}
        BY <1>1 DEF Documented, IgnoredBy, HasToken
      <4>2. u \in Token \ ToSet(todo)
        BY <3>1 DEF ToSet
      <4>3. cnts[u] = 0
        BY <1>2, <4>1, <4>2 DEF IgnoredDone
      <4>4. t \in ToSet(todo)
        <5>1. PICK n \in 1 .. Len(WordSeq) + 1 : todo = SubSeq(WordSeq, n, Len(WordSeq))
          BY <1>2 DEF TypeOK
        <5>2. ToSet(todo) = {t} \cup ToSet(Tail(todo))
          BY <1>2, <5>1, OneTokenLess DEF t
        <5> QED BY <5>2
      <4> QED BY <2>4, <4>2, <4>3, <4>4
    <3> QED BY <3>4, <3>5, <3>6, <3>7, <3>8 DEF LookupInv
  <2>8. CASE ~(cursor < Len(word_lists))
    <3>1. NextToken
      BY <1>7, <2>8 DEF AddCounts
    <3>2. IgnoredBy(t) = {}
      <4>1. \A i \in 1 .. Len(word_lists) : i \in 1 .. cursor - 1 \/ i = cursor
        BY <1>3, <2>8
      <4>2. IgnoredBy(t) \subseteq 1 .. Len(word_lists)
        BY <1>5 DEF IgnoredBy
      <4> QED BY <2>5, <2>6, <4>1, <4>2
    <3> QED BY <1>1, <2>3, <2>4, <3>1, <3>2, TokenDone DEF t
  <2> QED BY <2>7, <2>8
<1>8. CASE /\ override > List.override
           /\ msgs' = [msgs EXCEPT ![t] = MsgsSoFar(t)]
           /\ UNCHANGED cnts /\ NextToken
  <2>1. ~Documented
    <3>1. override \in Int /\ List.override \in Int
      BY <1>2, <1>3, ConfigLinesAssumption DEF TypeOK
    <3>2. ~(override <= List.override)
      BY <1>8, <3>1
    <3> QED BY <1>1, <3>2, NeverCutShort
  <2>2. cnts' \in [Token -> Nat] /\ msgs' \in [Token -> Nat]
    BY <1>3, <1>4, <1>8
  <2> QED BY <1>1, <1>8, <2>1, <2>2, TokenDone
<1> QED BY <1>6, <1>7, <1>8 DEF ReadList, t

\* An abort starts the lookup of all tokens again, on what the list holds now.
LEMMA StartedAgain == LookupInv /\ Aborted => LookupInv'
<1> SUFFICES ASSUME LookupInv, Aborted PROVE LookupInv'
  OBVIOUS
<1>1. /\ TypeOK /\ ListsOrdered /\ ListsInit /\ AtList
  BY DEF LookupInv
<1>2. /\ LookingUp /\ config = <<>>
      /\ UNCHANGED <<config, word_lists, cnts, msgs>>
      /\ retries < MaxRetries /\ retries' = retries + 1
  BY DEF Aborted, LookingUp
<1>3. PICK c \in Content : Restart(c)
  BY DEF Aborted
<1>4. /\ todo' = WordSeq /\ cursor' = 1 /\ override' = 0
      /\ content' = [content EXCEPT ![List.file] = c]
  BY <1>3 DEF Restart
<1>5. TypeOK'
  <2>1. content' \in [File -> Content]
    BY <1>1, <1>4 DEF TypeOK
  <2>2. retries' \in 0 .. MaxRetries
    BY <1>1, <1>2, MaxRetriesAssumption DEF TypeOK
  <2>3. \E n \in 1 .. Len(WordSeq) + 1 : todo' = SubSeq(WordSeq, n, Len(WordSeq))
    BY <1>4, AllTokens
  <2>4. cursor' \in 1 .. MaxLists /\ override' \in Int
    BY <1>4, MaxListsAssumption
  <2> QED BY <1>1, <1>2, <2>1, <2>2, <2>3, <2>4 DEF TypeOK
<1>6. ListsOrdered' /\ ListsInit'
  BY <1>1, <1>2 DEF ListsOrdered, ListsInit
<1>7. AtList'
  <2>1. cursor \in 1 .. Len(word_lists) /\ Len(word_lists) \in Nat
    BY <1>2, WhileLookingUp
  <2>2. DOMAIN word_lists = 1 .. Len(word_lists)
    BY <1>1, LenProperties DEF TypeOK
  <2>3. 1 \in DOMAIN word_lists
    BY <2>1, <2>2
  <2> QED BY <1>2, <1>4, <2>3 DEF AtList
<1>8. NotIgnoredYet'
  BY <1>4 DEF NotIgnoredYet
<1>9. IgnoredDone'
  BY <1>4, AllTokens DEF IgnoredDone
<1> QED BY <1>5, <1>6, <1>7, <1>8, <1>9 DEF LookupInv

-----------------------------------------------------------------------------
(* The theorems *)

\* LookupInv holds in every state.
THEOREM LookupInvariant == Spec => []LookupInv
<1>1. LookupInv /\ [Next]_vars => LookupInv'
  <2> SUFFICES ASSUME LookupInv, [Next]_vars PROVE LookupInv'
    OBVIOUS
  <2>1. CASE InitWordlist
    BY <2>1, LineRead
  <2>2. CASE ReadList
    BY <2>2, ListRead
  <2>3. CASE Aborted
    BY <2>3, StartedAgain
  <2>4. CASE UNCHANGED vars
    BY <2>4 DEF vars, LookupInv, TypeOK, ListsOrdered, ListsInit, AtList, NotIgnoredYet,
                IgnoredDone, Documented, IgnoredBy, HasToken
  <2> QED BY <2>1, <2>2, <2>3, <2>4 DEF Next
<1> QED BY <1>1, LookupStarts, PTL DEF Spec

\* init_wordlist keeps the lists in the order of their precedence, without
\* duplicates, whatever the lines of the configuration are.
THEOREM OrderIsKept == Spec => []ListsOrdered
BY LookupInvariant, PTL DEF LookupInv

\* lookup leaves an ignored token no counts, wherever the ignore list is among
\* the lists, and whatever was aborted on the way.
THEOREM IgnoredHaveNoCounts == Spec => []IgnoredCountsNothing
<1>1. LookupInv => IgnoredCountsNothing
  <2> SUFFICES ASSUME LookupInv, Done, Documented, NEW t \in Token, IgnoredBy(t) # {}
               PROVE  cnts[t] = 0
    BY DEF IgnoredCountsNothing
  <2>1. t \in Token \ ToSet(todo)
    BY DEF Done, ToSet
  <2> QED BY <2>1 DEF LookupInv, IgnoredDone
<1> QED BY <1>1, LookupInvariant, PTL

-----------------------------------------------------------------------------
\* What the lists add, by their place, to the message counts and to the counts
\* of a token.
MsgsOf == [i \in DOMAIN word_lists |-> content[word_lists[i].file].msgs]
CountsOf(t) == [i \in DOMAIN word_lists |-> CountOf(word_lists[i], t)]

\* The token that is looked up has the message counts of the lists asked so far.
MsgsSoFarSummed ==
    todo # <<>> => MsgsSoFar(Head(todo)) = Total(MsgsOf, 1 .. cursor - 1)

\* A token that was looked up has those of the lists that are read for it.
MsgsSummed ==
    Documented =>
        \A t \in Token \ ToSet(todo) : msgs[t] = Total(MsgsOf, ReadFor(t))

\* Before an abort it has the counts of the lists asked so far, and a token that
\* is still to be looked up has none.
CountsSoFarSummed ==
    retries = 0 =>
        \A t \in ToSet(todo) :
            cnts[t] = IF t = Head(todo) THEN Total(CountsOf(t), 1 .. cursor - 1) ELSE 0

\* A token that was looked up has those of all lists, if none ignores it.
CountsOfAllSummed ==
    retries = 0 /\ Documented =>
        \A t \in Token \ ToSet(todo) :
            IgnoredBy(t) = {} => cnts[t] = Total(CountsOf(t), DOMAIN word_lists)

SumInv == MsgsSoFarSummed /\ MsgsSummed /\ CountsSoFarSummed /\ CountsOfAllSummed

\* What is added are numbers.
LEMMA SummedTypes ==
    ASSUME LookupInv
    PROVE  /\ IsFiniteSet(DOMAIN word_lists) /\ Len(word_lists) \in Nat
           /\ DOMAIN word_lists = 1 .. Len(word_lists)
           /\ MsgsOf \in [DOMAIN word_lists -> Nat]
           /\ \A t : CountsOf(t) \in [DOMAIN word_lists -> Nat]
<1>1. word_lists \in Seq(ConfigLines) /\ content \in [File -> Content]
  BY DEF LookupInv, TypeOK
<1>2. Len(word_lists) \in Nat /\ DOMAIN word_lists = 1 .. Len(word_lists)
  BY <1>1, LenProperties
<1>3. IsFiniteSet(1 .. Len(word_lists))
  BY <1>2, FS_Interval
<1>4. ASSUME NEW i \in DOMAIN word_lists
      PROVE  /\ content[word_lists[i].file].msgs \in Nat
             /\ \A t : CountOf(word_lists[i], t) \in Nat
  <2>1. word_lists[i] \in ConfigLines
    BY <1>1, <1>2, ElementOfSeq
  <2>2. content[word_lists[i].file] \in Content
    BY <1>1, <2>1, ConfigLinesAssumption
  <2>3. /\ content[word_lists[i].file].msgs \in 0 .. MaxMsgs
        /\ \A u \in DOMAIN content[word_lists[i].file].count :
              content[word_lists[i].file].count[u] \in 0 .. MaxMsgs
    BY <2>2 DEF Content
  <2> QED BY <2>3, MaxMsgsAssumption DEF CountOf, HasToken
<1> QED BY <1>2, <1>3, <1>4 DEF MsgsOf, CountsOf

\* No list has been asked yet, and one more.
LEMMA FirstLists ==
    ASSUME LookupInv, NEW g \in [DOMAIN word_lists -> Nat]
    PROVE  /\ Total(g, 1 .. 1 - 1) = 0
           /\ \A n \in 1 .. Len(word_lists) :
                /\ Total(g, 1 .. n - 1) \in Nat
                /\ Total(g, 1 .. n) = Total(g, 1 .. n - 1) + g[n]
<1>1. IsFiniteSet(DOMAIN word_lists) /\ Len(word_lists) \in Nat
      /\ DOMAIN word_lists = 1 .. Len(word_lists)
  BY SummedTypes
<1>2. 1 .. 1 - 1 = {}
  OBVIOUS
<1>3. Total(g, {}) = 0
  BY <1>1, TotalOfNone
<1>4. ASSUME NEW n \in 1 .. Len(word_lists)
      PROVE  /\ Total(g, 1 .. n - 1) \in Nat
             /\ Total(g, 1 .. n) = Total(g, 1 .. n - 1) + g[n]
  <2> DEFINE S == 1 .. n - 1
  <2>1. S \in SUBSET (DOMAIN word_lists) /\ n \in (DOMAIN word_lists) \ S
    BY <1>1
  <2>2. S \cup {n} = 1 .. n
    BY <1>1
  <2> HIDE DEF S
  <2>3. Total(g, S) \in Nat /\ Total(g, S \cup {n}) = Total(g, S) + g[n]
    BY <1>1, <2>1, TotalOfMore
  <2> QED BY <2>2, <2>3 DEF S
<1> QED BY <1>2, <1>3, <1>4

\* Before the first list nothing has been added.
LEMMA NoneSummed ==
    LookupInv => \A t : Total(CountsOf(t), 1 .. 1 - 1) = 0 /\ Total(MsgsOf, 1 .. 1 - 1) = 0
BY SummedTypes, FirstLists

\* A token is looked up once.
LEMMA OnlyOnce ==
    ASSUME LookupInv, LookingUp
    PROVE  ToSet(Tail(todo)) = ToSet(todo) \ {Head(todo)} /\ Head(todo) \in ToSet(todo)
           /\ ToSet(todo) \subseteq Token
<1> DEFINE L == Len(WordSeq)
<1>1. PICK n \in 1 .. L + 1 : todo = SubSeq(WordSeq, n, L)
  BY DEF LookupInv, TypeOK
<1>2. todo # <<>> /\ WordSeq \in Seq(Token) /\ L \in Nat
  BY WordSeqAssumption DEF LookingUp
<1>3. n <= L /\ n \in 1 .. L /\ L \in n .. L
  <2>1. n <= L
    BY <1>1, <1>2, SubSeqEmpty
  <2> QED BY <1>2, <2>1
<1>4. /\ Head(todo) = WordSeq[n] /\ Tail(todo) = SubSeq(WordSeq, n + 1, L)
      /\ ToSet(todo) = {Head(todo)} \cup ToSet(Tail(todo))
  BY <1>1, <1>2, <1>3, HeadTailOfSubSeq, OneTokenLess
<1>5. \A i \in n + 1 .. L : WordSeq[i] # WordSeq[n]
  <2>1. \A i \in 1 .. L : i \in DOMAIN WordSeq
    BY <1>2, LenProperties
  <2> QED BY <1>3, <2>1, WordSeqAssumption
<1>6. Head(todo) \notin ToSet(Tail(todo))
  <2> SUFFICES ASSUME NEW i \in DOMAIN Tail(todo), Tail(todo)[i] = WordSeq[n]
               PROVE  FALSE
    BY <1>4 DEF ToSet
  <2> DEFINE m == n + 1
  <2>1. m \in Int /\ L \in Int /\ \A j \in m .. L : WordSeq[j] \in Token
    BY <1>2, <1>3, ElementOfSeq
  <2>a. Tail(todo) = SubSeq(WordSeq, m, L)
    BY <1>4
  <2> HIDE DEF m, L
  <2>b. /\ SubSeq(WordSeq, m, L) \in Seq(Token)
        /\ Len(SubSeq(WordSeq, m, L)) = IF m <= L THEN L - m + 1 ELSE 0
        /\ \A j \in 1 .. L - m + 1 : SubSeq(WordSeq, m, L)[j] = WordSeq[m + j - 1]
    BY <2>1, SubSeqProperties
  <2>c. /\ Tail(todo) \in Seq(Token)
        /\ Len(Tail(todo)) = IF m <= L THEN L - m + 1 ELSE 0
        /\ \A j \in 1 .. L - m + 1 : Tail(todo)[j] = WordSeq[m + j - 1]
    BY <2>a, <2>b
  <2>2. /\ Tail(todo) \in Seq(Token)
        /\ Len(Tail(todo)) = IF n + 1 <= L THEN L - (n + 1) + 1 ELSE 0
        /\ \A j \in 1 .. L - (n + 1) + 1 : Tail(todo)[j] = WordSeq[(n + 1) + j - 1]
    BY <2>c DEF m
  <2>3. i \in 1 .. Len(Tail(todo))
    BY <2>2, LenProperties
  <2>4. (n + 1) + i - 1 \in n + 1 .. L /\ Tail(todo)[i] = WordSeq[(n + 1) + i - 1]
    BY <1>2, <1>3, <2>2, <2>3
  <2> QED BY <1>5, <2>4
<1>7. ToSet(todo) \subseteq Token
  <2>1. \A j \in n .. L : WordSeq[j] \in Token
    BY <1>2, <1>3, ElementOfSeq
  <2>2. todo \in Seq(Token)
    BY <1>1, <1>2, <1>3, <2>1, SubSeqProperties
  <2>3. \A i \in DOMAIN todo : todo[i] \in Token
    BY <2>2, ElementOfSeq, LenProperties
  <2> QED BY <2>3 DEF ToSet
<1> QED BY <1>4, <1>6, <1>7

-----------------------------------------------------------------------------
\* score_init and the start of lookup_words: no token has a count yet.
LEMMA SumsStart == Init => SumInv
<1> SUFFICES ASSUME Init PROVE SumInv
  OBVIOUS
<1>1. /\ word_lists = <<>> /\ todo = WordSeq /\ cursor = 1
      /\ cnts = [t \in Token |-> 0] /\ msgs = [t \in Token |-> 0] /\ LookupInv
  BY LookupStarts DEF Init
<1>2. \A t : Total(CountsOf(t), 1 .. cursor - 1) = 0 /\ Total(MsgsOf, 1 .. cursor - 1) = 0
  BY <1>1, SummedTypes, FirstLists
<1>3. \A t \in ToSet(todo) : cnts[t] = 0
  BY <1>1 DEF Token
<1>4. Token \ ToSet(todo) = {}
  BY <1>1, AllTokens
<1>5. MsgsSoFarSummed
  BY <1>1, <1>2 DEF MsgsSoFarSummed, MsgsSoFar
<1>6. CountsSoFarSummed
  BY <1>2, <1>3 DEF CountsSoFarSummed
<1> QED BY <1>4, <1>5, <1>6 DEF SumInv, MsgsSummed, CountsOfAllSummed

\* init_wordlist only adds lists before the first token is looked up.
LEMMA LineReadSums == LookupInv /\ SumInv /\ InitWordlist => SumInv'
<1> SUFFICES ASSUME LookupInv, SumInv, InitWordlist PROVE SumInv'
  OBVIOUS
<1>1. /\ LookupInv' /\ config # <<>> /\ UNCHANGED <<content, todo, cursor, override, cnts, msgs, retries>>
  BY LineRead DEF InitWordlist
<1>2. todo = WordSeq /\ cursor = 1
  BY <1>1 DEF LookupInv, ListsInit
<1>3. \A t : Total(CountsOf(t), 1 .. cursor - 1) = 0
  BY <1>2, SummedTypes, FirstLists
<1>4. (\A t : Total(CountsOf(t), 1 .. cursor - 1) = 0 /\ Total(MsgsOf, 1 .. cursor - 1) = 0)'
  <2>1. (\A t : Total(CountsOf(t), 1 .. 1 - 1) = 0 /\ Total(MsgsOf, 1 .. 1 - 1) = 0)'
    BY <1>1, NoneSummed, PTL
  <2> QED BY <1>1, <1>2, <2>1
<1>5. Token \ ToSet(todo') = {}
  BY <1>1, <1>2, AllTokens
<1>6. MsgsSoFarSummed'
  BY <1>1, <1>2, <1>4 DEF MsgsSoFarSummed, MsgsSoFar
<1>7. CountsSoFarSummed'
  <2>1. retries = 0 => \A t \in ToSet(todo) : cnts[t] = 0
    BY <1>3 DEF SumInv, CountsSoFarSummed
  <2> QED BY <1>1, <1>4, <2>1 DEF CountsSoFarSummed
<1> QED BY <1>5, <1>6, <1>7 DEF SumInv, MsgsSummed, CountsOfAllSummed

\* The same lists hold the same.
LEMMA SameLists ==
    ASSUME UNCHANGED <<word_lists, content>>
    PROVE  /\ MsgsOf' = MsgsOf /\ Documented' = Documented
           /\ \A t : CountsOf(t)' = CountsOf(t) /\ IgnoredBy(t)' = IgnoredBy(t)
                     /\ ReadFor(t)' = ReadFor(t)
BY DEF MsgsOf, Documented, CountsOf, CountOf, IgnoredBy, HasToken, ReadFor

\* The lookup of a token ends with the sums over the lists.
LEMMA TokenSummed ==
    ASSUME LookupInv, SumInv, LookingUp, NextToken,
           UNCHANGED <<config, word_lists, content, retries>>,
           \A u \in Token \ {Head(todo)} : cnts'[u] = cnts[u] /\ msgs'[u] = msgs[u],
           Documented => msgs'[Head(todo)] = Total(MsgsOf, ReadFor(Head(todo))),
           retries = 0 /\ Documented /\ IgnoredBy(Head(todo)) = {} =>
               cnts'[Head(todo)] = Total(CountsOf(Head(todo)), DOMAIN word_lists)
    PROVE  SumInv'
<1> DEFINE t == Head(todo)
<1>1. todo' = Tail(todo) /\ cursor' = 1
  BY DEF NextToken
<1>2. ToSet(todo') = ToSet(todo) \ {t} /\ t \in ToSet(todo) /\ ToSet(todo) \subseteq Token
  BY <1>1, OnlyOnce
<1>3. \A u : Total(CountsOf(u), 1 .. cursor' - 1) = 0 /\ Total(MsgsOf, 1 .. cursor' - 1) = 0
  BY <1>1, SummedTypes, FirstLists
<1>4. \A u \in Token \ ToSet(todo') : u = t \/ u \in Token \ ToSet(todo)
  BY <1>2
<1>5. MsgsSoFarSummed'
  BY <1>1, <1>3, SameLists DEF MsgsSoFarSummed, MsgsSoFar
<1>6. MsgsSummed'
  BY <1>2, <1>4, SameLists DEF SumInv, MsgsSummed
<1>7. CountsSoFarSummed'
  <2>1. retries = 0 => \A u \in ToSet(todo') : cnts'[u] = 0
    BY <1>2 DEF SumInv, CountsSoFarSummed
  <2> QED BY <1>3, <2>1, SameLists DEF CountsSoFarSummed
<1>8. CountsOfAllSummed'
  BY <1>2, <1>4, SameLists DEF SumInv, CountsOfAllSummed
<1> QED BY <1>5, <1>6, <1>7, <1>8 DEF SumInv

\* A list that is read adds its counts to those of the lists before it.
LEMMA ListReadSums == LookupInv /\ SumInv /\ ReadList => SumInv'
<1> SUFFICES ASSUME LookupInv, SumInv, ReadList PROVE SumInv'
  OBVIOUS
<1> DEFINE t == Head(todo)
           W == DOMAIN word_lists
<1>1. LookingUp /\ UNCHANGED <<config, word_lists, content, retries>>
  BY DEF ReadList
<1>2. /\ t \in Token /\ cursor \in 1 .. Len(word_lists) /\ Len(word_lists) \in Nat
      /\ W = 1 .. Len(word_lists) /\ cnts \in [Token -> Nat] /\ msgs \in [Token -> Nat]
      /\ todo # <<>> /\ t \in ToSet(todo)
  BY <1>1, WhileLookingUp, SummedTypes, OnlyOnce DEF LookupInv, TypeOK, LookingUp
<1>3. /\ MsgsSoFar(t) = Total(MsgsOf, 1 .. cursor - 1)
      /\ retries = 0 => cnts[t] = Total(CountsOf(t), 1 .. cursor - 1)
  BY <1>2 DEF SumInv, MsgsSoFarSummed, CountsSoFarSummed
<1>4. /\ MsgsOf[cursor] = content[List.file].msgs /\ CountsOf(t)[cursor] = CountOf(List, t)
  BY <1>2 DEF MsgsOf, CountsOf, List
<1>5. /\ Total(MsgsOf, 1 .. cursor) = Total(MsgsOf, 1 .. cursor - 1) + MsgsOf[cursor]
      /\ Total(CountsOf(t), 1 .. cursor) = Total(CountsOf(t), 1 .. cursor - 1) + CountsOf(t)[cursor]
  BY <1>2, SummedTypes, FirstLists
<1>6. \A i \in 1 .. cursor - 1 : i \notin IgnoredBy(t)
  BY <1>2 DEF LookupInv, NotIgnoredYet
<1>i. IgnoredBy(t) \subseteq W
  BY DEF IgnoredBy
<1> HIDE DEF t, W
<1>7. CASE FoundIgnored(t)
  <2>1. /\ cnts' = [cnts EXCEPT ![t] = 0] /\ msgs' = [msgs EXCEPT ![t] = MsgsSoFar(t)]
        /\ NextToken /\ List.type = "ignore" /\ HasToken(List, t)
    BY <1>7 DEF FoundIgnored
  <2>2. cursor \in IgnoredBy(t)
    BY <1>2, <2>1 DEF IgnoredBy, List, W
  <2>3. ReadFor(t) = 1 .. cursor - 1
    <3>1. \A j \in IgnoredBy(t) : j >= cursor /\ j \in 1 .. Len(word_lists)
      BY <1>2, <1>6, <1>i
    <3> QED BY <1>2, <2>2, <3>1 DEF ReadFor, W
  <2>4. msgs'[t] = Total(MsgsOf, ReadFor(t))
    BY <1>2, <1>3, <2>1, <2>3
  <2>5. \A u \in Token \ {t} : cnts'[u] = cnts[u] /\ msgs'[u] = msgs[u]
    BY <1>2, <2>1
  <2> QED BY <1>1, <2>1, <2>2, <2>4, <2>5, TokenSummed DEF t
<1>8. CASE AddCounts(t)
  <2>1. /\ cnts' = [cnts EXCEPT ![t] = @ + CountOf(List, t)]
        /\ msgs' = [msgs EXCEPT ![t] = MsgsSoFar(t) + content[List.file].msgs]
        /\ List.type = "regular" \/ ~HasToken(List, t)
    BY <1>8 DEF AddCounts
  <2>2. /\ msgs'[t] = Total(MsgsOf, 1 .. cursor)
        /\ retries = 0 => cnts'[t] = Total(CountsOf(t), 1 .. cursor)
    BY <1>2, <1>3, <1>4, <1>5, <2>1
  <2>3. \A u \in Token \ {t} : cnts'[u] = cnts[u] /\ msgs'[u] = msgs[u]
    BY <1>2, <2>1
  <2>4. CASE cursor < Len(word_lists)
    <3>1. cursor' = cursor + 1 /\ todo' = todo /\ cursor' # 1 /\ cursor' - 1 = cursor
      BY <1>2, <1>8, <2>4 DEF AddCounts
    <3>2. MsgsSoFarSummed'
      BY <1>1, <2>2, <3>1, SameLists DEF MsgsSoFarSummed, MsgsSoFar, t
    <3>3. MsgsSummed'
      <4>1. \A u \in Token \ ToSet(todo) : msgs'[u] = msgs[u]
        BY <1>2, <2>3
      <4> QED BY <1>1, <3>1, <4>1, SameLists DEF SumInv, MsgsSummed
    <3>4. CountsSoFarSummed'
      <4> SUFFICES ASSUME retries = 0, NEW u \in ToSet(todo)
                   PROVE  cnts'[u] = IF u = t THEN Total(CountsOf(u), 1 .. cursor) ELSE 0
        BY <1>1, <3>1, SameLists DEF CountsSoFarSummed, t
      <4>1. CASE u = t
        BY <2>2, <4>1
      <4>2. CASE u # t
        <5>1. u \in Token
          BY <1>1, OnlyOnce
        <5> QED BY <2>3, <4>2, <5>1 DEF SumInv, CountsSoFarSummed, t
      <4> QED BY <4>1, <4>2
    <3>5. CountsOfAllSummed'
      <4>1. \A u \in Token \ ToSet(todo) : cnts'[u] = cnts[u]
        BY <1>2, <2>3
      <4> QED BY <1>1, <3>1, <4>1, SameLists DEF SumInv, CountsOfAllSummed
    <3> QED BY <3>2, <3>3, <3>4, <3>5 DEF SumInv
  <2>5. CASE ~(cursor < Len(word_lists))
    <3>1. NextToken
      BY <1>8, <2>5 DEF AddCounts
    <3>2. cursor = Len(word_lists) /\ 1 .. cursor = W
      BY <1>2, <2>5
    <3>3. IgnoredBy(t) = {}
      <4>1. cursor \notin IgnoredBy(t)
        BY <2>1 DEF IgnoredBy, List
      <4> QED BY <1>2, <1>6, <1>i, <3>2, <4>1
    <3>4. ReadFor(t) = W
      BY <3>3 DEF ReadFor, W
    <3> QED BY <1>1, <2>2, <2>3, <3>1, <3>2, <3>4, TokenSummed DEF t, W
  <2> QED BY <2>4, <2>5
<1>9. CASE /\ override > List.override
           /\ msgs' = [msgs EXCEPT ![t] = MsgsSoFar(t)]
           /\ UNCHANGED cnts /\ NextToken
  <2>1. ~Documented
    <3>1. override \in Int /\ List.override \in Int
      BY <1>1, WhileLookingUp, ConfigLinesAssumption DEF LookupInv, TypeOK
    <3>2. ~(override <= List.override)
      BY <1>9, <3>1
    <3> QED BY <1>1, <3>2, NeverCutShort
  <2>2. \A u \in Token \ {t} : cnts'[u] = cnts[u] /\ msgs'[u] = msgs[u]
    BY <1>2, <1>9
  <2> QED BY <1>1, <1>9, <2>1, <2>2, TokenSummed DEF t
<1> QED BY <1>7, <1>8, <1>9 DEF ReadList, t

\* lookup_words starts again after an abort: the counts of the tokens looked up so
\* far stay in the table.
LEMMA StartedAgainSums == LookupInv /\ SumInv /\ Aborted => SumInv'
<1> SUFFICES ASSUME LookupInv, SumInv, Aborted PROVE SumInv'
  OBVIOUS
<1>1. LookupInv'
  BY StartedAgain
<1>2. todo' = WordSeq /\ cursor' = 1 /\ retries' = retries + 1 /\ retries \in Nat
  BY DEF Aborted, Restart, LookupInv, TypeOK
<1>3. (\A t : Total(CountsOf(t), 1 .. 1 - 1) = 0 /\ Total(MsgsOf, 1 .. 1 - 1) = 0)'
  BY <1>1, NoneSummed, PTL
<1>4. Token \ ToSet(todo') = {}
  BY <1>2, AllTokens
<1>5. MsgsSoFarSummed'
  BY <1>2, <1>3 DEF MsgsSoFarSummed, MsgsSoFar
<1>6. retries' # 0
  BY <1>2
<1> QED BY <1>4, <1>5, <1>6 DEF SumInv, MsgsSummed, CountsSoFarSummed, CountsOfAllSummed

\* Every step keeps the sums.
LEMMA SumsInvariance == Spec => []SumInv
<1>1. LookupInv /\ SumInv /\ [Next]_vars => SumInv'
  <2> SUFFICES ASSUME LookupInv, SumInv, UNCHANGED vars PROVE SumInv'
    BY LineReadSums, ListReadSums, StartedAgainSums DEF Next
  <2> USE DEF vars
  <2>1. MsgsSoFarSummed' /\ MsgsSummed'
    BY SameLists DEF SumInv, MsgsSoFarSummed, MsgsSummed, MsgsSoFar
  <2>2. CountsSoFarSummed' /\ CountsOfAllSummed'
    BY SameLists DEF SumInv, CountsSoFarSummed, CountsOfAllSummed
  <2> QED BY <2>1, <2>2 DEF SumInv
<1> QED BY <1>1, SumsStart, LookupInvariant, PTL DEF Spec

\* The sums of Lookup are those of SumProofs: MapThenSumSet chooses the function
\* that SumProofs shows to be the only one.
LEMMA SumsAreTotals ==
    ASSUME LookupInv, NEW S \in SUBSET (DOMAIN word_lists)
    PROVE  /\ MapThenSumSet(LAMBDA i : content[word_lists[i].file].msgs, S) = Total(MsgsOf, S)
           /\ \A t : MapThenSumSet(LAMBDA i : CountOf(word_lists[i], t), S)
                        = Total(CountsOf(t), S)
<1> DEFINE W == DOMAIN word_lists
           MsgsSum(f) ==
               f = [s \in SUBSET S |->
                      IF s = {} THEN 0
                      ELSE content[word_lists[AnyOf(s)].file].msgs + f[s \ {AnyOf(s)}]]
           CountSum(t, f) ==
               f = [s \in SUBSET S |->
                      IF s = {} THEN 0
                      ELSE CountOf(word_lists[AnyOf(s)], t) + f[s \ {AnyOf(s)}]]
<1>1. \A s \in SUBSET S : s # {} => AnyOf(s) \in W
  BY DEF AnyOf
<1>2. \A f : IsSum(MsgsOf, S, f) <=> MsgsSum(f)
  BY <1>1 DEF IsSum, MsgsOf
<1>3. \A t, f : IsSum(CountsOf(t), S, f) <=> CountSum(t, f)
  BY <1>1 DEF IsSum, CountsOf
<1>4. IsFiniteSet(S) /\ S \subseteq W /\ IsFiniteSet(W)
  BY SummedTypes, FS_Subset
<1>5. ASSUME NEW g \in [W -> Nat]
      PROVE  /\ \E f : IsSum(g, S, f)
             /\ \A f : IsSum(g, S, f) => f[S] = Total(g, S)
  <2>1. PICK h \in [SUBSET W -> Nat] : IsSum(g, W, h) /\ Total(g, S) = h[S]
    BY <1>4, TotalIsSum
  <2>2. \A f : IsSum(g, S, f) => f[S] = h[S]
    BY <1>4, <2>1, SumsAgree
  <2>3. \E f : IsSum(g, S, f)
    BY <1>4, SumRestricts
  <2> QED BY <2>1, <2>2, <2>3
<1>6. MapThenSumSet(LAMBDA i : content[word_lists[i].file].msgs, S) = Total(MsgsOf, S)
  <2> DEFINE it == CHOOSE f : MsgsSum(f)
  <2>1. MsgsSum(it)
    BY <1>2, <1>5, SummedTypes
  <2>2. MapThenSumSet(LAMBDA i : content[word_lists[i].file].msgs, S) = it[S]
    BY DEF MapThenSumSet, MapThenFoldSet, AnyOf
  <2> QED BY <1>2, <1>5, <2>1, <2>2, SummedTypes
<1>7. ASSUME NEW t
      PROVE  MapThenSumSet(LAMBDA i : CountOf(word_lists[i], t), S) = Total(CountsOf(t), S)
  <2> DEFINE it == CHOOSE f : CountSum(t, f)
  <2>0. \E f : IsSum(CountsOf(t), S, f)
    BY <1>5, SummedTypes
  <2>1. CountSum(t, it)
    <3>1. PICK f : IsSum(CountsOf(t), S, f)
      BY <2>0
    <3>2. CountSum(t, f)
      BY <1>1, <3>1 DEF IsSum, CountsOf
    <3> HIDE DEF CountSum
    <3>3. \E h : CountSum(t, h)
      BY <3>2
    <3> QED BY <3>3
  <2>2. MapThenSumSet(LAMBDA i : CountOf(word_lists[i], t), S) = it[S]
    BY DEF MapThenSumSet, MapThenFoldSet, AnyOf
  <2> QED BY <1>3, <1>5, <2>1, <2>2, SummedTypes
<1> QED BY <1>6, <1>7

\* lookup (score.c): a token that was looked up without an abort and that no list
\* ignores has the sum of the counts of all lists, whatever their order, and the
\* message counts are those of the lists that were read for it.
THEOREM CountsAreSummed == Spec => []CountsSummed
<1>1. LookupInv /\ SumInv => CountsSummed
  <2> SUFFICES ASSUME LookupInv, SumInv, Done, Documented, NEW t \in Token
               PROVE  /\ retries = 0 /\ IgnoredBy(t) = {} => SumOfLists(t)
                      /\ msgs[t] = MapThenSumSet(LAMBDA i : content[word_lists[i].file].msgs,
                                                 ReadFor(t))
    BY DEF CountsSummed, CountsAreSums, MessagesAreSums
  <2>1. t \in Token \ ToSet(todo)
    BY DEF Done, ToSet
  <2>2. ReadFor(t) \in SUBSET (DOMAIN word_lists)
    BY DEF ReadFor
  <2>3. msgs[t] = Total(MsgsOf, ReadFor(t))
    BY <2>1 DEF SumInv, MsgsSummed
  <2>4. retries = 0 /\ IgnoredBy(t) = {} => cnts[t] = Total(CountsOf(t), DOMAIN word_lists)
    BY <2>1 DEF SumInv, CountsOfAllSummed
  <2> QED BY <2>2, <2>3, <2>4, SumsAreTotals DEF SumOfLists
<1> QED BY <1>1, LookupInvariant, SumsInvariance, PTL

-----------------------------------------------------------------------------
(* The messages of bogotune (Tuning)                                       *)
(*                                                                         *)
(* The proof follows the messages of a class: they are read (InList),      *)
(* divided (Apart, InRatio), and copied when the training table is         *)
(* complete (ToScore, TrainCounts).                                        *)

CONSTANTS Word, Inputs, ListCount, TestCount
VARIABLES tpc, job, class, item, train, tmsgs, list, sets, written, trained

T == INSTANCE Tuning WITH pc <- tpc, msgs <- tmsgs

\* Operators that Tuning has from the standard modules.
LEMMA SameOperators ==
    /\ \A S : T!Cardinality(S) = Cardinality(S)
    /\ \A s : T!ToSet(s) = ToSet(s)
BY DEF T!Cardinality, Cardinality, T!IsFiniteSet, IsFiniteSet, T!ToSet, ToSet

\* The classes by their names.
LEMMA ClassNames ==
    /\ T!Zero = [d \in {"good", "spam"} |-> 0]
    /\ T!ToSet(T!Classes) = {"good", "spam"}
    /\ T!Classes[1] = "good" /\ T!Classes[2] = "spam"
<1>1. T!Zero = [d \in {"good", "spam"} |-> 0]
  BY DEF T!Zero
<1>2. T!ToSet(T!Classes) = {"good", "spam"}
  BY DEF T!ToSet, T!Classes
<1>3. T!Classes[1] = "good" /\ T!Classes[2] = "spam"
  BY DEF T!Classes
<1> QED BY <1>1, <1>2, <1>3

\* A sequence is one of its own elements, whatever they are: the messages have
\* no type that the proofs need.
LEMMA OfItself ==
    ASSUME NEW a, NEW n \in Nat, NEW S, a \in [1 .. n -> S]
    PROVE  a \in Seq(ToSet(a)) /\ Len(a) = n
<1>1. a \in [1 .. n -> ToSet(a)]
  BY DEF ToSet
<1>2. a \in Seq(ToSet(a))
  BY <1>1
<1> QED BY <1>1, <1>2, LenProperties

\* So is the empty one.
LEMMA EmptyOfItself == <<>> \in Seq(ToSet(<<>>)) /\ Len(<<>>) = 0 /\ DOMAIN <<>> = {}
OBVIOUS

\* What msglist_add does to a list.
LEMMA Appended ==
    ASSUME NEW s, NEW x, s \in Seq(ToSet(s))
    PROVE  LET a == Append(s, x)
           IN /\ a \in Seq(ToSet(a)) /\ Len(a) = Len(s) + 1 /\ Len(s) \in Nat
              /\ DOMAIN a = 1 .. Len(s) + 1 /\ DOMAIN s = 1 .. Len(s)
              /\ \A i \in 1 .. Len(s) : a[i] = s[i]
              /\ a[Len(s) + 1] = x
<1> DEFINE S == ToSet(s) \cup {x}
           a == Append(s, x)
<1>1. s \in Seq(S)
  <2>1. s \in [1 .. Len(s) -> ToSet(s)] /\ Len(s) \in Nat
    BY LenProperties
  <2>2. s \in [1 .. Len(s) -> S]
    BY <2>1
  <2> QED BY <2>1, <2>2
<1>2. /\ a \in Seq(S) /\ Len(a) = Len(s) + 1
      /\ \A i \in 1 .. Len(s) : a[i] = s[i]
      /\ a[Len(s) + 1] = x
  BY <1>1, AppendProperties
<1>3. Len(s) \in Nat /\ DOMAIN s = 1 .. Len(s) /\ DOMAIN a = 1 .. Len(s) + 1
  BY <1>1, <1>2, LenProperties
<1>4. a \in [1 .. Len(a) -> S]
  BY <1>2, LenProperties
<1>5. Len(a) \in Nat
  BY <1>2, LenProperties
<1> HIDE DEF a, S
<1>6. a \in Seq(ToSet(a))
  BY <1>4, <1>5, OfItself
<1> QED BY <1>2, <1>3, <1>6 DEF a

Kinds == {"good", "spam"}

\* The classes that are done when it is the turn of another.
Turn(c) == IF c = "good" THEN 1 ELSE 2
Passed(c, n) == IF Turn(c) < class THEN n ELSE IF Turn(c) = class THEN item - 1 ELSE 0

\* How many messages of a class are read, how many are divided, and whether those
\* to score have their copies of the counts.
ReadOf(c) == IF tpc = "read" THEN Passed(c, Len(job.mails[c])) ELSE Len(job.mails[c])
DividedOf(c) == IF tpc = "read" THEN 0
                ELSE IF tpc = "divide" THEN Passed(c, Len(list[c])) ELSE Len(list[c])
Copied(c) == tpc \in {"check", "score"} \/ (tpc = "convert" /\ Turn(c) < class)

\* A message has these fields and no other.
IsMessage(m) == m = [id |-> m.id, type |-> m.type, words |-> m.words, cnts |-> m.cnts]

\* The list of a class has the messages read that have tokens, each once.
InList(c) ==
    /\ list[c] \in Seq(ToSet(list[c]))
    /\ ReadOf(c) \in 0 .. Len(job.mails[c])
    /\ \A k \in DOMAIN list[c] :
        /\ IsMessage(list[c][k])
        /\ list[c][k].id \in 1 .. ReadOf(c) /\ job.mails[c][list[c][k].id] # {}
        /\ job.kind = "mail" => /\ list[c][k].type = "props"
                                /\ list[c][k].words = job.mails[c][list[c][k].id]
    /\ \A i \in 1 .. ReadOf(c) :
        job.mails[c][i] # {} => \E k \in DOMAIN list[c] : list[c][k].id = i
    /\ \A j, k \in DOMAIN list[c] : list[c][j].id = list[c][k].id => j = k

\* Each of the messages divided is trained on or in the list to score, and none is
\* in both.
Apart(c) ==
    /\ IsFiniteSet(trained[c])
    /\ Cardinality(trained[c]) + Len(sets[c]) = DividedOf(c)
    /\ \A i \in trained[c] : \E l \in 1 .. DividedOf(c) : list[c][l].id = i
    /\ \A k \in DOMAIN sets[c] :
        /\ IsMessage(sets[c][k]) /\ sets[c][k].id \notin trained[c]
        /\ \E l \in 1 .. DividedOf(c) : list[c][l].id = sets[c][k].id
    /\ \A l \in 1 .. DividedOf(c) :
        \/ list[c][l].id \in trained[c]
        \/ \E k \in DOMAIN sets[c] : sets[c][k].id = list[c][l].id

\* The tokens of a message to score point to the training table until they are
\* copied, and the copy is what the table has at the end.
ToScore(c) ==
    job.kind = "mail" =>
        \A k \in DOMAIN sets[c] :
            /\ sets[c][k].words = job.mails[c][sets[c][k].id]
            /\ IF Copied(c) THEN sets[c][k].cnts = [t \in sets[c][k].words |-> train[t]]
               ELSE sets[c][k].type = "props"

\* Training and scoring keep to the ratio of scale, within one message.
InRatio(c) ==
    LET range == ListCount - TestCount
        ratio == T!RatioTimes(Len(list[c]))
    IN T!divvy => /\ ratio * Len(sets[c]) <= Cardinality(trained[c]) * range
                  /\ trained[c] # {} =>
                      Cardinality(trained[c]) * range < ratio * (Len(sets[c]) + 1) + range

Divided(c) ==
    /\ sets[c] \in Seq(ToSet(sets[c]))
    /\ DividedOf(c) \in 0 .. Len(list[c])
    /\ ~T!divvy => trained[c] = {}
    /\ Apart(c) /\ ToScore(c) /\ InRatio(c)

\* The training table counts the messages trained on, or is the wordlist.
TrainCounts ==
    train = IF job.ds_flag = "RAM" THEN [t \in Word |-> [d \in Kinds |-> T!TrainedWith(t, d)]]
            ELSE job.wordlist.count

AtWork == tpc \in {"read", "divide", "convert", "check", "score"}

Fresh == /\ class = 1 /\ item = 1 /\ train = T!NoCounts
         /\ list = T!NoMessages /\ sets = T!NoMessages /\ written = <<>>
         /\ trained = [c \in Kinds |-> {}]

\* The records written so far are those of the messages read so far.
Converts ==
    /\ train = job.wordlist.count /\ tmsgs = job.wordlist.msgs
    /\ written \in Seq(ToSet(written)) /\ Len(written) = item - 1 /\ item - 1 <= Len(job.lex)
    /\ \A i \in DOMAIN written :
        written[i] = [msgs |-> job.wordlist.msgs,
                      count |-> [t \in job.lex[i] |-> job.wordlist.count[t]]]
    /\ tpc = "end" => item - 1 = Len(job.lex)

TuneInv ==
    /\ job \in Inputs /\ class \in {1, 2} /\ item \in Nat \ {0}
    /\ tpc \in {"load", "convert to counts", "end", "read", "divide", "convert", "check",
               "exit", "score"}
    /\ tpc = "load" => Fresh
    /\ tpc \in {"convert to counts", "end"} => Converts
    /\ DOMAIN list = Kinds /\ DOMAIN sets = Kinds /\ DOMAIN trained = Kinds
    /\ AtWork => TrainCounts /\ \A c \in Kinds : InList(c) /\ Divided(c)

\* The invariant holds at first.
LEMMA TuneStarts == ASSUME T!TuningAssumption PROVE T!Init => TuneInv
<1> SUFFICES ASSUME T!Init PROVE TuneInv
  OBVIOUS
<1>1. T!ToSet(T!Classes) = Kinds
  BY ClassNames DEF Kinds
<1>2. /\ job \in Inputs /\ tpc = "load" /\ class = 1 /\ item = 1 /\ train = T!NoCounts
      /\ list = T!NoMessages /\ sets = T!NoMessages /\ written = <<>>
      /\ trained = [c \in Kinds |-> {}]
  BY <1>1 DEF T!Init
<1>3. DOMAIN list = Kinds /\ DOMAIN sets = Kinds /\ DOMAIN trained = Kinds
  BY <1>1, <1>2 DEF T!NoMessages
<1> QED BY <1>2, <1>3 DEF TuneInv, Fresh, AtWork

\* What does not change what has been read, divided and copied keeps the rest.
LEMMA Unmoved ==
    ASSUME T!TuningAssumption, TuneInv, AtWork, UNCHANGED <<job, train, list, sets, trained>>,
           \A c \in Kinds : /\ ReadOf(c)' = ReadOf(c) /\ DividedOf(c)' = DividedOf(c)
                            /\ Copied(c)' <=> Copied(c)
    PROVE  (TrainCounts /\ \A c \in Kinds : InList(c) /\ Divided(c))'
<1>1. TrainCounts'
  BY DEF TuneInv, TrainCounts, T!TrainedWith
<1>2. ASSUME NEW c \in Kinds PROVE InList(c)'
  <2>1. InList(c) /\ ReadOf(c)' = ReadOf(c) /\ job' = job /\ list' = list
    BY <1>2 DEF TuneInv
  <2> QED BY <2>1 DEF InList
<1>3. ASSUME NEW c \in Kinds PROVE Divided(c)'
  <2>1. Divided(c) /\ (T!divvy' <=> T!divvy)
    BY <1>3 DEF TuneInv, T!divvy
  <2>2. Apart(c)'
    BY <1>3, <2>1 DEF Divided, Apart
  <2>3. ToScore(c)'
    BY <1>3, <2>1 DEF Divided, ToScore
  <2>4. InRatio(c)'
    BY <1>3, <2>1 DEF Divided, InRatio, T!RatioTimes
  <2> QED BY <1>3, <2>1, <2>2, <2>3, <2>4 DEF Divided
<1> QED BY <1>1, <1>2, <1>3

\* The steps keep it: LoadWordlist,
LEMMA Loaded == ASSUME T!TuningAssumption PROVE TuneInv /\ T!LoadWordlist => TuneInv'
<1> SUFFICES ASSUME TuneInv, T!LoadWordlist PROVE TuneInv'
  OBVIOUS
<1>1. tpc = "load" /\ Fresh /\ job \in Inputs
  BY DEF TuneInv, T!LoadWordlist
<1>2. UNCHANGED <<job, class, item, list, sets, written, trained>>
  BY DEF T!LoadWordlist
<1>3. tpc' \in {"exit", "read", "convert to counts"}
  BY DEF T!LoadWordlist
<1>4. job.ds_flag \in {"DSK", "RAM"} /\ job.mails \in [Kinds -> Seq(SUBSET Word)] /\ job.lex \in Seq(SUBSET Word)
  BY <1>1, T!TuningAssumption, ClassNames DEF T!TuningAssumption, Kinds
<1>5. tpc' # "exit" /\ job.ds_flag = "DSK" => train' = job.wordlist.count /\ tmsgs' = job.wordlist.msgs
  BY DEF T!LoadWordlist
<1>6. tpc' = "convert to counts" => job.ds_flag = "DSK"
  BY DEF T!LoadWordlist, T!check_msgcount_parms
<1>7. job.ds_flag = "RAM" => train' = T!NoCounts
  BY <1>1 DEF T!LoadWordlist, Fresh
<1>8. tpc' = "convert to counts" => Converts'
  <2> SUFFICES ASSUME tpc' = "convert to counts" PROVE Converts'
    OBVIOUS
  <2>1. written' = <<>> /\ item' = 1
    BY <1>1, <1>2 DEF Fresh
  <2>2. written' \in Seq(ToSet(written')) /\ Len(written') = 0 /\ DOMAIN written' = {}
    BY <2>1, EmptyOfItself, Zenon
  <2>3. Len(job'.lex) \in Nat
    BY <1>2, <1>4, LenProperties
  <2>4. train' = job'.wordlist.count /\ tmsgs' = job'.wordlist.msgs
    BY <1>2, <1>5, <1>6
  <2>5. item' - 1 = 0 /\ tpc' # "end"
    <3>1. item' = 1
      BY <2>1, Zenon
    <3>2. item' - 1 = 0
      BY ONLY <3>1
    <3>3. tpc' # "end"
      BY Zenon
    <3> QED BY <3>2, <3>3
  <2>6. \A i \in DOMAIN written' :
          written'[i] = [msgs |-> job'.wordlist.msgs,
                         count |-> [t \in job'.lex[i] |-> job'.wordlist.count[t]]]
    BY <2>2
  <2>7. Len(written') = item' - 1 /\ item' - 1 <= Len(job'.lex) /\ written' \in Seq(ToSet(written'))
    <3>1. 0 <= Len(job'.lex)
      BY ONLY <2>3
    <3> QED BY <2>2, <2>5, <3>1, Zenon
  <2> QED BY <2>4, <2>5, <2>6, <2>7 DEF Converts
<1>9. ASSUME AtWork' PROVE TrainCounts'
  <2>1. CASE job.ds_flag = "RAM"
    <3>1. \A t, d : T!TrainedWith(t, d)' = Cardinality({i \in trained'[d] : t \in job'.mails[d][i]})
      BY SameOperators DEF T!TrainedWith
    <3>2. \A d \in Kinds : trained'[d] = {}
      BY <1>1, <1>2 DEF Fresh
    <3>3. \A t : \A d \in Kinds : T!TrainedWith(t, d)' = 0
      BY <3>1, <3>2, FS_EmptySet
    <3>4. T!Zero = [d \in Kinds |-> 0]
      BY ClassNames DEF Kinds
    <3>5. T!NoCounts = [t \in Word |-> [d \in Kinds |-> T!TrainedWith(t, d)']]
      BY <3>3, <3>4 DEF T!NoCounts
    <3>6. job'.ds_flag = "RAM"
      BY <1>2, <2>1
    <3>7. [t \in Word |-> [d \in Kinds |-> T!TrainedWith(t, d)]]' = [t \in Word |-> [d \in Kinds |-> T!TrainedWith(t, d)']]
      OBVIOUS
    <3> QED BY <1>7, <2>1, <3>5, <3>6, <3>7, Zenon DEF TrainCounts
  <2>2. CASE job.ds_flag = "DSK"
    BY <1>2, <1>3, <1>5, <1>9, <2>2 DEF TrainCounts, AtWork
  <2> QED BY <1>4, <2>1, <2>2
<1>10. ASSUME AtWork', NEW c \in Kinds PROVE InList(c)' /\ Divided(c)'
  <2>1. tpc' = "read" /\ class' = 1 /\ item' = 1
    BY <1>1, <1>2, <1>3, <1>10 DEF AtWork, Fresh
  <2>2. Turn(c) \in {1, 2}
    BY DEF Turn
  <2>3. Passed(c, Len(job.mails[c]))' = 0
    BY <2>1, <2>2 DEF Passed
  <2>4. ReadOf(c)' = 0 /\ DividedOf(c)' = 0
    BY <2>1, <2>3 DEF ReadOf, DividedOf
  <2>5. ~Copied(c)'
    BY <2>1 DEF Copied
  <2>6. list'[c] = <<>> /\ sets'[c] = <<>> /\ trained'[c] = {}
    BY <1>1, <1>2, ClassNames DEF Fresh, T!NoMessages, Kinds
  <2>7. Len(job'.mails[c]) \in Nat
    BY <1>2, <1>4, LenProperties
  <2>8. <<>> \in Seq(ToSet(<<>>)) /\ Len(<<>>) = 0 /\ DOMAIN <<>> = {}
    BY EmptyOfItself
  <2>9. InList(c)'
    BY <2>4, <2>6, <2>7, <2>8 DEF InList
  <2>10. Apart(c)'
    BY <2>4, <2>6, <2>8, FS_EmptySet DEF Apart
  <2>11. ToScore(c)'
    BY <2>6, <2>8 DEF ToScore
  <2>12. InRatio(c)'
    <3>1. Cardinality(trained'[c]) = 0
      BY <2>6, FS_EmptySet
    <3>2. T!RatioTimes(0) \in Int
      BY T!TuningAssumption DEF T!TuningAssumption, T!RatioTimes
    <3>3. T!RatioTimes(0) * 0 = 0 /\ 0 * (ListCount - TestCount) = 0
      BY <3>2, T!TuningAssumption DEF T!TuningAssumption
    <3> QED BY <2>6, <2>8, <3>1, <3>3 DEF InRatio
  <2> QED BY <2>4, <2>6, <2>8, <2>9, <2>10, <2>11, <2>12 DEF Divided
<1> QED BY <1>1, <1>2, <1>3, <1>8, <1>9, <1>10 DEF TuneInv, Fresh

\* ConvertMessage,
LEMMA Converted == ASSUME T!TuningAssumption PROVE TuneInv /\ T!ConvertMessage => TuneInv'
<1> SUFFICES ASSUME TuneInv, T!ConvertMessage PROVE TuneInv'
  OBVIOUS
<1>1. /\ tpc = "convert to counts" /\ Converts /\ job \in Inputs /\ item \in Nat \ {0}
      /\ UNCHANGED <<job, class, train, tmsgs, list, sets, trained>>
  BY DEF TuneInv, T!ConvertMessage
<1>2. Len(job.lex) \in Nat
  BY <1>1, LenProperties DEF T!TuningAssumption
<1>i. item \in Nat /\ item # 0
  BY DEF TuneInv
<1>3. CASE tpc' = "exit"
  <2>1. item' = item \/ item' = item + 1
    BY DEF T!ConvertMessage
  <2>2. item' \in Nat \ {0}
    BY ONLY <1>i, <2>1
  <2> QED BY <1>1, <1>3, <2>2 DEF TuneInv, AtWork
<1>4. CASE item > Len(job.lex) /\ tpc' = "end" /\ UNCHANGED <<item, written>>
  <2>1. item - 1 <= Len(job.lex) /\ Len(written) = item - 1
    BY <1>1 DEF Converts
  <2>2. item - 1 = Len(job.lex)
    <3>1. item > Len(job.lex)
      BY <1>4
    <3> QED BY ONLY <1>i, <1>2, <2>1, <3>1
  <2>3. UNCHANGED <<job, train, tmsgs, written, item>>
    BY <1>1, <1>4
  <2>4. Converts'
    BY <1>1, <2>2, <2>3 DEF Converts
  <2> QED BY <1>1, <1>4, <2>4 DEF TuneInv, AtWork
<1>5. CASE /\ item <= Len(job.lex) /\ tpc' = tpc /\ item' = item + 1
           /\ written' = Append(written, T!MsgcountOf(job.lex[item]))
  <2>1. /\ written' \in Seq(ToSet(written')) /\ Len(written') = Len(written) + 1
        /\ DOMAIN written' = 1 .. Len(written) + 1 /\ DOMAIN written = 1 .. Len(written)
        /\ \A i \in 1 .. Len(written) : written'[i] = written[i]
        /\ written'[Len(written) + 1] = T!MsgcountOf(job.lex[item])
    <3> DEFINE x == T!MsgcountOf(job.lex[item])
    <3>1. written \in Seq(ToSet(written)) /\ written' = Append(written, x)
      BY <1>1, <1>5 DEF Converts
    <3> HIDE DEF x
    <3>2. LET a == Append(written, x)
          IN /\ a \in Seq(ToSet(a)) /\ Len(a) = Len(written) + 1
             /\ DOMAIN a = 1 .. Len(written) + 1 /\ DOMAIN written = 1 .. Len(written)
             /\ \A i \in 1 .. Len(written) : a[i] = written[i]
             /\ a[Len(written) + 1] = x
      BY <3>1, Appended
    <3> QED BY <3>1, <3>2 DEF x
  <2>2. Len(written) = item - 1 /\ Len(written) + 1 = item
    <3>1. Len(written) = item - 1
      BY <1>1 DEF Converts
    <3> QED BY ONLY <1>i, <3>1
  <2>3. T!MsgcountOf(job.lex[item]) = [msgs |-> job.wordlist.msgs,
                      count |-> [t \in job.lex[item] |-> job.wordlist.count[t]]]
    BY <1>1 DEF Converts, T!MsgcountOf
  <2>4. \A i \in DOMAIN written' :
          written'[i] = [msgs |-> job.wordlist.msgs,
                         count |-> [t \in job.lex[i] |-> job.wordlist.count[t]]]
    <3> SUFFICES ASSUME NEW i \in DOMAIN written'
                 PROVE  written'[i] = [msgs |-> job.wordlist.msgs,
                         count |-> [t \in job.lex[i] |-> job.wordlist.count[t]]]
      OBVIOUS
    <3>1. CASE i = item
      BY <2>1, <2>2, <2>3, <3>1, Zenon
    <3>2. CASE i # item
      <4>1. i \in 1 .. Len(written)
        <5>1. i \in 1 .. Len(written) + 1 /\ Len(written) = item - 1
          BY <2>1, <2>2
        <5> QED BY ONLY <1>i, <5>1, <3>2
      <4> QED BY <1>1, <2>1, <4>1, Zenon DEF Converts
    <3> QED BY <3>1, <3>2
  <2>5. Len(written') = item' - 1 /\ item' - 1 <= Len(job.lex)
    <3>1. Len(written') = Len(written) + 1 /\ Len(written) = item - 1
      BY <2>1, <2>2
    <3>2. item <= Len(job.lex) /\ item' = item + 1
      BY <1>5
    <3> QED BY ONLY <1>i, <1>2, <3>1, <3>2
  <2>6. Converts'
    BY <1>1, <1>5, <2>1, <2>4, <2>5 DEF Converts
  <2>7. item' \in Nat \ {0}
    <3>1. item' = item + 1
      BY <1>5
    <3> QED BY ONLY <1>i, <3>1
  <2> QED BY <1>1, <1>5, <2>6, <2>7 DEF TuneInv, AtWork
<1>6. \/ tpc' = "exit"
      \/ item > Len(job.lex) /\ tpc' = "end" /\ UNCHANGED <<item, written>>
      \/ /\ ~(item > Len(job.lex)) /\ tpc' = tpc /\ item' = item + 1
         /\ written' = Append(written, T!MsgcountOf(job.lex[item]))
  <2>1. CASE item > Len(job.lex)
    BY <2>1 DEF T!ConvertMessage
  <2>2. CASE ~(item > Len(job.lex))
    BY <2>2 DEF T!ConvertMessage
  <2> QED BY <2>1, <2>2
<1>7. ~(item > Len(job.lex)) => item <= Len(job.lex)
  BY <1>2, <1>i
<1> QED BY <1>3, <1>4, <1>5, <1>6, <1>7

\* EndOfFiles,
LEMMA FilesEnded == ASSUME T!TuningAssumption PROVE TuneInv /\ T!EndOfFiles => TuneInv'
<1> SUFFICES ASSUME TuneInv, T!EndOfFiles PROVE TuneInv'
  OBVIOUS
<1>1. /\ tpc = "read" /\ item > Len(job.mails[T!C]) /\ class \in {1, 2} /\ item' = 1
      /\ class' = 3 - class /\ tpc' = (IF class = 1 THEN tpc ELSE "divide")
      /\ UNCHANGED <<job, train, tmsgs, list, sets, written, trained>>
  BY DEF TuneInv, T!EndOfFiles, T!EndOfClass
<1>2. AtWork /\ item \in Nat
  BY <1>1 DEF AtWork, TuneInv
<1>3. \A c \in Kinds : /\ ReadOf(c)' = ReadOf(c) /\ DividedOf(c)' = DividedOf(c)
                       /\ Copied(c)' <=> Copied(c)
  <2> SUFFICES ASSUME NEW c \in Kinds
               PROVE  /\ ReadOf(c)' = ReadOf(c) /\ DividedOf(c)' = DividedOf(c)
                      /\ Copied(c)' <=> Copied(c)
    OBVIOUS
  <2>1. ReadOf(c) \in 0 .. Len(job.mails[c]) /\ Len(job.mails[c]) \in Nat
    <3>1. Len(job.mails[c]) \in Nat
      <4>1. job.mails \in [Kinds -> Seq(SUBSET Word)]
        BY ClassNames DEF T!TuningAssumption, TuneInv, Kinds
      <4>2. job.mails[c] \in Seq(SUBSET Word)
        BY <4>1
      <4> QED BY <4>2, LenProperties
    <3> QED BY <1>2, <3>1 DEF TuneInv, InList
  <2>2. (Turn(c) = class => c = T!C) /\ Turn(c) \in {1, 2}
    BY <1>1, ClassNames DEF Turn, T!C, Kinds
  <2>3. CASE class = 1
    <3>1. tpc' = "read" /\ class' = 2 /\ item' = 1
      BY <1>1, <2>3
    <3>2. ReadOf(c)' = ReadOf(c)
      <4>1. CASE Turn(c) = 1
        BY <1>1, <1>2, <2>1, <2>2, <2>3, <3>1, <4>1 DEF ReadOf, Passed
      <4>2. CASE Turn(c) = 2
        BY <1>1, <1>2, <2>1, <2>2, <2>3, <3>1, <4>2 DEF ReadOf, Passed
      <4> QED BY <2>2, <4>1, <4>2
    <3> QED BY <1>1, <3>1, <3>2 DEF DividedOf, Copied
  <2>4. CASE class = 2
    <3>1. tpc' = "divide" /\ class' = 1 /\ item' = 1
      BY <1>1, <2>4
    <3>2. ReadOf(c)' = ReadOf(c)
      <4>1. CASE Turn(c) = 1
        BY <1>1, <1>2, <2>1, <2>2, <2>4, <3>1, <4>1 DEF ReadOf, Passed
      <4>2. CASE Turn(c) = 2
        BY <1>1, <1>2, <2>1, <2>2, <2>4, <3>1, <4>2 DEF ReadOf, Passed
      <4> QED BY <2>2, <4>1, <4>2
    <3>3. Passed(c, Len(list[c]))' = 0
      BY <2>2, <3>1 DEF Passed
    <3> QED BY <1>1, <3>1, <3>2, <3>3 DEF DividedOf, Copied
  <2> QED BY <1>1, <2>3, <2>4
<1>4. (TrainCounts /\ \A c \in Kinds : InList(c) /\ Divided(c))'
  BY <1>1, <1>2, <1>3, Unmoved
<1>5. tpc' \in {"read", "divide"} /\ class' \in {1, 2}
  BY <1>1
<1>6. DOMAIN list = Kinds /\ DOMAIN sets = Kinds /\ DOMAIN trained = Kinds /\ job \in Inputs
  BY DEF TuneInv
<1> QED BY <1>1, <1>4, <1>5, <1>6 DEF TuneInv

\* CheckMsgCounts,
LEMMA Checked == ASSUME T!TuningAssumption PROVE TuneInv /\ T!CheckMsgCounts => TuneInv'
<1> SUFFICES ASSUME TuneInv, T!CheckMsgCounts PROVE TuneInv'
  OBVIOUS
<1>1. /\ tpc = "check" /\ tpc' \in {"exit", "score"}
      /\ UNCHANGED <<job, class, item, train, tmsgs, list, sets, written, trained>>
  BY DEF T!CheckMsgCounts
<1>2. ASSUME tpc' = "score" PROVE (TrainCounts /\ \A c \in Kinds : InList(c) /\ Divided(c))'
  <2>1. \A c \in Kinds : /\ ReadOf(c)' = ReadOf(c) /\ DividedOf(c)' = DividedOf(c)
                         /\ Copied(c)' <=> Copied(c)
    BY <1>1, <1>2 DEF ReadOf, DividedOf, Copied
  <2>2. AtWork
    BY <1>1 DEF AtWork
  <2> QED BY <1>1, <2>1, <2>2, Unmoved
<1> QED BY <1>1, <1>2 DEF TuneInv, AtWork

\* EndOfDivision,
LEMMA DivisionEnded == ASSUME T!TuningAssumption PROVE TuneInv /\ T!EndOfDivision => TuneInv'
<1> SUFFICES ASSUME TuneInv, T!EndOfDivision PROVE TuneInv'
  OBVIOUS
<1>1. /\ tpc = "divide" /\ item > Len(list[T!C]) /\ class \in {1, 2} /\ item' = 1
      /\ class' = 3 - class /\ tpc' = (IF class = 1 THEN tpc ELSE "convert")
      /\ UNCHANGED <<job, train, list, sets, written, trained>>
  BY DEF TuneInv, T!EndOfDivision, T!EndOfClass
<1>2. AtWork /\ item \in Nat
  BY <1>1 DEF AtWork, TuneInv
<1>3. \A c \in Kinds : /\ ReadOf(c)' = ReadOf(c) /\ DividedOf(c)' = DividedOf(c)
                       /\ Copied(c)' <=> Copied(c)
  <2> SUFFICES ASSUME NEW c \in Kinds
               PROVE  /\ ReadOf(c)' = ReadOf(c) /\ DividedOf(c)' = DividedOf(c)
                      /\ Copied(c)' <=> Copied(c)
    OBVIOUS
  <2>1. DividedOf(c) \in 0 .. Len(list[c]) /\ Len(list[c]) \in Nat
    <3>1. InList(c) /\ Divided(c)
      BY <1>2 DEF TuneInv
    <3>2. Len(list[c]) \in Nat
      BY <3>1, LenProperties DEF InList
    <3> QED BY <3>1, <3>2 DEF Divided
  <2>2. (Turn(c) = class => c = T!C) /\ Turn(c) \in {1, 2}
    BY <1>1, ClassNames DEF Turn, T!C, Kinds
  <2>3. CASE class = 1
    <3>1. tpc' = "divide" /\ class' = 2 /\ item' = 1
      BY <1>1, <2>3
    <3>2. DividedOf(c)' = DividedOf(c)
      <4>1. CASE Turn(c) = 1
        BY <1>1, <1>2, <2>1, <2>2, <2>3, <3>1, <4>1 DEF DividedOf, Passed
      <4>2. CASE Turn(c) = 2
        BY <1>1, <1>2, <2>1, <2>2, <2>3, <3>1, <4>2 DEF DividedOf, Passed
      <4> QED BY <2>2, <4>1, <4>2
    <3> QED BY <1>1, <3>1, <3>2 DEF ReadOf, Copied
  <2>4. CASE class = 2
    <3>1. tpc' = "convert" /\ class' = 1 /\ item' = 1
      BY <1>1, <2>4
    <3>2. DividedOf(c)' = DividedOf(c)
      <4>1. CASE Turn(c) = 1
        BY <1>1, <1>2, <2>1, <2>2, <2>4, <3>1, <4>1 DEF DividedOf, Passed
      <4>2. CASE Turn(c) = 2
        BY <1>1, <1>2, <2>1, <2>2, <2>4, <3>1, <4>2 DEF DividedOf, Passed
      <4> QED BY <2>2, <4>1, <4>2
    <3>3. ~Copied(c)' /\ ~Copied(c)
      BY <1>1, <2>2, <3>1 DEF Copied
    <3> QED BY <1>1, <3>1, <3>2, <3>3 DEF ReadOf
  <2> QED BY <1>1, <2>3, <2>4
<1>4. (TrainCounts /\ \A c \in Kinds : InList(c) /\ Divided(c))'
  BY <1>1, <1>2, <1>3, Unmoved
<1>5. tpc' \in {"convert", "divide"} /\ class' \in {1, 2}
  BY <1>1
<1>6. DOMAIN list = Kinds /\ DOMAIN sets = Kinds /\ DOMAIN trained = Kinds /\ job \in Inputs
  BY DEF TuneInv
<1> QED BY <1>1, <1>4, <1>5, <1>6 DEF TuneInv

\* The ratio is a number.
LEMMA RatioTyped ==
    ASSUME T!TuningAssumption, NEW n \in Nat
    PROVE  T!RatioTimes(n) \in Int /\ ListCount - TestCount \in Nat
<1>1. ListCount \div TestCount \in Int /\ ListCount - TestCount \in Nat
  BY DEF T!TuningAssumption
<1>2. ListCount \in Int /\ TestCount \in Int
  BY DEF T!TuningAssumption
<1> DEFINE m == ListCount \div TestCount
           r == ListCount - TestCount
<1>3. m * r \in Int /\ (m - 1) * (n - ListCount - TestCount) \in Int
  BY <1>1, <1>2
<1> QED BY <1>1, <1>3 DEF T!RatioTimes

\* Nothing is divided before all is read.
LEMMA NothingDivided ==
    ASSUME T!TuningAssumption, TuneInv, tpc = "read", tpc' = "read",
           UNCHANGED <<job, sets, trained>>, NEW c \in Kinds, Len(list'[c]) \in Nat
    PROVE  Divided(c)'
<1>1. Divided(c) /\ DividedOf(c) = 0 /\ DividedOf(c)' = 0 /\ (T!divvy' <=> T!divvy)
  BY DEF TuneInv, AtWork, DividedOf, T!divvy
<1>2. Len(sets[c]) \in Nat /\ DOMAIN sets[c] = 1 .. Len(sets[c]) /\ sets[c] \in Seq(ToSet(sets[c]))
  BY <1>1, LenProperties DEF Divided
<1>3. Cardinality(trained[c]) \in Nat /\ IsFiniteSet(trained[c])
  BY <1>1, FS_CardinalityType DEF Divided, Apart
<1>4. Len(sets[c]) = 0 /\ Cardinality(trained[c]) = 0
  BY <1>1, <1>2, <1>3 DEF Divided, Apart
<1>5. trained[c] = {} /\ DOMAIN sets[c] = {}
  BY <1>2, <1>3, <1>4, FS_EmptySet
<1>6. Apart(c)'
  BY <1>1, <1>3, <1>4, <1>5 DEF Apart
<1>7. ToScore(c)'
  BY <1>5 DEF ToScore
<1>8. InRatio(c)'
  <2>1. T!RatioTimes(Len(list'[c])) \in Int /\ ListCount - TestCount \in Nat
    BY RatioTyped
  <2>2. T!RatioTimes(Len(list'[c])) * 0 = 0 /\ 0 * (ListCount - TestCount) = 0
    BY <2>1
  <2> QED BY <1>4, <1>5, <2>2 DEF InRatio
<1> QED BY <1>1, <1>2, <1>5, <1>6, <1>7, <1>8 DEF Divided

\* ReadMessage,
LEMMA MessageRead == ASSUME T!TuningAssumption PROVE TuneInv /\ T!ReadMessage => TuneInv'
<1> SUFFICES ASSUME TuneInv, T!ReadMessage PROVE TuneInv'
  OBVIOUS
<1>1. /\ tpc = "read" /\ item <= Len(job.mails[T!C]) /\ job \in Inputs
      /\ UNCHANGED <<job, class, train, tmsgs, sets, written, trained>>
      /\ class \in {1, 2} /\ item \in Nat \ {0}
      /\ DOMAIN list = Kinds /\ DOMAIN sets = Kinds /\ DOMAIN trained = Kinds
  BY DEF TuneInv, T!ReadMessage
<1>2. CASE tpc' = "exit" /\ UNCHANGED <<item, list>>
  BY <1>1, <1>2 DEF TuneInv, AtWork
<1>3. CASE /\ tpc' = tpc /\ item' = item + 1
           /\ list' = (IF job.mails[T!C][item] = {} THEN list
                       ELSE [list EXCEPT ![T!C] = T!msglist_add(@, T!MessageOf(item))])
  <2>1. PICK d \in Kinds : d = T!C /\ Turn(d) = class /\ \A c \in Kinds : Turn(c) = class => c = d
    BY <1>1, ClassNames DEF Turn, T!C, Kinds
  <2>2. TrainCounts' /\ AtWork
    BY <1>1, <1>3 DEF TuneInv, AtWork, TrainCounts, T!TrainedWith
  <2>3. \A c \in Kinds : InList(c) /\ Len(list[c]) \in Nat /\ Len(job.mails[c]) \in Nat
    <3>1. \A c \in Kinds : job.mails[c] \in Seq(SUBSET Word)
      BY <1>1, ClassNames DEF T!TuningAssumption, Kinds
    <3> QED BY <2>2, <3>1, LenProperties DEF TuneInv, InList
  <2>4. tpc' = "read" /\ class' = class /\ item' = item + 1
    BY <1>1, <1>3
  <2>5. \A c \in Kinds : c # d => list'[c] = list[c]
    BY <1>1, <1>3, <2>1
  <2>6. list'[d] = IF job.mails[d][item] = {} THEN list[d] ELSE Append(list[d], T!MessageOf(item))
    BY <1>1, <1>3, <2>1 DEF T!msglist_add
  <2>7. DOMAIN list' = Kinds
    BY <1>1, <1>3
  <2>8. ReadOf(d) = item - 1 /\ ReadOf(d)' = item
    <3>1. ReadOf(d) = item - 1
      BY <1>1, <2>1 DEF ReadOf, Passed
    <3>2. ~(class < class)
      BY <1>1
    <3>3. Turn(d)' = class
      BY <2>1 DEF Turn
    <3>4. ReadOf(d)' = item' - 1
      BY <2>4, <3>2, <3>3, Zenon DEF ReadOf, Passed
    <3>5. ReadOf(d)' = (item + 1) - 1
      BY <2>4, <3>4
    <3> QED BY ONLY <1>1, <3>1, <3>5
  <2>9. ASSUME NEW c \in Kinds, c # d PROVE InList(c)'
    <3>1. Turn(c) # class /\ Turn(c) \in {1, 2}
      BY <2>1, <2>9 DEF Turn
    <3>2. ReadOf(c)' = ReadOf(c)
      BY <1>1, <2>4, <3>1 DEF ReadOf, Passed
    <3>3. InList(c) /\ list'[c] = list[c] /\ job' = job
      BY <1>1, <2>3, <2>5, <2>9
    <3> QED BY <3>2, <3>3 DEF InList
  <2>10. item \in 1 .. Len(job.mails[d])
    BY <1>1, <2>1, <2>3
  <2>11. ASSUME job.mails[d][item] = {} PROVE InList(d)'
    <3>1. list'[d] = list[d] /\ InList(d) /\ job' = job
      BY <1>1, <2>3, <2>6, <2>11
    <3>2. \A i \in 1 .. item : i # item => i \in 1 .. item - 1
      BY <1>1
    <3>3. 1 .. item - 1 \subseteq 1 .. item /\ item \in 0 .. Len(job.mails[d])
      BY <1>1, <2>10
    <3>4. InList(d)'
      BY <2>8, <2>11, <3>1, <3>2, <3>3 DEF InList
    <3> QED BY <3>4
  <2>12. ASSUME job.mails[d][item] # {} PROVE InList(d)'
    <3> DEFINE m == T!MessageOf(item)
               n == Len(list[d])
    <3>1. /\ list'[d] = Append(list[d], m) /\ InList(d) /\ job' = job
      BY <1>1, <2>3, <2>6, <2>12
    <3>2. /\ m.id = item
          /\ IsMessage(m)
          /\ job.kind = "mail" => m.type = "props" /\ m.words = job.mails[d][item]
      BY <2>1 DEF T!MessageOf, IsMessage
    <3> HIDE DEF m
    <3>3. /\ list'[d] \in Seq(ToSet(list'[d])) /\ DOMAIN list'[d] = 1 .. n + 1
          /\ DOMAIN list[d] = 1 .. n /\ n \in Nat
          /\ \A i \in 1 .. n : list'[d][i] = list[d][i]
          /\ list'[d][n + 1] = m
      BY <3>1, Appended DEF InList
    <3> HIDE DEF n
    <3>4. \A k \in 1 .. n + 1 : k # n + 1 => k \in 1 .. n
      BY <3>3
    <3>5. 1 .. n \subseteq 1 .. n + 1 /\ n + 1 \in 1 .. n + 1
      BY <3>3
    <3>6. \A i \in 1 .. item : i # item => i \in 1 .. item - 1
      BY <1>1
    <3>7. /\ 1 .. item - 1 \subseteq 1 .. item /\ item \in 1 .. item /\ item \notin 1 .. item - 1
          /\ item \in 0 .. Len(job.mails[d])
      BY <1>1, <2>10
    <3>8. \A k \in 1 .. n : list[d][k].id \in 1 .. item - 1
      BY <2>8, <3>1, <3>3 DEF InList
    <3>9. \A k \in DOMAIN list'[d] :
            /\ IsMessage(list'[d][k])
            /\ list'[d][k].id \in 1 .. item /\ job'.mails[d][list'[d][k].id] # {}
            /\ job'.kind = "mail" => /\ list'[d][k].type = "props"
                                     /\ list'[d][k].words = job'.mails[d][list'[d][k].id]
      <4> SUFFICES ASSUME NEW k \in 1 .. n + 1
                   PROVE  /\ IsMessage(list'[d][k])
                          /\ list'[d][k].id \in 1 .. item /\ job.mails[d][list'[d][k].id] # {}
                          /\ job.kind = "mail" =>
                                /\ list'[d][k].type = "props"
                                /\ list'[d][k].words = job.mails[d][list'[d][k].id]
        BY <3>1, <3>3, Zenon
      <4>1. CASE k = n + 1
        BY <2>12, <3>2, <3>3, <3>7, <4>1, Zenon
      <4>2. CASE k # n + 1
        <5>1. k \in 1 .. n /\ list'[d][k] = list[d][k]
          BY <3>3, <3>4, <4>2
        <5>2. list[d][k].id \in 1 .. item
          BY <3>7, <3>8, <5>1
        <5> QED BY <3>1, <3>3, <5>1, <5>2 DEF InList
      <4> QED BY <4>1, <4>2
    <3>10. \A i \in 1 .. item : job'.mails[d][i] # {} => \E k \in DOMAIN list'[d] : list'[d][k].id = i
      <4> SUFFICES ASSUME NEW i \in 1 .. item, job.mails[d][i] # {}
                   PROVE  \E k \in 1 .. n + 1 : list'[d][k].id = i
        BY <3>1, <3>3, Zenon
      <4>1. CASE i = item
        BY <3>2, <3>3, <3>5, <4>1, Zenon
      <4>2. CASE i # item
        <5>1. PICK k \in 1 .. n : list[d][k].id = i
          BY <2>8, <3>1, <3>3, <3>6, <4>2 DEF InList
        <5> QED BY <3>3, <3>5, <5>1
      <4> QED BY <4>1, <4>2
    <3>11. \A j, k \in DOMAIN list'[d] : list'[d][j].id = list'[d][k].id => j = k
      <4> SUFFICES ASSUME NEW j \in 1 .. n + 1, NEW k \in 1 .. n + 1, list'[d][j].id = list'[d][k].id
                   PROVE  j = k
        BY <3>3, Zenon
      <4>1. CASE j = n + 1 /\ k # n + 1
        BY <3>2, <3>3, <3>4, <3>7, <3>8, <4>1
      <4>2. CASE j # n + 1 /\ k = n + 1
        BY <3>2, <3>3, <3>4, <3>7, <3>8, <4>2
      <4>3. CASE j # n + 1 /\ k # n + 1
        <5>1. j \in 1 .. n /\ k \in 1 .. n
          BY <3>4, <4>3
        <5>2. list[d][j].id = list[d][k].id
          BY <3>3, <5>1
        <5>3. \A p, q \in 1 .. n : list[d][p].id = list[d][q].id => p = q
          BY <3>1, <3>3 DEF InList
        <5> QED BY <5>1, <5>2, <5>3
      <4>4. CASE j = n + 1 /\ k = n + 1
        BY <4>4
      <4> QED BY <4>1, <4>2, <4>3, <4>4
    <3>12. InList(d)'
      BY <1>1, <2>8, <3>3, <3>7, <3>9, <3>10, <3>11 DEF InList
    <3> QED BY <3>12
  <2>13. \A c \in Kinds : InList(c)'
    BY <2>9, <2>11, <2>12
  <2>14. ASSUME NEW c \in Kinds PROVE Divided(c)'
    <3>1. InList(c)'
      BY <2>13
    <3>2. Len(list'[c]) \in Nat
      BY <3>1, LenProperties DEF InList
    <3> QED BY <1>1, <2>4, <3>2, NothingDivided
  <2> QED BY <1>1, <2>2, <2>4, <2>7, <2>13, <2>14 DEF TuneInv
<1> QED BY <1>1, <1>2, <1>3 DEF T!ReadMessage

\* And not below 1; ListCount is a multiple of TestCount.
LEMMA RatioGrows ==
    ASSUME T!TuningAssumption, NEW n \in Nat
    PROVE  /\ ListCount = (ListCount \div TestCount) * TestCount
           /\ ListCount \div TestCount \in Nat /\ ListCount \div TestCount > 1
           /\ T!RatioTimes(n) >= ListCount - TestCount
<1> DEFINE m == ListCount \div TestCount
           r == ListCount - TestCount
<1>1. ListCount \in Nat /\ TestCount \in Nat /\ TestCount > 0 /\ ListCount > TestCount
  BY DEF T!TuningAssumption
<1>2. m \in Nat /\ ListCount = m * TestCount
  BY DEF T!TuningAssumption
<1>3. r \in Nat /\ r > 0
  BY <1>1
<1>4. m > 1
  <2>1. m # 0 /\ m # 1
    BY <1>1, <1>2
  <2> QED BY <1>2, <2>1
<1> HIDE DEF m, r
<1>5. \A k, p, q \in Int : q >= 1 /\ k <= p /\ p >= 0 => q * p - (q - 1) * k >= p /\ q * p >= p
  <2> SUFFICES ASSUME NEW k \in Int, NEW p \in Int, NEW q \in Int, q >= 1, k <= p, p >= 0
               PROVE  q * p - (q - 1) * k >= p /\ q * p >= p
    OBVIOUS
  <2>1. (q - 1) * (p - k) >= 0 /\ (q - 1) * p >= 0
    OBVIOUS
  <2>2. (q - 1) * (p - k) = q * p - p - (q - 1) * k /\ (q - 1) * p = q * p - p
    OBVIOUS
  <2>3. q * p \in Int /\ (q - 1) * k \in Int
    OBVIOUS
  <2> QED BY <2>1, <2>2, <2>3
<1>6. n <= 2 * ListCount => n - ListCount - TestCount <= r
  BY <1>1 DEF r
<1>7. T!RatioTimes(n) = IF n < ListCount + TestCount THEN m * r ELSE IF n > 2 * ListCount THEN r
                        ELSE m * r - (m - 1) * (n - ListCount - TestCount)
  BY DEF T!RatioTimes, m, r
<1>8. n - ListCount - TestCount \in Int /\ (n > 2 * ListCount \/ n <= 2 * ListCount)
  BY <1>1
<1>9. T!RatioTimes(n) >= r
  BY <1>2, <1>3, <1>4, <1>5, <1>6, <1>7, <1>8
<1> QED BY <1>2, <1>4, <1>9 DEF m, r

\* Divide, which trains on a message or puts it to those to score,
LEMMA MessageDivided == ASSUME T!TuningAssumption PROVE TuneInv /\ T!Divide => TuneInv'
<1> SUFFICES ASSUME TuneInv, T!Divide PROVE TuneInv'
  OBVIOUS
<1>1. /\ tpc = "divide" /\ item <= Len(list[T!C]) /\ item' = item + 1 /\ job \in Inputs
      /\ UNCHANGED <<job, tpc, class, tmsgs, list, written>>
      /\ DOMAIN list = Kinds /\ DOMAIN sets = Kinds /\ DOMAIN trained = Kinds
      /\ AtWork /\ TrainCounts
  BY DEF T!Divide, TuneInv, AtWork
<1>2. item \in Nat /\ item # 0 /\ class \in {1, 2}
  BY DEF TuneInv
<1>3. PICK d \in Kinds : d = T!C /\ Turn(d) = class /\ \A c \in Kinds : Turn(c) = class => c = d
  BY <1>2, ClassNames DEF Turn, T!C, Kinds
<1>4. \A c \in Kinds : InList(c) /\ Divided(c)
  BY <1>1 DEF TuneInv
<1>5. \A c \in Kinds : InList(c)'
  <2> SUFFICES ASSUME NEW c \in Kinds PROVE InList(c)'
    OBVIOUS
  <2>1. ReadOf(c)' = ReadOf(c)
    BY <1>1 DEF ReadOf
  <2>2. InList(c) /\ UNCHANGED <<job, list>>
    BY <1>1, <1>4
  <2> QED BY <2>1, <2>2 DEF InList
<1>6. (T!divvy' <=> T!divvy) /\ \A c \in Kinds : ~Copied(c) /\ ~Copied(c)'
  BY <1>1 DEF T!divvy, Copied
<1> DEFINE m == list[d][item]
<1>7. \/ /\ T!ToTrain /\ sets' = sets /\ trained' = [trained EXCEPT ![d] = @ \cup {m.id}]
         /\ train' = [t \in Word |-> IF t \in m.words THEN [train[t] EXCEPT ![d] = @ + 1]
                                                      ELSE train[t]]
      \/ ~T!ToTrain /\ UNCHANGED <<train, trained>> /\ sets' = [sets EXCEPT ![d] = Append(@, m)]
  BY <1>3 DEF T!Divide, T!Train, T!msglist_add
<1>8. T!ToTrain <=> T!divvy /\ Cardinality(trained[d]) * (ListCount - TestCount)
                                 < T!RatioTimes(Len(list[d])) * (Len(sets[d]) + 1)
  BY <1>3, SameOperators DEF T!ToTrain
<1> HIDE DEF m
<1>9. \A c \in Kinds : c # d => sets'[c] = sets[c] /\ trained'[c] = trained[c]
  BY <1>1, <1>7
<1>10. DOMAIN sets' = Kinds /\ DOMAIN trained' = Kinds
  BY <1>1, <1>7
<1>11. ASSUME NEW c \in Kinds, c # d PROVE Divided(c)'
  <2>1. DividedOf(c)' = DividedOf(c)
    <3>1. Turn(c) # class
      BY <1>3, <1>11
    <3> QED BY <1>1, <3>1 DEF DividedOf, Passed, Turn
  <2>2. Divided(c) /\ UNCHANGED <<job, list>> /\ sets'[c] = sets[c] /\ trained'[c] = trained[c]
    BY <1>1, <1>4, <1>9, <1>11
  <2>3. Apart(c)'
    BY <2>1, <2>2 DEF Divided, Apart
  <2>4. ToScore(c)'
    BY <1>6, <2>2 DEF Divided, ToScore
  <2>5. InRatio(c)'
    BY <1>6, <2>2 DEF Divided, InRatio, T!RatioTimes
  <2> QED BY <1>6, <2>1, <2>2, <2>3, <2>4, <2>5 DEF Divided
<1>12. Len(list[d]) \in Nat /\ DOMAIN list[d] = 1 .. Len(list[d])
  BY <1>4, LenProperties DEF InList
<1>13. item \in DOMAIN list[d] /\ item <= Len(list[d])
  BY <1>1, <1>2, <1>3, <1>12
<1>14. DividedOf(d) = item - 1 /\ DividedOf(d)' = item
  <2>1. ~(class < class)
    BY <1>2
  <2>2. Turn(d)' = class
    BY <1>3 DEF Turn
  <2>3. DividedOf(d) = item - 1
    BY <1>1, <1>3, <2>1, Zenon DEF DividedOf, Passed
  <2>4. DividedOf(d)' = item' - 1
    BY <1>1, <2>1, <2>2, Zenon DEF DividedOf, Passed
  <2>5. item' = item + 1
    BY <1>1
  <2>6. item' - 1 = item
    BY ONLY <1>2, <2>5
  <2> QED BY <2>3, <2>4, <2>6
<1>15. /\ 1 .. item - 1 \subseteq 1 .. item /\ item \in 1 .. item /\ item \notin 1 .. item - 1
       /\ \A l \in 1 .. item : l # item => l \in 1 .. item - 1
       /\ 1 .. item \subseteq DOMAIN list[d] /\ item \in 0 .. Len(list[d])
  BY <1>2, <1>12, <1>13
<1>16. \A l \in 1 .. item - 1 : list[d][l].id # m.id
  BY <1>4, <1>13, <1>15 DEF InList, m
<1>17. m.id \notin trained[d] /\ \A k \in DOMAIN sets[d] : sets[d][k].id # m.id
  BY <1>4, <1>14, <1>16 DEF Divided, Apart
<1>18. /\ IsFiniteSet(trained[d]) /\ Cardinality(trained[d]) \in Nat
       /\ Len(sets[d]) \in Nat /\ DOMAIN sets[d] = 1 .. Len(sets[d])
       /\ Cardinality(trained[d]) + Len(sets[d]) = item - 1
       /\ sets[d] \in Seq(ToSet(sets[d]))
  BY <1>4, <1>14, LenProperties, FS_CardinalityType DEF Divided, Apart
<1> DEFINE R == T!RatioTimes(Len(list[d]))
           D == ListCount - TestCount
<1>19. R \in Int /\ D \in Nat /\ R >= D
  BY <1>12, RatioTyped, RatioGrows
<1>20. list' = list /\ job' = job
  BY <1>1
<1>21. InRatio(d) /\ ToScore(d) /\ Apart(d) /\ (~T!divvy => trained[d] = {})
  BY <1>4 DEF Divided
<1> HIDE DEF R, D
<1>22. \A a, b \in Nat :
         /\ R * b \in Int /\ a * D \in Int /\ R * (b + 1) = R * b + R
         /\ (a + 1) * D = a * D + D /\ R * ((b + 1) + 1) = R * b + R + R
  BY <1>19
<1>23. /\ m.id \in 1 .. Len(job.mails[d]) /\ job.mails[d] \in Seq(SUBSET Word)
       /\ IsMessage(m)
       /\ job.kind = "mail" => m.type = "props" /\ m.words = job.mails[d][m.id]
  <2>1. InList(d) /\ ReadOf(d) = Len(job.mails[d])
    BY <1>1, <1>4 DEF ReadOf
  <2>2. job.mails[d] \in Seq(SUBSET Word)
    BY <1>1, ClassNames DEF T!TuningAssumption, Kinds
  <2> QED BY <1>13, <2>1, <2>2 DEF InList, m
<1>24. CASE /\ T!ToTrain /\ sets' = sets /\ trained' = [trained EXCEPT ![d] = @ \cup {m.id}]
            /\ train' = [t \in Word |-> IF t \in m.words THEN [train[t] EXCEPT ![d] = @ + 1]
                                                         ELSE train[t]]
  <2> DEFINE a == Cardinality(trained[d])
             b == Len(sets[d])
  <2>1. T!divvy /\ a * D < R * (b + 1)
    BY <1>8, <1>24 DEF R, D
  <2>2. sets'[d] = sets[d] /\ trained'[d] = trained[d] \cup {m.id}
    BY <1>1, <1>24
  <2>3. IsFiniteSet(trained'[d]) /\ Cardinality(trained'[d]) = a + 1
    BY <1>17, <1>18, <2>2, FS_AddElement
  <2>4. Apart(d)'
    <3>1. Cardinality(trained'[d]) + Len(sets'[d]) = item
      <4>1. a + b = item - 1
        BY <1>18
      <4> HIDE DEF a, b
      <4>2. a \in Nat /\ b \in Nat
        BY <1>18 DEF a, b
      <4>3. (a + 1) + b = item
        BY ONLY <1>2, <4>1, <4>2
      <4>4. Len(sets'[d]) = b
        BY <2>2 DEF b
      <4> QED BY <2>3, <4>3, <4>4 DEF a
    <3>2. \A i \in trained'[d] : \E l \in 1 .. item : list[d][l].id = i
      <4> SUFFICES ASSUME NEW i \in trained'[d] PROVE \E l \in 1 .. item : list[d][l].id = i
        OBVIOUS
      <4>1. CASE i = m.id
        BY <1>15, <4>1 DEF m
      <4>2. CASE i \in trained[d]
        BY <1>14, <1>15, <1>21, <4>2 DEF Apart
      <4> QED BY <2>2, <4>1, <4>2
    <3>3. \A k \in DOMAIN sets'[d] :
            /\ IsMessage(sets'[d][k]) /\ sets'[d][k].id \notin trained'[d]
            /\ \E l \in 1 .. item : list[d][l].id = sets'[d][k].id
      <4> SUFFICES ASSUME NEW k \in DOMAIN sets[d]
                   PROVE  /\ IsMessage(sets[d][k]) /\ sets[d][k].id \notin trained[d] \cup {m.id}
                          /\ \E l \in 1 .. item : list[d][l].id = sets[d][k].id
        BY <2>2
      <4>1. IsMessage(sets[d][k]) /\ sets[d][k].id \notin trained[d] /\ sets[d][k].id # m.id
        BY <1>17, <1>21 DEF Apart
      <4>2. \E l \in 1 .. item - 1 : list[d][l].id = sets[d][k].id
        BY <1>14, <1>21 DEF Apart
      <4> QED BY <1>15, <4>1, <4>2
    <3>4. \A l \in 1 .. item :
            \/ list[d][l].id \in trained'[d]
            \/ \E k \in DOMAIN sets'[d] : sets'[d][k].id = list[d][l].id
      <4> SUFFICES ASSUME NEW l \in 1 .. item
                   PROVE  \/ list[d][l].id \in trained'[d]
                          \/ \E k \in DOMAIN sets[d] : sets[d][k].id = list[d][l].id
        BY <2>2
      <4>1. CASE l = item
        BY <2>2, <4>1 DEF m
      <4>2. CASE l # item
        <5>1. l \in 1 .. item - 1
          BY <1>15, <4>2
        <5> QED BY <1>14, <1>21, <2>2, <5>1 DEF Apart
      <4> QED BY <4>1, <4>2
    <3> QED BY <1>14, <1>20, <2>3, <3>1, <3>2, <3>3, <3>4 DEF Apart
  <2>5. ToScore(d)'
    BY <1>3, <1>6, <1>20, <1>21, <2>2 DEF ToScore
  <2>6. InRatio(d)'
    <3>1. R * b <= a * D
      BY <1>21, <2>1 DEF InRatio, R, D
    <3> HIDE DEF a, b
    <3>2. a \in Nat /\ b \in Nat
      BY <1>18 DEF a, b
    <3>3. R * b <= (a + 1) * D /\ (a + 1) * D < R * (b + 1) + D
      <4> DEFINE p == R * b
                 q == a * D
      <4>1. p \in Int /\ q \in Int /\ R * (b + 1) = p + R /\ (a + 1) * D = q + D
        BY <1>22, <3>2
      <4>2. p <= q /\ q < p + R
        BY <2>1, <3>1, <4>1 DEF a, b
      <4> HIDE DEF p, q
      <4>3. p <= q + D /\ q + D < (p + R) + D
        BY ONLY <1>19, <4>1, <4>2
      <4> QED BY <4>1, <4>3 DEF p, q
    <3>4. Len(sets'[d]) = b /\ Cardinality(trained'[d]) = a + 1 /\ T!RatioTimes(Len(list'[d])) = R
      BY <1>20, <2>2, <2>3 DEF a, b, R
    <3> QED BY <3>3, <3>4 DEF InRatio, D
  <2>7. TrainCounts'
    <3>1. job.ds_flag = "RAM" /\ job.kind = "mail"
      BY <2>1 DEF T!divvy
    <3>2. train = [t \in Word |-> [k \in Kinds |-> T!TrainedWith(t, k)]]
      BY <1>1, <3>1 DEF TrainCounts
    <3>3. ASSUME NEW t \in Word, NEW k \in Kinds
          PROVE  T!TrainedWith(t, k)' = IF k = d /\ t \in m.words THEN T!TrainedWith(t, k) + 1
                                        ELSE T!TrainedWith(t, k)
      <4>1. T!TrainedWith(t, k)' = Cardinality({i \in trained'[k] : t \in job.mails[k][i]})
        BY <1>20, SameOperators DEF T!TrainedWith
      <4>2. CASE k # d
        BY <1>9, <3>3, <4>1, <4>2, SameOperators DEF T!TrainedWith
      <4>3. CASE k = d /\ t \notin m.words
        <5>1. {i \in trained'[d] : t \in job.mails[d][i]} = {i \in trained[d] : t \in job.mails[d][i]}
          BY <1>23, <2>2, <3>1, <4>3
        <5> QED BY <4>1, <4>3, <5>1, SameOperators DEF T!TrainedWith
      <4>4. CASE k = d /\ t \in m.words
        <5> DEFINE O == {i \in trained[d] : t \in job.mails[d][i]}
        <5>1. {i \in trained'[d] : t \in job.mails[d][i]} = O \cup {m.id}
          BY <1>23, <2>2, <3>1, <4>4
        <5>2. IsFiniteSet(O) /\ m.id \notin O
          BY <1>17, <1>18, FS_Subset
        <5>3. Cardinality(O \cup {m.id}) = Cardinality(O) + 1
          BY <5>2, FS_AddElement
        <5> QED BY <4>1, <4>4, <5>1, <5>3, SameOperators DEF T!TrainedWith
      <4> QED BY <4>2, <4>3, <4>4
    <3>4. ASSUME NEW t \in Word PROVE train'[t] = [k \in Kinds |-> T!TrainedWith(t, k)']
      <4>1. train[t] = [k \in Kinds |-> T!TrainedWith(t, k)]
        BY <3>2
      <4>2. CASE t \in m.words
        <5>1. train'[t] = [train[t] EXCEPT ![d] = @ + 1]
          BY <1>24, <4>2
        <5>2. [train[t] EXCEPT ![d] = @ + 1] =
                [k \in Kinds |-> IF k = d THEN T!TrainedWith(t, k) + 1 ELSE T!TrainedWith(t, k)]
          BY <4>1
        <5> QED BY <3>3, <4>2, <5>1, <5>2
      <4>3. CASE t \notin m.words
        <5>1. train'[t] = train[t]
          BY <1>24, <4>3
        <5> QED BY <3>3, <4>1, <4>3, <5>1
      <4> QED BY <4>2, <4>3
    <3>5. train' = [t \in Word |-> train'[t]]
      BY <1>24
    <3>6. train' = [t \in Word |-> [k \in Kinds |-> T!TrainedWith(t, k)']]
      BY <3>4, <3>5
    <3>7. [t \in Word |-> [k \in Kinds |-> T!TrainedWith(t, k)]]' = [t \in Word |-> [k \in Kinds |-> T!TrainedWith(t, k)']]
      OBVIOUS
    <3>8. job'.ds_flag = "RAM"
      BY <1>20, <3>1
    <3> QED BY <3>6, <3>7, <3>8, Zenon DEF TrainCounts
  <2>8. sets'[d] \in Seq(ToSet(sets'[d])) /\ DividedOf(d)' \in 0 .. Len(list'[d]) /\ T!divvy'
    BY <1>6, <1>14, <1>15, <1>18, <1>20, <2>1, <2>2
  <2>9. Divided(d)'
    BY <2>4, <2>5, <2>6, <2>8 DEF Divided
  <2> QED BY <1>1, <1>2, <1>5, <1>10, <1>11, <2>7, <2>9 DEF TuneInv
<1>25. CASE ~T!ToTrain /\ UNCHANGED <<train, trained>> /\ sets' = [sets EXCEPT ![d] = Append(@, m)]
  <2> DEFINE a == Cardinality(trained[d])
             b == Len(sets[d])
  <2>1. sets'[d] = Append(sets[d], m) /\ trained' = trained
    BY <1>1, <1>25
  <2>2. /\ sets'[d] \in Seq(ToSet(sets'[d])) /\ Len(sets'[d]) = b + 1
        /\ DOMAIN sets'[d] = 1 .. b + 1 /\ DOMAIN sets[d] = 1 .. b /\ b \in Nat
        /\ \A i \in 1 .. b : sets'[d][i] = sets[d][i]
        /\ sets'[d][b + 1] = m
    BY <1>18, <2>1, Appended
  <2>3. a \in Nat /\ a + b = item - 1
    BY <1>18
  <2> HIDE DEF a, b
  <2>4. a + (b + 1) = item
    BY ONLY <1>2, <2>2, <2>3
  <2>5. (\A k \in 1 .. b + 1 : k # b + 1 => k \in 1 .. b) /\ 1 .. b \subseteq 1 .. b + 1 /\ b + 1 \in 1 .. b + 1
    BY ONLY <2>2
  <2>6. Apart(d)'
    <3>1. \A i \in trained[d] : \E l \in 1 .. item : list[d][l].id = i
      BY <1>14, <1>15, <1>21 DEF Apart
    <3>2. \A k \in 1 .. b + 1 :
            /\ IsMessage(sets'[d][k]) /\ sets'[d][k].id \notin trained[d]
            /\ \E l \in 1 .. item : list[d][l].id = sets'[d][k].id
      <4> SUFFICES ASSUME NEW k \in 1 .. b + 1
                   PROVE  /\ IsMessage(sets'[d][k]) /\ sets'[d][k].id \notin trained[d]
                          /\ \E l \in 1 .. item : list[d][l].id = sets'[d][k].id
        OBVIOUS
      <4>1. CASE k = b + 1
        <5>1. sets'[d][k] = m /\ IsMessage(m)
          BY <1>23, <2>2, <4>1
        <5> QED BY <1>15, <1>17, <5>1 DEF m
      <4>2. CASE k # b + 1
        <5>1. k \in DOMAIN sets[d] /\ sets'[d][k] = sets[d][k]
          BY <2>2, <2>5, <4>2
        <5> QED BY <1>14, <1>15, <1>21, <5>1 DEF Apart
      <4> QED BY <4>1, <4>2
    <3>3. \A l \in 1 .. item :
            \/ list[d][l].id \in trained[d]
            \/ \E k \in 1 .. b + 1 : sets'[d][k].id = list[d][l].id
      <4> SUFFICES ASSUME NEW l \in 1 .. item, list[d][l].id \notin trained[d]
                   PROVE  \E k \in 1 .. b + 1 : sets'[d][k].id = list[d][l].id
        OBVIOUS
      <4>1. CASE l = item
        BY <2>2, <2>5, <4>1 DEF m
      <4>2. CASE l # item
        <5>1. l \in 1 .. item - 1
          BY <1>15, <4>2
        <5>2. PICK k \in DOMAIN sets[d] : sets[d][k].id = list[d][l].id
          BY <1>14, <1>21, <5>1 DEF Apart
        <5> QED BY <2>2, <2>5, <5>2
      <4> QED BY <4>1, <4>2
    <3>4. Cardinality(trained'[d]) + Len(sets'[d]) = item
      BY <2>1, <2>2, <2>4 DEF a
    <3> QED BY <1>14, <1>18, <1>20, <2>1, <2>2, <3>1, <3>2, <3>3, <3>4 DEF Apart
  <2>7. ToScore(d)'
    <3> SUFFICES ASSUME job.kind = "mail", NEW k \in 1 .. b + 1
                 PROVE  /\ sets'[d][k].type = "props"
                        /\ sets'[d][k].words = job.mails[d][sets'[d][k].id]
      BY <1>3, <1>6, <1>20, <2>2 DEF ToScore
    <3>1. CASE k = b + 1
      BY <1>23, <2>2, <3>1
    <3>2. CASE k # b + 1
      <4>1. k \in DOMAIN sets[d] /\ sets'[d][k] = sets[d][k]
        BY <2>2, <2>5, <3>2
      <4> QED BY <1>3, <1>6, <1>21, <4>1 DEF ToScore
    <3> QED BY <3>1, <3>2
  <2>8. InRatio(d)'
    <3> SUFFICES ASSUME T!divvy
                 PROVE  /\ R * (b + 1) <= a * D
                        /\ trained[d] # {} => a * D < R * ((b + 1) + 1) + D
      BY <1>6, <1>20, <2>1, <2>2 DEF InRatio, R, D, a
    <3>1. ~(a * D < R * (b + 1))
      BY <1>8, <1>25 DEF a, b, R, D
    <3>2. trained[d] # {} => a * D < R * (b + 1) + D
      BY <1>21 DEF InRatio, a, b, R, D
    <3> DEFINE p == R * b
               q == a * D
    <3>3. p \in Int /\ q \in Int /\ R * (b + 1) = p + R /\ R * ((b + 1) + 1) = p + R + R
      BY <1>22, <2>2, <2>3
    <3>4. ~(q < p + R) /\ (trained[d] # {} => q < (p + R) + D)
      BY <3>1, <3>2, <3>3
    <3> HIDE DEF p, q
    <3>5. p + R <= q /\ (trained[d] # {} => q < (p + R + R) + D)
      BY ONLY <1>19, <3>3, <3>4
    <3> QED BY <3>3, <3>5 DEF p, q
  <2>9. TrainCounts'
    BY <1>1, <1>20, <1>25, <2>1 DEF TrainCounts, T!TrainedWith
  <2>10. DividedOf(d)' \in 0 .. Len(list'[d]) /\ (~T!divvy' => trained'[d] = {})
    BY <1>6, <1>14, <1>15, <1>20, <1>21, <2>1
  <2>11. Divided(d)'
    BY <2>2, <2>6, <2>7, <2>8, <2>10 DEF Divided
  <2> QED BY <1>1, <1>2, <1>5, <1>10, <1>11, <2>9, <2>11 DEF TuneInv
<1> QED BY <1>7, <1>24, <1>25

\* and CreateCountlists, which is why no score is of the pointers.
LEMMA ListsCopied == ASSUME T!TuningAssumption PROVE TuneInv /\ T!CreateCountlists => TuneInv'
<1> SUFFICES ASSUME TuneInv, T!CreateCountlists PROVE TuneInv'
  OBVIOUS
<1>1. /\ tpc = "convert" /\ job \in Inputs /\ item' = 1
      /\ class' = 3 - class /\ tpc' = (IF class = 1 THEN tpc ELSE "check")
      /\ UNCHANGED <<job, train, tmsgs, list, written, trained>>
      /\ DOMAIN list = Kinds /\ DOMAIN sets = Kinds /\ DOMAIN trained = Kinds
      /\ AtWork /\ TrainCounts
  BY DEF T!CreateCountlists, TuneInv, AtWork, T!EndOfClass
<1>2. class \in {1, 2}
  BY DEF TuneInv
<1>3. PICK d \in Kinds : d = T!C /\ Turn(d) = class /\ \A c \in Kinds : Turn(c) = class => c = d
  BY <1>2, ClassNames DEF Turn, T!C, Kinds
<1>4. \A c \in Kinds : InList(c) /\ Divided(c)
  BY <1>1 DEF TuneInv
<1>5. \/ class = 1 /\ class' = 2 /\ tpc' = "convert"
      \/ class = 2 /\ class' = 1 /\ tpc' = "check"
  BY <1>1, <1>2
<1>6. list' = list /\ job' = job /\ trained' = trained /\ train' = train
  BY <1>1
<1>7. ASSUME NEW c \in Kinds PROVE ReadOf(c)' = ReadOf(c) /\ DividedOf(c)' = DividedOf(c)
  BY <1>1, <1>5 DEF ReadOf, DividedOf
<1>8. ASSUME NEW c \in Kinds PROVE InList(c)'
  <2>1. InList(c) /\ ReadOf(c)' = ReadOf(c) /\ job' = job /\ list' = list
    BY <1>4, <1>6, <1>7
  <2> QED BY <2>1 DEF InList
<1>9. T!divvy' <=> T!divvy
  BY <1>6 DEF T!divvy
<1>10. TrainCounts'
  BY <1>1, <1>6 DEF TrainCounts, T!TrainedWith
<1>11. ~Copied(d) /\ Copied(d)'
  <2>1. Turn(d) = class /\ Turn(d)' = class
    BY <1>3 DEF Turn
  <2>2. ~(class < class) /\ 1 < 2
    BY <1>2
  <2>3. ~Copied(d)
    BY <1>1, <2>1, <2>2 DEF Copied
  <2>4. Copied(d)'
    <3>1. CASE class = 1 /\ class' = 2 /\ tpc' = "convert"
      <4>1. Turn(d)' < class'
        BY <2>1, <3>1
      <4> QED BY <3>1, <4>1, Zenon DEF Copied
    <3>2. CASE tpc' = "check"
      BY <3>2 DEF Copied
    <3> QED BY <1>5, <3>1, <3>2
  <2> QED BY <2>3, <2>4
<1>12. ASSUME NEW c \in Kinds, c # d PROVE Divided(c)'
  <2>1. Copied(c)' <=> Copied(c)
    <3>1. Turn(c)' = Turn(c) /\ Turn(c) \in {1, 2} /\ Turn(c) # class
      BY <1>3, <1>12 DEF Turn
    <3>2. CASE class = 1 /\ class' = 2 /\ tpc' = "convert"
      <4>1. Turn(c) = 2
        BY <3>1, <3>2
      <4> QED BY <1>1, <3>1, <3>2, <4>1 DEF Copied
    <3>3. CASE class = 2 /\ class' = 1 /\ tpc' = "check"
      <4>1. Turn(c) = 1
        BY <3>1, <3>3
      <4>2. Turn(c) < class
        BY <3>3, <4>1
      <4>3. Copied(c)
        BY <1>1, <4>2, Zenon DEF Copied
      <4>4. Copied(c)'
        BY <3>3 DEF Copied
      <4> QED BY <4>3, <4>4
    <3> QED BY <1>5, <3>2, <3>3
  <2>2. Divided(c) /\ sets'[c] = sets[c]
    BY <1>1, <1>3, <1>4, <1>12 DEF T!CreateCountlists
  <2>3. Apart(c)'
    BY <1>6, <1>7, <2>2 DEF Divided, Apart
  <2>4. ToScore(c)'
    BY <1>6, <2>1, <2>2 DEF Divided, ToScore
  <2>5. InRatio(c)'
    BY <1>6, <1>9, <2>2 DEF Divided, InRatio, T!RatioTimes
  <2> QED BY <1>6, <1>7, <1>9, <2>2, <2>3, <2>4, <2>5 DEF Divided
<1>13. DOMAIN sets' = Kinds /\ sets'[d] = [k \in DOMAIN sets[d] |-> T!Countlist(sets[d][k])]
  BY <1>1, <1>3 DEF T!CreateCountlists
<1>14. /\ sets[d] \in Seq(ToSet(sets[d])) /\ Len(sets[d]) \in Nat
       /\ DOMAIN sets[d] = 1 .. Len(sets[d])
  BY <1>4, LenProperties DEF Divided
<1>15. DOMAIN sets'[d] = DOMAIN sets[d] /\ \A k \in DOMAIN sets[d] : sets'[d][k] = T!Countlist(sets[d][k])
  BY <1>13
<1>16. sets'[d] \in Seq(ToSet(sets'[d])) /\ Len(sets'[d]) = Len(sets[d])
  <2> DEFINE f == sets'[d]
             n == Len(sets[d])
             S == {T!Countlist(sets[d][k]) : k \in DOMAIN sets[d]}
  <2>1. f \in [1 .. n -> S]
    BY <1>13, <1>14
  <2>2. n \in Nat
    BY <1>14
  <2> HIDE DEF f, n, S
  <2>3. f \in Seq(ToSet(f)) /\ Len(f) = n
    BY <2>1, <2>2, OfItself
  <2> QED BY <2>3 DEF f, n
<1>17. ASSUME NEW m, IsMessage(m)
       PROVE  LET n == T!Countlist(m)
              IN /\ IsMessage(n) /\ n.id = m.id /\ n.words = m.words
                 /\ m.type = "props" => n.cnts = [t \in m.words |-> train[t]]
  <2>1. CASE m.type = "cnts"
    BY <1>17, <2>1 DEF T!Countlist
  <2>2. CASE m.type # "cnts"
    <3> DEFINE v == [t \in m.words |-> train[t]]
    <3>1. T!Countlist(m) = [m EXCEPT !.type = "cnts", !.cnts = v]
      BY <2>2 DEF T!Countlist
    <3> HIDE DEF v
    <3>2. T!Countlist(m) = [id |-> m.id, type |-> "cnts", words |-> m.words, cnts |-> v]
      BY <1>17, <3>1 DEF IsMessage
    <3> QED BY <3>2 DEF IsMessage, v
  <2> QED BY <2>1, <2>2
<1>18. Apart(d) /\ ToScore(d) /\ InRatio(d) /\ (~T!divvy => trained[d] = {})
       /\ DividedOf(d) \in 0 .. Len(list[d])
  BY <1>4 DEF Divided
<1>19. \A k \in DOMAIN sets[d] : /\ IsMessage(sets'[d][k]) /\ sets'[d][k].id = sets[d][k].id
                                 /\ sets'[d][k].words = sets[d][k].words
  BY <1>15, <1>17, <1>18 DEF Apart
<1>20. Apart(d)'
  BY <1>6, <1>7, <1>15, <1>16, <1>18, <1>19 DEF Apart
<1>21. ToScore(d)'
  <2> SUFFICES ASSUME job.kind = "mail", NEW k \in DOMAIN sets[d]
               PROVE  /\ sets'[d][k].words = job.mails[d][sets'[d][k].id]
                      /\ sets'[d][k].cnts = [t \in sets'[d][k].words |-> train[t]]
    BY <1>6, <1>11, <1>15 DEF ToScore
  <2>1. sets[d][k].words = job.mails[d][sets[d][k].id] /\ sets[d][k].type = "props"
    BY <1>11, <1>18 DEF ToScore
  <2>2. IsMessage(sets[d][k])
    BY <1>18 DEF Apart
  <2> QED BY <1>15, <1>17, <1>19, <2>1, <2>2
<1>22. InRatio(d)'
  BY <1>6, <1>9, <1>16, <1>18 DEF InRatio, T!RatioTimes
<1>23. Divided(d)'
  BY <1>6, <1>7, <1>9, <1>16, <1>18, <1>20, <1>21, <1>22 DEF Divided
<1> QED BY <1>1, <1>5, <1>6, <1>8, <1>10, <1>12, <1>13, <1>23 DEF TuneInv, AtWork

\* So it always holds.
LEMMA TuneInvariance == ASSUME T!TuningAssumption PROVE T!Spec => []TuneInv
<1>1. T!Init => TuneInv
  BY TuneStarts
<1>2. TuneInv /\ [T!Next]_(T!vars) => TuneInv'
  <2> SUFFICES ASSUME TuneInv, [T!Next]_(T!vars) PROVE TuneInv'
    OBVIOUS
  <2>1. CASE T!Next
    BY <2>1, Loaded, Converted, MessageRead, FilesEnded, MessageDivided, DivisionEnded,
       ListsCopied, Checked DEF T!Next
  <2>2. CASE UNCHANGED T!vars
    <3>1. tpc' = tpc /\ class' = class /\ item' = item /\ UNCHANGED <<job, train, tmsgs, list, sets, written, trained>>
      BY <2>2 DEF T!vars
    <3>2. AtWork => (TrainCounts /\ \A c \in Kinds : InList(c) /\ Divided(c))'
      <4> SUFFICES ASSUME AtWork PROVE (TrainCounts /\ \A c \in Kinds : InList(c) /\ Divided(c))'
        OBVIOUS
      <4>1. \A c \in Kinds : /\ ReadOf(c)' = ReadOf(c) /\ DividedOf(c)' = DividedOf(c)
                             /\ Copied(c)' <=> Copied(c)
        BY <3>1 DEF ReadOf, DividedOf, Copied, Passed, Turn
      <4> QED BY <3>1, <4>1, Unmoved
    <3>3. Converts => Converts'
      BY <3>1 DEF Converts
    <3>4. Fresh => Fresh'
      BY <3>1 DEF Fresh
    <3> QED BY <3>1, <3>2, <3>3, <3>4 DEF TuneInv, AtWork
  <2> QED BY <2>1, <2>2
<1> QED BY <1>1, <1>2, PTL DEF T!Spec


\* Of ListCount + TestCount messages and more, in the ratio of scale within one,
\* at least ListCount are trained on and TestCount are scored.
LEMMA EnoughForBoth ==
    ASSUME NEW m \in Nat, NEW test \in Nat, NEW k \in Nat, m > 1, test > 0, k <= m * test - test,
           NEW a \in Nat, NEW b \in Nat, a + b = m * test + test + k,
           (m * test - k) * b <= a * test,
           a # 0 => a * test < (m * test - k) * (b + 1) + test
    PROVE  a >= m * test /\ b >= test
<1> DEFINE L == m * test
           q == L - k
<1>1. L \in Nat /\ L - test \in Nat
  <2>1. L \in Int /\ L = (m - 1) * test + test
    OBVIOUS
  <2>2. (m - 1) * test >= 0
    OBVIOUS
  <2> QED BY <2>1, <2>2
<1>2. /\ k <= L - test /\ a + b = L + test + k /\ q * b <= a * test
      /\ (a # 0 => a * test < q * (b + 1) + test)
  OBVIOUS
<1> HIDE DEF L
<1>3. q \in Int /\ q >= test
  BY <1>1, <1>2
<1>4. \A p \in Int : \A x, y \in Int : p >= 0 /\ x <= y => p * x <= p * y
  <2> SUFFICES ASSUME NEW p \in Int, NEW x \in Int, NEW y \in Int, p >= 0, x <= y PROVE p * x <= p * y
    OBVIOUS
  <2>1. p * (y - x) >= 0 /\ p * (y - x) = p * y - p * x
    OBVIOUS
  <2>2. p * x \in Int /\ p * y \in Int
    OBVIOUS
  <2> QED BY <2>1, <2>2
<1>5. a >= L
  <2> SUFFICES ASSUME a <= L - 1 PROVE FALSE
    BY <1>1
  <2>1. test + k + 1 <= b
    BY <1>1, <1>2
  <2>2. q * (test + k + 1) <= q * b
    BY <1>3, <1>4, <2>1
  <2>3. test * a <= test * (L - 1) /\ a * test = test * a
    BY <1>1, <1>4
  <2>4. q * (test + k + 1) = L * test + k * (L - test - k) + (L - k)
    BY <1>1
  <2>5. k * (L - test - k) >= 0
    BY <1>1, <1>2, <1>4
  <2>6. test * (L - 1) = L * test - test
    BY <1>1
  <2> DEFINE x == L * test
             y == k * (L - test - k)
  <2>7. x \in Int /\ y \in Int /\ q * b \in Int /\ a * test \in Int
    BY <1>1, <1>3
  <2> DEFINE v == q * b
             z == a * test
  <2>8. x + y + (L - k) <= v /\ v <= z /\ z <= x - test
    <3>1. v <= z
      BY <1>2
    <3>2. z <= x - test
      <4>1. z = test * a /\ test * (L - 1) = x - test
        BY <2>3, <2>6
      <4> QED BY <2>3, <4>1
    <3>3. x + y + (L - k) <= v
      BY <2>2, <2>4
    <3> QED BY <3>1, <3>2, <3>3
  <2> HIDE DEF x, y, v, z
  <2>9. x \in Int /\ y \in Int /\ v \in Int /\ z \in Int
    BY <2>7 DEF x, y, v, z
  <2>10. y >= 0
    BY <2>5 DEF y
  <2>11. L - k \in Int /\ L - k >= 0
    BY ONLY <1>1, <1>2
  <2>12. test \in Nat /\ test > 0
    OBVIOUS
  <2> QED BY ONLY <2>8, <2>9, <2>10, <2>11, <2>12
<1>6. b >= test
  <2> SUFFICES ASSUME b + 1 <= test PROVE FALSE
    OBVIOUS
  <2>1. q * (b + 1) <= q * test
    BY <1>3, <1>4
  <2>2. a >= L + k + 1 /\ a # 0
    BY <1>1, <1>2
  <2>3. test * (L + k + 1) <= test * a /\ test * a = a * test
    BY <1>1, <1>4, <2>2
  <2>4. test * (L + k + 1) = test * L + test * k + test /\ q * test = test * L - test * k
    BY <1>1
  <2>5. test * k >= 0 /\ test * L \in Int /\ test * k \in Int /\ a * test \in Int /\ q * (b + 1) \in Int
    BY <1>1, <1>3
  <2>6. a * test < q * (b + 1) + test
    BY <1>2, <2>2
  <2> DEFINE x == test * L
             y == test * k
             z == a * test
             w == q * (b + 1)
  <2>7. x + y + test <= z /\ w <= x - y /\ z < w + test /\ y >= 0
    BY <2>1, <2>3, <2>4, <2>5, <2>6
  <2>8. x \in Int /\ y \in Int /\ z \in Int /\ w \in Int
    BY <2>5
  <2> HIDE DEF x, y, z, w
  <2> QED BY <2>7, <2>8
<1> QED BY <1>5, <1>6 DEF L

\* What the invariant says of the messages when they are scored,
LEMMA AllScored == ASSUME T!TuningAssumption PROVE TuneInv => T!ScoredByTraining
<1> SUFFICES ASSUME TuneInv, tpc = "score"
             PROVE  \A c \in T!ToSet(T!Classes) :
                      /\ T!Scored(c) \cap trained[c] = {}
                      /\ T!Scored(c) \cup trained[c]
                           = {i \in DOMAIN job.mails[c] : job.mails[c][i] # {}}
                      /\ job.kind = "mail" =>
                           \A m \in T!ToSet(sets[c]) : \A t \in m.words :
                              m.cnts[t] = IF job.ds_flag = "DSK" THEN job.wordlist.count[t]
                                          ELSE [d \in T!ToSet(T!Classes) |-> T!TrainedWith(t, d)]
  BY DEF T!ScoredByTraining
<1>1. T!ToSet(T!Classes) = Kinds
  BY ClassNames DEF Kinds
<1>2. AtWork /\ TrainCounts /\ \A c \in Kinds : InList(c) /\ Divided(c)
  BY DEF AtWork, TuneInv
<1>3. job \in Inputs /\ job.ds_flag \in {"DSK", "RAM"} /\ job.mails \in [Kinds -> Seq(SUBSET Word)]
  BY <1>1 DEF TuneInv, T!TuningAssumption
<1> SUFFICES ASSUME NEW c \in Kinds
             PROVE  /\ T!Scored(c) \cap trained[c] = {}
                    /\ T!Scored(c) \cup trained[c]
                         = {i \in DOMAIN job.mails[c] : job.mails[c][i] # {}}
                    /\ job.kind = "mail" =>
                         \A m \in T!ToSet(sets[c]) : \A t \in m.words :
                            m.cnts[t] = IF job.ds_flag = "DSK" THEN job.wordlist.count[t]
                                        ELSE [d \in T!ToSet(T!Classes) |-> T!TrainedWith(t, d)]
  BY <1>1
<1>4. InList(c) /\ Apart(c) /\ ToScore(c)
  BY <1>2 DEF Divided
<1>5. /\ ReadOf(c) = Len(job.mails[c]) /\ DividedOf(c) = Len(list[c]) /\ Copied(c)
      /\ job.mails[c] \in Seq(SUBSET Word)
  BY <1>3 DEF ReadOf, DividedOf, Copied
<1>6. /\ DOMAIN list[c] = 1 .. Len(list[c])
      /\ DOMAIN job.mails[c] = 1 .. Len(job.mails[c])
  BY <1>4, <1>5, LenProperties DEF InList
<1>7. T!Scored(c) = {sets[c][k].id : k \in DOMAIN sets[c]}
  BY DEF T!Scored, T!ToSet
<1>8. T!Scored(c) \cap trained[c] = {}
  BY <1>4, <1>7 DEF Apart
<1>9. ASSUME NEW i \in T!Scored(c) \cup trained[c]
      PROVE  i \in DOMAIN job.mails[c] /\ job.mails[c][i] # {}
  <2>1. \E l \in DOMAIN list[c] : list[c][l].id = i
    <3>1. CASE i \in trained[c]
      BY <1>4, <1>5, <1>6, <3>1 DEF Apart
    <3>2. CASE \E k \in DOMAIN sets[c] : i = sets[c][k].id
      BY <1>4, <1>5, <1>6, <3>2 DEF Apart
    <3> QED BY <1>7, <3>1, <3>2
  <2> QED BY <1>4, <1>5, <1>6, <2>1 DEF InList
<1>10. ASSUME NEW i \in DOMAIN job.mails[c], job.mails[c][i] # {}
       PROVE  i \in T!Scored(c) \cup trained[c]
  <2>1. PICK l \in DOMAIN list[c] : list[c][l].id = i
    BY <1>4, <1>5, <1>6, <1>10 DEF InList
  <2>2. \/ i \in trained[c]
        \/ \E k \in DOMAIN sets[c] : sets[c][k].id = i
    BY <1>4, <1>5, <1>6, <2>1 DEF Apart
  <2> QED BY <1>7, <2>2
<1>11. ASSUME job.kind = "mail", NEW k \in DOMAIN sets[c], NEW t \in sets[c][k].words
       PROVE  sets[c][k].cnts[t] = IF job.ds_flag = "DSK" THEN job.wordlist.count[t]
                                   ELSE [d \in T!ToSet(T!Classes) |-> T!TrainedWith(t, d)]
  <2>1. /\ sets[c][k].words = job.mails[c][sets[c][k].id]
        /\ sets[c][k].cnts = [u \in sets[c][k].words |-> train[u]]
    BY <1>4, <1>5, <1>11 DEF ToScore
  <2>2. sets[c][k].id \in DOMAIN job.mails[c]
    BY <1>7, <1>9
  <2>3. job.mails[c][sets[c][k].id] \in SUBSET Word
    BY <1>5, <1>6, <2>2, ElementOfSeq
  <2>4. t \in Word /\ sets[c][k].cnts[t] = train[t]
    BY <2>1, <2>3, <1>11
  <2>5. CASE job.ds_flag = "DSK"
    BY <1>2, <2>4, <2>5 DEF TrainCounts
  <2>6. CASE job.ds_flag = "RAM"
    <3>1. train = [u \in Word |-> [d \in Kinds |-> T!TrainedWith(u, d)]]
      BY <1>2, <2>6 DEF TrainCounts
    <3>2. train[t] = [d \in Kinds |-> T!TrainedWith(t, d)]
      BY <2>4, <3>1
    <3> QED BY <1>1, <2>4, <2>6, <3>2
  <2> QED BY <1>3, <2>5, <2>6
<1> QED BY <1>8, <1>9, <1>10, <1>11 DEF T!ToSet

\* of how many there are of both kinds,
LEMMA BothHaveEnough == ASSUME T!TuningAssumption PROVE TuneInv => T!EnoughOfBoth
<1> SUFFICES ASSUME TuneInv, tpc = "score", T!divvy, NEW c \in Kinds, Len(list[c]) >= ListCount + TestCount
             PROVE  Cardinality(trained[c]) >= ListCount /\ Len(sets[c]) >= TestCount
  BY ClassNames, SameOperators DEF T!EnoughOfBoth, Kinds
<1> DEFINE n == Len(list[c])
           a == Cardinality(trained[c])
           b == Len(sets[c])
           m == ListCount \div TestCount
           test == TestCount
           D == ListCount - TestCount
           R == T!RatioTimes(n)
<1>1. InList(c) /\ Divided(c) /\ DividedOf(c) = n
  BY DEF TuneInv, AtWork, DividedOf
<1>2. n \in Nat /\ b \in Nat /\ a \in Nat /\ IsFiniteSet(trained[c]) /\ a + b = n
  BY <1>1, LenProperties, FS_CardinalityType DEF InList, Divided, Apart
<1>3. trained[c] = {} => a = 0
  BY FS_EmptySet
<1>4. R * b <= a * D /\ (a # 0 => a * D < R * (b + 1) + D)
  BY <1>1, <1>3 DEF Divided, InRatio
<1>5. /\ m \in Nat /\ m > 1 /\ ListCount = m * test /\ test \in Nat /\ test > 0 /\ ListCount \in Nat
      /\ R \in Int
  BY <1>2, RatioGrows, RatioTyped DEF T!TuningAssumption
<1>6. n >= ListCount + TestCount
  OBVIOUS
<1>7. R = IF n > 2 * ListCount THEN D ELSE m * D - (m - 1) * (n - ListCount - TestCount)
  <2>1. ~(n < ListCount + TestCount)
    BY ONLY <1>2, <1>5, <1>6
  <2> QED BY <2>1 DEF T!RatioTimes
<1> HIDE DEF n, a, b, m, R
<1>8. D = (m - 1) * test /\ D \in Nat /\ D > 0
  <2>1. D = m * test - test
    BY <1>5
  <2>2. m * test - test = (m - 1) * test /\ (m - 1) * test \in Int /\ (m - 1) * test > 0
    BY ONLY <1>5
  <2> QED BY <2>1, <2>2
<1>9. CASE n > 2 * ListCount
  <2>1. R = D
    BY <1>7, <1>9
  <2>2. D * b <= a * D /\ (a # 0 => a * D < D * (b + 1) + D)
    BY <1>4, <2>1
  <2>3. b <= a
    BY ONLY <1>2, <1>8, <2>2
  <2>4. a # 0 => a <= b + 1
    <3> SUFFICES ASSUME a # 0, a >= b + 2 PROVE FALSE
      BY <1>2
    <3>1. a * D >= (b + 2) * D
      BY <1>2, <1>8
    <3>2. (b + 2) * D = D * (b + 1) + D
      BY <1>2, <1>8
    <3> QED BY <1>2, <1>8, <2>2, <3>1, <3>2
  <2>5. test <= ListCount
    BY DEF T!TuningAssumption
  <2>6. a >= ListCount /\ b >= ListCount
    BY ONLY <1>2, <1>5, <1>9, <2>3, <2>4
  <2> QED BY <1>2, <1>5, <2>5, <2>6 DEF a, b
<1>10. CASE n <= 2 * ListCount
  <2> DEFINE k == n - ListCount - test
  <2>1. k \in Nat /\ n = ListCount + test + k /\ k <= ListCount - test
    BY ONLY <1>2, <1>5, <1>6, <1>10
  <2>2. R = m * D - (m - 1) * k
    <3>1. ~(n > 2 * ListCount)
      BY ONLY <1>2, <1>5, <1>10
    <3> QED BY <1>7, <3>1
  <2> HIDE DEF k
  <2> DEFINE q == m * test - k
             p == m - 1
  <2>3. R = p * q /\ p \in Nat /\ p > 0 /\ q \in Int /\ D = p * test
    BY <1>5, <1>8, <2>1, <2>2
  <2> HIDE DEF p, q
  <2>4. q * b <= a * test
    <3>1. p * (q * b) <= p * (a * test)
      <4>1. R * b = p * (q * b) /\ a * D = p * (a * test)
        BY ONLY <1>2, <1>5, <2>3
      <4> QED BY <1>4, <4>1
    <3>2. q * b \in Int /\ a * test \in Int
      BY ONLY <1>2, <1>5, <2>3
    <3> QED BY ONLY <2>3, <3>1, <3>2
  <2>5. a # 0 => a * test < q * (b + 1) + test
    <3> SUFFICES ASSUME a # 0 PROVE a * test < q * (b + 1) + test
      OBVIOUS
    <3>1. p * (a * test) < p * (q * (b + 1) + test)
      <4>1. a * D = p * (a * test) /\ R * (b + 1) + D = p * (q * (b + 1) + test)
        BY ONLY <1>2, <1>5, <2>3
      <4> QED BY <1>4, <4>1
    <3>2. q * (b + 1) + test \in Int /\ a * test \in Int
      BY ONLY <1>2, <1>5, <2>3
    <3> QED BY ONLY <2>3, <3>1, <3>2
  <2>6. a + b = m * test + test + k /\ k <= m * test - test
    BY <1>2, <1>5, <2>1
  <2>7. a >= m * test /\ b >= test
    BY <1>2, <1>5, <2>1, <2>4, <2>5, <2>6, EnoughForBoth DEF q
  <2> QED BY <1>5, <2>7 DEF a, b
<1> QED BY <1>2, <1>5, <1>9, <1>10

\* and of the message count files.
LEMMA CountsWritten == ASSUME T!TuningAssumption PROVE TuneInv => T!CountsAsInMail
<1> SUFFICES ASSUME TuneInv, tpc = "end" PROVE T!CountsAsInMail
  BY DEF T!CountsAsInMail
<1>1. Converts
  BY DEF TuneInv
<1> QED BY <1>1 DEF Converts, T!CountsAsInMail

\* For any words, messages and wordlist, and any numbers that bogotune needs: a
\* message is scored with what the training messages of both classes, or the
\* wordlist, say of its tokens, with nothing of itself or of another message that
\* is scored; of enough messages enough are trained on and enough are scored; and
\* a message count file says what the wordlist says (distribute, create_countlists
\* and write_msgcount_file in bogotune.c).
THEOREM MessagesTuned ==
    ASSUME T!TuningAssumption
    PROVE  T!Spec => [](T!ScoredByTraining /\ T!EnoughOfBoth /\ T!CountsAsInMail)
<1>1. TuneInv => T!ScoredByTraining /\ T!EnoughOfBoth /\ T!CountsAsInMail
  BY AllScored, BothHaveEnough, CountsWritten
<1>2. T!Spec => []TuneInv
  BY TuneInvariance
<1> QED BY <1>1, <1>2, PTL
=============================================================================
