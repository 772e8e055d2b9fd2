---------------------------- MODULE StorageProofs ----------------------------
(***************************************************************************)
(* The LMDB store implements AtomicStore however often the map was full,   *)
(* and only the limit of the address space makes it give up, where no      *)
(* replay had a rewritten key; the upgrade of a list of QDBM never loses   *)
(* it, processes that use a list of Berkeley DB agree on its mode, and the *)
(* layer above the stores gives back what it was given: for any files,     *)
(* lists, processes and values.                                            *)
(***************************************************************************)
EXTENDS MCStorage, SequenceTheorems, FiniteSetTheorems, TLAPS

-----------------------------------------------------------------------------
(* LmdbStore *)

\* The chunks in the order they were made; entry i of chunk k, and those made
\* before the place <<m, j>>.
Chunks(p) == InOrder(cache[p])
IsEntry(c, k, i) == k \in 1..Len(c) /\ i \in 1..Len(c[k])
Before(k, i, m, j) == k < m \/ (k = m /\ i < j)

\* What the entries before <<m, j>> make of a list, the last one for a word
\* counts.
LastFor(c, m, j, w, k, i) ==
  /\ IsEntry(c, k, i) /\ Before(k, i, m, j) /\ c[k][i].key = w
  /\ \A l, h \in Nat : IsEntry(c, l, h) /\ Before(l, h, m, j) /\ Before(k, i, l, h) => c[l][h].key # w

MadeOf(c, m, j, base, list) ==
  \A w \in Word :
    \/ /\ list[w] = base[w]
       /\ \A k, i \in Nat : IsEntry(c, k, i) /\ Before(k, i, m, j) => c[k][i].key # w
    \/ \E k, i \in Nat : LastFor(c, m, j, w, k, i) /\ list[w] = c[k][i].val

\* Where a replay can be, and where it goes from there.
IsPlace(c, m, j) == IsEntry(c, m, j) \/ (m = Len(c) + 1 /\ j = 1)

\* The pages the entries before <<m, j>> take.
Taking(c, m, j) == {s \in Entries(c) : Before(s[1], s[2], m, j) /\ c[s[1]][s[2]].need = 1}
Pages(c, m, j) == Cardinality(Taking(c, m, j))

-----------------------------------------------------------------------------
\* The chunks are not empty; what the caller asked for is what the cache says
\* while its keys are intact; a transaction shows it on top of the list, a replay
\* what the cache says, as far as it has come.
CacheIsAsked ==
  \A p \in Proc :
    /\ \A k \in 1..Len(cache[p]) : cache[p][k] # <<>>
    /\ keys[p] = "intact" => MadeOf(Chunks(p), Len(cache[p]) + 1, 1, Nothing, asked[p])

ViewIsMade ==
  \A p \in Proc :
    pc[p] = "replaying" => /\ IsPlace(Chunks(p), pos[p][1], pos[p][2])
                           /\ MadeOf(Chunks(p), pos[p][1], pos[p][2], disk, view[p])

LmdbInv == /\ TypeOK /\ WriterAlone /\ TakesRoom /\ TidyOutside
           /\ CacheIsAsked /\ ViewIsAsked /\ ViewIsMade

\* Of a process nobody overtook: what it takes fits the map that was full, so
\* that one unit more is enough to play the cache and try again.
All(p) == used + Pages(Chunks(p), Len(cache[p]) + 1, 1)

RoomFor(p) ==
  /\ pc[p] = "txn" => room[p] = All(p) /\ (op[p] # None => All(p) < map[p])
  /\ pc[p] = "full" => All(p) <= map[p]
  /\ pc[p] \in {"resized", "replaying"} => All(p) < map[p]
  /\ pc[p] = "replaying" => room[p] = used + Pages(Chunks(p), pos[p][1], pos[p][2])

RoomIsMade ==
  \A p \in Proc : /\ map[p] <= Larger(size, dbsize[p])
                  /\ p \notin overtaken /\ ~rdonly[p] => RoomFor(p)

\* What it deletes is there to be deleted again, under the keys it asked for.
Deletes(c, base) ==
  \A k, i \in Nat :
    IsEntry(c, k, i) /\ c[k][i].val = Absent =>
      \A list \in List : MadeOf(c, k, i, base, list) => list[c[k][i].key] # Absent

DeletedWasThere ==
  \A p \in Proc \ overtaken : keys[p] = "intact" => Deletes(Chunks(p), disk)

LimitInv == LmdbInv /\ RoomIsMade /\ DeletedWasThere

-----------------------------------------------------------------------------
(* The order of the entries.                                               *)

After(c, m, j) == IF j < Len(c[m]) THEN <<m, j + 1>> ELSE <<m + 1, 1>>

\* d is c with one more entry, e at the place <<m, j>> after all others.
Extends(c, d, m, j, e) ==
  /\ m = Len(d) /\ IsEntry(d, m, j) /\ j = Len(d[m]) /\ d[m][j] = e
  /\ \A k, i \in Nat : IsEntry(d, k, i) <=> IsEntry(c, k, i) \/ (k = m /\ i = j)
  /\ \A k, i \in Nat : IsEntry(c, k, i) => d[k][i] = c[k][i] /\ Before(k, i, m, j)
                                         /\ Before(k, i, Len(c) + 1, 1)

\* The stack, read from its bottom.
LEMMA Reversed ==
    ASSUME NEW S, NEW c \in Seq(S)
    PROVE  /\ Len(InOrder(c)) = Len(c)
           /\ \A k \in 1..Len(c) : InOrder(c)[k] = c[Len(c) - k + 1]
BY DEF InOrder, Reverse

\* The order the chunks are replayed in is the order the entries were made in
\* (a_bflm_txn_cache_put, a_bflm_txn__replay).
LEMMA PutAtEnd ==
    ASSUME NEW c \in Seq(Seq(Entry)), NEW e \in Entry,
           \A k \in 1..Len(c) : c[k] # <<>>
    PROVE  /\ CachePut(c, e) \in Seq(Seq(Entry))
           /\ \A k \in 1..Len(CachePut(c, e)) : CachePut(c, e)[k] # <<>>
           /\ \E m, j \in Nat : Extends(InOrder(c), InOrder(CachePut(c, e)), m, j, e)
<1> DEFINE b == InOrder(c)
           put == CachePut(c, e)
           d == InOrder(put)
<1>3. c # <<>> => Head(c) = c[1] /\ c[1] \in Seq(Entry) /\ Len(c[1]) \in Nat /\ Len(c) > 0
  OBVIOUS
<1>4. ChunkSize \in Nat
  BY LmdbAssumption
<1>1. CASE c = <<>> \/ Len(Head(c)) >= ChunkSize
  <2>1. CachePut(c, e) = <<<<e>>>> \o c
    BY <1>1 DEF CachePut
  <2>2. <<e>> \in Seq(Entry) /\ <<e>> # <<>> /\ Len(<<e>>) = 1 /\ <<e>>[1] = e
    OBVIOUS
  <2>3. /\ put \in Seq(Seq(Entry)) /\ Len(put) = Len(c) + 1
        /\ put[1] = <<e>>
        /\ \A k \in 2..Len(c) + 1 : put[k] = c[k - 1]
    BY <2>1, <2>2
  <2> HIDE DEF put
  <2>4. ASSUME NEW k \in 1..Len(put) PROVE put[k] # <<>>
    <3>1. CASE k = 1
      BY <3>1, <2>2, <2>3
    <3>2. CASE k # 1
      <4>1. k \in 2..Len(c) + 1 /\ k - 1 \in 1..Len(c)
        BY <3>2, <2>3
      <4> QED  BY <4>1, <2>3
    <3> QED  BY <3>1, <3>2
  <2>5. Len(b) = Len(c) /\ \A k \in 1..Len(c) : b[k] = c[Len(c) - k + 1]
    BY Reversed
  <2>6. Len(d) = Len(put) /\ \A k \in 1..Len(put) : d[k] = put[Len(put) - k + 1]
    BY <2>3, Reversed
  <2> HIDE DEF b, d
  <2> DEFINE n == Len(c)
  <2>7. n \in Nat /\ Len(b) = n /\ Len(d) = n + 1
    BY <2>3, <2>5, <2>6
  <2>8. d[n + 1] = <<e>>
    <3>1. n + 1 \in 1..Len(put) /\ Len(put) - (n + 1) + 1 = 1
      BY <2>3, <2>7
    <3> QED  BY <3>1, <2>3, <2>6
  <2>9. ASSUME NEW k \in 1..n PROVE d[k] = b[k]
    <3> DEFINE q == Len(put) - k + 1
    <3>1. k \in 1..Len(put) /\ k \in 1..Len(c) /\ q \in 2..Len(c) + 1 /\ q - 1 = Len(c) - k + 1
      BY <2>3, <2>7
    <3>2. d[k] = put[q]
      BY <3>1, <2>6
    <3> HIDE DEF q
    <3>3. put[q] = c[q - 1]
      BY <3>1, <2>3
    <3> QED  BY <3>1, <3>2, <3>3, <2>5
  <2> HIDE DEF n
  <2>10. \A k, i \in Nat : IsEntry(d, k, i) <=> IsEntry(b, k, i) \/ (k = n + 1 /\ i = 1)
    <3> SUFFICES ASSUME NEW k \in Nat, NEW i \in Nat
                 PROVE  IsEntry(d, k, i) <=> IsEntry(b, k, i) \/ (k = n + 1 /\ i = 1)
      OBVIOUS
    <3>1. CASE k = n + 1
      BY <3>1, <2>2, <2>7, <2>8 DEF IsEntry
    <3>2. CASE k # n + 1
      BY <3>2, <2>7, <2>9 DEF IsEntry
    <3> QED  BY <3>1, <3>2
  <2>11. Extends(b, d, n + 1, 1, e)
    BY <2>2, <2>7, <2>8, <2>9, <2>10 DEF Extends, IsEntry, Before
  <2> QED  BY <2>3, <2>4, <2>7, <2>11 DEF d, b, put
<1>2. CASE c # <<>> /\ Len(Head(c)) < ChunkSize
  <2>1. CachePut(c, e) = <<Append(Head(c), e)>> \o Tail(c)
    BY <1>2, <1>3, <1>4 DEF CachePut
  <2>2. /\ Head(c) = c[1] /\ Head(c) \in Seq(Entry) /\ Len(c) > 0
        /\ Append(c[1], e) \in Seq(Entry) /\ Append(c[1], e) # <<>>
        /\ Len(Append(c[1], e)) = Len(c[1]) + 1 /\ Len(c[1]) \in Nat
        /\ Append(c[1], e)[Len(c[1]) + 1] = e
        /\ \A i \in 1..Len(c[1]) : Append(c[1], e)[i] = c[1][i]
    BY <1>2, <1>3
  <2>3. /\ put \in Seq(Seq(Entry)) /\ Len(put) = Len(c)
        /\ put[1] = Append(c[1], e)
        /\ \A k \in 2..Len(c) : put[k] = c[k]
    BY <2>1, <2>2
  <2> HIDE DEF put
  <2>4. ASSUME NEW k \in 1..Len(put) PROVE put[k] # <<>>
    <3>1. CASE k = 1
      BY <3>1, <2>2, <2>3
    <3>2. CASE k # 1
      <4>1. k \in 2..Len(c) /\ k \in 1..Len(c)
        BY <3>2, <2>3
      <4> QED  BY <4>1, <2>3
    <3> QED  BY <3>1, <3>2
  <2>5. Len(b) = Len(c) /\ \A k \in 1..Len(c) : b[k] = c[Len(c) - k + 1]
    BY Reversed
  <2>6. Len(d) = Len(put) /\ \A k \in 1..Len(put) : d[k] = put[Len(put) - k + 1]
    BY <2>3, Reversed
  <2> HIDE DEF b, d
  <2> DEFINE n == Len(c)
             h == Len(c[1])
  <2>7. n \in Nat \ {0} /\ h \in Nat /\ Len(b) = n /\ Len(d) = n
    BY <2>2, <2>3, <2>5, <2>6
  <2>8. /\ d[n] = Append(c[1], e) /\ b[n] = c[1]
        /\ Len(d[n]) = h + 1 /\ d[n][h + 1] = e /\ Len(b[n]) = h
        /\ \A i \in 1..h : d[n][i] = b[n][i]
    <3>1. n \in 1..Len(put) /\ n \in 1..Len(c) /\ Len(put) - n + 1 = 1 /\ Len(c) - n + 1 = 1
      BY <2>3, <2>7
    <3>2. d[n] = Append(c[1], e) /\ b[n] = c[1]
      BY <3>1, <2>3, <2>5, <2>6
    <3> QED  BY <3>2, <2>2
  <2>9. ASSUME NEW k \in 1..n - 1 PROVE d[k] = b[k]
    <3>1. /\ k \in 1..Len(put) /\ k \in 1..Len(c)
          /\ Len(put) - k + 1 \in 2..Len(c) /\ Len(put) - k + 1 = Len(c) - k + 1
      <4>1. k \in Nat /\ 1 <= k /\ k <= n - 1 /\ n = Len(c) /\ n = Len(put) /\ n \in Nat
        BY <2>3, <2>7
      <4> HIDE DEF n, h
      <4> QED BY <4>1
    <3> QED  BY <3>1, <2>3, <2>5, <2>6
  <2> HIDE DEF n, h
  <2>10. \A k, i \in Nat : IsEntry(d, k, i) <=> IsEntry(b, k, i) \/ (k = n /\ i = h + 1)
    <3> SUFFICES ASSUME NEW k \in Nat, NEW i \in Nat
                 PROVE  IsEntry(d, k, i) <=> IsEntry(b, k, i) \/ (k = n /\ i = h + 1)
      OBVIOUS
    <3>1. CASE k = n
      BY <3>1, <2>7, <2>8 DEF IsEntry
    <3>2. CASE k # n
      BY <3>2, <2>7, <2>9 DEF IsEntry
    <3> QED  BY <3>1, <3>2
  <2>11. \A k, i \in Nat : IsEntry(b, k, i) => d[k][i] = b[k][i] /\ Before(k, i, n, h + 1)
    <3> SUFFICES ASSUME NEW k \in Nat, NEW i \in Nat, IsEntry(b, k, i)
                 PROVE  d[k][i] = b[k][i] /\ Before(k, i, n, h + 1)
      OBVIOUS
    <3>1. CASE k = n
      BY <3>1, <2>7, <2>8 DEF IsEntry, Before
    <3>2. CASE k # n
      <4>1. k \in 1..n
        BY <2>7 DEF IsEntry
      <4>2. k < n /\ k \in 1..n - 1
        BY <4>1, <3>2, <2>7
      <4> QED  BY <4>2, <2>9 DEF Before
    <3> QED  BY <3>1, <3>2
  <2>12. Extends(b, d, n, h + 1, e)
    BY <2>7, <2>8, <2>10, <2>11 DEF Extends, IsEntry, Before
  <2>13. \E m, j \in Nat : Extends(b, d, m, j, e)
    BY <2>7, <2>12
  <2> QED  BY <2>3, <2>4, <2>13 DEF d, b, put
<1> QED  BY <1>1, <1>2, <1>3, <1>4

\* Playing the entry at a place moves what was made of the list on by it.
LEMMA PlayedOn ==
    ASSUME NEW c, NEW m \in Nat, NEW j \in Nat, IsEntry(c, m, j), c[m][j].key \in Word,
           NEW base, NEW list, DOMAIN list = Word, MadeOf(c, m, j, base, list),
           NEW n \in Nat, NEW h \in Nat,
           \A k, i \in Nat : IsEntry(c, k, i) =>
              (Before(k, i, n, h) <=> Before(k, i, m, j) \/ (k = m /\ i = j))
    PROVE  MadeOf(c, n, h, base, [list EXCEPT ![c[m][j].key] = c[m][j].val])
<1> DEFINE key == c[m][j].key
           new == [list EXCEPT ![key] = c[m][j].val]
<1> SUFFICES ASSUME NEW w \in Word
             PROVE  \/ /\ new[w] = base[w]
                       /\ \A k, i \in Nat : IsEntry(c, k, i) /\ Before(k, i, n, h) => c[k][i].key # w
                    \/ \E k, i \in Nat : LastFor(c, n, h, w, k, i) /\ new[w] = c[k][i].val
  BY DEF MadeOf
<1>1. CASE w = key
  <2>1. LastFor(c, n, h, w, m, j)
    BY <1>1 DEF LastFor, Before
  <2> QED  BY <1>1, <2>1
<1>2. CASE w # key
  <2>1. new[w] = list[w]
    BY <1>2
  <2>2. \A k, i \in Nat : LastFor(c, m, j, w, k, i) => LastFor(c, n, h, w, k, i)
    BY <1>2 DEF LastFor
  <2> QED  BY <1>2, <2>1, <2>2 DEF MadeOf
<1> QED  BY <1>1, <1>2

\* What is asked for last counts.
LEMMA PutCounts ==
    ASSUME NEW c, NEW d, NEW m \in Nat, NEW j \in Nat, NEW e, e.key \in Word,
           Extends(c, d, m, j, e), Len(c) \in Nat, Len(d) \in Nat, \A k \in 1..Len(d) : Len(d[k]) \in Nat,
           NEW base, NEW list, DOMAIN list = Word, MadeOf(c, Len(c) + 1, 1, base, list)
    PROVE  /\ MadeOf(d, m, j, base, list)
           /\ MadeOf(d, Len(d) + 1, 1, base, [list EXCEPT ![e.key] = e.val])
<1>1. \A k, i \in Nat : IsEntry(d, k, i) /\ Before(k, i, m, j) <=> IsEntry(c, k, i) /\ Before(k, i, Len(c) + 1, 1)
  BY DEF Extends, Before
<1>2. \A k, i \in Nat : IsEntry(c, k, i) => d[k][i] = c[k][i]
  BY DEF Extends
<1>3. ASSUME NEW w, NEW k \in Nat, NEW i \in Nat, LastFor(c, Len(c) + 1, 1, w, k, i)
      PROVE  LastFor(d, m, j, w, k, i) /\ d[k][i] = c[k][i]
  <2>1. IsEntry(c, k, i) /\ Before(k, i, Len(c) + 1, 1) /\ c[k][i].key = w
    BY <1>3 DEF LastFor
  <2>2. d[k][i] = c[k][i] /\ IsEntry(d, k, i) /\ Before(k, i, m, j)
    BY <2>1, <1>1, <1>2
  <2>3. ASSUME NEW l \in Nat, NEW h \in Nat,
               IsEntry(d, l, h), Before(l, h, m, j), Before(k, i, l, h)
        PROVE  d[l][h].key # w
    <3>1. IsEntry(c, l, h) /\ Before(l, h, Len(c) + 1, 1)
      BY <2>3, <1>1
    <3>2. c[l][h].key # w
      BY <3>1, <2>3, <1>3 DEF LastFor
    <3> QED  BY <3>1, <3>2, <1>2
  <2> QED  BY <2>1, <2>2, <2>3 DEF LastFor
<1>4. MadeOf(d, m, j, base, list)
  <2> SUFFICES ASSUME NEW w \in Word
               PROVE  \/ /\ list[w] = base[w]
                         /\ \A k, i \in Nat : IsEntry(d, k, i) /\ Before(k, i, m, j) => d[k][i].key # w
                      \/ \E k, i \in Nat : LastFor(d, m, j, w, k, i) /\ list[w] = d[k][i].val
    BY DEF MadeOf
  <2>1. CASE /\ list[w] = base[w]
             /\ \A k, i \in Nat : IsEntry(c, k, i) /\ Before(k, i, Len(c) + 1, 1) => c[k][i].key # w
    BY <2>1, <1>1, <1>2
  <2>2. CASE \E k, i \in Nat : LastFor(c, Len(c) + 1, 1, w, k, i) /\ list[w] = c[k][i].val
    BY <2>2, <1>3
  <2> QED  BY <2>1, <2>2 DEF MadeOf
<1>5. \A k, i \in Nat : IsEntry(d, k, i) =>
         (Before(k, i, Len(d) + 1, 1) <=> Before(k, i, m, j) \/ (k = m /\ i = j))
  <2> SUFFICES ASSUME NEW k \in Nat, NEW i \in Nat, IsEntry(d, k, i)
               PROVE  Before(k, i, Len(d) + 1, 1) <=> Before(k, i, m, j) \/ (k = m /\ i = j)
    OBVIOUS
  <2>1. k \in 1..Len(d) /\ i \in 1..Len(d[k])
    BY DEF IsEntry
  <2>2. m = Len(d) /\ j = Len(d[m])
    BY DEF Extends
  <2> QED  BY <2>1, <2>2 DEF Before
<1>6. IsEntry(d, m, j) /\ d[m][j] = e /\ Len(d) + 1 \in Nat
  BY DEF Extends
<1>7. MadeOf(d, Len(d) + 1, 1, base, [list EXCEPT ![d[m][j].key] = d[m][j].val])
  BY <1>4, <1>5, <1>6, PlayedOn
<1> QED  BY <1>4, <1>6, <1>7

\* The entries make one list only.
LEMMA MadeOnce ==
    ASSUME NEW c, NEW m, NEW j, NEW base, NEW one, NEW other,
           MadeOf(c, m, j, base, one), MadeOf(c, m, j, base, other)
    PROVE  \A w \in Word : one[w] = other[w]
<1>1. \A w, k, i, l, h : k \in Nat /\ i \in Nat /\ l \in Nat /\ h \in Nat
           /\ LastFor(c, m, j, w, k, i) /\ LastFor(c, m, j, w, l, h) => k = l /\ i = h
  BY DEF LastFor, Before
<1> QED  BY <1>1 DEF MadeOf, LastFor

\* What the whole cache makes of the list is the list with what was asked for
\* laid over it.
LEMMA MadeIsOverlaid ==
    ASSUME NEW c, NEW m, NEW j, NEW base, NEW list, NEW wanted,
           \A k, i \in Nat : IsEntry(c, k, i) => c[k][i] \in Entry,
           MadeOf(c, m, j, base, list), MadeOf(c, m, j, Nothing, wanted)
    PROVE  \A w \in Word : list[w] = Promise!Overlay(base, wanted)[w]
<1>1. \A w, k, i, l, h : k \in Nat /\ i \in Nat /\ l \in Nat /\ h \in Nat
           /\ LastFor(c, m, j, w, k, i) /\ LastFor(c, m, j, w, l, h) => k = l /\ i = h
  BY DEF LastFor, Before
<1>2. \A k, i \in Nat : IsEntry(c, k, i) => c[k][i].val # Same
  BY LmdbAssumption DEF Entry
<1> QED  BY <1>1, <1>2 DEF MadeOf, LastFor, Promise!Overlay, Nothing

-----------------------------------------------------------------------------
(* Types.                                                                  *)

MovedOut(p, to) ==
  /\ pc' = [pc EXCEPT ![p] = to] /\ to \in {"open", "closed", "exited"}
  /\ writer' = IF writer = p THEN None ELSE writer
  /\ Freed(p)
  /\ \/ UNCHANGED <<rdonly, map, dbsize>>
     \/ /\ rdonly' = [rdonly EXCEPT ![p] = FALSE]
        /\ map' = [map EXCEPT ![p] = 0]
        /\ dbsize' = [dbsize EXCEPT ![p] = 0]
  /\ overtaken' \subseteq (overtaken \cup Growing) \ {p}

\* The end of a transaction or of a process.
LEMMA FreedTypes ==
    ASSUME TypeOK, NEW p \in Proc, NEW to, MovedOut(p, to),
           disk' \in List, used' \in 0..size', size' \in 1..MaxMap
    PROVE  TypeOK'
<1>1. MaxMap \in Nat \ {0} /\ GrowTries \in Nat
  BY LmdbAssumption
<1>2. view' \in [Proc -> List]
  BY DEF Freed, Empty, List, MovedOut, TypeOK
<1>3. room' \in [Proc -> 0..MaxMap] /\ tries' \in [Proc -> 0..GrowTries]
  BY <1>1 DEF Freed, MovedOut, TypeOK
<1>4. cache' \in [Proc -> Seq(Seq(Entry))]
  BY DEF Freed, MovedOut, TypeOK
<1>5. pos' \in [Proc -> Nat \X Nat]
  BY DEF Freed, MovedOut, TypeOK
<1>6. op' \in [Proc -> Operation \cup {None}]
  BY DEF Freed, MovedOut, TypeOK
<1>7. asked' \in [Proc -> [Word -> Value \cup {Absent, Same}]]
  BY DEF Freed, MovedOut, TypeOK, Nothing
<1>8. pc' \in [Proc -> States]
  BY DEF MovedOut, TypeOK, States
<1>9. rdonly' \in [Proc -> BOOLEAN] /\ map' \in [Proc -> 0..MaxMap] /\ dbsize' \in [Proc -> 0..MaxMap]
  <2>1. CASE UNCHANGED <<rdonly, map, dbsize>>
    BY <2>1 DEF TypeOK
  <2>2. CASE /\ rdonly' = [rdonly EXCEPT ![p] = FALSE]
             /\ map' = [map EXCEPT ![p] = 0]
             /\ dbsize' = [dbsize EXCEPT ![p] = 0]
    <3>1. rdonly' \in [Proc -> BOOLEAN]
      BY <2>2 DEF TypeOK
    <3>2. 0 \in 0..MaxMap
      BY <1>1
    <3> QED  BY <2>2, <3>1, <3>2 DEF TypeOK
  <2> QED  BY <2>1, <2>2 DEF MovedOut
<1>10. writer' \in Proc \cup {None}
  <2>1. writer \in Proc \cup {None}
    BY DEF TypeOK
  <2>2. writer' = IF writer = p THEN None ELSE writer
    BY DEF MovedOut
  <2> QED  BY <2>1, <2>2
<1>11. overtaken' \subseteq Proc
  <2>1. Growing \subseteq Proc
    BY DEF Growing
  <2> QED  BY <2>1 DEF MovedOut, TypeOK
<1>12. keys' \in [Proc -> {"intact", "rewritten", "replayed"}]
  BY DEF Freed, MovedOut, TypeOK
<1> QED  BY <1>2, <1>3, <1>4, <1>5, <1>6, <1>7, <1>8, <1>9, <1>10, <1>11, <1>12 DEF TypeOK

LEMMA FreedTidy ==
    ASSUME LmdbInv, NEW p \in Proc, NEW to, MovedOut(p, to)
    PROVE  WriterAlone' /\ TakesRoom' /\ TidyOutside'
<1>1. WriterAlone'
  <2> SUFFICES ASSUME NEW q \in Proc
               PROVE  writer' = q <=> pc'[q] = "replaying" \/ (pc'[q] = "txn" /\ ~rdonly'[q])
    BY DEF WriterAlone
  <2>1. CASE q = p
    <3>1. pc'[p] = to /\ to \notin {"replaying", "txn"}
      BY DEF MovedOut, LmdbInv, TypeOK
    <3>2. None \notin Proc
      BY LmdbAssumption
    <3> QED  BY <2>1, <3>1, <3>2 DEF MovedOut
  <2>2. CASE q # p
    <3>1. pc'[q] = pc[q] /\ rdonly'[q] = rdonly[q]
      BY <2>2 DEF MovedOut, LmdbInv, TypeOK
    <3>2. writer' = q <=> writer = q
      <4>1. None \notin Proc
        BY LmdbAssumption
      <4> QED  BY <2>2, <4>1 DEF MovedOut
    <3> QED  BY <3>1, <3>2 DEF LmdbInv, WriterAlone
  <2> QED  BY <2>1, <2>2
<1>2. TakesRoom'
  <2> SUFFICES ASSUME NEW q \in Proc
               PROVE  room'[q] <= map'[q] /\ (pc'[q] \notin {"txn", "replaying"} => room'[q] = 0)
    BY DEF TakesRoom
  <2>1. CASE q = p
    <3>1. room'[q] = 0
      BY <2>1 DEF MovedOut, Freed, LmdbInv, TypeOK
    <3>2. map'[q] \in Nat
      BY LmdbAssumption, <2>1 DEF MovedOut, LmdbInv, TypeOK
    <3> QED  BY <3>1, <3>2
  <2>2. CASE q # p
    <3>1. pc'[q] = pc[q] /\ map'[q] = map[q] /\ room'[q] = room[q]
      BY <2>2 DEF MovedOut, Freed, LmdbInv, TypeOK
    <3> QED  BY <3>1 DEF LmdbInv, TakesRoom
  <2> QED  BY <2>1, <2>2
<1>3. TidyOutside'
  BY SMTT(40) DEF LmdbInv, TypeOK, TidyOutside, MovedOut, Freed, Growing
<1> QED  BY <1>1, <1>2, <1>3

\* The entry a replay has come to.
LEMMA EntryAtPlace ==
    ASSUME LmdbInv, NEW p \in Proc, pc[p] = "replaying",
           pos[p][1] \in DOMAIN InOrder(cache[p])
    PROVE  /\ IsEntry(Chunks(p), pos[p][1], pos[p][2])
           /\ Chunks(p)[pos[p][1]][pos[p][2]] \in Entry
           /\ Len(Chunks(p)[pos[p][1]]) \in Nat
<1> DEFINE c == Chunks(p)
           k == pos[p][1]
<1>1. cache[p] \in Seq(Seq(Entry)) /\ k \in Nat
  BY DEF LmdbInv, TypeOK
<1>2. c \in Seq(Seq(Entry))
  BY <1>1 DEF Chunks, InOrder, Reverse
<1>3. k \in 1..Len(c)
  BY <1>2 DEF Chunks
<1>4. IsEntry(c, k, pos[p][2])
  BY <1>2, <1>3 DEF LmdbInv, ViewIsMade, IsPlace
<1> HIDE DEF c, k
<1>5. c[k] \in Seq(Entry)
  BY <1>2, <1>3
<1> QED  BY <1>4, <1>5 DEF IsEntry, c, k

LEMMA RoomTaken ==
    ASSUME TakesRoom, NEW p \in Proc,
           \A q \in Proc \ {p} : room'[q] = room[q] /\ map'[q] = map[q] /\ pc'[q] = pc[q],
           room'[p] <= map'[p], pc'[p] \notin {"txn", "replaying"} => room'[p] = 0
    PROVE  TakesRoom'
BY DEF TakesRoom

Out(p) == \E to : /\ MovedOut(p, to) /\ (disk' = disk \/ writer = p)
                  /\ disk' \in List /\ used' \in 0..size' /\ size' \in 1..MaxMap

\* The steps that end a transaction.
LEMMA EndsOut ==
    ASSUME LmdbInv, NEW p \in Proc
    PROVE  /\ Failed(p) => Out(p)
           /\ Close(p) \/ Crash(p) \/ Abort(p) \/ OutOfTries(p) \/ TooLarge(p) \/ Commit(p) => Out(p)
<1>0. MaxMap \in Nat \ {0}
  BY LmdbAssumption
<1>00. TypeOK /\ WriterAlone /\ TakesRoom /\ TidyOutside
  BY DEF LmdbInv
<1>3. ASSUME NEW to \in {"closed", "exited"}, Gone(p, to)
      PROVE  Out(p)
  <2>1. disk' = disk /\ used' = used /\ size' = size
    BY <1>3 DEF Gone, disks
  <2>2. disk' \in List /\ used' \in 0..size' /\ size' \in 1..MaxMap
    BY <2>1, <1>00 DEF TypeOK
  <2>3. MovedOut(p, to)
    BY <1>3 DEF Gone, MovedOut
  <2> QED  BY <2>1, <2>2, <2>3 DEF Out
<1>4. CASE Close(p) \/ Crash(p)
  BY <1>3, <1>4 DEF Close, Crash
<1>5. ASSUME Ended(p), overtaken' \subseteq (overtaken \cup Growing) \ {p},
             disk' = disk \/ writer = p, disk' \in List, used' \in 0..size', size' \in 1..MaxMap
      PROVE  Out(p)
  <2>1. MovedOut(p, "open")
    BY <1>5 DEF Ended, MovedOut
  <2> QED  BY <1>5, <2>1 DEF Out
<1>6. UNCHANGED disks => disk' = disk /\ disk' \in List /\ used' \in 0..size' /\ size' \in 1..MaxMap
  BY <1>00 DEF TypeOK, disks
<1>7. CASE Abort(p)
  BY <1>5, <1>6, <1>7 DEF Abort
<1>8. ASSUME Failed(p)
      PROVE  Out(p)
  BY <1>3, <1>5, <1>6, <1>8 DEF Failed
<1>9. CASE OutOfTries(p) \/ TooLarge(p)
  BY <1>8, <1>9 DEF OutOfTries, TooLarge
<1>10. CASE Commit(p)
  <2>1. PICK o \in Operation : Commit(p)!(o)
    BY <1>10 DEF Commit
  <2>2. /\ disk' = disk \/ writer = p
        /\ disk' \in List /\ used' \in 0..size' /\ size' \in 1..MaxMap
    <3>1. CASE rdonly[p]
      BY <1>6, <2>1, <3>1
    <3>2. CASE ~rdonly[p]
      <4>1. room[p] \in Nat /\ map[p] \in 0..MaxMap /\ o.need \in 0..1 /\ view[p] \in List
        BY <1>0, <1>00, SMTT(40) DEF TypeOK, Operation
      <4>2. disk' = view[p] /\ used' = room[p] + o.need /\ size' = Larger(size, map[p])
        BY <2>1, <3>2
      <4>3. room[p] + o.need <= map[p] /\ size \in 1..MaxMap
        BY <1>00, <2>1 DEF Fits, TypeOK
      <4>4. writer = p
        BY <1>00, <2>1, <3>2 DEF WriterAlone
      <4> QED  BY <1>0, <4>1, <4>2, <4>3, <4>4 DEF Larger
    <3> QED  BY <3>1, <3>2
  <2>3. p \notin Growing /\ (rdonly[p] => p \notin overtaken)
    BY <1>00, <2>1 DEF Growing, TidyOutside
  <2>4. overtaken' \subseteq (overtaken \cup Growing) \ {p}
    BY <2>1, <2>3
  <2>5. Ended(p)
    BY <2>1
  <2> QED  BY <1>5, <2>2, <2>4, <2>5
<1> QED  BY <1>4, <1>7, <1>8, <1>9, <1>10

\* A step ends a transaction or keeps the types.
LEMMA TypeStep ==
    ASSUME LmdbInv, NEW p \in Proc, Step(p) \/ Crash(p)
    PROVE  Out(p) \/ (TypeOK' /\ WriterAlone' /\ TakesRoom' /\ TidyOutside')
<1> DEFINE Tidy == TypeOK' /\ WriterAlone' /\ TakesRoom' /\ TidyOutside'
<1>0. MaxMap \in Nat \ {0} /\ GrowTries \in Nat /\ None \notin Proc
  BY LmdbAssumption
<1>00. TypeOK /\ WriterAlone /\ TakesRoom /\ TidyOutside
  BY DEF LmdbInv
<1>1. CASE OpenWriter(p) \/ OpenReader(p)
  <2>1. TypeOK'
    <3>1. pc' \in [Proc -> States]
      BY <1>00, <1>1 DEF TypeOK, OpenWriter, OpenReader, States
    <3>2. rdonly' \in [Proc -> BOOLEAN]
      <4>1. CASE OpenWriter(p)
        BY <1>00, <4>1 DEF TypeOK, OpenWriter
      <4>2. CASE OpenReader(p)
        BY <1>00, <4>2 DEF TypeOK, OpenReader
      <4> QED  BY <1>1, <4>1, <4>2
    <3>3. map' \in [Proc -> 0..MaxMap] /\ dbsize' \in [Proc -> 0..MaxMap]
      <4>1. size \in 0..MaxMap /\ 0 \in 0..MaxMap
        BY <1>0, <1>00 DEF TypeOK
      <4>2. map' = [map EXCEPT ![p] = size] /\ dbsize' = [dbsize EXCEPT ![p] = 0]
        BY <1>1 DEF OpenWriter, OpenReader
      <4> QED  BY <1>00, <4>1, <4>2 DEF TypeOK
    <3>4. UNCHANGED <<disk, used, size, writer, txns>>
      BY <1>1 DEF OpenWriter, OpenReader, disks
    <3> QED  BY <1>00, <3>1, <3>2, <3>3, <3>4 DEF TypeOK, txns
  <2>2. WriterAlone'
    <3> SUFFICES ASSUME NEW q \in Proc
                 PROVE  writer' = q <=> pc'[q] = "replaying" \/ (pc'[q] = "txn" /\ ~rdonly'[q])
      BY DEF WriterAlone
    <3>1. writer' = writer /\ pc'[p] = "open" /\ writer # p
      BY <1>00, <1>1 DEF TypeOK, WriterAlone, OpenWriter, OpenReader
    <3>2. q # p => pc'[q] = pc[q] /\ rdonly'[q] = rdonly[q]
      BY <1>00, <1>1 DEF TypeOK, OpenWriter, OpenReader
    <3> QED  BY <1>00, <3>1, <3>2 DEF WriterAlone
  <2>3. TakesRoom'
    <3>1. /\ map' = [map EXCEPT ![p] = size] /\ room' = room
          /\ pc[p] = "closed" /\ pc' = [pc EXCEPT ![p] = "open"]
      BY <1>1 DEF OpenWriter, OpenReader, txns
    <3>2. room[p] = 0
      BY <1>00, <3>1 DEF TakesRoom
    <3>3. size \in Nat /\ map'[p] = size
      BY <1>0, <1>00, <3>1 DEF TypeOK
    <3>4. room'[p] <= map'[p]
      BY <3>1, <3>2, <3>3
    <3> QED  BY <1>00, <3>1, <3>2, <3>4, RoomTaken DEF TypeOK
  <2>4. TidyOutside'
    BY <1>00, <1>1, SMTT(40) DEF TidyOutside, TypeOK, OpenWriter, OpenReader, txns
  <2> QED  BY <2>1, <2>2, <2>3, <2>4
<1>2. CASE Begin(p)
  <2>1. TypeOK'
    BY <1>0, <1>00, <1>2 DEF TypeOK, Begin, disks, States, Fitted
  <2>2. WriterAlone'
    BY <1>0, <1>00, <1>2 DEF WriterAlone, TypeOK, Begin
  <2>3. TakesRoom'
    BY <1>0, <1>00, <1>2 DEF TakesRoom, TypeOK, Begin, Fitted
  <2>4. TidyOutside'
    BY <1>00, <1>2 DEF TidyOutside, TypeOK, Begin
  <2> QED  BY <2>1, <2>2, <2>3, <2>4
<1>11. ASSUME NEW o \in Operation, NEW key \in Word, o.kind # "commit", Done(p, o, key),
              Fits(p, o), pc[p] = "txn", ~rdonly[p]
       PROVE  Tidy
  <2>1. o.key \in Word /\ o.val \in Value \cup {Absent} /\ o.need \in 0..1
    BY <1>11 DEF Operation
  <2> DEFINE e == [key |-> key, val |-> o.val, need |-> o.need]
  <2>2. e \in Entry
    BY <2>1 DEF Entry
  <2>3. CachePut(cache[p], e) \in Seq(Seq(Entry))
    BY <1>00, <2>2, PutAtEnd DEF TypeOK, CacheIsAsked, LmdbInv
  <2>4. cache' \in [Proc -> Seq(Seq(Entry))]
    BY <1>00, <1>11, <2>3 DEF Done, TypeOK
  <2>5. view' \in [Proc -> List]
    BY <1>00, <1>11, <2>1 DEF Done, TypeOK, List
  <2>6. asked' \in [Proc -> [Word -> Value \cup {Absent, Same}]]
    BY <1>00, <1>11, <2>1 DEF Done, TypeOK
  <2>7. room' \in [Proc -> 0..MaxMap] /\ TakesRoom'
    <3>1. room[p] + o.need \in 0..MaxMap /\ room[p] + o.need <= map[p]
      BY <1>0, <1>00, <1>11, <2>1 DEF Fits, TypeOK
    <3>2. room' = [room EXCEPT ![p] = room[p] + o.need] /\ map' = map /\ pc' = pc
      BY <1>00, <1>11 DEF Done, handles, TypeOK
    <3> QED  BY <1>00, <1>11, <3>1, <3>2 DEF TakesRoom, TypeOK
  <2>8. op' \in [Proc -> Operation \cup {None}] /\ tries' \in [Proc -> 0..GrowTries]
    BY <1>0, <1>00, <1>11, SMTT(40) DEF Done, TypeOK
  <2>12. keys' \in [Proc -> {"intact", "rewritten", "replayed"}]
    BY <1>00, <1>11 DEF Done, TypeOK
  <2>9. TypeOK'
    BY <1>00, <1>11, <2>4, <2>5, <2>6, <2>7, <2>8, <2>12 DEF Done, TypeOK, disks, handles
  <2>10. WriterAlone'
    BY <1>00, <1>11 DEF WriterAlone, Done, handles
  <2>11. TidyOutside'
    BY <1>00, <1>11 DEF TidyOutside, Done, handles, TypeOK
  <2> QED  BY <2>7, <2>9, <2>10, <2>11
<1>12. CASE SetValue(p)
  <2>1. PICK o \in Operation : SetValue(p)!(o)
    BY <1>12 DEF SetValue
  <2>2. o.key \in Word /\ o.kind # "commit"
    BY <2>1 DEF Operation
  <2> QED  BY <1>11, <2>1, <2>2
<1>13. CASE Delete(p)
  <2>1. PICK o \in Operation : Delete(p)!(o)
    BY <1>13 DEF Delete
  <2>2. o.key \in Word
    BY <2>1 DEF Walk
  <2>3. PICK key \in DeletedKeys(p, o) : Done(p, o, key)
    BY <2>1
  <2>4. key \in Word
    BY <2>2, <2>3, LmdbAssumption DEF DeletedKeys
  <2> QED  BY <1>11, <2>1, <2>3, <2>4
<1>14. CASE DeleteMissing(p)
  <2>1. op' \in [Proc -> Operation \cup {None}] /\ tries' \in [Proc -> 0..GrowTries]
    BY <1>0, <1>00, <1>14, SMTT(40) DEF DeleteMissing, TypeOK
  <2>2. TypeOK'
    BY <1>00, <1>14, <2>1 DEF DeleteMissing, TypeOK, disks, handles
  <2>3. WriterAlone' /\ TakesRoom'
    BY <1>00, <1>14 DEF WriterAlone, TakesRoom, DeleteMissing, handles
  <2>4. TidyOutside'
    BY <1>00, <1>14 DEF TidyOutside, TypeOK, DeleteMissing, handles
  <2> QED  BY <2>2, <2>3, <2>4
<1>15. CASE MapFull(p)
  <2>1. PICK o \in Operation : MapFull(p)!(o)
    BY <1>15 DEF MapFull
  <2>2. op' \in [Proc -> Operation \cup {None}] /\ tries' \in [Proc -> 0..GrowTries]
    BY <1>0, <1>00, <2>1 DEF TypeOK
  <2>3. view' \in [Proc -> List] /\ pc' \in [Proc -> States]
    BY <1>00, <2>1 DEF TypeOK, List, Empty, States
  <2>4. room' \in [Proc -> 0..MaxMap]
    BY <1>0, <1>00, <2>1 DEF TypeOK
  <2>10. keys' \in [Proc -> {"intact", "rewritten", "replayed"}]
    BY <1>00, <2>1 DEF TypeOK
  <2>5. TypeOK'
    BY <1>00, <2>1, <2>2, <2>3, <2>4, <2>10 DEF TypeOK, disks
  <2>6. WriterAlone'
    BY <1>0, <1>00, <2>1 DEF WriterAlone, TypeOK
  <2>7. TakesRoom'
    BY <1>0, <1>00, <2>1 DEF TakesRoom, TypeOK
  <2>8. o # None
    BY LmdbAssumption
  <2>9. TidyOutside'
    BY <1>00, <2>1, <2>8 DEF TidyOutside, TypeOK
  <2> QED  BY <2>5, <2>6, <2>7, <2>9
<1>16. CASE Resize(p)
  <2>0. Grown(p) \in 0..MaxMap
    <3>1. size \in Nat /\ dbsize[p] \in Nat /\ Grown(p) <= MaxMap
      BY <1>0, <1>00, <1>16 DEF TypeOK, Resize
    <3> QED  BY <1>0, <3>1 DEF Grown, Larger
  <2>1. TypeOK'
    BY <1>00, <1>16, <2>0 DEF TypeOK, Resize, disks, txns, States
  <2>2. WriterAlone'
    BY <1>00, <1>16 DEF WriterAlone, TypeOK, Resize
  <2>3. TakesRoom'
    <3>1. /\ map' = [map EXCEPT ![p] = Grown(p)] /\ room' = room
          /\ pc[p] = "full" /\ pc' = [pc EXCEPT ![p] = "resized"]
      BY <1>16 DEF Resize, txns
    <3>2. room[p] = 0
      BY <1>00, <3>1 DEF TakesRoom
    <3>3. map'[p] = Grown(p)
      BY <1>00, <3>1 DEF TypeOK
    <3>4. room'[p] <= map'[p]
      BY <1>0, <2>0, <3>1, <3>2, <3>3
    <3> QED  BY <1>00, <3>1, <3>2, <3>4, RoomTaken DEF TypeOK
  <2>4. TidyOutside'
    BY <1>00, <1>16 DEF TidyOutside, TypeOK, Resize, txns
  <2> QED  BY <2>1, <2>2, <2>3, <2>4
<1>17. CASE BeginAgain(p)
  <2>1. CASE used > map[p]
    <3>1. TypeOK'
      BY <1>00, <1>17, <2>1 DEF TypeOK, BeginAgain, disks, txns, States
    <3>2. WriterAlone'
      <4>1. pc[p] = "resized" /\ pc' = [pc EXCEPT ![p] = "full"] /\ UNCHANGED <<writer, rdonly>>
        BY <1>17, <2>1 DEF BeginAgain
      <4> QED  BY <1>00, <4>1 DEF WriterAlone, TypeOK
    <3>4. TakesRoom'
      <4>1. pc[p] = "resized" /\ pc' = [pc EXCEPT ![p] = "full"] /\ UNCHANGED <<room, map>>
        BY <1>17, <2>1 DEF BeginAgain, txns
      <4> QED  BY <1>00, <4>1, RoomTaken DEF TakesRoom, TypeOK
    <3>3. TidyOutside'
      BY <1>00, <1>17, <2>1 DEF TidyOutside, TypeOK, BeginAgain, txns
    <3> QED  BY <3>1, <3>2, <3>3, <3>4
  <2>2. CASE ~(used > map[p])
    <3>1. used \in 0..MaxMap /\ used <= map[p]
      BY <1>0, <1>00, <2>2, SMTT(40) DEF TypeOK
    <3>2. TypeOK'
      <4>1. /\ pc' \in [Proc -> States] /\ writer' \in Proc \cup {None}
            /\ view' \in [Proc -> List] /\ room' \in [Proc -> 0..MaxMap]
            /\ UNCHANGED <<disk, used, size, rdonly, map, dbsize, cache, pos, op, tries, asked, overtaken, keys>>
        <5>1. /\ pc' = [pc EXCEPT ![p] = "replaying"] /\ writer' = p
              /\ view' = [view EXCEPT ![p] = disk] /\ room' = [room EXCEPT ![p] = used]
              /\ UNCHANGED <<disk, used, size, rdonly, map, dbsize, cache, pos, op, tries, asked, overtaken, keys>>
          BY <1>17, <2>2 DEF BeginAgain, disks
        <5> QED  BY <1>00, <3>1, <5>1 DEF TypeOK, States
      <4> QED  BY <1>00, <4>1 DEF TypeOK
    <3>3. WriterAlone'
      BY <1>0, <1>00, <1>17, <2>2, SMTT(40) DEF WriterAlone, TypeOK, BeginAgain
    <3>4. TakesRoom'
      BY <1>00, <1>17, <2>2, <3>1 DEF TakesRoom, TypeOK, BeginAgain
    <3>5. TidyOutside'
      BY <1>00, <1>17, <2>2, SMTT(40) DEF TidyOutside, TypeOK, BeginAgain
    <3> QED  BY <3>2, <3>3, <3>4, <3>5
  <2> QED  BY <2>1, <2>2
<1>18. CASE PlayEntry(p)
  <2> DEFINE c == InOrder(cache[p])
             k == pos[p][1]
             i == pos[p][2]
             e == c[k][i]
  <2>1. CASE Playable(p, e)
    <3>0. /\ pc[p] = "replaying" /\ k \in DOMAIN c
          /\ view' = [view EXCEPT ![p][e.key] = e.val]
          /\ room' = [room EXCEPT ![p] = @ + e.need]
          /\ pos' = [pos EXCEPT ![p] = IF i < Len(c[k]) THEN <<k, i + 1>> ELSE <<k + 1, 1>>]
      BY <1>18, <2>1 DEF PlayEntry
    <3>1. e \in Entry
      BY <3>0, EntryAtPlace DEF Chunks
    <3>3. pos' \in [Proc -> Nat \X Nat]
      <4>1. k \in Nat /\ i \in Nat
        BY <1>00 DEF TypeOK
      <4>2. <<k, i + 1>> \in Nat \X Nat /\ <<k + 1, 1>> \in Nat \X Nat
        BY <4>1
      <4> QED  BY <1>00, <3>0, <4>2 DEF TypeOK
    <3>11. Fits(p, e)
      BY <2>1 DEF Playable
    <3>12. \A q \in Proc \ {p} : pos'[q] = pos[q]
      BY <1>00, <3>0 DEF TypeOK
    <3> HIDE DEF e
    <3>13. e.key \in Word /\ e.val \in Value \cup {Absent} /\ e.need \in 0..1
      BY <3>1 DEF Entry
    <3>2. view' \in [Proc -> List]
      BY <1>00, <3>0, <3>13 DEF TypeOK, List
    <3>4. room[p] + e.need \in 0..MaxMap /\ room[p] + e.need <= map[p]
      BY <1>0, <1>00, <3>11, <3>13 DEF Fits, TypeOK
    <3>5. room' = [room EXCEPT ![p] = room[p] + e.need]
      BY <1>00, <3>0 DEF TypeOK
    <3>6. /\ pc[p] = "replaying"
          /\ UNCHANGED <<disks, writer, handles, cache, op, tries, asked, overtaken, keys>>
      BY <1>18, <2>1 DEF PlayEntry, e
    <3>8. TypeOK'
      BY <1>00, <3>2, <3>3, <3>4, <3>5, <3>6 DEF TypeOK, disks, handles
    <3>9. WriterAlone'
      BY <1>00, <3>6 DEF WriterAlone, handles
    <3>10. TakesRoom'
      BY <1>00, <3>4, <3>5, <3>6 DEF TakesRoom, TypeOK, handles
    <3>14. TidyOutside'
      BY <1>00, <3>6, <3>12 DEF TidyOutside, handles
    <3> QED  BY <3>8, <3>9, <3>10, <3>14
  <2>2. CASE ~Playable(p, e)
    BY EndsOut, <1>18, <2>2 DEF PlayEntry
  <2> QED  BY <2>1, <2>2
<1>19. CASE EndReplay(p)
  <2>1. TypeOK'
    BY <1>00, <1>19 DEF TypeOK, EndReplay, disks, States
  <2>2. WriterAlone'
    BY <1>00, <1>19 DEF WriterAlone, TidyOutside, TypeOK, EndReplay
  <2>3. TakesRoom'
    BY <1>00, <1>19 DEF TakesRoom, TypeOK, EndReplay
  <2>4. TidyOutside'
    BY <1>00, <1>19 DEF TidyOutside, TypeOK, EndReplay
  <2> QED  BY <2>1, <2>2, <2>3, <2>4
<1> QED
  BY EndsOut, <1>1, <1>2, <1>12, <1>13, <1>14, <1>15, <1>16, <1>17, <1>18, <1>19 DEF Step

-----------------------------------------------------------------------------
(* What was asked for, what the cache says, and what is shown.             *)

\* The cache of a process, in order.
LEMMA ChunksTyped ==
    ASSUME LmdbInv, NEW p \in Proc
    PROVE  /\ Chunks(p) \in Seq(Seq(Entry)) /\ Len(Chunks(p)) = Len(cache[p])
           /\ Len(Chunks(p)) \in Nat
           /\ \A k \in 1..Len(Chunks(p)) : Chunks(p)[k] # <<>> /\ Len(Chunks(p)[k]) \in Nat \ {0}
           /\ \A k, i \in Nat : IsEntry(Chunks(p), k, i) => Chunks(p)[k][i] \in Entry
<1> DEFINE s == cache[p]
           c == Chunks(p)
<1>1. s \in Seq(Seq(Entry)) /\ \A k \in 1..Len(s) : s[k] # <<>>
  BY DEF LmdbInv, TypeOK, CacheIsAsked
<1>2. Len(c) = Len(s) /\ \A k \in 1..Len(s) : c[k] = s[Len(s) - k + 1]
  BY <1>1, Reversed DEF Chunks
<1>3. c \in Seq(Seq(Entry))
  BY <1>1 DEF Chunks, InOrder, Reverse
<1> HIDE DEF s, c
<1>4. ASSUME NEW k \in 1..Len(c) PROVE c[k] # <<>>
  <2>1. k \in 1..Len(s) /\ Len(s) - k + 1 \in 1..Len(s)
    BY <1>1, <1>2
  <2> QED  BY <2>1, <1>1, <1>2
<1>5. ASSUME NEW k \in 1..Len(c) PROVE Len(c[k]) \in Nat \ {0}
  <2>1. c[k] \in Seq(Entry) /\ c[k] # <<>>
    BY <1>3, <1>4
  <2> QED  BY <2>1
<1>6. ASSUME NEW k \in Nat, NEW i \in Nat, IsEntry(c, k, i) PROVE c[k][i] \in Entry
  <2>1. k \in 1..Len(c) /\ i \in 1..Len(c[k])
    BY <1>6 DEF IsEntry
  <2>2. c[k] \in Seq(Entry)
    BY <1>3, <2>1
  <2> QED  BY <2>1, <2>2
<1>7. Len(c) \in Nat
  BY <1>3
<1> QED  BY <1>2, <1>3, <1>4, <1>5, <1>6, <1>7 DEF s, c

\* A transaction that has ended.
LEMMA FreedKeeps ==
    ASSUME LmdbInv, NEW p \in Proc, NEW to, MovedOut(p, to), disk' = disk \/ writer = p
    PROVE  CacheIsAsked' /\ ViewIsAsked' /\ ViewIsMade'
<1>1. /\ cache'[p] = <<>> /\ asked'[p] = Nothing
      /\ \A q \in Proc \ {p} : /\ cache'[q] = cache[q] /\ asked'[q] = asked[q] /\ view'[q] = view[q]
                              /\ keys'[q] = keys[q] /\ pos'[q] = pos[q] /\ pc'[q] = pc[q] /\ rdonly'[q] = rdonly[q]
      /\ pc'[p] \notin {"txn", "replaying"}
  BY DEF MovedOut, Freed, LmdbInv, TypeOK
<1>2. CacheIsAsked'
  <2> SUFFICES ASSUME NEW q \in Proc
               PROVE  /\ \A k \in 1..Len(cache'[q]) : cache'[q][k] # <<>>
                      /\ keys'[q] = "intact" =>
                           MadeOf(Chunks(q)', Len(cache'[q]) + 1, 1, Nothing, asked'[q])
    BY DEF CacheIsAsked
  <2>1. CASE q = p
    <3>1. Len(cache'[q]) = 0 /\ Chunks(q)' = <<>>
      BY <1>1, <2>1 DEF Chunks, InOrder, Reverse
    <3> QED  BY <1>1, <2>1, <3>1 DEF MadeOf, IsEntry
  <2>2. CASE q # p
    BY <1>1, <2>2 DEF LmdbInv, CacheIsAsked, Chunks
  <2> QED  BY <2>1, <2>2
<1>3. ASSUME NEW q \in Proc, pc'[q] = "replaying" \/ (pc'[q] = "txn" /\ ~rdonly'[q])
      PROVE  q # p /\ disk' = disk /\ pc'[q] = pc[q] /\ rdonly'[q] = rdonly[q]
  <2>1. q # p /\ pc'[q] = pc[q] /\ rdonly'[q] = rdonly[q]
    BY <1>1, <1>3
  <2>2. writer = q
    BY <1>3, <2>1 DEF LmdbInv, WriterAlone
  <2> QED  BY <2>1, <2>2
<1>4. ViewIsAsked'
  BY <1>1, <1>3 DEF LmdbInv, ViewIsAsked, Get, Promise!Overlay
<1>5. ViewIsMade'
  BY <1>1, <1>3 DEF LmdbInv, ViewIsMade, Chunks
<1> QED  BY <1>2, <1>4, <1>5

\* One more operation of a transaction: set, delete.
LEMMA DoneKeeps ==
    ASSUME LmdbInv, NEW p \in Proc, NEW o \in Operation, o.kind # "commit",
           NEW key \in Word, Done(p, o, key), pc[p] = "txn", ~rdonly[p]
    PROVE  CacheIsAsked' /\ ViewIsAsked' /\ ViewIsMade'
<1> DEFINE e == [key |-> key, val |-> o.val, need |-> o.need]
           put == CachePut(cache[p], e)
           c == Chunks(p)
           d == InOrder(put)
<1>1. o.key \in Word /\ o.val \in Value \cup {Absent} /\ e \in Entry /\ e.key = key /\ e.val = o.val
  BY DEF Operation, Entry
<1>18. /\ keys'[p] = "intact" => key = o.key /\ keys[p] = "intact"
       /\ keys'[p] # "replayed" => keys[p] # "replayed"
       /\ \A q \in Proc \ {p} : keys'[q] = keys[q]
  BY DEF Done, LmdbInv, TypeOK
<1>2. cache[p] \in Seq(Seq(Entry)) /\ \A k \in 1..Len(cache[p]) : cache[p][k] # <<>>
  BY DEF LmdbInv, TypeOK, CacheIsAsked
<1>3. /\ put \in Seq(Seq(Entry)) /\ \A k \in 1..Len(put) : put[k] # <<>>
      /\ \E m, j \in Nat : Extends(c, d, m, j, e)
  BY <1>1, <1>2, PutAtEnd DEF Chunks
<1>4. PICK m \in Nat, j \in Nat : Extends(c, d, m, j, e)
  BY <1>3
<1>5. /\ cache' = [cache EXCEPT ![p] = put] /\ asked' = [asked EXCEPT ![p][o.key] = o.val]
      /\ view' = [view EXCEPT ![p][o.key] = o.val] /\ UNCHANGED <<disk, pc, rdonly, pos>>
  BY DEF Done, disks, handles
<1> HIDE DEF e, put
<1>6. cache'[p] = put /\ Chunks(p)' = d
  BY <1>5 DEF LmdbInv, TypeOK, Chunks
<1>7. \A q \in Proc \ {p} : cache'[q] = cache[q] /\ asked'[q] = asked[q] /\ view'[q] = view[q]
  BY <1>5 DEF LmdbInv, TypeOK
<1>8. asked'[p] = [asked[p] EXCEPT ![o.key] = o.val] /\ view'[p] = [view[p] EXCEPT ![o.key] = o.val]
  BY <1>5 DEF LmdbInv, TypeOK
<1>9. DOMAIN asked[p] = Word /\ DOMAIN view[p] = Word
  BY DEF LmdbInv, TypeOK, List
<1>10. Len(c) \in Nat /\ Len(c) = Len(cache[p])
  BY ChunksTyped
<1>11. Len(d) = Len(put) /\ d \in Seq(Seq(Entry))
  BY <1>3, Reversed DEF InOrder, Reverse
<1> HIDE DEF d, c
<1>12. Len(d) \in Nat /\ \A k \in 1..Len(d) : Len(d[k]) \in Nat
  <2>1. \A k \in 1..Len(d) : d[k] \in Seq(Entry)
    BY <1>11
  <2> QED  BY <1>11, <2>1
<1>14. ASSUME keys'[p] = "intact"
       PROVE  MadeOf(d, Len(d) + 1, 1, Nothing, asked'[p])
  <2>3. MadeOf(c, Len(c) + 1, 1, Nothing, asked[p])
    BY <1>10, <1>14, <1>18 DEF LmdbInv, CacheIsAsked, c
  <2>1. e.key \in Word /\ asked'[p] = [asked[p] EXCEPT ![e.key] = e.val]
    BY <1>1, <1>8, <1>14, <1>18
  <2>2. MadeOf(d, Len(d) + 1, 1, Nothing, [asked[p] EXCEPT ![e.key] = e.val])
    BY <1>4, <1>9, <1>10, <1>12, <2>1, <2>3, PutCounts
  <2> QED  BY <2>1, <2>2
<1>15. CacheIsAsked'
  <2> SUFFICES ASSUME NEW q \in Proc
               PROVE  /\ \A k \in 1..Len(cache'[q]) : cache'[q][k] # <<>>
                      /\ keys'[q] = "intact" =>
                           MadeOf(Chunks(q)', Len(cache'[q]) + 1, 1, Nothing, asked'[q])
    BY DEF CacheIsAsked
  <2>1. CASE q = p
    BY <1>3, <1>6, <1>11, <1>14, <2>1
  <2>2. CASE q # p
    BY <1>7, <1>18, <2>2 DEF LmdbInv, CacheIsAsked, Chunks
  <2> QED  BY <2>1, <2>2
<1>16. ViewIsAsked'
  <2> SUFFICES ASSUME NEW q \in Proc, pc'[q] = "txn", ~rdonly'[q], keys'[q] # "replayed",
                      NEW w \in Word
               PROVE  view'[q][w] = IF asked'[q][w] = Same THEN disk'[w] ELSE asked'[q][w]
    BY DEF ViewIsAsked, Get, Promise!Overlay
  <2>1. view[q][w] = IF asked[q][w] = Same THEN disk[w] ELSE asked[q][w]
    BY <1>5, <1>18 DEF LmdbInv, ViewIsAsked, Get, Promise!Overlay
  <2>2. CASE q = p
    <3>1. o.val # Same
      BY <1>1, LmdbAssumption
    <3> QED  BY <1>1, <1>5, <1>8, <1>9, <2>1, <2>2, <3>1
  <2>3. CASE q # p
    BY <1>5, <1>7, <2>1, <2>3
  <2> QED  BY <2>2, <2>3
<1>17. ViewIsMade'
  BY <1>5, <1>7 DEF LmdbInv, ViewIsMade, Chunks
<1> QED  BY <1>15, <1>16, <1>17

Follows(c, m, j, n, h) ==
  /\ IsPlace(c, n, h)
  /\ \A k, i \in Nat : IsEntry(c, k, i) =>
       (Before(k, i, n, h) <=> Before(k, i, m, j) \/ (k = m /\ i = j))

\* Where a replay starts, and where it goes.
LEMMA PlacesFollow ==
    ASSUME LmdbInv, NEW p \in Proc
    PROVE  /\ IsPlace(Chunks(p), 1, 1)
           /\ \A m, j \in Nat : IsEntry(Chunks(p), m, j) =>
                \E n, h \in Nat : /\ After(Chunks(p), m, j) = <<n, h>>
                                  /\ Follows(Chunks(p), m, j, n, h)
<1> DEFINE c == Chunks(p)
<1>1. Len(c) \in Nat /\ \A k \in 1..Len(c) : Len(c[k]) \in Nat \ {0}
  BY ChunksTyped
<1> HIDE DEF c
<1>2. IsPlace(c, 1, 1)
  BY <1>1 DEF IsPlace, IsEntry
<1>3. ASSUME NEW m \in Nat, NEW j \in Nat, IsEntry(c, m, j)
      PROVE  \E n, h \in Nat : After(c, m, j) = <<n, h>> /\ Follows(c, m, j, n, h)
  <2>1. m \in 1..Len(c) /\ j \in 1..Len(c[m])
    BY <1>3 DEF IsEntry
  <2>2. CASE j < Len(c[m])
    <3>1. After(c, m, j) = <<m, j + 1>>
      BY <2>2 DEF After
    <3>2. Follows(c, m, j, m, j + 1)
      BY <1>1, <2>1, <2>2 DEF Follows, IsPlace, IsEntry, Before
    <3> QED  BY <3>1, <3>2
  <2>3. CASE ~(j < Len(c[m]))
    <3>1. After(c, m, j) = <<m + 1, 1>> /\ j = Len(c[m])
      BY <1>1, <2>1, <2>3 DEF After
    <3>2. IsPlace(c, m + 1, 1)
      BY <1>1, <2>1 DEF IsPlace, IsEntry
    <3>3. \A k, i \in Nat : IsEntry(c, k, i) =>
            (Before(k, i, m + 1, 1) <=> Before(k, i, m, j) \/ (k = m /\ i = j))
      BY <1>1, <2>1, <3>1 DEF IsEntry, Before
    <3> QED  BY <3>1, <3>2, <3>3 DEF Follows
  <2> QED  BY <2>2, <2>3
<1> QED  BY <1>2, <1>3 DEF c

LEMMA LmdbStep ==
    ASSUME LmdbInv, NEW p \in Proc, Step(p) \/ Crash(p)
    PROVE  LmdbInv'
<1>1. CASE Out(p)
  BY <1>1, FreedTypes, FreedTidy, FreedKeeps DEF LmdbInv, Out
<1>2. CASE ~Out(p)
  <2>1. TypeOK' /\ WriterAlone' /\ TakesRoom' /\ TidyOutside'
    BY <1>2, TypeStep
  <2>2. ASSUME UNCHANGED <<cache, asked>>, \A q \in Proc : keys'[q] = "intact" => keys[q] = "intact"
        PROVE  CacheIsAsked'
    BY <2>2 DEF LmdbInv, CacheIsAsked, Chunks
  <2>3. CASE OpenWriter(p) \/ OpenReader(p) \/ MapFull(p) \/ Resize(p)
    <3>1. /\ UNCHANGED <<cache, asked, disk, pos>>
          /\ \A q \in Proc \ {p} : /\ view'[q] = view[q] /\ pc'[q] = pc[q]
                                  /\ rdonly'[q] = rdonly[q] /\ keys'[q] = keys[q]
          /\ pc'[p] \notin {"txn", "replaying"}
          /\ keys'[p] = "intact" => keys[p] = "intact"
      <4>1. CASE MapFull(p)
        BY <4>1 DEF MapFull, disks, LmdbInv, TypeOK
      <4>2. CASE OpenWriter(p) \/ OpenReader(p) \/ Resize(p)
        BY <4>2 DEF OpenWriter, OpenReader, Resize, txns, disks, LmdbInv, TypeOK
      <4> QED  BY <2>3, <4>1, <4>2
    <3>2. ViewIsAsked'
      BY <3>1 DEF LmdbInv, ViewIsAsked, Get, Promise!Overlay
    <3>3. ViewIsMade'
      BY <3>1 DEF LmdbInv, ViewIsMade, Chunks
    <3> QED  BY <2>1, <2>2, <3>1, <3>2, <3>3 DEF LmdbInv
  <2>4. CASE Begin(p)
    <3>1. /\ UNCHANGED <<cache, asked, disk, pos, rdonly, keys>> /\ view' = [view EXCEPT ![p] = disk]
          /\ pc[p] = "open" /\ pc' = [pc EXCEPT ![p] = "txn"]
      BY <2>4 DEF Begin, disks
    <3>2. asked[p] = Nothing
      BY <3>1 DEF LmdbInv, TidyOutside
    <3>3. ViewIsAsked'
      BY <3>1, <3>2, SMTT(40) DEF LmdbInv, TypeOK, ViewIsAsked, Get, Promise!Overlay, Nothing
    <3>4. ViewIsMade'
      BY <3>1 DEF LmdbInv, TypeOK, ViewIsMade, Chunks
    <3> QED  BY <2>1, <2>2, <3>1, <3>3, <3>4 DEF LmdbInv
  <2>5. CASE DeleteMissing(p)
    <3>1. UNCHANGED <<cache, asked, disk, pos, rdonly, view, pc, keys>>
      BY <2>5 DEF DeleteMissing, disks, handles
    <3> QED  BY <2>1, <2>2, <3>1 DEF LmdbInv, ViewIsAsked, Get, Promise!Overlay, ViewIsMade, Chunks
  <2>6. CASE SetValue(p)
    <3>1. PICK o \in Operation : SetValue(p)!(o)
      BY <2>6 DEF SetValue
    <3>2. o.key \in Word /\ o.kind # "commit"
      BY <3>1 DEF Operation
    <3> QED  BY <2>1, <3>1, <3>2, DoneKeeps DEF LmdbInv
  <2>7. CASE Delete(p)
    <3>1. PICK o \in Operation : Delete(p)!(o)
      BY <2>7 DEF Delete
    <3>2. PICK key \in DeletedKeys(p, o) : Done(p, o, key)
      BY <3>1
    <3>3. key \in Word
      BY <3>1, <3>2, LmdbAssumption DEF DeletedKeys, Walk
    <3> QED  BY <2>1, <3>1, <3>2, <3>3, DoneKeeps DEF LmdbInv
  <2>8. CASE BeginAgain(p)
    <3>1. CASE used > map[p]
      <4>1. UNCHANGED <<cache, asked, disk, pos, rdonly, view, keys>> /\ pc' = [pc EXCEPT ![p] = "full"]
        BY <2>8, <3>1 DEF BeginAgain, disks, txns
      <4>2. ViewIsAsked'
        BY <4>1 DEF LmdbInv, TypeOK, ViewIsAsked, Get, Promise!Overlay
      <4>3. ViewIsMade'
        BY <4>1 DEF LmdbInv, TypeOK, ViewIsMade, Chunks
      <4> QED  BY <2>1, <2>2, <4>1, <4>2, <4>3 DEF LmdbInv
    <3>2. CASE ~(used > map[p])
      <4>1. /\ UNCHANGED <<cache, asked, disk, pos, rdonly, keys>> /\ pc[p] = "resized"
            /\ pc' = [pc EXCEPT ![p] = "replaying"] /\ view' = [view EXCEPT ![p] = disk]
        BY <2>8, <3>2 DEF BeginAgain, disks
      <4>2. pos[p] = <<1, 1>> /\ pos[p][1] = 1 /\ pos[p][2] = 1
        BY <4>1 DEF LmdbInv, TidyOutside
      <4>3. MadeOf(Chunks(p), 1, 1, disk, disk)
        BY DEF MadeOf, IsEntry, Before
      <4>4. ViewIsAsked'
        BY <4>1 DEF LmdbInv, TypeOK, ViewIsAsked, Get, Promise!Overlay
      <4>5. ViewIsMade'
        BY <4>1, <4>2, <4>3, PlacesFollow DEF LmdbInv, TypeOK, ViewIsMade, Chunks
      <4> QED  BY <2>1, <2>2, <4>1, <4>4, <4>5 DEF LmdbInv
    <3> QED  BY <3>1, <3>2
  <2>9. CASE PlayEntry(p)
    <3> DEFINE c == Chunks(p)
               k == pos[p][1]
               i == pos[p][2]
               e == c[k][i]
    <3>1. Playable(p, e)
      BY <1>2, <2>9, EndsOut DEF PlayEntry, Chunks
    <3>2. /\ pc[p] = "replaying" /\ k \in DOMAIN c
          /\ view' = [view EXCEPT ![p][e.key] = e.val]
          /\ pos' = [pos EXCEPT ![p] = After(c, k, i)]
          /\ UNCHANGED <<cache, asked, disk, rdonly, pc, keys>>
      BY <2>9, <3>1 DEF PlayEntry, Chunks, After, disks, handles
    <3>3. IsEntry(c, k, i) /\ e \in Entry /\ k \in Nat /\ i \in Nat
      BY <3>2, EntryAtPlace DEF Chunks, LmdbInv, TypeOK
    <3>4. MadeOf(c, k, i, disk, view[p]) /\ DOMAIN view[p] = Word
      BY <3>2 DEF LmdbInv, ViewIsMade, TypeOK, List
    <3>5. PICK n \in Nat, h \in Nat : After(c, k, i) = <<n, h>> /\ Follows(c, k, i, n, h)
      BY <3>3, PlacesFollow
    <3> HIDE DEF c, k, i
    <3>6. e.key \in Word
      BY <3>3 DEF Entry
    <3>7. MadeOf(c, n, h, disk, [view[p] EXCEPT ![e.key] = e.val])
      BY <3>3, <3>4, <3>5, <3>6, PlayedOn DEF Follows
    <3>8. /\ view'[p] = [view[p] EXCEPT ![e.key] = e.val] /\ pos'[p][1] = n /\ pos'[p][2] = h
          /\ \A q \in Proc \ {p} : view'[q] = view[q] /\ pos'[q] = pos[q]
      BY <3>2, <3>5 DEF LmdbInv, TypeOK
    <3> HIDE DEF e
    <3>9. ViewIsAsked'
      BY <3>2, <3>8 DEF LmdbInv, ViewIsAsked, Get, Promise!Overlay
    <3>10. ViewIsMade'
      BY <3>2, <3>5, <3>7, <3>8 DEF LmdbInv, ViewIsMade, Chunks, Follows, c
    <3> QED  BY <2>1, <2>2, <3>2, <3>9, <3>10 DEF LmdbInv
  <2>10. CASE EndReplay(p)
    <3> DEFINE c == Chunks(p)
    <3>1. /\ pc[p] = "replaying" /\ pos[p][1] > Len(cache[p]) /\ pc' = [pc EXCEPT ![p] = "txn"]
          /\ pos' = [pos EXCEPT ![p] = <<1, 1>>] /\ UNCHANGED <<cache, asked, disk, rdonly, view, keys>>
      BY <2>10 DEF EndReplay, disks
    <3>2. Len(c) = Len(cache[p]) /\ Len(c) \in Nat /\ \A k, i \in Nat : IsEntry(c, k, i) => c[k][i] \in Entry
      BY ChunksTyped
    <3>3. pos[p][1] = Len(c) + 1 /\ pos[p][2] = 1 /\ MadeOf(c, pos[p][1], pos[p][2], disk, view[p])
      BY <3>1, <3>2 DEF LmdbInv, TypeOK, ViewIsMade, IsPlace, IsEntry
    <3>4. keys[p] # "replayed" => MadeOf(c, Len(c) + 1, 1, Nothing, asked[p])
      <4>1. keys[p] # "replayed" => keys[p] = "intact"
        BY <3>1 DEF LmdbInv, TypeOK, TidyOutside
      <4> QED  BY <3>2, <4>1 DEF LmdbInv, CacheIsAsked
    <3> HIDE DEF c
    <3>5. MadeOf(c, Len(c) + 1, 1, disk, view[p])
      BY <3>3
    <3>6. keys[p] # "replayed" => \A w \in Word : view[p][w] = Promise!Overlay(disk, asked[p])[w]
      BY <3>2, <3>4, <3>5, MadeIsOverlaid
    <3>7. ViewIsAsked'
      BY <3>1, <3>6 DEF LmdbInv, TypeOK, ViewIsAsked, Get, Promise!Overlay
    <3>8. ViewIsMade'
      BY <3>1 DEF LmdbInv, TypeOK, ViewIsMade, Chunks
    <3> QED  BY <2>1, <2>2, <3>1, <3>7, <3>8 DEF LmdbInv
  <2>11. CASE Close(p) \/ Crash(p) \/ Abort(p) \/ OutOfTries(p) \/ TooLarge(p) \/ Commit(p)
    BY <1>2, <2>11, EndsOut
  <2> QED
    BY <2>3, <2>4, <2>5, <2>6, <2>7, <2>8, <2>9, <2>10, <2>11 DEF Step
<1> QED  BY <1>1, <1>2

LEMMA LmdbInit == Init => LmdbInv
<1> SUFFICES ASSUME Init PROVE LmdbInv
  OBVIOUS
<1>1. MaxMap \in Nat \ {0} /\ GrowTries \in Nat /\ None \notin Proc
  BY LmdbAssumption
<1>2. /\ disk \in List /\ view \in [Proc -> List]
      /\ asked \in [Proc -> [Word -> Value \cup {Absent, Same}]]
  BY DEF Init, List, Empty, Nothing
<1>3. TypeOK
  BY <1>1, <1>2 DEF Init, TypeOK, States
<1>4. WriterAlone /\ TakesRoom /\ TidyOutside
  BY <1>1 DEF Init, WriterAlone, TakesRoom, TidyOutside
<1>5. ASSUME NEW p \in Proc
      PROVE  Len(cache[p]) = 0 /\ Chunks(p) = <<>> /\ asked[p] = Nothing
  BY DEF Init, Chunks, InOrder, Reverse
<1>6. CacheIsAsked
  BY <1>5 DEF CacheIsAsked, MadeOf, IsEntry
<1>7. ViewIsAsked /\ ViewIsMade
  BY DEF Init, ViewIsAsked, ViewIsMade
<1> QED  BY <1>3, <1>4, <1>6, <1>7 DEF LmdbInv

\* The steps that change neither the list nor what was asked for, and those that do.
LEMMA LmdbPromised ==
    ASSUME LmdbInv, NEW p \in Proc, Step(p) \/ Crash(p)
    PROVE  \/ Promise!ANext \/ UNCHANGED <<disk, asked>>
           \/ keys[p] = "replayed" /\ Commit(p)
<1>1. asked \in [Proc -> [Word -> Value \cup {Absent, Same}]] /\ disk \in List
  BY DEF LmdbInv, TypeOK
<1>2. Nothing = Promise!Nothing
  BY DEF Nothing, Promise!Nothing
<1>3. CASE Commit(p) /\ ~rdonly[p] /\ keys[p] # "replayed"
  <2>1. pc[p] = "txn" /\ disk' = view[p] /\ asked' = [asked EXCEPT ![p] = Nothing]
    BY <1>3 DEF Commit, Ended, Freed
  <2>2. view[p] \in List /\ \A w \in Word : view[p][w] = Promise!Overlay(disk, asked[p])[w]
    BY <1>3, <2>1 DEF LmdbInv, TypeOK, ViewIsAsked, Get
  <2>3. view[p] = Promise!Overlay(disk, asked[p])
    BY <2>2 DEF List, Promise!Overlay
  <2>4. Promise!Keep(p)
    BY <1>2, <2>1, <2>3 DEF Promise!Keep
  <2> QED  BY <2>4 DEF Promise!ANext
<1>4. ASSUME Freed(p), disk' = disk
      PROVE  Promise!ANext
  <2>1. Promise!Discard(p)
    BY <1>2, <1>4 DEF Promise!Discard, Freed
  <2> QED  BY <2>1 DEF Promise!ANext
<1>5. ASSUME Failed(p)
      PROVE  Freed(p) /\ disk' = disk
  BY <1>5 DEF Failed, Ended, Gone, disks
<1>6. CASE \/ Commit(p) /\ rdonly[p]
           \/ Close(p) \/ Crash(p) \/ Abort(p) \/ OutOfTries(p) \/ TooLarge(p)
  BY <1>4, <1>5, <1>6 DEF Commit, Ended, Close, Crash, Gone, Abort, OutOfTries, TooLarge, disks
<1>7. ASSUME NEW o \in Operation, o.kind # "commit", NEW key, Done(p, o, key)
      PROVE  Promise!ANext
  <2>1. o.key \in Word /\ o.val \in Value \cup {Absent}
    BY <1>7 DEF Operation
  <2>2. asked' = [asked EXCEPT ![p][o.key] = o.val] /\ disk' = disk /\ asked'[p][o.key] = o.val
    BY <1>1, <1>7, <2>1 DEF Done, disks
  <2>3. Promise!Ask(p)
    BY <2>1, <2>2 DEF Promise!Ask
  <2> QED  BY <2>3 DEF Promise!ANext
<1>8. CASE SetValue(p)
  <2>1. PICK o \in Operation : SetValue(p)!(o)
    BY <1>8 DEF SetValue
  <2> QED  BY <1>7, <2>1
<1>9. CASE Delete(p)
  <2>1. PICK o \in Operation : Delete(p)!(o)
    BY <1>9 DEF Delete
  <2> QED  BY <1>7, <2>1
<1>10. CASE PlayEntry(p)
  BY <1>4, <1>5, <1>10 DEF PlayEntry, disks
<1>11. CASE \/ OpenWriter(p) \/ OpenReader(p) \/ Begin(p) \/ DeleteMissing(p) \/ MapFull(p)
            \/ Resize(p) \/ BeginAgain(p) \/ EndReplay(p)
  BY <1>11 DEF OpenWriter, OpenReader, Begin, DeleteMissing, MapFull, Resize, BeginAgain, EndReplay,
               disks, txns
<1> QED
  BY <1>3, <1>6, <1>8, <1>9, <1>10, <1>11 DEF Step

LEMMA LmdbInvariance == Spec => []LmdbInv
<1>1. LmdbInv /\ [Next]_vars => LmdbInv'
  <2> SUFFICES ASSUME LmdbInv, [Next]_vars PROVE LmdbInv'
    OBVIOUS
  <2>1. CASE UNCHANGED vars
    BY <2>1 DEF vars, handles, txns, LmdbInv, TypeOK, WriterAlone, TakesRoom, TidyOutside,
                CacheIsAsked, ViewIsAsked, ViewIsMade, Get, Chunks, Promise!Overlay
  <2>2. CASE Next
    BY <2>2, LmdbStep DEF Next
  <2> QED  BY <2>1, <2>2
<1> QED  BY <1>1, LmdbInit, PTL DEF Spec

\* Types of the LMDB store, and the mutex: one writer in a transaction at a
\* time, whatever the bytes of deleted keys become (datastore_lmdb.c).
THEOREM LmdbTypeCorrect == Spec => [](TypeOK /\ WriterAlone)
<1>1. LmdbInv => TypeOK /\ WriterAlone
  BY DEF LmdbInv
<1> QED  BY <1>1, LmdbInvariance, PTL

\* A transaction reads its own writes, and after a replay it shows the list
\* it showed before the map was full (a_bflm_txn__replay); except one that was
\* replayed with a rewritten key in its cache (db_delete).
THEOREM ReplayShowsTheSame == Spec => []ViewIsAsked
<1>1. LmdbInv => ViewIsAsked
  BY DEF LmdbInv
<1> QED  BY <1>1, LmdbInvariance, PTL

\* LMDB with its cache and its growing map implements AtomicStore, but for the
\* commits of transactions replayed with a rewritten key (datastore_lmdb.c:22-35,
\* 908-929).
THEOREM LmdbImplementsAtomicStore == Spec => PromiseUnlessRewritten
<1>1. Init => Promise!AInit
  BY DEF Init, Promise!AInit, Empty, Nothing, Promise!Nothing
<1>2. LmdbInv /\ [Next]_vars
        => [Promise!ANext \/ \E p \in Proc : keys[p] = "replayed" /\ Commit(p)]_<<disk, asked>>
  <2> SUFFICES ASSUME LmdbInv, [Next]_vars
               PROVE  \/ Promise!ANext \/ UNCHANGED <<disk, asked>>
                      \/ \E p \in Proc : keys[p] = "replayed" /\ Commit(p)
    OBVIOUS
  <2> QED  BY LmdbPromised DEF Next, vars, txns
<1> QED  BY <1>1, <1>2, LmdbInvariance, PTL DEF Spec, PromiseUnlessRewritten
-----------------------------------------------------------------------------
(* Room for the replay.                                                    *)

\* The entries of a cache, and the pages they take, are finitely many.
LEMMA EntriesFinite ==
    ASSUME NEW c \in Seq(Seq(Entry))
    PROVE  /\ \A s : s \in Entries(c) <=> \E k, i \in Nat : IsEntry(c, k, i) /\ s = <<k, i>>
           /\ IsFiniteSet(Entries(c))
<1> DEFINE row(k) == {k} \X DOMAIN c[k]
           rows == {row(k) : k \in DOMAIN c}
<1>1. DOMAIN c = 1..Len(c) /\ Len(c) \in Nat
  OBVIOUS
<1>2. ASSUME NEW k \in DOMAIN c PROVE DOMAIN c[k] = 1..Len(c[k]) /\ Len(c[k]) \in Nat
  <2>1. c[k] \in Seq(Entry)
    BY <1>1
  <2> QED  BY <2>1
<1>3. ASSUME NEW k \in DOMAIN c PROVE IsFiniteSet(row(k))
  <2>1. 1 \in Int /\ Len(c[k]) \in Int /\ DOMAIN c[k] = 1..Len(c[k])
    BY <1>2
  <2>2. IsFiniteSet(DOMAIN c[k])
    BY <2>1, FS_Interval
  <2>3. IsFiniteSet({k})
    BY FS_Singleton
  <2> QED  BY <2>2, <2>3, FS_Product
<1>4. IsFiniteSet(DOMAIN c)
  BY <1>1, FS_Interval
<1>5. IsFiniteSet(rows)
  <2> DEFINE f == [k \in DOMAIN c |-> row(k)]
  <2> HIDE DEF row
  <2>1. f \in Surjection(DOMAIN c, rows)
    BY DEF Surjection
  <2> QED  BY <1>4, <2>1, FS_Surjection
<1>6. IsFiniteSet(UNION rows)
  <2>1. \A T \in rows : IsFiniteSet(T)
    BY <1>3
  <2> HIDE DEF rows
  <2> QED  BY <1>5, <2>1, FS_UNION
<1>7. ASSUME NEW s PROVE s \in Entries(c) <=> \E k, i \in Nat : IsEntry(c, k, i) /\ s = <<k, i>>
  BY <1>1, <1>2 DEF Entries, IsEntry
<1> QED  BY <1>6, <1>7 DEF Entries

\* The pages taken before a place, and with the entry at that place.
LEMMA PagesOn ==
    ASSUME NEW c \in Seq(Seq(Entry)), NEW m \in Nat, NEW j \in Nat
    PROVE  /\ Pages(c, m, j) \in Nat
           /\ IsPlace(c, m, j) => Pages(c, m, j) <= Pages(c, Len(c) + 1, 1)
           /\ IsEntry(c, m, j) => \A n, h \in Nat : Follows(c, m, j, n, h) =>
                Pages(c, n, h) = Pages(c, m, j) + c[m][j].need
<1>1. \A n, h : IsFiniteSet(Taking(c, n, h))
  BY EntriesFinite, FS_Subset DEF Taking
<1>2. \A n, h : Pages(c, n, h) \in Nat
  BY <1>1, FS_CardinalityType DEF Pages
<1>3. ASSUME IsPlace(c, m, j) PROVE Pages(c, m, j) <= Pages(c, Len(c) + 1, 1)
  <2>1. Taking(c, m, j) \subseteq Taking(c, Len(c) + 1, 1)
    <3> SUFFICES ASSUME NEW s \in Entries(c) PROVE Before(s[1], s[2], Len(c) + 1, 1)
      BY DEF Taking
    <3>1. PICK k \in Nat, i \in Nat : IsEntry(c, k, i) /\ s = <<k, i>>
      BY EntriesFinite
    <3> QED  BY <3>1 DEF IsEntry, Before
  <2> QED  BY <1>1, <2>1, FS_Subset DEF Pages
<1>4. ASSUME IsEntry(c, m, j), NEW n \in Nat, NEW h \in Nat, Follows(c, m, j, n, h)
      PROVE  Pages(c, n, h) = Pages(c, m, j) + c[m][j].need
  <2> DEFINE here == <<m, j>>
             now == Taking(c, m, j)
             next == Taking(c, n, h)
  <2>1. c[m][j].need \in 0..1
    <3>1. m \in 1..Len(c) /\ j \in 1..Len(c[m]) /\ c[m] \in Seq(Entry)
      BY <1>4 DEF IsEntry
    <3>2. c[m][j] \in Entry
      BY <3>1
    <3> QED  BY <3>2 DEF Entry
  <2>2. \A s : s \in next <=> s \in now \/ (s = here /\ c[m][j].need = 1)
    <3> SUFFICES ASSUME NEW s PROVE s \in next <=> s \in now \/ (s = here /\ c[m][j].need = 1)
      OBVIOUS
    <3>1. CASE s \in Entries(c)
      <4>1. PICK k \in Nat, i \in Nat : IsEntry(c, k, i) /\ s = <<k, i>>
        BY <3>1, EntriesFinite
      <4>2. Before(k, i, n, h) <=> Before(k, i, m, j) \/ (k = m /\ i = j)
        BY <1>4, <4>1 DEF Follows
      <4>3. s[1] = k /\ s[2] = i /\ (s = here <=> k = m /\ i = j)
        BY <4>1
      <4> QED  BY <3>1, <4>2, <4>3 DEF Taking
    <3>2. CASE s \notin Entries(c)
      <4>1. here \in Entries(c)
        BY <1>4, EntriesFinite
      <4> QED  BY <3>2, <4>1 DEF Taking
    <3> QED  BY <3>1, <3>2
  <2>3. here \notin now
    BY DEF Taking, Before
  <2>4. IsFiniteSet(now)
    BY <1>1
  <2> HIDE DEF here, now, next
  <2>5. CASE c[m][j].need = 1
    <3>1. next = now \cup {here}
      BY <2>2, <2>5
    <3>2. Cardinality(next) = Cardinality(now) + 1
      BY <2>3, <2>4, <3>1, FS_AddElement
    <3> QED  BY <2>5, <3>2 DEF Pages, now, next
  <2>6. CASE c[m][j].need = 0
    <3>1. next = now
      BY <2>2, <2>6 DEF next, now, Taking
    <3>2. Cardinality(now) \in Nat
      BY <2>4, FS_CardinalityType
    <3> QED  BY <2>6, <3>1, <3>2 DEF Pages, now, next
  <2> QED  BY <2>1, <2>5, <2>6
<1> QED  BY <1>2, <1>3, <1>4

\* One more entry takes the pages it needs.
LEMMA PagesPut ==
    ASSUME NEW c \in Seq(Seq(Entry)), NEW d \in Seq(Seq(Entry)), NEW m \in Nat, NEW j \in Nat, NEW e,
           Extends(c, d, m, j, e)
    PROVE  Pages(d, Len(d) + 1, 1) = Pages(c, Len(c) + 1, 1) + e.need
<1>1. Len(c) \in Nat /\ Len(d) \in Nat /\ \A k \in 1..Len(d) : Len(d[k]) \in Nat
  <2>1. \A k \in 1..Len(d) : d[k] \in Seq(Entry)
    OBVIOUS
  <2> QED  BY <2>1
<1>2. IsEntry(d, m, j) /\ d[m][j] = e /\ m = Len(d) /\ j = Len(d[m])
  BY DEF Extends
<1>3. Follows(d, m, j, Len(d) + 1, 1)
  <2>1. ASSUME NEW k \in Nat, NEW i \in Nat, IsEntry(d, k, i)
        PROVE  Before(k, i, Len(d) + 1, 1) <=> Before(k, i, m, j) \/ (k = m /\ i = j)
    <3>1. k \in 1..Len(d) /\ i \in 1..Len(d[k])
      BY <2>1 DEF IsEntry
    <3> QED  BY <1>1, <1>2, <3>1 DEF Before
  <2> QED  BY <2>1 DEF Follows, IsPlace
<1>4. Taking(d, m, j) = Taking(c, Len(c) + 1, 1)
  <2> SUFFICES ASSUME NEW s PROVE s \in Taking(d, m, j) <=> s \in Taking(c, Len(c) + 1, 1)
    BY DEF Taking
  <2>1. ASSUME NEW k \in Nat, NEW i \in Nat, IsEntry(d, k, i), s = <<k, i>>
        PROVE  s \in Taking(d, m, j) <=> s \in Taking(c, Len(c) + 1, 1)
    <3>1. s[1] = k /\ s[2] = i /\ s \in Entries(d)
      BY <2>1, EntriesFinite
    <3>2. CASE IsEntry(c, k, i)
      <4>1. d[k][i] = c[k][i] /\ Before(k, i, m, j) /\ Before(k, i, Len(c) + 1, 1) /\ s \in Entries(c)
        BY <2>1, <3>2, EntriesFinite DEF Extends
      <4> QED  BY <3>1, <4>1 DEF Taking
    <3>3. CASE ~IsEntry(c, k, i)
      <4>1. k = m /\ i = j
        BY <2>1, <3>3 DEF Extends
      <4>2. ~Before(k, i, m, j)
        BY <4>1 DEF Before
      <4>3. s \notin Entries(c)
        BY <2>1, <3>3, EntriesFinite
      <4> QED  BY <3>1, <4>2, <4>3 DEF Taking
    <3> QED  BY <3>2, <3>3
  <2>2. \A k, i \in Nat : IsEntry(c, k, i) => IsEntry(d, k, i)
    BY DEF Extends
  <2>3. s \in Taking(d, m, j) \/ s \in Taking(c, Len(c) + 1, 1) =>
          \E k, i \in Nat : IsEntry(d, k, i) /\ s = <<k, i>>
    BY <2>2, EntriesFinite DEF Taking
  <2> QED  BY <2>1, <2>3
<1>5. Pages(d, Len(d) + 1, 1) = Pages(d, m, j) + d[m][j].need
  <2>1. \A n, h \in Nat : Follows(d, m, j, n, h) => Pages(d, n, h) = Pages(d, m, j) + d[m][j].need
    <3>1. IsEntry(d, m, j)
      BY <1>2
    <3> QED  BY <3>1, PagesOn, Zenon
  <2>2. Len(d) + 1 \in Nat /\ 1 \in Nat
    BY <1>1
  <2> QED  BY <1>3, <2>1, <2>2
<1> QED  BY <1>2, <1>4, <1>5 DEF Pages
\* What a step leaves to the other processes.  The list changes under one only
\* if it takes no part in writing, or is overtaken.
LEMMA OthersKept ==
    ASSUME LmdbInv, NEW p \in Proc, Step(p) \/ Crash(p), NEW q \in Proc, q # p
    PROVE  /\ pc'[q] = pc[q] /\ rdonly'[q] = rdonly[q] /\ map'[q] = map[q] /\ dbsize'[q] = dbsize[q]
           /\ room'[q] = room[q] /\ cache'[q] = cache[q] /\ pos'[q] = pos[q] /\ op'[q] = op[q]
           /\ keys'[q] = keys[q]
           /\ q \notin overtaken' => q \notin overtaken
           /\ \/ disk' = disk /\ used' = used
              \/ /\ q \notin overtaken' => pc[q] \notin {"full", "resized"}
                 /\ writer # q
<1>1. ASSUME MovedOut(p, "open") \/ MovedOut(p, "closed") \/ MovedOut(p, "exited")
      PROVE  /\ pc'[q] = pc[q] /\ rdonly'[q] = rdonly[q] /\ map'[q] = map[q] /\ dbsize'[q] = dbsize[q]
             /\ room'[q] = room[q] /\ cache'[q] = cache[q] /\ pos'[q] = pos[q] /\ op'[q] = op[q]
           /\ keys'[q] = keys[q]
  BY <1>1 DEF MovedOut, Freed, LmdbInv, TypeOK
<1>2. ASSUME Failed(p)
      PROVE  /\ MovedOut(p, "open") \/ MovedOut(p, "exited")
             /\ UNCHANGED disks /\ overtaken' = overtaken \ {p}
  BY <1>2 DEF Failed, Ended, Gone, MovedOut
<1>3. CASE Close(p) \/ Crash(p) \/ Abort(p) \/ OutOfTries(p) \/ TooLarge(p)
  <2>1. /\ MovedOut(p, "open") \/ MovedOut(p, "closed") \/ MovedOut(p, "exited")
        /\ UNCHANGED disks /\ overtaken' = overtaken \ {p}
    BY <1>2, <1>3 DEF Close, Crash, Abort, OutOfTries, TooLarge, Ended, Gone, MovedOut
  <2> QED  BY <1>1, <2>1 DEF disks
<1>4. CASE Commit(p)
  <2>1. /\ pc[p] = "txn" /\ Ended(p)
        /\ \/ UNCHANGED disks /\ overtaken' = overtaken
           \/ ~rdonly[p] /\ overtaken' = (overtaken \ {p}) \cup Growing
    BY <1>4 DEF Commit
  <2>2. Growing \subseteq Proc /\ p \notin Growing /\ (pc[q] \in {"full", "resized"} => q \in Growing)
    BY <2>1 DEF Growing
  <2>3. rdonly[p] => p \notin overtaken
    BY DEF LmdbInv, TidyOutside
  <2>4. MovedOut(p, "open")
    BY <1>4, <2>1, <2>2, <2>3 DEF MovedOut, Ended, Commit
  <2>5. ~rdonly[p] => writer # q
    BY <2>1 DEF LmdbInv, WriterAlone
  <2> QED  BY <1>1, <2>1, <2>2, <2>4, <2>5 DEF disks
<1>5. CASE PlayEntry(p)
  <2>1. \/ UNCHANGED <<disks, writer, handles, cache, op, tries, asked, overtaken, keys>>
        \/ Failed(p)
    BY <1>5 DEF PlayEntry
  <2>2. CASE Failed(p)
    BY <1>1, <1>2, <2>2 DEF disks
  <2>3. CASE UNCHANGED <<disks, writer, handles, cache, op, tries, asked, overtaken, keys>>
    <3>1. room'[q] = room[q] /\ pos'[q] = pos[q]
      <4>1. ~Failed(p) => /\ room' = [room EXCEPT ![p] = room'[p]]
                          /\ pos' = [pos EXCEPT ![p] = pos'[p]]
        BY <1>5 DEF PlayEntry, LmdbInv, TypeOK
      <4> QED  BY <1>1, <1>2, <4>1 DEF LmdbInv, TypeOK
    <3> QED  BY <2>3, <3>1 DEF disks, handles
  <2> QED  BY <2>1, <2>2, <2>3
<1>6. CASE SetValue(p) \/ Delete(p)
  <2>1. PICK o \in Operation : \E key : Done(p, o, key)
    BY <1>6 DEF SetValue, Delete
  <2> QED  BY <2>1 DEF Done, disks, handles, LmdbInv, TypeOK
<1>7. CASE MapFull(p)
  BY <1>7 DEF MapFull, disks, LmdbInv, TypeOK
<1>8. CASE \/ OpenWriter(p) \/ OpenReader(p) \/ Begin(p) \/ DeleteMissing(p)
           \/ Resize(p) \/ EndReplay(p)
  BY <1>8, SMTT(40) DEF OpenWriter, OpenReader, Begin, DeleteMissing, Resize, EndReplay, disks, handles, txns, LmdbInv, TypeOK
<1>9. CASE BeginAgain(p)
  BY <1>9, SMTT(40) DEF BeginAgain, disks, txns, LmdbInv, TypeOK
<1> QED
  BY <1>3, <1>4, <1>5, <1>6, <1>7, <1>8, <1>9 DEF Step

\* The map only grows, and records only what was mapped.
LEMMA SizeGrows ==
    ASSUME LmdbInv, NEW p \in Proc, Step(p) \/ Crash(p)
    PROVE  size \in Nat /\ size' \in Nat /\ size <= size'
<1>1. size \in Nat /\ \A q \in Proc : map[q] \in Nat
  BY LmdbAssumption DEF LmdbInv, TypeOK
<1>2. size' = size \/ size' = Larger(size, map[p])
  <2>1. CASE Commit(p)
    BY <2>1 DEF Commit, disks
  <2>2. CASE SetValue(p) \/ Delete(p)
    BY <2>2 DEF SetValue, Delete, Done, disks
  <2>3. CASE PlayEntry(p)
    BY <2>3 DEF PlayEntry, Failed, Ended, Gone, disks
  <2>4. CASE Close(p) \/ Crash(p) \/ Abort(p) \/ OutOfTries(p) \/ TooLarge(p)
    BY <2>4 DEF Close, Crash, Abort, OutOfTries, TooLarge, Failed, Ended, Gone, disks
  <2>5. CASE \/ OpenWriter(p) \/ OpenReader(p) \/ Begin(p) \/ DeleteMissing(p) \/ MapFull(p)
             \/ Resize(p) \/ BeginAgain(p) \/ EndReplay(p)
    BY <2>5 DEF OpenWriter, OpenReader, Begin, DeleteMissing, MapFull, Resize, BeginAgain, EndReplay, disks
  <2> QED  BY <2>1, <2>2, <2>3, <2>4, <2>5 DEF Step
<1> QED  BY <1>1, <1>2 DEF Larger
LEMMA PagesNone ==
    ASSUME NEW c \in Seq(Seq(Entry))
    PROVE  Pages(c, 1, 1) = 0
<1>1. Taking(c, 1, 1) = {}
  <2> SUFFICES ASSUME NEW s \in Entries(c) PROVE ~Before(s[1], s[2], 1, 1)
    BY DEF Taking
  <2>1. PICK k \in Nat, i \in Nat : IsEntry(c, k, i) /\ s = <<k, i>>
    BY EntriesFinite
  <2> QED  BY <2>1 DEF IsEntry, Before
<1> QED  BY <1>1, FS_EmptySet DEF Pages

\* The numbers the room is counted in.
LEMMA RoomTyped ==
    ASSUME LmdbInv, NEW p \in Proc
    PROVE  /\ used \in Nat /\ size \in Nat /\ map[p] \in Nat /\ dbsize[p] \in Nat /\ room[p] \in Nat
           /\ Pages(Chunks(p), Len(cache[p]) + 1, 1) \in Nat
           /\ All(p) \in Nat /\ used <= All(p) /\ Chunks(p) \in Seq(Seq(Entry))
           /\ Len(cache[p]) \in Nat /\ Len(Chunks(p)) = Len(cache[p])
           /\ room[p] <= map[p] /\ used <= size
<1>1. /\ used \in Nat /\ size \in Nat /\ map[p] \in Nat /\ dbsize[p] \in Nat /\ room[p] \in Nat
      /\ room[p] <= map[p] /\ used <= size
  BY LmdbAssumption DEF LmdbInv, TypeOK, TakesRoom
<1>2. Chunks(p) \in Seq(Seq(Entry)) /\ Len(Chunks(p)) = Len(cache[p]) /\ Len(cache[p]) + 1 \in Nat
  BY ChunksTyped
<1>3. Pages(Chunks(p), Len(cache[p]) + 1, 1) \in Nat
  BY <1>2, PagesOn
<1>4. Len(cache[p]) \in Nat
  BY ChunksTyped
<1> QED  BY <1>1, <1>2, <1>3, <1>4 DEF All

LEMMA RoomOthers ==
    ASSUME LmdbInv, RoomIsMade, NEW p \in Proc, Step(p) \/ Crash(p), NEW q \in Proc, q # p
    PROVE  /\ map'[q] <= Larger(size', dbsize'[q])
           /\ q \notin overtaken' /\ ~rdonly'[q] => RoomFor(q)'
<1>1. map'[q] <= Larger(size', dbsize'[q])
  <2>1. map'[q] = map[q] /\ dbsize'[q] = dbsize[q]
    BY OthersKept
  <2>2. map[q] <= Larger(size, dbsize[q])
    BY DEF RoomIsMade
  <2> QED  BY <2>1, <2>2, SizeGrows, RoomTyped DEF Larger
<1>2. ASSUME q \notin overtaken', ~rdonly'[q]
      PROVE  RoomFor(q)'
  <2>1. RoomFor(q)
    BY <1>2, OthersKept DEF RoomIsMade
  <2>2. CASE used' = used
    BY <2>1, <2>2, OthersKept DEF RoomFor, All, Chunks
  <2>3. CASE used' # used
    <3>1. pc[q] \notin {"full", "resized", "replaying", "txn"}
      BY <1>2, <2>3, OthersKept DEF LmdbInv, WriterAlone
    <3> QED  BY <3>1, OthersKept DEF RoomFor
  <2> QED  BY <2>2, <2>3
<1> QED  BY <1>1, <1>2

LEMMA RoomStep ==
    ASSUME LmdbInv, RoomIsMade, NEW p \in Proc, Step(p) \/ Crash(p)
    PROVE  RoomIsMade'
<1> SUFFICES /\ map'[p] <= Larger(size', dbsize'[p])
             /\ p \notin overtaken' /\ ~rdonly'[p] => RoomFor(p)'
  BY RoomOthers DEF RoomIsMade
<1>0. map[p] <= Larger(size, dbsize[p]) /\ (p \notin overtaken /\ ~rdonly[p] => RoomFor(p))
  BY DEF RoomIsMade
<1>1. CASE Out(p)
  <2>1. PICK to : MovedOut(p, to)
    BY <1>1 DEF Out
  <2>2. pc'[p] \in {"open", "closed", "exited"}
    BY <2>1 DEF MovedOut, LmdbInv, TypeOK
  <2>3. \/ map'[p] = map[p] /\ dbsize'[p] = dbsize[p]
        \/ map'[p] = 0
    BY <2>1 DEF MovedOut, LmdbInv, TypeOK
  <2>4. map'[p] <= Larger(size', dbsize'[p])
    <3>1. CASE map'[p] = map[p] /\ dbsize'[p] = dbsize[p]
      BY <1>0, <3>1, SizeGrows, RoomTyped DEF Larger
    <3>2. CASE map'[p] = 0
      <4>1. dbsize'[p] = dbsize[p] \/ dbsize'[p] = 0
        BY <2>1 DEF MovedOut, LmdbInv, TypeOK
      <4> QED  BY <3>2, <4>1, SizeGrows, RoomTyped DEF Larger
    <3> QED  BY <2>3, <3>1, <3>2
  <2> QED  BY <2>2, <2>4 DEF RoomFor
<1>2. CASE OpenWriter(p) \/ OpenReader(p)
  <2>1. pc'[p] = "open" /\ map'[p] = size /\ size' = size /\ dbsize'[p] = 0
    BY <1>2 DEF OpenWriter, OpenReader, disks, LmdbInv, TypeOK
  <2> QED  BY <2>1, RoomTyped DEF Larger, RoomFor
<1>3. CASE Begin(p)
  <2>1. /\ pc[p] = "open" /\ pc'[p] = "txn" /\ map'[p] = Fitted(p) /\ room'[p] = used
        /\ UNCHANGED <<size, used, dbsize, cache, op>>
    BY <1>3 DEF Begin, disks, LmdbInv, TypeOK
  <2>2. cache[p] = <<>> /\ op[p] = None
    BY <2>1 DEF LmdbInv, TidyOutside
  <2>3. Len(cache[p]) = 0 /\ Chunks(p)' = Chunks(p)
    BY <2>1, <2>2 DEF Chunks
  <2>4. Pages(Chunks(p), Len(cache[p]) + 1, 1) = 0
    BY <2>3, PagesNone, RoomTyped
  <2>5. All(p)' = used
    BY <2>1, <2>3, <2>4, RoomTyped DEF All
  <2>6. map'[p] <= Larger(size', dbsize'[p])
    BY <1>0, <2>1, RoomTyped DEF Larger, Fitted
  <2> QED  BY <2>1, <2>2, <2>5, <2>6 DEF RoomFor
<1>4. CASE DeleteMissing(p)
  <2>1. /\ UNCHANGED <<size, used, map, dbsize, pc, rdonly, room, cache, overtaken>> /\ op'[p] = None
        /\ pc[p] = "txn"
    BY <1>4 DEF DeleteMissing, disks, handles, LmdbInv, TypeOK
  <2>2. Chunks(p)' = Chunks(p)
    BY <2>1 DEF Chunks
  <2> QED  BY <1>0, <2>1, <2>2 DEF RoomFor, All
<1>5. CASE SetValue(p) \/ Delete(p)
  <2>1. PICK o \in Operation : /\ o.kind # "commit" /\ pc[p] = "txn" /\ ~rdonly[p]
                               /\ \E key \in Word : Done(p, o, key)
    <3>1. CASE SetValue(p)
      <4>1. PICK o \in Operation : SetValue(p)!(o)
        BY <3>1 DEF SetValue
      <4>2. o.key \in Word
        BY <4>1 DEF Operation
      <4> QED  BY <4>1, <4>2
    <3>2. CASE Delete(p)
      <4>1. PICK o \in Operation : Delete(p)!(o)
        BY <3>2 DEF Delete
      <4>2. DeletedKeys(p, o) \subseteq Word
        BY <4>1, LmdbAssumption DEF DeletedKeys, Walk
      <4> QED  BY <4>1, <4>2
    <3> QED  BY <1>5, <3>1, <3>2
  <2>2. PICK key \in Word : Done(p, o, key)
    BY <2>1
  <2> DEFINE e == [key |-> key, val |-> o.val, need |-> o.need]
             put == CachePut(cache[p], e)
             c == Chunks(p)
             d == InOrder(put)
  <2>3. e \in Entry /\ o.need \in 0..1 /\ e.need = o.need
    BY <2>1 DEF Operation, Entry
  <2>4. /\ cache' = [cache EXCEPT ![p] = put] /\ room' = [room EXCEPT ![p] = room[p] + o.need]
        /\ op' = [op EXCEPT ![p] = None]
        /\ UNCHANGED <<used, size, map, dbsize, pc, rdonly, overtaken>>
    BY <2>2 DEF Done, disks, handles, LmdbInv, TypeOK
  <2> HIDE DEF e
  <2>5. cache[p] \in Seq(Seq(Entry)) /\ \A k \in 1..Len(cache[p]) : cache[p][k] # <<>>
    BY DEF LmdbInv, TypeOK, CacheIsAsked
  <2>6. put \in Seq(Seq(Entry)) /\ \E m, j \in Nat : Extends(InOrder(cache[p]), d, m, j, e)
    BY <2>3, <2>5, PutAtEnd
  <2> HIDE DEF put
  <2>7. cache'[p] = put /\ room'[p] = room[p] + o.need /\ op'[p] = None
    BY <2>4 DEF LmdbInv, TypeOK
  <2>8. Chunks(p)' = d /\ Len(d) = Len(put) /\ d \in Seq(Seq(Entry))
    BY <2>6, <2>7, Reversed DEF Chunks, InOrder, Reverse
  <2> HIDE DEF d
  <2>9. Pages(d, Len(d) + 1, 1) = Pages(c, Len(c) + 1, 1) + o.need
    <3>1. c \in Seq(Seq(Entry)) /\ \E m, j \in Nat : Extends(c, d, m, j, e)
      BY <2>6, RoomTyped DEF Chunks
    <3> HIDE DEF c
    <3> QED  BY <2>3, <2>8, <3>1, PagesPut
  <2>10. All(p)' = All(p) + o.need
    <3>1. All(p)' = used + Pages(d, Len(d) + 1, 1)
      BY <2>4, <2>7, <2>8 DEF All
    <3>2. All(p) = used + Pages(c, Len(c) + 1, 1)
      BY RoomTyped DEF All
    <3>3. used \in Nat /\ Pages(c, Len(c) + 1, 1) \in Nat /\ o.need \in Nat
      BY <2>3, RoomTyped
    <3> HIDE DEF c
    <3> QED  BY <2>9, <3>1, <3>2, <3>3
  <2>11. map'[p] <= Larger(size', dbsize'[p])
    BY <1>0, <2>4
  <2>12. ASSUME p \notin overtaken', ~rdonly'[p] PROVE RoomFor(p)'
    <3>1. room[p] = All(p)
      BY <1>0, <2>1, <2>4, <2>12 DEF RoomFor
    <3>2. room'[p] = All(p)'
      BY <2>7, <2>10, <3>1
    <3>3. pc'[p] = "txn" /\ op'[p] = None
      BY <2>1, <2>4, <2>7
    <3> QED  BY <3>2, <3>3 DEF RoomFor
  <2> QED  BY <2>11, <2>12
<1>6. CASE MapFull(p)
  <2>1. PICK o \in Operation : MapFull(p)!(o)
    BY <1>6 DEF MapFull
  <2>2. /\ UNCHANGED <<size, used, map, dbsize, rdonly, cache, overtaken>> /\ pc[p] = "txn" /\ pc'[p] = "full"
    BY <2>1 DEF disks, LmdbInv, TypeOK
  <2>3. ~(room[p] + o.need <= map[p]) /\ o.need \in 0..1
    BY <2>1 DEF Fits, Operation
  <2>4. All(p)' = All(p)
    BY <2>2 DEF All, Chunks
  <2>5. p \notin overtaken /\ ~rdonly[p] => room[p] = All(p)
    BY <1>0, <2>2 DEF RoomFor
  <2>6. p \notin overtaken /\ ~rdonly[p] => All(p) <= map[p]
    BY <2>3, <2>5, RoomTyped
  <2> QED  BY <1>0, <2>2, <2>4, <2>6 DEF RoomFor
<1>7. CASE Resize(p)
  <2>1. /\ UNCHANGED <<size, used, rdonly, cache, overtaken>> /\ pc[p] = "full" /\ pc'[p] = "resized"
        /\ map'[p] = Grown(p) /\ dbsize'[p] = Grown(p)
    BY <1>7 DEF Resize, disks, txns, LmdbInv, TypeOK
  <2>2. All(p)' = All(p)
    BY <2>1 DEF All, Chunks
  <2>3. Grown(p) \in Nat /\ map[p] < Grown(p)
    BY <1>0, RoomTyped DEF Grown, Larger
  <2>4. map'[p] <= Larger(size', dbsize'[p])
    BY <2>1, <2>3, RoomTyped DEF Larger
  <2>5. p \notin overtaken /\ ~rdonly[p] => All(p) < map'[p]
    <3>1. p \notin overtaken /\ ~rdonly[p] => All(p) <= map[p]
      BY <1>0, <2>1 DEF RoomFor
    <3> QED  BY <2>1, <2>3, <3>1, RoomTyped
  <2> QED  BY <2>1, <2>2, <2>4, <2>5 DEF RoomFor
<1>8. CASE BeginAgain(p)
  <2>1. /\ UNCHANGED <<size, used, map, dbsize, rdonly, cache, pos, overtaken>> /\ pc[p] = "resized"
        /\ \/ used > map[p] /\ pc'[p] = "full"
           \/ pc'[p] = "replaying" /\ room'[p] = used
    BY <1>8 DEF BeginAgain, disks, txns, LmdbInv, TypeOK
  <2>2. All(p)' = All(p) /\ Chunks(p)' = Chunks(p)
    BY <2>1 DEF All, Chunks
  <2>3. p \notin overtaken /\ ~rdonly[p] => All(p) < map[p]
    BY <1>0, <2>1 DEF RoomFor
  <2>4. pos[p] = <<1, 1>> /\ pos[p][1] = 1 /\ pos[p][2] = 1
    BY <2>1 DEF LmdbInv, TidyOutside
  <2>5. Pages(Chunks(p), pos[p][1], pos[p][2]) = 0
    BY <2>4, PagesNone, RoomTyped
  <2>6. used = used + Pages(Chunks(p), pos[p][1], pos[p][2])
    BY <2>5, RoomTyped
  <2>7. p \notin overtaken /\ ~rdonly[p] => ~(used > map[p])
    BY <2>3, RoomTyped
  <2>8. p \notin overtaken /\ ~rdonly[p] => RoomFor(p)'
    BY <2>1, <2>2, <2>3, <2>6, <2>7 DEF RoomFor
  <2> QED  BY <1>0, <2>1, <2>8
<1>9. CASE PlayEntry(p) /\ ~Out(p)
  <2> DEFINE c == Chunks(p)
             k == pos[p][1]
             i == pos[p][2]
             e == c[k][i]
  <2>1. /\ pc[p] = "replaying" /\ k \in DOMAIN c
        /\ room' = [room EXCEPT ![p] = @ + e.need]
        /\ pos' = [pos EXCEPT ![p] = After(c, k, i)]
        /\ UNCHANGED <<used, size, map, dbsize, pc, rdonly, cache, overtaken>>
    BY <1>9, EndsOut DEF PlayEntry, Chunks, After, disks, handles
  <2>2. IsEntry(c, k, i) /\ k \in Nat /\ i \in Nat
    BY <2>1, EntryAtPlace DEF Chunks, LmdbInv, TypeOK
  <2>3. PICK n \in Nat, h \in Nat : After(c, k, i) = <<n, h>> /\ Follows(c, k, i, n, h)
    BY <2>2, PlacesFollow
  <2>4. c \in Seq(Seq(Entry))
    BY RoomTyped
  <2>5. Pages(c, n, h) = Pages(c, k, i) + e.need
    <3>1. \A x, y \in Nat : Follows(c, k, i, x, y) => Pages(c, x, y) = Pages(c, k, i) + e.need
      <4> HIDE DEF c, k, i
      <4> QED  BY <2>2, <2>4, PagesOn, Zenon
    <3> QED  BY <2>3, <3>1
  <2>6. Chunks(p)' = c /\ All(p)' = All(p)
    BY <2>1 DEF All, Chunks
  <2>7. Pages(c, k, i) \in Nat /\ e.need \in 0..1
    <3>1. e \in Entry
      BY <2>1, EntryAtPlace DEF Chunks
    <3>2. Pages(c, k, i) \in Nat
      <4> HIDE DEF c, k, i
      <4> QED  BY <2>2, <2>4, PagesOn, Zenon
    <3> QED  BY <3>1, <3>2 DEF Entry
  <2> HIDE DEF c, k, i
  <2>8. pos'[p][1] = n /\ pos'[p][2] = h /\ room'[p] = room[p] + e.need
    BY <2>1, <2>3 DEF LmdbInv, TypeOK
  <2> HIDE DEF e
  <2>9. ASSUME p \notin overtaken, ~rdonly[p] PROVE RoomFor(p)'
    <3>1. All(p) < map[p] /\ room[p] = used + Pages(c, k, i)
      BY <1>0, <2>1, <2>9 DEF RoomFor, c, k, i
    <3>2. room'[p] = used + Pages(c, n, h)
      <4>1. used \in Nat
        BY RoomTyped
      <4> QED  BY <2>5, <2>7, <2>8, <3>1, <4>1
    <3>3. pc'[p] = "replaying" /\ used' = used /\ map' = map
      BY <2>1
    <3> QED  BY <2>6, <2>8, <3>1, <3>2, <3>3 DEF RoomFor
  <2> QED  BY <1>0, <2>1, <2>9
<1>10. CASE EndReplay(p)
  <2>1. /\ pc[p] = "replaying" /\ pos[p][1] > Len(cache[p]) /\ pc'[p] = "txn"
        /\ UNCHANGED <<used, size, map, dbsize, rdonly, cache, room, op, overtaken>>
    BY <1>10 DEF EndReplay, disks, LmdbInv, TypeOK
  <2>2. pos[p][1] = Len(cache[p]) + 1 /\ pos[p][2] = 1
    <3>1. IsPlace(Chunks(p), pos[p][1], pos[p][2])
      BY <2>1 DEF LmdbInv, ViewIsMade
    <3>2. Len(Chunks(p)) = Len(cache[p]) /\ Len(cache[p]) \in Nat
      BY RoomTyped
    <3> QED  BY <2>1, <3>1, <3>2 DEF IsPlace, IsEntry
  <2>3. All(p)' = All(p)
    BY <2>1 DEF All, Chunks
  <2>4. p \notin overtaken /\ ~rdonly[p] => room[p] = All(p) /\ All(p) < map[p]
    BY <1>0, <2>1, <2>2 DEF RoomFor, All
  <2> QED  BY <1>0, <2>1, <2>3, <2>4 DEF RoomFor
<1>11. CASE Close(p) \/ Crash(p) \/ Abort(p) \/ OutOfTries(p) \/ TooLarge(p) \/ Commit(p)
  BY <1>1, <1>11, EndsOut
<1> QED
  BY <1>1, <1>2, <1>3, <1>4, <1>5, <1>6, <1>7, <1>8, <1>9, <1>10, <1>11 DEF Step
\* The same entries before a place make the same list.
LEMMA MadeSame ==
    ASSUME NEW c, NEW d, NEW m, NEW j, NEW n, NEW h, NEW base, NEW list,
           \A k, i \in Nat : IsEntry(c, k, i) /\ Before(k, i, n, h) <=> IsEntry(d, k, i) /\ Before(k, i, m, j),
           \A k, i \in Nat : IsEntry(c, k, i) => d[k][i] = c[k][i],
           MadeOf(d, m, j, base, list)
    PROVE  MadeOf(c, n, h, base, list)
<1>1. ASSUME NEW w, NEW k \in Nat, NEW i \in Nat, LastFor(d, m, j, w, k, i)
      PROVE  LastFor(c, n, h, w, k, i) /\ d[k][i] = c[k][i]
  <2>1. IsEntry(d, k, i) /\ Before(k, i, m, j) /\ d[k][i].key = w
    BY <1>1 DEF LastFor
  <2>2. d[k][i] = c[k][i] /\ IsEntry(c, k, i) /\ Before(k, i, n, h)
    BY <2>1
  <2>3. ASSUME NEW l \in Nat, NEW g \in Nat, IsEntry(c, l, g), Before(l, g, n, h), Before(k, i, l, g)
        PROVE  c[l][g].key # w
    <3>1. IsEntry(d, l, g) /\ Before(l, g, m, j)
      BY <2>3
    <3>2. d[l][g].key # w
      BY <3>1, <2>3, <1>1 DEF LastFor
    <3> QED  BY <2>3, <3>2
  <2> QED  BY <2>1, <2>2, <2>3 DEF LastFor
<1> SUFFICES ASSUME NEW w \in Word
             PROVE  \/ /\ list[w] = base[w]
                       /\ \A k, i \in Nat : IsEntry(c, k, i) /\ Before(k, i, n, h) => c[k][i].key # w
                    \/ \E k, i \in Nat : LastFor(c, n, h, w, k, i) /\ list[w] = c[k][i].val
  BY DEF MadeOf
<1>2. CASE /\ list[w] = base[w]
           /\ \A k, i \in Nat : IsEntry(d, k, i) /\ Before(k, i, m, j) => d[k][i].key # w
  BY <1>2
<1>3. CASE \E k, i \in Nat : LastFor(d, m, j, w, k, i) /\ list[w] = d[k][i].val
  BY <1>1, <1>3
<1> QED  BY <1>2, <1>3 DEF MadeOf

\* A delete that was done finds its word again.
LEMMA DeleteDone ==
    ASSUME LmdbInv, NEW p \in Proc, p \notin overtaken, Deletes(Chunks(p), disk), keys[p] = "intact",
           NEW o \in Operation, o.kind # "commit", o.val = Absent => o.key \in Walk(p),
           Done(p, o, o.key), pc[p] = "txn", ~rdonly[p]
    PROVE  Deletes(Chunks(p), disk)'
<1> DEFINE e == [key |-> o.key, val |-> o.val, need |-> o.need]
           put == CachePut(cache[p], e)
           c == Chunks(p)
           d == InOrder(put)
<1>1. e \in Entry /\ e.key = o.key /\ e.val = o.val /\ o.key \in Word
  BY DEF Operation, Entry
<1>2. cache[p] \in Seq(Seq(Entry)) /\ \A k \in 1..Len(cache[p]) : cache[p][k] # <<>>
  BY DEF LmdbInv, TypeOK, CacheIsAsked
<1>3. PICK m \in Nat, j \in Nat : Extends(c, d, m, j, e)
  BY <1>1, <1>2, PutAtEnd DEF Chunks
<1>4. Chunks(p)' = d /\ disk' = disk
  BY DEF Done, LmdbInv, TypeOK, Chunks, disks
<1>5. Len(c) = Len(cache[p]) /\ \A k, i \in Nat : IsEntry(c, k, i) => c[k][i] \in Entry
  BY ChunksTyped
<1>6. MadeOf(c, Len(c) + 1, 1, Nothing, asked[p])
  BY <1>5 DEF LmdbInv, CacheIsAsked
<1>7. Deletes(c, disk)
  OBVIOUS
<1>8. \A w \in Word : view[p][w] = Promise!Overlay(disk, asked[p])[w]
  BY DEF LmdbInv, ViewIsAsked, Get
<1>9. o.val = Absent => view[p][o.key] # Absent
  BY DEF Walk, Get
<1> HIDE DEF c, d, e, put
<1>10. d[m][j] = e /\ \A k, i \in Nat : IsEntry(c, k, i) => d[k][i] = c[k][i]
  BY <1>3 DEF Extends
<1> SUFFICES ASSUME NEW k \in Nat, NEW i \in Nat, IsEntry(d, k, i), d[k][i].val = Absent,
                    NEW list \in List, MadeOf(d, k, i, disk, list)
             PROVE  list[d[k][i].key] # Absent
  BY <1>4 DEF Deletes
<1>11. CASE IsEntry(c, k, i)
  <2>1. \A l, h \in Nat : IsEntry(c, l, h) /\ Before(l, h, k, i) <=> IsEntry(d, l, h) /\ Before(l, h, k, i)
    BY <1>3, <1>11, SMTT(40) DEF Extends, Before
  <2>2. MadeOf(c, k, i, disk, list)
    BY <1>10, <2>1, MadeSame
  <2> QED  BY <1>7, <1>10, <1>11, <2>2 DEF Deletes
<1>12. CASE ~IsEntry(c, k, i)
  <2>1. k = m /\ i = j
    BY <1>3, <1>12 DEF Extends
  <2>2. \A l, h \in Nat : IsEntry(c, l, h) /\ Before(l, h, Len(c) + 1, 1) <=> IsEntry(d, l, h) /\ Before(l, h, m, j)
    BY <1>3 DEF Extends, Before
  <2>3. MadeOf(c, Len(c) + 1, 1, disk, list)
    BY <1>10, <2>1, <2>2, MadeSame
  <2>4. \A w \in Word : list[w] = Promise!Overlay(disk, asked[p])[w]
    BY <1>5, <1>6, <2>3, MadeIsOverlaid
  <2> QED  BY <1>1, <1>8, <1>9, <1>10, <2>1, <2>4
<1> QED  BY <1>11, <1>12

LEMMA DeletedStep ==
    ASSUME LmdbInv, DeletedWasThere, NEW p \in Proc, Step(p) \/ Crash(p)
    PROVE  DeletedWasThere'
<1> SUFFICES ASSUME NEW q \in Proc, q \notin overtaken', keys'[q] = "intact"
             PROVE  Deletes(Chunks(q), disk)'
  BY DEF DeletedWasThere
<1>1. CASE cache'[q] = <<>>
  BY <1>1 DEF Deletes, IsEntry, Chunks, InOrder, Reverse
<1>2. CASE q # p
  <2>1. cache'[q] = cache[q] /\ q \notin overtaken /\ keys[q] = "intact"
    BY <1>2, OthersKept
  <2>2. CASE disk' = disk
    BY <2>1, <2>2 DEF DeletedWasThere, Chunks
  <2>3. CASE disk' # disk
    <3>1. pc[q] \notin {"full", "resized"} /\ writer # q
      BY <1>2, <2>3, OthersKept
    <3>2. pc[q] \in {"closed", "open", "exited"} \/ rdonly[q]
      BY <3>1 DEF LmdbInv, WriterAlone, TypeOK, States
    <3>3. cache[q] = <<>>
      BY <3>2 DEF LmdbInv, TidyOutside
    <3> QED  BY <1>1, <2>1, <3>3
  <2> QED  BY <2>2, <2>3
<1>3. CASE q = p
  <2>1. CASE Out(p)
    BY <1>1, <1>3, <2>1 DEF Out, MovedOut, Freed, LmdbInv, TypeOK
  <2>2. CASE SetValue(p)
    <3>1. PICK o \in Operation : SetValue(p)!(o)
      BY <2>2 DEF SetValue
    <3>2. p \notin overtaken /\ keys[p] = "intact"
      BY <1>3, <3>1 DEF Done, LmdbInv, TypeOK
    <3>3. o.val # Absent \/ o.key \in Walk(p)
      <4>1. o.val \in Value
        BY <3>1 DEF Operation
      <4> QED  BY <4>1, LmdbAssumption
    <3> QED  BY <1>3, <3>1, <3>2, <3>3, DeleteDone DEF DeletedWasThere
  <2>3. CASE Delete(p)
    <3>1. PICK o \in Operation : Delete(p)!(o)
      BY <2>3 DEF Delete
    <3>4. PICK key \in DeletedKeys(p, o) : Done(p, o, key)
      BY <3>1
    <3>3. p \notin overtaken /\ keys[p] = "intact" /\ key = o.key
      BY <1>3, <3>4 DEF Done, LmdbInv, TypeOK
    <3>2. Done(p, o, o.key)
      BY <3>3, <3>4
    <3> QED  BY <1>3, <3>1, <3>2, <3>3, DeleteDone DEF DeletedWasThere
  <2>4. CASE \/ OpenWriter(p) \/ OpenReader(p) \/ Begin(p) \/ DeleteMissing(p) \/ MapFull(p)
             \/ Resize(p) \/ BeginAgain(p) \/ EndReplay(p) \/ (PlayEntry(p) /\ ~Out(p))
    <3>1. UNCHANGED <<disk, cache, overtaken>> /\ (keys'[p] = "intact" => keys[p] = "intact")
      <4>1. CASE MapFull(p)
        BY <4>1 DEF MapFull, disks, LmdbInv, TypeOK
      <4>2. CASE PlayEntry(p) /\ ~Out(p)
        BY <4>2, EndsOut DEF PlayEntry, disks
      <4>3. CASE \/ OpenWriter(p) \/ OpenReader(p) \/ Begin(p) \/ DeleteMissing(p)
                 \/ Resize(p) \/ BeginAgain(p) \/ EndReplay(p)
        BY <4>3 DEF OpenWriter, OpenReader, Begin, DeleteMissing, Resize, BeginAgain, EndReplay,
              disks, txns
      <4> QED  BY <2>4, <4>1, <4>2, <4>3
    <3> QED  BY <1>3, <3>1 DEF DeletedWasThere, Chunks
  <2> QED
    BY <2>1, <2>2, <2>3, <2>4, EndsOut DEF Step
<1> QED  BY <1>2, <1>3
LEMMA LimitInvariance == Spec => []LimitInv
<1>1. Init => LimitInv
  <2> SUFFICES ASSUME Init PROVE RoomIsMade /\ DeletedWasThere
    BY LmdbInit DEF LimitInv
  <2>1. ASSUME NEW p \in Proc
        PROVE  /\ map[p] = 0 /\ dbsize[p] = 0 /\ size = 1 /\ pc[p] = "closed"
               /\ Chunks(p) = <<>>
    BY DEF Init, Chunks, InOrder, Reverse
  <2> QED
    BY <2>1 DEF RoomIsMade, RoomFor, Larger, DeletedWasThere, Deletes, IsEntry
<1>2. LimitInv /\ [Next]_vars => LimitInv'
  <2> SUFFICES ASSUME LimitInv, [Next]_vars PROVE LimitInv'
    OBVIOUS
  <2>1. CASE UNCHANGED vars
    <3>1. LmdbInv'
      BY <2>1 DEF LimitInv, vars, handles, txns, LmdbInv, TypeOK, WriterAlone, TakesRoom, TidyOutside,
                  CacheIsAsked, ViewIsAsked, ViewIsMade, Get, Chunks, Promise!Overlay
    <3>2. RoomIsMade' /\ DeletedWasThere'
      BY <2>1 DEF LimitInv, vars, handles, txns, RoomIsMade, RoomFor, All, DeletedWasThere, Chunks
    <3> QED  BY <3>1, <3>2 DEF LimitInv
  <2>2. CASE Next
    BY <2>2, LmdbStep, RoomStep, DeletedStep DEF Next, LimitInv
  <2> QED  BY <2>1, <2>2
<1> QED  BY <1>1, <1>2, PTL DEF Spec

\* Of a process that nobody overtook.
LEMMA OnlyTheLimitStops ==
    ASSUME LimitInv, NEW p \in Proc, p \notin overtaken,
           \/ TooLarge(p) \/ OutOfTries(p)
           \/ PlayEntry(p) /\ pc'[p] \in {"exited", "open"} /\ keys[p] # "replayed"
    PROVE  Larger(size, dbsize[p]) = MaxMap
<1>1. /\ TypeOK /\ TidyOutside /\ LmdbInv
      /\ ~rdonly[p] => RoomFor(p)
  BY DEF LimitInv, LmdbInv, RoomIsMade
<1>2. CASE TooLarge(p)
  <2>1. size \in 1..MaxMap /\ dbsize[p] \in 0..MaxMap /\ MaxMap \in Nat
    BY <1>1, LmdbAssumption DEF TypeOK
  <2>2. ~(Larger(size, dbsize[p]) + 1 <= MaxMap)
    BY <1>2, <2>1 DEF TooLarge, Grown, Larger
  <2> QED  BY <2>1, <2>2 DEF Larger
<1>3. CASE OutOfTries(p)
  <2>1. pc[p] = "txn" /\ op[p] # None /\ ~(room[p] + op[p].need <= map[p])
    BY <1>3 DEF OutOfTries, Fits
  <2>2. ~rdonly[p]
    BY <1>1, <2>1 DEF TidyOutside
  <2>3. room[p] = All(p) /\ All(p) < map[p]
    BY <1>1, <2>1, <2>2 DEF RoomFor
  <2>4. op[p].need \in 0..1
    <3>1. op[p] \in Operation
      BY <1>1, <2>1 DEF TypeOK
    <3> QED  BY <3>1 DEF Operation
  <2> QED  BY <1>1, <2>1, <2>3, <2>4, RoomTyped
<1>4. CASE PlayEntry(p) /\ pc'[p] \in {"exited", "open"} /\ keys[p] # "replayed"
  <2> DEFINE c == Chunks(p)
             k == pos[p][1]
             i == pos[p][2]
             e == c[k][i]
  <2>1. pc[p] = "replaying" /\ k \in DOMAIN c /\ ~Playable(p, e) /\ ~rdonly[p]
    <3>1. pc[p] = "replaying" /\ k \in DOMAIN c
      BY <1>4 DEF PlayEntry, Chunks
    <3>2. Playable(p, e) => pc' = pc
      BY <1>4 DEF PlayEntry, Chunks, handles
    <3> QED  BY <1>1, <1>4, <3>1, <3>2 DEF TidyOutside
  <2>2. IsEntry(c, k, i) /\ k \in Nat /\ i \in Nat /\ e \in Entry
    BY <1>1, <2>1, EntryAtPlace DEF Chunks, TypeOK
  <2>3. MadeOf(c, k, i, disk, view[p]) /\ view[p] \in List
    BY <1>1, <2>1 DEF LmdbInv, ViewIsMade, TypeOK
  <2>4. room[p] = used + Pages(c, k, i) /\ All(p) < map[p]
    BY <1>1, <2>1 DEF RoomFor
  <2>5. PICK n \in Nat, h \in Nat : After(c, k, i) = <<n, h>> /\ Follows(c, k, i, n, h)
    BY <1>1, <2>2, PlacesFollow
  <2>6. c \in Seq(Seq(Entry)) /\ Len(c) = Len(cache[p])
    BY <1>1, RoomTyped
  <2>7. All(p) = used + Pages(c, Len(c) + 1, 1)
    BY <2>6 DEF All
  <2>8. Deletes(c, disk)
    <3>1. keys[p] = "intact"
      BY <1>1, <1>4, <2>1 DEF TypeOK, TidyOutside
    <3> QED  BY <3>1 DEF LimitInv, DeletedWasThere
  <2> HIDE DEF c, k, i
  <2>9. Pages(c, n, h) = Pages(c, k, i) + e.need
    <3>1. \A x, y \in Nat : Follows(c, k, i, x, y) => Pages(c, x, y) = Pages(c, k, i) + e.need
      BY <2>2, <2>6, PagesOn, Zenon
    <3> QED  BY <2>5, <3>1
  <2>10. Pages(c, n, h) <= Pages(c, Len(c) + 1, 1)
    <3>1. IsPlace(c, n, h)
      BY <2>5 DEF Follows
    <3> QED  BY <2>5, <2>6, <3>1, PagesOn, Zenon
  <2>11. Pages(c, k, i) \in Nat /\ Pages(c, Len(c) + 1, 1) \in Nat
    <3>1. Len(c) + 1 \in Nat /\ 1 \in Nat
      BY <2>6
    <3> QED  BY <2>2, <2>6, <3>1, PagesOn, Zenon
  <2>12. Fits(p, e)
    <3>1. e.need \in 0..1 /\ used \in Nat /\ map[p] \in Nat
      BY <1>1, <2>2, RoomTyped DEF Entry
    <3>2. room[p] + e.need <= map[p]
      BY <2>4, <2>7, <2>9, <2>10, <2>11, <3>1
    <3> QED  BY <3>2 DEF Fits
  <2>13. e.val = Absent => e.key \in Walk(p)
    <3>1. e.val = Absent => view[p][e.key] # Absent
      BY <2>2, <2>3, <2>8 DEF Deletes
    <3>2. e.key \in Word
      BY <2>2 DEF Entry
    <3> QED  BY <3>1, <3>2 DEF Walk, Get
  <2> QED  BY <2>1, <2>12, <2>13 DEF Playable
<1> QED  BY <1>2, <1>3, <1>4

\* A process that nobody overtook gives up only when the address space is
\* exhausted: the replay fits the grown map, every deleted word is there to be
\* deleted again, and a try is left (a_bflm_txn_mapfull, a_bflm_txn__replay); except
\* that a replay with a rewritten key may not find it (db_delete).
THEOREM OnlyTheLimitMakesItFail == Spec => LimitUnlessRewritten
<1>1. LimitInv =>
        [\A p \in Proc \ overtaken :
           \/ TooLarge(p) \/ OutOfTries(p)
           \/ PlayEntry(p) /\ pc'[p] \in {"exited", "open"} /\ keys[p] # "replayed"
           => Larger(size, dbsize[p]) = MaxMap]_vars
  BY OnlyTheLimitStops
<1> QED  BY <1>1, LimitInvariance, PTL DEF LimitUnlessRewritten
-----------------------------------------------------------------------------

-----------------------------------------------------------------------------
(* QdbmUpgrade *)

\* The list and the temporary file of the command, and whether the list has
\* been replaced.
ListFile == names[cmd.db]
TempFile == names[cmd.temp]
Replaced == upgraded /\ cmd.backup # "none"

\* Until it is replaced the list is the hash, with all that is in it.
HashInv ==
    /\ ListFile # Upgrade!NoFile /\ files[ListFile].whole
    /\ ~Replaced => files[ListFile].format = "hash" /\ had \subseteq files[ListFile].words

\* While a tree is made it is another file, and it has nothing that is not
\* in the list; when it is to be renamed, it is whole and the backup is the
\* list.
TreeInv ==
    upc # "off" =>
        /\ ~Replaced /\ cmd.temp # cmd.db
        /\ TempFile # Upgrade!NoFile /\ TempFile # ListFile
        /\ files[TempFile].format = "tree"
        /\ files[TempFile].words \subseteq files[ListFile].words
        /\ upc = "copying" => left \subseteq files[ListFile].words
        /\ upc \in {"backup", "linking", "renaming"} =>
              files[TempFile].whole /\ cmd.backup # "none"
        /\ upc = "renaming" => names[cmd.backup] = ListFile

\* What has replaced it is a tree, beside the list as it was at the end.
BesideInv ==
    Replaced => /\ names[cmd.backup] # Upgrade!NoFile
                /\ files[names[cmd.backup]].format = "hash"
                /\ files[ListFile].words \cup had \subseteq files[names[cmd.backup]].words
                /\ files[ListFile].format = "tree"

UpgradeInv ==
    /\ Upgrade!TypeOK
    /\ Upgrade!NamesApart => HashInv /\ TreeInv /\ BesideInv

\* The files of the command, and what is in them.
LEMMA FilesOfCommand ==
    ASSUME Upgrade!TypeOK
    PROVE  /\ Len(files) \in Nat /\ files \in Seq(Upgrade!File)
           /\ cmd.db \in Name /\ cmd.temp \in Name
           /\ cmd.backup # "none" => cmd.backup \in Name
           /\ \A n \in Name : names[n] # Upgrade!NoFile => names[n] \in 1 .. Len(files)
           /\ \A f \in 1 .. Len(files) : files[f] \in Upgrade!File
<1>1. files \in Seq(Upgrade!File) /\ cmd \in Commands /\ names \in [Name -> 0 .. Len(files)]
  BY DEF Upgrade!TypeOK, Upgrade!File
<1>2. Len(files) \in Nat
  BY <1>1, LenProperties
<1>3. cmd \in [db : Name, temp : Name, backup : Name \cup {"none"}]
  BY <1>1, UpgradesAssumption DEF Upgrade!UpgradeAssumption
<1>4. \A f \in 1 .. Len(files) : files[f] \in Upgrade!File
  BY <1>1, ElementOfSeq
<1>5. \A n \in Name : names[n] # Upgrade!NoFile => names[n] \in 1 .. Len(files)
  BY <1>1, <1>2 DEF Upgrade!NoFile
<1> QED BY <1>1, <1>2, <1>3, <1>4, <1>5

\* The command is given a list that is there, and nothing is done yet.
LEMMA UpgradeStarts == Upgrade!Init => UpgradeInv
<1> SUFFICES ASSUME Upgrade!Init PROVE UpgradeInv
  OBVIOUS
<1>1. PICK d \in Hashes : names = d.names /\ files = d.files
  BY DEF Upgrade!Init
<1>2. /\ cmd \in Commands /\ upc = "off" /\ left = {} /\ upgraded = FALSE
      /\ had = Upgrade!Content(cmd.db)
  BY DEF Upgrade!Init
<1>3. /\ files \in Seq(Upgrade!HashFile) /\ names \in [Name -> 0 .. Len(files)]
      /\ names[cmd.db] # Upgrade!NoFile /\ cmd.db \in Name
  BY <1>1, <1>2, UpgradesAssumption DEF Upgrade!UpgradeAssumption
<1>4. files \in Seq(Upgrade!File)
  <2>1. Upgrade!HashFile \subseteq Upgrade!File
    BY DEF Upgrade!HashFile, Upgrade!File
  <2> QED BY <1>3, <2>1, SeqMonotonic
<1>5. ListFile \in 1 .. Len(files)
  BY <1>3, LenProperties DEF ListFile, Upgrade!NoFile
<1>6. files[ListFile] \in Upgrade!HashFile
  BY <1>3, <1>5, ElementOfSeq
<1>7. had = files[ListFile].words
  BY <1>2, <1>3 DEF Upgrade!Content, Upgrade!Words, ListFile
<1>8. Upgrade!TypeOK
  BY <1>2, <1>3, <1>4, <1>6, <1>7 DEF Upgrade!TypeOK, Upgrade!HashFile, Upgrade!File
<1>9. HashInv /\ TreeInv /\ BesideInv
  BY <1>2, <1>3, <1>6, <1>7 DEF HashInv, TreeInv, BesideInv, Replaced, ListFile, Upgrade!HashFile
<1> QED BY <1>8, <1>9 DEF UpgradeInv

\* A file is changed, and with it what has its name.
LEMMA FileChanged ==
    ASSUME files \in Seq(Upgrade!File), NEW f \in 1 .. Len(files), NEW r \in Upgrade!File,
           files' = [files EXCEPT ![f] = r]
    PROVE  /\ files' \in Seq(Upgrade!File) /\ Len(files') = Len(files)
           /\ files'[f] = r
           /\ \A g \in 1 .. Len(files) : g # f => files'[g] = files[g]
BY ExceptSeq

\* A tree that is begun is a new file.
LEMMA StartKeeps ==
    ASSUME UpgradeInv, Upgrade!Start
    PROVE  UpgradeInv'
<1> DEFINE new == [format |-> "tree", words |-> {}, whole |-> FALSE]
           n == Len(files) + 1
<1>1. /\ upc = "off" /\ upc' = "copying" /\ left' = files[ListFile].words
      /\ UNCHANGED <<cmd, had, upgraded>>
      /\ names' = [names EXCEPT ![cmd.temp] = n] /\ files' = Append(files, new)
      /\ files[ListFile].format = "hash" /\ ListFile # Upgrade!NoFile /\ cmd.temp # cmd.db
  BY DEF Upgrade!Start, Upgrade!CanStart, Upgrade!Format, Upgrade!Words, ListFile
<1>2. /\ Upgrade!TypeOK /\ cmd \in Commands /\ names \in [Name -> 0 .. Len(files)]
      /\ had \subseteq UpgradeWord /\ upgraded \in BOOLEAN
  BY DEF UpgradeInv, Upgrade!TypeOK
<1>3. /\ Len(files) \in Nat /\ files \in Seq(Upgrade!File)
      /\ cmd.db \in Name /\ cmd.temp \in Name
      /\ cmd.backup # "none" => cmd.backup \in Name
      /\ \A m \in Name : names[m] # Upgrade!NoFile => names[m] \in 1 .. Len(files)
      /\ \A f \in 1 .. Len(files) : files[f] \in Upgrade!File
  BY <1>2, FilesOfCommand
<1>4. new \in Upgrade!File /\ new.words = {} /\ new.format = "tree"
  BY DEF Upgrade!File
<1> HIDE DEF new
<1>5. /\ files' \in Seq(Upgrade!File) /\ Len(files') = n
      /\ \A f \in 1 .. Len(files) : files'[f] = files[f]
      /\ files'[n] = new
  BY <1>1, <1>3, <1>4, AppendProperties
<1>6. names' \in [Name -> 0 .. n] /\ TempFile' = n /\ ListFile' = ListFile
  BY <1>1, <1>2, <1>3 DEF TempFile, ListFile
<1>7. ListFile \in 1 .. Len(files)
  BY <1>1, <1>3 DEF ListFile
<1>8. Upgrade!TypeOK'
  <2>1. left' \subseteq UpgradeWord
    BY <1>1, <1>3, <1>7 DEF Upgrade!File
  <2> QED BY <1>1, <1>2, <1>5, <1>6, <2>1 DEF Upgrade!TypeOK, Upgrade!Upgrading, Upgrade!File
<1>9. ASSUME Upgrade!NamesApart' PROVE HashInv' /\ TreeInv' /\ BesideInv'
  <2>1. HashInv /\ TreeInv /\ BesideInv
    BY <1>1, <1>9 DEF UpgradeInv, Upgrade!NamesApart
  <2>2. ~Replaced /\ Replaced' = Replaced
    BY <1>1, <2>1 DEF BesideInv, Replaced
  <2>3. HashInv'
    BY <1>1, <1>5, <1>6, <1>7, <2>1, <2>2 DEF HashInv
  <2>4. TreeInv'
    BY <1>1, <1>3, <1>4, <1>5, <1>6, <1>7, <2>2 DEF TreeInv, Upgrade!NoFile
  <2> QED BY <2>2, <2>3, <2>4 DEF BesideInv
<1> QED BY <1>8, <1>9 DEF UpgradeInv

\* A word is copied from the list.
LEMMA CopyKeeps ==
    ASSUME UpgradeInv, Upgrade!CopyKey
    PROVE  UpgradeInv'
<1>1. PICK w \in left :
        /\ upc = "copying" /\ left' = left \ {w}
        /\ files' = [files EXCEPT ![TempFile].words = @ \cup {w}]
  BY DEF Upgrade!CopyKey, TempFile
<1>2. UNCHANGED <<cmd, names, upc, had, upgraded>>
  BY DEF Upgrade!CopyKey
<1>3. Upgrade!TypeOK /\ left \subseteq UpgradeWord
  BY DEF UpgradeInv, Upgrade!TypeOK
<1>4. /\ Len(files) \in Nat /\ files \in Seq(Upgrade!File)
      /\ cmd.db \in Name /\ cmd.temp \in Name
      /\ \A m \in Name : names[m] # Upgrade!NoFile => names[m] \in 1 .. Len(files)
      /\ \A f \in 1 .. Len(files) : files[f] \in Upgrade!File
  BY <1>3, FilesOfCommand
<1> DEFINE r == [files[TempFile] EXCEPT !.words = @ \cup {w}]
<1>5. CASE TempFile \in 1 .. Len(files)
  <2>1. /\ r \in Upgrade!File /\ r.words = files[TempFile].words \cup {w}
        /\ r.whole = files[TempFile].whole /\ r.format = files[TempFile].format
    BY <1>1, <1>3, <1>4, <1>5 DEF Upgrade!File
  <2>2. files' = [files EXCEPT ![TempFile] = r]
    BY <1>1
  <2> HIDE DEF r
  <2>3. /\ files' \in Seq(Upgrade!File) /\ Len(files') = Len(files)
        /\ files'[TempFile] = r
        /\ \A g \in 1 .. Len(files) : g # TempFile => files'[g] = files[g]
    BY <1>4, <1>5, <2>1, <2>2, FileChanged
  <2>4. Upgrade!TypeOK'
    BY <1>1, <1>2, <1>3, <2>3 DEF Upgrade!TypeOK
  <2>5. ASSUME Upgrade!NamesApart' PROVE HashInv' /\ TreeInv' /\ BesideInv'
    <3>1. HashInv /\ TreeInv
      BY <1>2, <2>5 DEF UpgradeInv, Upgrade!NamesApart
    <3>2. /\ ~Replaced /\ ~Replaced' /\ TempFile # ListFile /\ w \in files[ListFile].words
          /\ ListFile \in 1 .. Len(files)
      BY <1>1, <1>2, <1>4, <3>1 DEF TreeInv, HashInv, Replaced, ListFile
    <3>3. files'[ListFile] = files[ListFile] /\ ListFile' = ListFile /\ TempFile' = TempFile
      BY <1>2, <2>3, <3>2 DEF ListFile, TempFile
    <3>4. HashInv'
      BY <1>2, <3>1, <3>2, <3>3 DEF HashInv
    <3>5. TreeInv'
      BY <1>1, <1>2, <2>1, <2>3, <3>1, <3>2, <3>3 DEF TreeInv
    <3> QED BY <3>2, <3>4, <3>5 DEF BesideInv
  <2> QED BY <2>4, <2>5 DEF UpgradeInv
<1>6. CASE TempFile \notin 1 .. Len(files)
  <2>1. files' = files
    BY <1>1, <1>4, <1>6, LenProperties
  <2>2. Upgrade!TypeOK'
    BY <1>1, <1>2, <1>3, <2>1 DEF Upgrade!TypeOK
  <2>3. ~Upgrade!NamesApart
    <3>1. TempFile = Upgrade!NoFile
      BY <1>4, <1>6 DEF TempFile
    <3> QED BY <1>1, <3>1 DEF UpgradeInv, TreeInv
  <2> QED BY <1>2, <2>2, <2>3 DEF UpgradeInv, Upgrade!NamesApart
<1> QED BY <1>5, <1>6

\* The tree is closed, and is whole.
LEMMA CloseKeeps ==
    ASSUME UpgradeInv, Upgrade!CloseNew
    PROVE  UpgradeInv'
<1>1. /\ upc = "closing" /\ files' = [files EXCEPT ![TempFile].whole = TRUE]
      /\ UNCHANGED <<cmd, names, left, had>>
      /\ IF cmd.backup = "none" THEN upc' = "off" /\ upgraded' = TRUE
         ELSE upc' = "backup" /\ upgraded' = upgraded
  BY DEF Upgrade!CloseNew, Upgrade!Done, TempFile
<1>2. Upgrade!TypeOK
  BY DEF UpgradeInv
<1>3. /\ Len(files) \in Nat /\ files \in Seq(Upgrade!File)
      /\ cmd.db \in Name /\ cmd.temp \in Name
      /\ \A m \in Name : names[m] # Upgrade!NoFile => names[m] \in 1 .. Len(files)
      /\ \A f \in 1 .. Len(files) : files[f] \in Upgrade!File
  BY <1>2, FilesOfCommand
<1> DEFINE r == [files[TempFile] EXCEPT !.whole = TRUE]
<1>4. CASE TempFile \in 1 .. Len(files)
  <2>1. r \in Upgrade!File /\ r.words = files[TempFile].words /\ r.whole
        /\ r.format = files[TempFile].format
    BY <1>3, <1>4 DEF Upgrade!File
  <2>2. files' = [files EXCEPT ![TempFile] = r]
    BY <1>1
  <2> HIDE DEF r
  <2>3. /\ files' \in Seq(Upgrade!File) /\ Len(files') = Len(files)
        /\ files'[TempFile] = r
        /\ \A g \in 1 .. Len(files) : g # TempFile => files'[g] = files[g]
    BY <1>3, <1>4, <2>1, <2>2, FileChanged
  <2>4. Upgrade!TypeOK'
    BY <1>1, <1>2, <2>3 DEF Upgrade!TypeOK, Upgrade!Upgrading
  <2>5. ASSUME Upgrade!NamesApart' PROVE HashInv' /\ TreeInv' /\ BesideInv'
    <3>1. HashInv /\ TreeInv
      BY <1>1, <2>5 DEF UpgradeInv, Upgrade!NamesApart
    <3>2. /\ ~Replaced /\ ~Replaced' /\ TempFile # ListFile /\ ListFile \in 1 .. Len(files)
      BY <1>1, <1>3, <3>1 DEF TreeInv, HashInv, Replaced, ListFile
    <3>3. files'[ListFile] = files[ListFile] /\ ListFile' = ListFile /\ TempFile' = TempFile
      BY <1>1, <2>3, <3>2 DEF ListFile, TempFile
    <3>4. HashInv'
      BY <1>1, <3>1, <3>2, <3>3 DEF HashInv
    <3>5. TreeInv'
      BY <1>1, <2>1, <2>3, <3>1, <3>2, <3>3 DEF TreeInv
    <3> QED BY <3>2, <3>4, <3>5 DEF BesideInv
  <2> QED BY <2>4, <2>5 DEF UpgradeInv
<1>5. CASE TempFile \notin 1 .. Len(files)
  <2>1. files' = files
    BY <1>1, <1>3, <1>5, LenProperties
  <2>2. Upgrade!TypeOK'
    BY <1>1, <1>2, <2>1 DEF Upgrade!TypeOK, Upgrade!Upgrading
  <2>3. ~Upgrade!NamesApart
    <3>1. TempFile = Upgrade!NoFile
      BY <1>3, <1>5 DEF TempFile
    <3> QED BY <1>1, <3>1 DEF UpgradeInv, TreeInv
  <2> QED BY <1>1, <2>2, <2>3 DEF UpgradeInv, Upgrade!NamesApart
<1> QED BY <1>4, <1>5

\* A name is removed, given to the list as well, or moved to it.
LEMMA NamingKeeps ==
    ASSUME UpgradeInv,
           Upgrade!Fails \/ Upgrade!RemoveBackup \/ Upgrade!LinkBackup \/ Upgrade!Rename
    PROVE  UpgradeInv'
<1>1. Upgrade!TypeOK /\ UNCHANGED <<cmd, files, left, had>>
  BY DEF UpgradeInv, Upgrade!Fails, Upgrade!RemoveBackup, Upgrade!LinkBackup, Upgrade!Rename
<1>2. /\ Len(files) \in Nat /\ cmd.db \in Name /\ cmd.temp \in Name
      /\ cmd.backup # "none" => cmd.backup \in Name
      /\ \A m \in Name : names[m] # Upgrade!NoFile => names[m] \in 1 .. Len(files)
  BY <1>1, FilesOfCommand
<1>3. names \in [Name -> 0 .. Len(files)]
  BY <1>1 DEF Upgrade!TypeOK
<1>4. names' \in [Name -> 0 .. Len(files)]
  BY <1>2, <1>3 DEF Upgrade!Fails, Upgrade!RemoveBackup, Upgrade!LinkBackup, Upgrade!Rename,
       Upgrade!Removed, Upgrade!NoFile
<1>5. Upgrade!TypeOK'
  BY <1>1, <1>4 DEF Upgrade!TypeOK, Upgrade!Upgrading, Upgrade!Fails, Upgrade!RemoveBackup,
       Upgrade!LinkBackup, Upgrade!Rename, Upgrade!Done
<1>6. ASSUME Upgrade!NamesApart' PROVE HashInv' /\ TreeInv' /\ BesideInv'
  <2>1. /\ HashInv /\ TreeInv
        /\ cmd.backup # "none" => /\ cmd.db # cmd.temp
                                  /\ cmd.backup \notin {cmd.db, cmd.temp}
    BY <1>1, <1>6 DEF UpgradeInv, Upgrade!NamesApart
  <2>2. CASE Upgrade!Fails
    <3>1. upc # "off" /\ upc' = "off" /\ upgraded' = upgraded
          /\ names' = [names EXCEPT ![cmd.temp] = Upgrade!NoFile]
      BY <2>2 DEF Upgrade!Fails, Upgrade!Removed
    <3>2. ListFile' = ListFile /\ ~Replaced'
      BY <1>1, <1>2, <1>3, <2>1, <3>1 DEF TreeInv, ListFile, Replaced
    <3> QED BY <1>1, <2>1, <3>1, <3>2 DEF TreeInv, HashInv, BesideInv, Replaced
  <2>3. CASE Upgrade!RemoveBackup
    <3>1. upc = "backup" /\ upc' = "linking" /\ upgraded' = upgraded
          /\ names' = [names EXCEPT ![cmd.backup] = Upgrade!NoFile]
      BY <2>3 DEF Upgrade!RemoveBackup, Upgrade!Removed
    <3>2. ListFile' = ListFile /\ TempFile' = TempFile /\ ~Replaced' /\ cmd.backup # "none"
      BY <1>1, <1>2, <1>3, <2>1, <3>1 DEF TreeInv, ListFile, TempFile, Replaced
    <3> QED BY <1>1, <2>1, <3>1, <3>2 DEF TreeInv, HashInv, BesideInv, Replaced
  <2>4. CASE Upgrade!LinkBackup
    <3>1. upc = "linking" /\ upc' = "renaming" /\ upgraded' = upgraded
          /\ names' = [names EXCEPT ![cmd.backup] = ListFile]
      BY <2>4 DEF Upgrade!LinkBackup, ListFile
    <3>2. ListFile' = ListFile /\ TempFile' = TempFile /\ ~Replaced' /\ cmd.backup # "none"
      BY <1>1, <1>2, <1>3, <2>1, <3>1 DEF TreeInv, ListFile, TempFile, Replaced
    <3>3. names'[cmd.backup] = ListFile
      BY <1>2, <1>3, <3>1, <3>2
    <3> QED BY <1>1, <2>1, <3>1, <3>2, <3>3 DEF TreeInv, HashInv, BesideInv, Replaced
  <2>5. CASE Upgrade!Rename
    <3>1. upc = "renaming" /\ upc' = "off" /\ upgraded' = TRUE
      BY <2>5 DEF Upgrade!Rename, Upgrade!Done
    <3>2. /\ TempFile # ListFile /\ cmd.backup # "none" /\ files[TempFile].whole
          /\ names[cmd.backup] = ListFile /\ TempFile # Upgrade!NoFile /\ ~Replaced
          /\ files[TempFile].words \subseteq files[ListFile].words
          /\ files[TempFile].format = "tree"
      BY <2>1, <3>1 DEF TreeInv
    <3>3. names' = [[names EXCEPT ![cmd.temp] = Upgrade!NoFile] EXCEPT ![cmd.db] = TempFile]
      BY <2>5, <3>2 DEF Upgrade!Rename, Upgrade!Removed, TempFile, ListFile
    <3>4. ListFile' = TempFile /\ names'[cmd.backup] = ListFile
      BY <1>1, <1>2, <1>3, <2>1, <3>2, <3>3 DEF ListFile
    <3>5. /\ ListFile # Upgrade!NoFile /\ files[ListFile].format = "hash"
          /\ had \subseteq files[ListFile].words
      BY <2>1, <3>2 DEF HashInv
    <3> QED BY <1>1, <3>1, <3>2, <3>4, <3>5 DEF TreeInv, HashInv, BesideInv, Replaced
  <2> QED BY <2>2, <2>3, <2>4, <2>5
<1> QED BY <1>5, <1>6 DEF UpgradeInv

\* Nothing but the place in the program changes.
LEMMA PlaceKeeps ==
    ASSUME UpgradeInv, Upgrade!CloseOld \/ Upgrade!LinkFails \/ Upgrade!Crash
    PROVE  UpgradeInv'
<1>1. /\ UNCHANGED <<cmd, names, files, left, had, upgraded>>
      /\ upc # "off" /\ upc' \in {"off", "closing"}
  BY DEF Upgrade!CloseOld, Upgrade!LinkFails, Upgrade!Crash, Upgrade!Upgrading
<1>2. Upgrade!TypeOK'
  BY <1>1 DEF UpgradeInv, Upgrade!TypeOK, Upgrade!Upgrading
<1>3. ASSUME Upgrade!NamesApart' PROVE HashInv' /\ TreeInv' /\ BesideInv'
  <2>1. HashInv /\ TreeInv /\ BesideInv
    BY <1>1, <1>3 DEF UpgradeInv, Upgrade!NamesApart
  <2>2. ListFile' = ListFile /\ TempFile' = TempFile /\ Replaced' = Replaced
    BY <1>1 DEF ListFile, TempFile, Replaced
  <2> QED BY <1>1, <2>1, <2>2 DEF HashInv, TreeInv, BesideInv
<1> QED BY <1>2, <1>3 DEF UpgradeInv

\* A word is registered in the list, which is a hash still.
LEMMA RegisterKeeps ==
    ASSUME UpgradeInv, NEW w \in UpgradeWord, Upgrade!Registers(w)
    PROVE  UpgradeInv'
<1> DEFINE r == [files[ListFile] EXCEPT !.words = @ \cup {w}]
<1>1. /\ upc # "copying" /\ ListFile # Upgrade!NoFile /\ files[ListFile].format = "hash"
      /\ files' = [files EXCEPT ![ListFile] = r]
      /\ had' = had \cup {w} /\ UNCHANGED <<cmd, names, upc, left, upgraded>>
  BY DEF Upgrade!Registers, Upgrade!Format, ListFile
<1>2. Upgrade!TypeOK
  BY DEF UpgradeInv
<1>3. /\ Len(files) \in Nat /\ files \in Seq(Upgrade!File)
      /\ cmd.db \in Name /\ cmd.temp \in Name
      /\ cmd.backup # "none" => cmd.backup \in Name
      /\ \A m \in Name : names[m] # Upgrade!NoFile => names[m] \in 1 .. Len(files)
      /\ \A f \in 1 .. Len(files) : files[f] \in Upgrade!File
  BY <1>2, FilesOfCommand
<1>4. ListFile \in 1 .. Len(files)
  BY <1>1, <1>3 DEF ListFile
<1>5. /\ r \in Upgrade!File /\ r.words = files[ListFile].words \cup {w}
      /\ r.whole = files[ListFile].whole /\ r.format = "hash"
  BY <1>1, <1>3, <1>4 DEF Upgrade!File
<1> HIDE DEF r
<1>6. /\ files' \in Seq(Upgrade!File) /\ Len(files') = Len(files)
      /\ files'[ListFile] = r
      /\ \A g \in 1 .. Len(files) : g # ListFile => files'[g] = files[g]
  BY <1>1, <1>3, <1>4, <1>5, FileChanged
<1>7. Upgrade!TypeOK'
  BY <1>1, <1>2, <1>6 DEF Upgrade!TypeOK
<1>8. ASSUME Upgrade!NamesApart' PROVE HashInv' /\ TreeInv' /\ BesideInv'
  <2>1. HashInv /\ TreeInv /\ BesideInv
    BY <1>1, <1>8 DEF UpgradeInv, Upgrade!NamesApart
  <2>2. ~Replaced
    BY <1>1, <2>1 DEF BesideInv
  <2>3. ListFile' = ListFile /\ TempFile' = TempFile /\ Replaced' = Replaced
    BY <1>1 DEF ListFile, TempFile, Replaced
  <2>4. HashInv'
    BY <1>1, <1>5, <1>6, <2>1, <2>2, <2>3 DEF HashInv
  <2>5. TreeInv'
    <3>1. upc # "off" => TempFile \in 1 .. Len(files) /\ files'[TempFile] = files[TempFile]
      BY <1>3, <1>6, <2>1 DEF TreeInv, TempFile
    <3> QED BY <1>1, <1>5, <1>6, <2>1, <2>3, <3>1 DEF TreeInv
  <2> QED BY <2>2, <2>3, <2>4, <2>5 DEF BesideInv
<1> QED BY <1>7, <1>8 DEF UpgradeInv

\* The upgrade, step by step.
LEMMA UpgradeStep == UpgradeInv /\ [Upgrade!Next]_upgradeVars => UpgradeInv'
<1> SUFFICES ASSUME UpgradeInv, [Upgrade!Next]_upgradeVars PROVE UpgradeInv'
  OBVIOUS
<1>1. ASSUME UNCHANGED upgradeVars PROVE UpgradeInv'
  BY <1>1 DEF upgradeVars, UpgradeInv, Upgrade!TypeOK, Upgrade!NamesApart, HashInv, TreeInv,
              BesideInv, ListFile, TempFile, Replaced
<1>2. CASE Upgrade!Rests
  BY <1>1, <1>2 DEF Upgrade!Rests, Upgrade!vars, upgradeVars
<1> QED
  BY <1>1, <1>2, StartKeeps, CopyKeeps, CloseKeeps, NamingKeeps, PlaceKeeps, RegisterKeeps
  DEF Upgrade!Next

\* What UpgradeSound says of a list follows.
LEMMA UpgradeFollows == UpgradeInv => Upgrade!AlwaysAList /\ Upgrade!OldOneKept
<1> SUFFICES ASSUME UpgradeInv, Upgrade!NamesApart
             PROVE  Upgrade!AlwaysAList /\ Upgrade!OldOneKept
  BY DEF Upgrade!AlwaysAList, Upgrade!OldOneKept
<1>1. HashInv /\ BesideInv
  BY DEF UpgradeInv
<1>2. CASE ~Replaced
  BY <1>1, <1>2 DEF HashInv, Replaced, ListFile, Upgrade!AlwaysAList, Upgrade!OldOneKept,
     Upgrade!Content, Upgrade!Words
<1>3. CASE Replaced
  BY <1>1, <1>3 DEF HashInv, BesideInv, Replaced, ListFile, Upgrade!AlwaysAList,
     Upgrade!OldOneKept, Upgrade!Content, Upgrade!Words, Upgrade!Format
<1> QED BY <1>2, <1>3

-----------------------------------------------------------------------------
(* TransactionMode *)

Decided(p) == eTransaction[p] # "default"
WithLogs(l) == Dir(l) \in mdisk.regions \cup mdisk.logs
HasList(p, l) == l \in Mode!ToSet(job[p].lists)

\* A process is at one of its lists, bogoutil at the one it was given.
JobInv(p) ==
    mpc[p] # "off" =>
        /\ job[p] \in use.jobs
        /\ mpc[p] \in {"command", "dispatch", "alone", "init"} => at[p] \in DOMAIN job[p].lists
        /\ mpc[p] \in {"init", "dispatch", "alone"} \/ envs[p] # {} => Decided(p)

\* What is open is of a directory whose environment is open.
OpenInv(p) ==
    /\ mpc[p] = "off" => opened[p] = Mode!NotOpen /\ envs[p] = {}
    /\ \A l \in Lists : opened[p][l] # "no" => Dir(l) \in envs[p]

\* The files tell how the lists were made, which a build without a choice
\* need not look at.
DiskInv ==
    IF build # "probing" THEN \A l \in Lists : mdisk.made[l] \in {"absent", build}
    ELSE \A l \in Lists : /\ mdisk.made[l] = "enabled" => WithLogs(l)
                          /\ mdisk.made[l] = "disabled" => ~WithLogs(l)

\* A process that has decided has decided as its build does, or as the files
\* of its directory say; and it opens its lists so.
AgreeInv(p) ==
    mpc[p] # "off" =>
        /\ Decided(p) =>
              IF build # "probing" THEN eTransaction[p] = build
              ELSE \A l \in Lists : HasList(p, l) =>
                      (eTransaction[p] = "enabled" <=> WithLogs(l))
        /\ \A l \in Lists : opened[p][l] # "no" =>
              opened[p][l] = mdisk.made[l] /\ opened[p][l] = Mode!dsm(p)

\* Nothing that q has is what the command of p has locked: its directory, or
\* its list.
Undisturbed(p, q) ==
    IF Mode!Enabled(p) THEN Dir(Mode!List(p)) \in envs[q] => ~Mode!Enabled(q)
    ELSE job[p].command \in Mode!FileCommands => opened[q][Mode!List(p)] = "no"

AloneInv(p) ==
    mpc[p] = "alone" =>
        /\ Mode!Enabled(p) => alone[p] = Dir(Mode!List(p))
        /\ ~Mode!Enabled(p) /\ job[p].command \in Mode!FileCommands => alone[p] = Mode!List(p)
        /\ \A q \in Proc \ {p} : Undisturbed(p, q)

\* With options, or several directories: a bogofilter that uses transactions
\* is in bogohome.
Unforced == use.forced = "none" /\ (build # "probing" => use.givens = {"default"})
HomeInv(p) ==
    mpc[p] # "off" /\ job[p].program = "bogofilter" =>
        /\ build # "probing" => eTransaction[p] \in {"default", build}
        /\ Mode!Enabled(p) => envs[p] \subseteq {Home}
        /\ mpc[p] = "init" /\ Mode!Enabled(p) => Dir(Mode!List(p)) = Home

ModeInv ==
    /\ Mode!TypeOK
    /\ \A p \in Proc : JobInv(p) /\ OpenInv(p)
    /\ Unforced => \A p \in Proc : HomeInv(p)
    /\ Mode!Ordinary => DiskInv /\ \A p \in Proc : AgreeInv(p) /\ AloneInv(p)

\* A process that is started has lists, which are in the directories.
LEMMA ListsOfJob ==
    ASSUME Mode!TypeOK, NEW p \in Proc, job[p] \in use.jobs
    PROVE  /\ Len(job[p].lists) \in Nat /\ 1 \in DOMAIN job[p].lists
           /\ DOMAIN job[p].lists = 1 .. Len(job[p].lists)
           /\ at[p] \in DOMAIN job[p].lists =>
                 /\ Mode!List(p) \in Lists /\ HasList(p, Mode!List(p))
                 /\ Dir(Mode!List(p)) \in Mode!Dirs
<1>1. use \in Uses
  BY DEF Mode!TypeOK
<1>2. job[p] \in Mode!Job /\ job[p].lists # <<>>
  BY <1>1, ModesAssumption DEF Mode!ModeAssumption
<1>3. job[p].lists \in Seq(Lists)
  BY <1>2 DEF Mode!Job
<1>4. Len(job[p].lists) \in Nat \ {0} /\ DOMAIN job[p].lists = 1 .. Len(job[p].lists)
  BY <1>2, <1>3, EmptySeq, LenProperties
<1>5. ASSUME at[p] \in DOMAIN job[p].lists
      PROVE  /\ Mode!List(p) \in Lists /\ HasList(p, Mode!List(p))
             /\ Dir(Mode!List(p)) \in Mode!Dirs
  BY <1>3, <1>4, <1>5, ElementOfSeq DEF Mode!List, HasList, Mode!ToSet, Mode!Dirs
<1> QED BY <1>4, <1>5

\* A step of one process leaves the others what they have; if it keeps its
\* own part of the invariant, all of it holds.
LEMMA OfOneProcess ==
    ASSUME ModeInv, NEW p \in Proc, Mode!TypeOK', UNCHANGED <<use, build>>,
           \A q \in Proc \ {p} :
              /\ mpc'[q] = mpc[q] /\ job'[q] = job[q] /\ eTransaction'[q] = eTransaction[q]
              /\ at'[q] = at[q] /\ envs'[q] = envs[q] /\ opened'[q] = opened[q]
              /\ alone'[q] = alone[q],
           JobInv(p)', OpenInv(p)',
           Unforced => HomeInv(p)',
           Mode!Ordinary =>
              /\ DiskInv' /\ AgreeInv(p)' /\ AloneInv(p)'
              /\ build = "probing" => \A l \in Lists : WithLogs(l)' <=> WithLogs(l)
              /\ \A l \in Lists : mdisk.made[l] # "absent" => mdisk'.made[l] = mdisk.made[l]
              /\ \A q \in Proc \ {p} :
                    mpc[q] = "alone" => (Undisturbed(q, p))'
    PROVE  ModeInv'
<1>1. \A q \in Proc \ {p} : JobInv(q)' /\ OpenInv(q)'
  <2> TAKE q \in Proc \ {p}
  <2>1. JobInv(q) /\ OpenInv(q)
    BY DEF ModeInv
  <2> QED BY <2>1 DEF JobInv, OpenInv, Decided, Mode!NotOpen
<1>2. ASSUME Unforced', NEW q \in Proc \ {p} PROVE HomeInv(q)'
  <2>1. HomeInv(q)
    BY <1>2 DEF ModeInv, Unforced
  <2> QED BY <2>1 DEF HomeInv, Mode!Enabled, Mode!dsm, Mode!List
<1>3. ASSUME Mode!Ordinary', NEW q \in Proc \ {p} PROVE AgreeInv(q)' /\ AloneInv(q)'
  <2>0. Mode!Ordinary
    BY <1>3 DEF Mode!Ordinary
  <2>1. AgreeInv(q) /\ AloneInv(q) /\ Mode!TypeOK /\ DiskInv
    BY <2>0 DEF ModeInv
  <2>2. /\ build = "probing" => \A l \in Lists : WithLogs(l)' <=> WithLogs(l)
        /\ \A l \in Lists : mdisk.made[l] # "absent" => mdisk'.made[l] = mdisk.made[l]
        /\ mpc[q] = "alone" => Undisturbed(q, p)'
    BY <2>0
  <2>3. AgreeInv(q)'
    <3> SUFFICES ASSUME mpc[q] # "off"
                 PROVE  /\ Decided(q)' =>
                            IF build' # "probing" THEN eTransaction'[q] = build'
                            ELSE \A l \in Lists : HasList(q, l)' =>
                                    (eTransaction'[q] = "enabled" <=> WithLogs(l)')
                        /\ \A l \in Lists : opened'[q][l] # "no" =>
                              opened'[q][l] = mdisk'.made[l] /\ opened'[q][l] = Mode!dsm(q)'
      BY DEF AgreeInv
    <3>1. \A l \in Lists : opened[q][l] # "no" => mdisk.made[l] # "absent"
      <4> TAKE l \in Lists
      <4>1. opened[q][l] \in {"no", "elsewhere"} \cup Mode!Modes
        BY <2>1 DEF Mode!TypeOK
      <4> QED BY <2>1, <4>1 DEF AgreeInv, Mode!Modes
    <3>2. \A l \in Lists : opened'[q][l] # "no" =>
             opened'[q][l] = mdisk'.made[l] /\ opened'[q][l] = Mode!dsm(q)'
      BY <2>1, <2>2, <3>1 DEF AgreeInv, Mode!dsm
    <3>3. Decided(q)' => IF build' # "probing" THEN eTransaction'[q] = build'
                         ELSE \A l \in Lists : HasList(q, l)' =>
                                 (eTransaction'[q] = "enabled" <=> WithLogs(l)')
      BY <2>1, <2>2 DEF AgreeInv, Decided, HasList
    <3> QED BY <3>2, <3>3
  <2>4. AloneInv(q)'
    <3> SUFFICES ASSUME mpc[q] = "alone"
                 PROVE  /\ Mode!Enabled(q)' => alone'[q] = Dir(Mode!List(q)')
                        /\ ~Mode!Enabled(q)' /\ job'[q].command \in Mode!FileCommands
                              => alone'[q] = Mode!List(q)'
                        /\ \A r \in Proc \ {q} : Undisturbed(q, r)'
      BY DEF AloneInv
    <3>1. (Mode!Enabled(q)' <=> Mode!Enabled(q)) /\ Mode!List(q)' = Mode!List(q)
      BY DEF Mode!Enabled, Mode!dsm, Mode!List
    <3>2. ASSUME NEW r \in Proc \ {q} PROVE Undisturbed(q, r)'
      <4>1. CASE r = p
        BY <2>2, <4>1
      <4>2. CASE r # p
        <5>1. Undisturbed(q, r)
          BY <2>1 DEF AloneInv
        <5>2. Mode!Enabled(r)' <=> Mode!Enabled(r)
          BY <4>2 DEF Mode!Enabled, Mode!dsm
        <5> QED BY <3>1, <4>2, <5>1, <5>2 DEF Undisturbed
      <4> QED BY <4>1, <4>2
    <3> QED BY <2>1, <3>1, <3>2 DEF AloneInv
  <2> QED BY <2>3, <2>4
<1>4. \A q \in Proc : JobInv(q)' /\ OpenInv(q)'
  BY <1>1
<1>5. (Unforced => \A q \in Proc : HomeInv(q))'
  BY <1>2 DEF Unforced
<1>6. (Mode!Ordinary => DiskInv /\ \A q \in Proc : AgreeInv(q) /\ AloneInv(q))'
  BY <1>3 DEF Mode!Ordinary
<1> QED BY <1>4, <1>5, <1>6 DEF ModeInv

\* Before the first process the files tell how the lists were made.
LEMMA ModeStarts == Mode!Init => ModeInv
<1> SUFFICES ASSUME Mode!Init PROVE ModeInv
  OBVIOUS
<1>1. /\ use \in Uses /\ build \in {"probing", "enabled", "disabled"} /\ mdisk \in Disks
      /\ build # "probing" => \A l \in Lists : mdisk.made[l] \in {"absent", build}
      /\ mpc = [p \in Proc |-> "off"] /\ job = [p \in Proc |-> "none"]
      /\ eTransaction = [p \in Proc |-> "default"]
      /\ at = [p \in Proc |-> 1] /\ retry = [p \in Proc |-> FALSE]
      /\ envs = [p \in Proc |-> {}] /\ opened = [p \in Proc |-> Mode!NotOpen]
      /\ alone = [p \in Proc |-> "none"]
  BY DEF Mode!Init
<1>2. /\ mdisk \in Mode!Disk
      /\ \A l \in Lists :
            /\ mdisk.made[l] = "enabled" => Dir(l) \in mdisk.regions \cup mdisk.logs
            /\ mdisk.made[l] = "disabled" => Dir(l) \notin mdisk.regions \cup mdisk.logs
  <2>1. mdisk \in Disks
    BY <1>1
  <2> QED BY <2>1, ModesAssumption DEF Mode!ModeAssumption
<1>3. Mode!TypeOK
  <2>1. Mode!NotOpen \in [Lists -> {"no", "elsewhere"} \cup Mode!Modes]
    BY DEF Mode!NotOpen
  <2>2. opened \in [Proc -> [Lists -> {"no", "elsewhere"} \cup Mode!Modes]]
    BY <1>1, <2>1
  <2> QED BY <1>1, <1>2, <2>2 DEF Mode!TypeOK, Mode!Modes
<1>4. DiskInv
  BY <1>1, <1>2 DEF DiskInv, WithLogs
<1>5. \A p \in Proc : JobInv(p) /\ OpenInv(p) /\ HomeInv(p) /\ AgreeInv(p) /\ AloneInv(p)
  BY <1>1 DEF JobInv, OpenInv, HomeInv, AgreeInv, AloneInv, Mode!NotOpen
<1> QED BY <1>3, <1>4, <1>5 DEF ModeInv

\* The end of a process leaves nothing of it but its files.
LEMMA EndKeeps ==
    ASSUME ModeInv, NEW p \in Proc, NEW how, Mode!Ends(p, how)
    PROVE  ModeInv'
<1>1. /\ mpc' = [mpc EXCEPT ![p] = "off"] /\ envs' = [envs EXCEPT ![p] = {}]
      /\ opened' = [opened EXCEPT ![p] = Mode!NotOpen]
      /\ alone' = [alone EXCEPT ![p] = "none"]
      /\ UNCHANGED <<use, build, mdisk, job, eTransaction, at, retry>>
  BY DEF Mode!Ends, Mode!Go
<1>2. Mode!TypeOK
  BY DEF ModeInv
<1>3. Mode!TypeOK'
  <2>1. Mode!NotOpen \in [Lists -> {"no", "elsewhere"} \cup Mode!Modes]
    BY DEF Mode!NotOpen
  <2>2. opened' \in [Proc -> [Lists -> {"no", "elsewhere"} \cup Mode!Modes]]
    BY <1>1, <1>2, <2>1 DEF Mode!TypeOK
  <2> QED BY <1>1, <1>2, <2>2 DEF Mode!TypeOK
<1>4. mpc'[p] = "off" /\ envs'[p] = {} /\ opened'[p] = Mode!NotOpen
  BY <1>1, <1>2 DEF Mode!TypeOK
<1>5. \A l \in Lists : opened'[p][l] = "no"
  BY <1>4 DEF Mode!NotOpen
<1>6. JobInv(p)' /\ HomeInv(p)' /\ AgreeInv(p)' /\ AloneInv(p)'
  BY <1>4 DEF JobInv, HomeInv, AgreeInv, AloneInv
<1>7. OpenInv(p)'
  BY <1>4, <1>5 DEF OpenInv, Mode!NotOpen
<1>8. Mode!Ordinary => DiskInv'
  BY <1>1 DEF ModeInv, DiskInv, WithLogs
<1>9. \A l \in Lists : WithLogs(l)' <=> WithLogs(l)
  BY <1>1 DEF WithLogs
<1>10. \A q \in Proc \ {p} : mpc[q] = "alone" => (Undisturbed(q, p))'
  <2> TAKE q \in Proc \ {p}
  <2> HAVE mpc[q] = "alone"
  <2>1. mpc'[q] = mpc[q]
    BY <1>1, <1>2 DEF Mode!TypeOK
  <2>2. JobInv(q)
    BY DEF ModeInv
  <2>3. Mode!List(q)' = Mode!List(q) /\ Mode!List(q) \in Lists
    BY <1>1, <1>2, <2>2, ListsOfJob DEF Mode!List, JobInv
  <2> QED BY <1>4, <1>5, <2>3 DEF Undisturbed
<1>11. \A q \in Proc \ {p} :
           /\ mpc'[q] = mpc[q] /\ job'[q] = job[q] /\ eTransaction'[q] = eTransaction[q]
           /\ at'[q] = at[q] /\ envs'[q] = envs[q] /\ opened'[q] = opened[q]
           /\ alone'[q] = alone[q]
  BY <1>1, <1>2 DEF Mode!TypeOK
<1> QED
  BY <1>1, <1>3, <1>6, <1>7, <1>8, <1>9, <1>10, <1>11, OfOneProcess

\* A process starts and has decided nothing, but what an option tells it.
LEMMA JobStarts ==
    ASSUME ModeInv, NEW p \in Proc, Mode!Start(p)
    PROVE  ModeInv'
<1>1. PICK j \in use.jobs, given \in use.givens :
        /\ mpc[p] = "off" /\ job' = [job EXCEPT ![p] = j]
        /\ eTransaction' = [eTransaction EXCEPT ![p] = given]
        /\ mpc' = [mpc EXCEPT ![p] = IF j.program = "bogoutil" THEN "command" ELSE "list"]
        /\ at' = [at EXCEPT ![p] = 1] /\ retry' = [retry EXCEPT ![p] = FALSE]
        /\ UNCHANGED <<use, build, mdisk, envs, opened, alone>>
  BY DEF Mode!Start, Mode!Go
<1>2. Mode!TypeOK /\ OpenInv(p)
  BY DEF ModeInv
<1>3. /\ j \in Mode!Job /\ j.lists # <<>> /\ given \in {"default"} \cup Mode!Modes
  BY <1>1, <1>2, ModesAssumption DEF Mode!TypeOK, Mode!ModeAssumption
<1>4. Mode!TypeOK'
  BY <1>1, <1>2, <1>3 DEF Mode!TypeOK
<1>5. /\ mpc'[p] \in {"command", "list"} /\ job'[p] = j /\ eTransaction'[p] = given
      /\ at'[p] = 1 /\ envs'[p] = {} /\ opened'[p] = Mode!NotOpen
  BY <1>1, <1>2 DEF Mode!TypeOK, OpenInv
<1>6. \A l \in Lists : opened'[p][l] = "no"
  BY <1>5 DEF Mode!NotOpen
<1>7. JobInv(p)'
  <2>1. j.lists \in Seq(Lists)
    BY <1>3 DEF Mode!Job
  <2>2. 1 \in DOMAIN j.lists
    BY <1>3, <2>1, EmptySeq, LenProperties
  <2> QED BY <1>1, <1>5, <2>2 DEF JobInv
<1>8. OpenInv(p)'
  BY <1>5, <1>6 DEF OpenInv
<1>9. Unforced => HomeInv(p)'
  BY <1>1, <1>5 DEF Unforced, HomeInv
<1>10. Mode!Ordinary => DiskInv' /\ AgreeInv(p)' /\ AloneInv(p)'
  <2> SUFFICES ASSUME Mode!Ordinary PROVE DiskInv' /\ AgreeInv(p)' /\ AloneInv(p)'
    OBVIOUS
  <2>1. given = "default"
    BY <1>1 DEF Mode!Ordinary
  <2>2. DiskInv'
    BY <1>1 DEF ModeInv, DiskInv, WithLogs
  <2> QED BY <1>5, <1>6, <2>1, <2>2 DEF AgreeInv, AloneInv, Decided
<1>11. \A q \in Proc \ {p} :
           /\ mpc'[q] = mpc[q] /\ job'[q] = job[q] /\ eTransaction'[q] = eTransaction[q]
           /\ at'[q] = at[q] /\ envs'[q] = envs[q] /\ opened'[q] = opened[q]
           /\ alone'[q] = alone[q]
  BY <1>1, <1>2 DEF Mode!TypeOK
<1>12. \A q \in Proc \ {p} : mpc[q] = "alone" => (Undisturbed(q, p))'
  <2> TAKE q \in Proc \ {p}
  <2> HAVE mpc[q] = "alone"
  <2>1. JobInv(q)
    BY DEF ModeInv
  <2>2. Mode!List(q)' = Mode!List(q) /\ Mode!List(q) \in Lists
    BY <1>2, <1>11, <2>1, ListsOfJob DEF Mode!List, JobInv
  <2> QED BY <1>5, <1>6, <2>2 DEF Undisturbed
<1>13. \A l \in Lists : WithLogs(l)' <=> WithLogs(l)
  BY <1>1 DEF WithLogs
<1> QED
  BY <1>1, <1>4, <1>7, <1>8, <1>9, <1>10, <1>11, <1>12, <1>13, OfOneProcess

\* What a process decides: not again, as an option says, as the build does,
\* or as it finds the directory.
LEMMA Decides ==
    ASSUME Mode!TypeOK, NEW p \in Proc, NEW l \in Lists, Mode!dsm_init(p, l)
    PROVE  /\ \E mode \in Mode!Modes : eTransaction' = [eTransaction EXCEPT ![p] = mode]
           /\ eTransaction'[p] \in Mode!Modes
           /\ use.forced = "none" /\ Decided(p) => eTransaction'[p] = eTransaction[p]
           /\ build # "probing" /\ ~Decided(p) => eTransaction'[p] = build
           /\ build = "probing" /\ Mode!Ordinary /\ ~Decided(p) =>
                 IF WithLogs(l) THEN eTransaction'[p] = "enabled"
                 ELSE eTransaction'[p] = "disabled"
<1>1. PICK probe \in Mode!Probes(l) :
         eTransaction' = [eTransaction EXCEPT ![p] = Mode!Decided(p, probe)]
  BY DEF Mode!dsm_init
<1>2. /\ build \in {"probing", "enabled", "disabled"} /\ use \in Uses
      /\ eTransaction[p] \in {"default", "enabled", "disabled"}
      /\ eTransaction'[p] = Mode!Decided(p, probe)
  BY <1>1 DEF Mode!TypeOK, Mode!Modes
<1>3. Mode!Decided(p, probe) \in Mode!Modes
  BY DEF Mode!Decided, Mode!set_txn_mode, Mode!Modes
<1>4. use.forced = "none" /\ Decided(p) => Mode!Decided(p, probe) = eTransaction[p]
  BY <1>2 DEF Mode!Decided, Mode!set_txn_mode, Mode!Modes, Decided
<1>5. build # "probing" /\ ~Decided(p) => Mode!Decided(p, probe) = build
  BY <1>2 DEF Mode!Decided, Mode!set_txn_mode, Mode!Modes, Decided
<1>6. ASSUME build = "probing", Mode!Ordinary, ~Decided(p)
      PROVE  Mode!Decided(p, probe) = IF WithLogs(l) THEN "enabled" ELSE "disabled"
  <2>1. use.forced = "none" /\ ~use.faults
    BY <1>6 DEF Mode!Ordinary
  <2>2. probe = Mode!probe_txn(l)
    BY <2>1 DEF Mode!Probes
  <2>3. IF WithLogs(l) THEN probe = "enabled" ELSE probe \in {"disabled", "unknown"}
    BY <2>2 DEF Mode!probe_txn, WithLogs
  <2> QED BY <1>6, <2>1, <2>3 DEF Mode!Decided, Mode!set_txn_mode, Mode!Modes, Decided
<1> QED BY <1>1, <1>2, <1>3, <1>4, <1>5, <1>6

\* The mode is decided, when the environment of a directory is to be there.
LEMMA ProbeKeeps ==
    ASSUME ModeInv, NEW p \in Proc, Mode!Probe(p) \/ Mode!InitCommand(p)
    PROVE  ModeInv'
<1> DEFINE l == Mode!List(p)
<1>1. /\ mpc[p] \in {"list", "command"} /\ Mode!dsm_init(p, l)
      /\ mpc' = [mpc EXCEPT ![p] = IF mpc[p] = "list" THEN "init" ELSE "dispatch"]
      /\ UNCHANGED <<use, build, mdisk, job, at, retry, envs, opened, alone>>
      /\ mpc[p] = "list" => /\ at[p] <= Len(job[p].lists)
                            /\ Mode!check_path(p, l)
  BY DEF Mode!Probe, Mode!InitCommand, Mode!Go, Mode!Opening
<1>2. Mode!TypeOK /\ JobInv(p) /\ OpenInv(p)
  BY DEF ModeInv
<1>3. /\ job[p] \in use.jobs /\ at[p] \in Nat \ {0}
      /\ mpc[p] = "command" => at[p] \in DOMAIN job[p].lists
  BY <1>1, <1>2 DEF JobInv, Mode!TypeOK
<1>4. at[p] \in DOMAIN job[p].lists /\ l \in Lists /\ HasList(p, l)
  BY <1>1, <1>2, <1>3, ListsOfJob
<1> HIDE DEF l
<1>5. /\ \E mode \in Mode!Modes : eTransaction' = [eTransaction EXCEPT ![p] = mode]
      /\ eTransaction'[p] \in Mode!Modes
      /\ use.forced = "none" /\ Decided(p) => eTransaction'[p] = eTransaction[p]
      /\ build # "probing" /\ ~Decided(p) => eTransaction'[p] = build
      /\ build = "probing" /\ Mode!Ordinary /\ ~Decided(p) =>
            IF WithLogs(l) THEN eTransaction'[p] = "enabled"
            ELSE eTransaction'[p] = "disabled"
  BY <1>1, <1>2, <1>4, Decides
<1>6. Mode!TypeOK'
  BY <1>1, <1>2, <1>5 DEF Mode!TypeOK
<1>7. mpc'[p] = IF mpc[p] = "list" THEN "init" ELSE "dispatch"
  BY <1>1, <1>2 DEF Mode!TypeOK
<1>8. Decided(p)'
  BY <1>5 DEF Decided, Mode!Modes
<1>9. JobInv(p)' /\ OpenInv(p)'
  BY <1>1, <1>2, <1>3, <1>4, <1>7, <1>8 DEF JobInv, OpenInv
<1>10. ASSUME Unforced PROVE HomeInv(p)'
  <2> SUFFICES ASSUME job[p].program = "bogofilter"
               PROVE  /\ build # "probing" => eTransaction'[p] \in {"default", build}
                      /\ Mode!Enabled(p)' => envs[p] \subseteq {Home}
                      /\ mpc'[p] = "init" /\ Mode!Enabled(p)' => Dir(l) = Home
    BY <1>1 DEF HomeInv, Mode!List, l
  <2>1. HomeInv(p) /\ use.forced = "none"
    BY <1>10 DEF ModeInv, Unforced
  <2>2. /\ build # "probing" => eTransaction[p] \in {"default", build}
        /\ Mode!Enabled(p) => envs[p] \subseteq {Home}
    BY <1>1, <2>1 DEF HomeInv
  <2>3. build # "probing" => eTransaction'[p] = build
    BY <1>5, <2>1, <2>2 DEF Decided
  <2>4. Mode!Enabled(p)' => eTransaction'[p] = "enabled"
    BY <1>1, <2>3 DEF Mode!Enabled, Mode!dsm
  <2>5. Mode!Enabled(p)' => envs[p] \subseteq {Home}
    <3>1. CASE Decided(p)
      <4>1. eTransaction'[p] = eTransaction[p]
        BY <1>5, <2>1, <3>1
      <4> QED BY <1>1, <2>2, <4>1 DEF Mode!Enabled, Mode!dsm
    <3>2. CASE ~Decided(p)
      BY <1>1, <1>2, <3>2 DEF JobInv
    <3> QED BY <3>1, <3>2
  <2>6. mpc'[p] = "init" /\ Mode!Enabled(p)' => Dir(l) = Home
    <3> SUFFICES ASSUME mpc'[p] = "init", Mode!Enabled(p)' PROVE Dir(l) = Home
      OBVIOUS
    <3>1. eTransaction[p] = "disabled" \/ Dir(l) = Home
      BY <1>1, <1>7 DEF Mode!check_path
    <3>2. eTransaction[p] # "disabled"
      BY <1>5, <2>1, <2>4 DEF Decided
    <3> QED BY <3>1, <3>2
  <2> QED BY <2>3, <2>5, <2>6
<1>11. ASSUME Mode!Ordinary PROVE DiskInv' /\ AgreeInv(p)' /\ AloneInv(p)'
  <2>1. DiskInv /\ AgreeInv(p) /\ use.forced = "none"
    BY <1>11 DEF ModeInv, Mode!Ordinary
  <2>2. DiskInv'
    BY <1>1, <2>1 DEF DiskInv, WithLogs
  <2>3. AloneInv(p)'
    BY <1>7 DEF AloneInv
  <2>4. CASE Decided(p)
    <3>1. eTransaction'[p] = eTransaction[p]
      BY <1>5, <2>1, <2>4
    <3> QED BY <1>1, <2>1, <2>2, <2>3, <3>1
        DEF AgreeInv, Decided, WithLogs, HasList, Mode!dsm
  <2>5. CASE ~Decided(p)
    <3>1. envs[p] = {}
      BY <1>1, <1>2, <2>5 DEF JobInv
    <3>2. \A k \in Lists : opened'[p][k] = "no"
      BY <1>1, <1>2, <3>1 DEF OpenInv
    <3>3. build = "probing" => \A k \in Lists : HasList(p, k) => Dir(k) = Dir(l)
      BY <1>3, <1>4, <1>11 DEF Mode!Ordinary, HasList
    <3>4. build = "probing" => \A k \in Lists : HasList(p, k) =>
             (eTransaction'[p] = "enabled" <=> WithLogs(k))
      BY <1>5, <1>11, <2>5, <3>3 DEF WithLogs
    <3>5. Decided(p)' => IF build' # "probing" THEN eTransaction'[p] = build'
                         ELSE \A k \in Lists : HasList(p, k)' =>
                                 (eTransaction'[p] = "enabled" <=> WithLogs(k)')
      BY <1>1, <1>5, <2>5, <3>4 DEF WithLogs, HasList
    <3> QED BY <2>2, <2>3, <3>2, <3>5 DEF AgreeInv
  <2> QED BY <2>4, <2>5
<1>12. ASSUME Mode!Ordinary, NEW q \in Proc \ {p}, mpc[q] = "alone"
       PROVE  (Undisturbed(q, p))'
  <2>1. Undisturbed(q, p) /\ JobInv(p)
    BY <1>12 DEF ModeInv, AloneInv
  <2>2. eTransaction'[q] = eTransaction[q]
    BY <1>2, <1>5 DEF Mode!TypeOK
  <2>3. (Mode!Enabled(q)' <=> Mode!Enabled(q)) /\ Mode!List(q)' = Mode!List(q)
    BY <1>1, <2>2 DEF Mode!Enabled, Mode!dsm, Mode!List
  <2>4. envs[p] # {} => (Mode!Enabled(p)' <=> Mode!Enabled(p))
    BY <1>1, <1>5, <1>12, <2>1 DEF JobInv, Mode!Ordinary, Mode!Enabled, Mode!dsm
  <2> QED BY <1>1, <2>1, <2>3, <2>4 DEF Undisturbed
<1>13. \A l1 \in Lists : WithLogs(l1)' <=> WithLogs(l1)
  BY <1>1 DEF WithLogs
<1>14. \A q \in Proc \ {p} :
           /\ mpc'[q] = mpc[q] /\ job'[q] = job[q] /\ eTransaction'[q] = eTransaction[q]
           /\ at'[q] = at[q] /\ envs'[q] = envs[q] /\ opened'[q] = opened[q]
           /\ alone'[q] = alone[q]
  BY <1>1, <1>2, <1>5 DEF Mode!TypeOK
<1> QED
  BY <1>1, <1>6, <1>9, <1>10, <1>11, <1>12, <1>13, <1>14, OfOneProcess

\* The environment is there, and is made only where transactions were used.
LEMMA InitKeeps ==
    ASSUME ModeInv, NEW p \in Proc, Mode!InitEnvironment(p)
    PROVE  ModeInv'
<1> DEFINE l == Mode!List(p)
           d == Dir(l)
<1>1. /\ mpc[p] = "init" /\ mpc' = [mpc EXCEPT ![p] = "list"]
      /\ Mode!Enabled(p) => \A q \in Proc : alone[q] # d
      /\ mdisk' = IF Mode!Enabled(p) THEN Mode!WithEnvironment(d) ELSE mdisk
      /\ envs' = [envs EXCEPT ![p] = @ \cup {d}]
      /\ UNCHANGED <<use, build, job, eTransaction, at, retry, opened, alone>>
  BY DEF Mode!InitEnvironment, Mode!Go
<1>2. Mode!TypeOK /\ JobInv(p) /\ OpenInv(p)
  BY DEF ModeInv
<1>3. job[p] \in use.jobs /\ at[p] \in DOMAIN job[p].lists /\ Decided(p)
  BY <1>1, <1>2 DEF JobInv
<1>4. l \in Lists /\ HasList(p, l) /\ d \in Mode!Dirs
  BY <1>2, <1>3, ListsOfJob
<1> HIDE DEF l, d
<1>5. /\ mdisk' \in Mode!Disk /\ mdisk'.made = mdisk.made
      /\ mdisk'.regions \cup mdisk'.logs =
            mdisk.regions \cup mdisk.logs \cup (IF Mode!Enabled(p) THEN {d} ELSE {})
  BY <1>1, <1>2, <1>4 DEF Mode!TypeOK, Mode!Disk, Mode!WithEnvironment
<1>6. mpc'[p] = "list" /\ envs'[p] = envs[p] \cup {d}
  BY <1>1, <1>2 DEF Mode!TypeOK
<1>7. Mode!TypeOK'
  BY <1>1, <1>2, <1>4, <1>5 DEF Mode!TypeOK
<1>8. JobInv(p)'
  BY <1>1, <1>3, <1>6 DEF JobInv, Decided
<1>9. OpenInv(p)'
  BY <1>1, <1>2, <1>6 DEF OpenInv
<1>10. ASSUME Unforced PROVE HomeInv(p)'
  <2>1. HomeInv(p)
    BY <1>10 DEF ModeInv
  <2> QED BY <1>1, <1>6, <2>1 DEF HomeInv, Mode!Enabled, Mode!dsm, d, l
<1>11. ASSUME Mode!Ordinary
       PROVE  /\ build = "probing" => \A k \in Lists : WithLogs(k)' <=> WithLogs(k)
              /\ DiskInv' /\ AgreeInv(p)' /\ AloneInv(p)'
  <2>1. DiskInv /\ AgreeInv(p)
    BY <1>11 DEF ModeInv
  <2>2. build = "probing" /\ Mode!Enabled(p) => d \in mdisk.regions \cup mdisk.logs
    BY <1>1, <1>3, <1>4, <2>1 DEF AgreeInv, Mode!Enabled, Mode!dsm, WithLogs, d
  <2>3. build = "probing" => \A k \in Lists : WithLogs(k)' <=> WithLogs(k)
    BY <1>5, <2>2 DEF WithLogs
  <2>4. DiskInv'
    BY <1>1, <1>5, <2>1, <2>3 DEF DiskInv
  <2>5. AgreeInv(p)'
    BY <1>1, <1>5, <1>6, <2>1, <2>3 DEF AgreeInv, Decided, HasList, Mode!dsm
  <2>6. AloneInv(p)'
    BY <1>6 DEF AloneInv
  <2> QED BY <2>3, <2>4, <2>5, <2>6
<1>12. ASSUME Mode!Ordinary, NEW q \in Proc \ {p}, mpc[q] = "alone"
       PROVE  (Undisturbed(q, p))'
  <2>1. Undisturbed(q, p) /\ AloneInv(q)
    BY <1>12 DEF ModeInv, AloneInv
  <2>2. /\ (Mode!Enabled(q)' <=> Mode!Enabled(q)) /\ (Mode!Enabled(p)' <=> Mode!Enabled(p))
        /\ Mode!List(q)' = Mode!List(q)
    BY <1>1 DEF Mode!Enabled, Mode!dsm, Mode!List
  <2>3. Mode!Enabled(q) /\ Mode!Enabled(p) => Dir(Mode!List(q)) # d
    BY <1>1, <1>12, <2>1 DEF AloneInv
  <2> QED BY <1>1, <1>6, <2>1, <2>2, <2>3 DEF Undisturbed
<1>13. \A q \in Proc \ {p} :
           /\ mpc'[q] = mpc[q] /\ job'[q] = job[q] /\ eTransaction'[q] = eTransaction[q]
           /\ at'[q] = at[q] /\ envs'[q] = envs[q] /\ opened'[q] = opened[q]
           /\ alone'[q] = alone[q]
  BY <1>1, <1>2 DEF Mode!TypeOK
<1> QED
  BY <1>1, <1>5, <1>7, <1>8, <1>9, <1>10, <1>11, <1>12, <1>13, OfOneProcess

\* In the mode it has decided on a process finds the lists that are there.
LEMMA ModeOfList ==
    ASSUME ModeInv, Mode!Ordinary, NEW p \in Proc, mpc[p] # "off", Decided(p),
           NEW l \in Lists, HasList(p, l)
    PROVE  /\ Mode!dsm(p) \in Mode!Modes /\ Mode!dsm(p) = eTransaction[p]
           /\ mdisk.made[l] \in {"absent", Mode!dsm(p)}
           /\ build = "probing" => (Mode!Enabled(p) <=> WithLogs(l))
<1>1. Mode!TypeOK /\ DiskInv /\ AgreeInv(p)
  BY DEF ModeInv
<1>2. eTransaction[p] \in Mode!Modes
  BY <1>1 DEF Mode!TypeOK, Decided
<1>3. mdisk.made[l] \in {"absent", "enabled", "disabled"}
  BY <1>1 DEF Mode!TypeOK, Mode!Disk, Mode!Modes
<1>4. CASE build # "probing"
  BY <1>1, <1>2, <1>4 DEF AgreeInv, DiskInv, Mode!dsm
<1>5. CASE build = "probing"
  <2>1. eTransaction[p] = "enabled" <=> WithLogs(l)
    BY <1>1, <1>5 DEF AgreeInv
  <2>2. /\ mdisk.made[l] = "enabled" => WithLogs(l)
        /\ mdisk.made[l] = "disabled" => ~WithLogs(l)
    BY <1>1, <1>5 DEF DiskInv
  <2> QED BY <1>2, <1>3, <1>5, <2>1, <2>2 DEF Mode!dsm, Mode!Enabled, Mode!Modes
<1> QED BY <1>4, <1>5

\* Two processes that have a list are in one mode.
LEMMA SameMode ==
    ASSUME ModeInv, Mode!Ordinary, NEW p \in Proc, NEW q \in Proc,
           mpc[p] # "off", mpc[q] # "off", Decided(p), Decided(q),
           NEW k \in Lists, NEW l \in Lists, HasList(p, k), HasList(q, l), Dir(k) = Dir(l)
    PROVE  Mode!Enabled(p) <=> Mode!Enabled(q)
<1>1. CASE build = "probing"
  BY <1>1, ModeOfList DEF WithLogs
<1>2. CASE build # "probing"
  BY <1>2 DEF Mode!Enabled, Mode!dsm
<1> QED BY <1>1, <1>2

\* A list is opened as it was made, or made as it is opened.
LEMMA OpenKeeps ==
    ASSUME ModeInv, NEW p \in Proc, Mode!OpenList(p)
    PROVE  ModeInv'
<1> DEFINE l == Mode!List(p)
           how == IF Mode!Elsewhere(p) THEN "elsewhere" ELSE Mode!dsm(p)
<1>1. /\ mpc[p] = "list" /\ at[p] <= Len(job[p].lists) /\ Dir(l) \in envs[p]
      /\ at' = [at EXCEPT ![p] = @ + 1]
      /\ UNCHANGED <<use, build, mpc, job, eTransaction, retry, envs, alone>>
  BY DEF Mode!OpenList, Mode!Opening, Mode!NextList
<1>2. \/ opened[p][l] # "no" /\ UNCHANGED <<mdisk, opened>>
      \/ /\ opened[p][l] = "no"
         /\ Mode!Enabled(p) \/ Mode!Elsewhere(p) \/ ~Mode!Locked(p, l)
         /\ mdisk' = IF Mode!Elsewhere(p) \/ mdisk.made[l] # "absent" THEN mdisk
                     ELSE [mdisk EXCEPT !.made[l] = Mode!dsm(p)]
         /\ opened' = [opened EXCEPT ![p][l] = how]
  BY DEF Mode!OpenList
<1>3. Mode!TypeOK /\ JobInv(p) /\ OpenInv(p)
  BY DEF ModeInv
<1>4. job[p] \in use.jobs /\ Decided(p) /\ at[p] \in Nat \ {0}
  BY <1>1, <1>3 DEF JobInv, Mode!TypeOK
<1>5. at[p] \in DOMAIN job[p].lists /\ l \in Lists /\ HasList(p, l)
  BY <1>1, <1>3, <1>4, ListsOfJob
<1>6. Mode!dsm(p) \in Mode!Modes /\ build \in {"probing", "enabled", "disabled"}
  BY <1>3, <1>4 DEF Mode!dsm, Mode!TypeOK, Mode!Modes, Decided
<1>7. how \in {"elsewhere"} \cup Mode!Modes
  BY <1>6
<1> HIDE DEF l, how
<1>8. /\ mdisk' \in Mode!Disk
      /\ mdisk'.regions = mdisk.regions /\ mdisk'.logs = mdisk.logs
      /\ \A k \in Lists : k # l \/ mdisk.made[k] # "absent" => mdisk'.made[k] = mdisk.made[k]
      /\ mdisk'.made[l] \in {mdisk.made[l], Mode!dsm(p)}
      /\ opened[p][l] = "no" /\ ~Mode!Elsewhere(p) => mdisk'.made[l] # "absent"
  <2>1. mdisk \in Mode!Disk
    BY <1>3 DEF Mode!TypeOK
  <2>2. mdisk' = mdisk \/ mdisk' = [mdisk EXCEPT !.made[l] = Mode!dsm(p)]
    BY <1>2
  <2>3. CASE mdisk' = mdisk
    <3>1. opened[p][l] = "no" /\ ~Mode!Elsewhere(p) => mdisk.made[l] # "absent"
      <4> SUFFICES ASSUME opened[p][l] = "no", ~Mode!Elsewhere(p), mdisk.made[l] = "absent"
                   PROVE  FALSE
        OBVIOUS
      <4>1. mdisk' = [mdisk EXCEPT !.made[l] = Mode!dsm(p)]
        BY <1>2
      <4>2. mdisk'.made[l] = Mode!dsm(p)
        BY <1>5, <2>1, <4>1 DEF Mode!Disk
      <4> QED BY <1>6, <2>3, <4>2 DEF Mode!Modes
    <3> QED BY <2>1, <2>3, <3>1
  <2>4. CASE /\ mdisk' = [mdisk EXCEPT !.made[l] = Mode!dsm(p)]
             /\ mdisk' # mdisk
    <3>1. mdisk.made[l] = "absent"
      BY <1>2, <2>4
    <3>2. mdisk'.made = [mdisk.made EXCEPT ![l] = Mode!dsm(p)]
      BY <2>1, <2>4 DEF Mode!Disk
    <3>3. mdisk.made \in [Lists -> {"absent"} \cup Mode!Modes]
      BY <2>1 DEF Mode!Disk
    <3>4. mdisk'.made[l] = Mode!dsm(p) /\ \A k \in Lists : k # l => mdisk'.made[k] = mdisk.made[k]
      BY <1>5, <3>2, <3>3
    <3>5. mdisk' \in Mode!Disk
          /\ mdisk'.regions = mdisk.regions /\ mdisk'.logs = mdisk.logs
      BY <1>5, <1>6, <2>1, <2>4 DEF Mode!Disk
    <3> QED BY <1>6, <3>1, <3>4, <3>5 DEF Mode!Modes
  <2> QED BY <2>2, <2>3, <2>4
<1>9. /\ opened' \in [Proc -> [Lists -> {"no", "elsewhere"} \cup Mode!Modes]]
      /\ \A q \in Proc \ {p} : opened'[q] = opened[q]
      /\ \A k \in Lists : k # l \/ opened[p][l] # "no" => opened'[p][k] = opened[p][k]
      /\ opened[p][l] = "no" => opened'[p][l] = how
  <2>1. opened \in [Proc -> [Lists -> {"no", "elsewhere"} \cup Mode!Modes]]
    BY <1>3 DEF Mode!TypeOK
  <2>2. CASE opened' = opened /\ opened[p][l] # "no"
    BY <2>1, <2>2
  <2>3. CASE opened[p][l] = "no" /\ opened' = [opened EXCEPT ![p][l] = how]
    <3>1. how \in {"no", "elsewhere"} \cup Mode!Modes
      BY <1>7
    <3> DEFINE row == [opened[p] EXCEPT ![l] = how]
    <3>2. opened[p] \in [Lists -> {"no", "elsewhere"} \cup Mode!Modes]
      BY <2>1
    <3>3. /\ row \in [Lists -> {"no", "elsewhere"} \cup Mode!Modes]
          /\ row[l] = how /\ \A k \in Lists : k # l => row[k] = opened[p][k]
      BY <1>5, <3>1, <3>2
    <3>4. opened' = [opened EXCEPT ![p] = row]
      BY <2>1, <2>3
    <3> HIDE DEF row
    <3>5. opened'[p] = row /\ \A q \in Proc \ {p} : opened'[q] = opened[q]
      BY <2>1, <3>4
    <3>6. opened' \in [Proc -> [Lists -> {"no", "elsewhere"} \cup Mode!Modes]]
      BY <2>1, <3>3, <3>4
    <3> QED BY <2>3, <3>3, <3>5, <3>6
  <2> QED BY <1>2, <2>2, <2>3
<1>10. Mode!TypeOK'
  BY <1>1, <1>3, <1>8, <1>9 DEF Mode!TypeOK
<1>11. JobInv(p)' /\ OpenInv(p)'
  BY <1>1, <1>3, <1>5, <1>9 DEF JobInv, OpenInv, Decided
<1>12. ASSUME Unforced PROVE HomeInv(p)'
  <2>1. HomeInv(p)
    BY <1>12 DEF ModeInv
  <2> QED BY <1>1, <2>1 DEF HomeInv, Mode!Enabled, Mode!dsm
<1>13. \A k \in Lists : WithLogs(k)' <=> WithLogs(k)
  BY <1>8 DEF WithLogs
<1>14. ASSUME Mode!Ordinary PROVE DiskInv' /\ AgreeInv(p)' /\ AloneInv(p)'
  <2>1. DiskInv /\ AgreeInv(p)
    BY <1>14 DEF ModeInv
  <2>2. /\ Mode!dsm(p) = eTransaction[p] /\ mdisk.made[l] \in {"absent", Mode!dsm(p)}
        /\ build = "probing" => (Mode!Enabled(p) <=> WithLogs(l))
    BY <1>1, <1>4, <1>5, <1>14, ModeOfList
  <2>3. ~Mode!Elsewhere(p) /\ how = Mode!dsm(p)
    BY <2>2 DEF Mode!Elsewhere, Mode!Enabled, how
  <2>4. mdisk'.made[l] \in {"absent", Mode!dsm(p)}
    BY <1>8, <2>2
  <2>5. build # "probing" => Mode!dsm(p) = build
    BY DEF Mode!dsm
  <2>6. ASSUME NEW k \in Lists
        PROVE  IF build # "probing" THEN mdisk'.made[k] \in {"absent", build}
               ELSE /\ mdisk'.made[k] = "enabled" => WithLogs(k)
                    /\ mdisk'.made[k] = "disabled" => ~WithLogs(k)
    <3>1. CASE k = l
      BY <2>2, <2>4, <2>5, <3>1 DEF Mode!Enabled
    <3>2. CASE k # l
      BY <1>8, <2>1, <3>2 DEF DiskInv
    <3> QED BY <3>1, <3>2
  <2>7. DiskInv'
    BY <1>1, <1>13, <2>6 DEF DiskInv
  <2>8. ASSUME NEW k \in Lists, opened'[p][k] # "no"
        PROVE  opened'[p][k] = mdisk'.made[k] /\ opened'[p][k] = Mode!dsm(p)
    <3>1. CASE k # l \/ opened[p][l] # "no"
      <4>1. opened[p][k] # "no" /\ opened'[p][k] = opened[p][k]
        BY <1>9, <2>8, <3>1
      <4>2. opened[p][k] = mdisk.made[k] /\ opened[p][k] = Mode!dsm(p)
        BY <1>1, <2>1, <4>1 DEF AgreeInv
      <4>3. mdisk.made[k] # "absent"
        BY <1>6, <4>2 DEF Mode!Modes
      <4> QED BY <1>8, <4>1, <4>2, <4>3
    <3>2. CASE k = l /\ opened[p][l] = "no"
      <4>1. mdisk'.made[l] # "absent" /\ opened'[p][l] = Mode!dsm(p)
        BY <1>8, <1>9, <2>3, <3>2
      <4> QED BY <2>4, <3>2, <4>1
    <3> QED BY <3>1, <3>2
  <2>9. AgreeInv(p)'
    <3>1. Mode!dsm(p)' = Mode!dsm(p)
      BY <1>1 DEF Mode!dsm
    <3>2. Decided(p)' => IF build' # "probing" THEN eTransaction'[p] = build'
                         ELSE \A k \in Lists : HasList(p, k)' =>
                                 (eTransaction'[p] = "enabled" <=> WithLogs(k)')
      BY <1>1, <1>13, <2>1 DEF AgreeInv, Decided, HasList
    <3> QED BY <2>8, <3>1, <3>2 DEF AgreeInv
  <2>10. AloneInv(p)'
    BY <1>1 DEF AloneInv
  <2> QED BY <2>7, <2>9, <2>10
<1>15. ASSUME Mode!Ordinary, NEW q \in Proc \ {p}, mpc[q] = "alone"
       PROVE  (Undisturbed(q, p))'
  <2> DEFINE m == Mode!List(q)
  <2>1. Undisturbed(q, p) /\ AloneInv(q) /\ JobInv(q)
    BY <1>15 DEF ModeInv, AloneInv
  <2>2. /\ (Mode!Enabled(q)' <=> Mode!Enabled(q)) /\ (Mode!Enabled(p)' <=> Mode!Enabled(p))
        /\ Mode!List(q)' = m
    BY <1>1, <1>15, <1>3 DEF Mode!Enabled, Mode!dsm, Mode!List, Mode!TypeOK
  <2>3. job[q] \in use.jobs /\ at[q] \in DOMAIN job[q].lists /\ Decided(q)
    BY <1>15, <2>1 DEF JobInv
  <2>4. m \in Lists /\ HasList(q, m)
    BY <1>3, <2>3, ListsOfJob
  <2> HIDE DEF m
  <2>5. CASE Mode!Enabled(q)
    BY <1>1, <2>1, <2>2, <2>5 DEF Undisturbed, m
  <2>6. CASE ~Mode!Enabled(q) /\ job[q].command \in Mode!FileCommands
    <3>1. alone[q] = m /\ opened[p][m] = "no"
      BY <1>15, <2>1, <2>6 DEF AloneInv, Undisturbed, m
    <3>2. m = l => ~Mode!Enabled(p) /\ ~Mode!Elsewhere(p)
      <4> SUFFICES ASSUME m = l PROVE ~Mode!Enabled(p) /\ ~Mode!Elsewhere(p)
        OBVIOUS
      <4>1. ~Mode!Enabled(p)
        BY <1>1, <1>4, <1>5, <1>15, <2>3, <2>4, <2>6, SameMode
      <4>2. Mode!dsm(p) = eTransaction[p]
        BY <1>1, <1>4, <1>5, <1>15, ModeOfList
      <4> QED BY <4>1, <4>2 DEF Mode!Elsewhere, Mode!Enabled
    <3>3. m = l => Mode!Locked(p, l)
      BY <1>15, <3>1 DEF Mode!Locked
    <3>4. opened'[p][m] = "no"
      BY <1>2, <1>9, <2>4, <3>1, <3>2, <3>3
    <3> QED BY <1>1, <2>2, <2>6, <3>4 DEF Undisturbed
  <2>7. CASE ~Mode!Enabled(q) /\ job[q].command \notin Mode!FileCommands
    BY <1>1, <2>2, <2>7 DEF Undisturbed
  <2> QED BY <2>5, <2>6, <2>7
<1>16. \A q \in Proc \ {p} :
           /\ mpc'[q] = mpc[q] /\ job'[q] = job[q] /\ eTransaction'[q] = eTransaction[q]
           /\ at'[q] = at[q] /\ envs'[q] = envs[q] /\ opened'[q] = opened[q]
           /\ alone'[q] = alone[q]
  BY <1>1, <1>3, <1>9 DEF Mode!TypeOK
<1>17. \A k \in Lists : mdisk.made[k] # "absent" => mdisk'.made[k] = mdisk.made[k]
  BY <1>8
<1> QED
  BY <1>1, <1>10, <1>11, <1>12, <1>13, <1>14, <1>15, <1>16, <1>17, OfOneProcess

\* A list that is busy: the process has nothing open any more, and tries again.
LEMMA BusyKeeps ==
    ASSUME ModeInv, NEW p \in Proc, Mode!ListBusy(p) \/ Mode!EndOfPass(p)
    PROVE  ModeInv'
<1>1. Mode!TypeOK /\ JobInv(p) /\ OpenInv(p)
  BY DEF ModeInv
<1>2. /\ mpc[p] = "list" /\ mpc'[p] \in {"list", "running"}
      /\ \/ envs' = envs /\ opened' = opened
         \/ envs' = [envs EXCEPT ![p] = {}] /\ opened' = [opened EXCEPT ![p] = Mode!NotOpen]
      /\ mpc' = mpc \/ mpc' = [mpc EXCEPT ![p] = "running"]
      /\ \/ at' = [at EXCEPT ![p] = at[p] + 1] \/ at' = [at EXCEPT ![p] = 1] \/ at' = at
      /\ retry' = retry \/ \E b \in BOOLEAN : retry' = [retry EXCEPT ![p] = b]
      /\ UNCHANGED <<use, build, mdisk, job, eTransaction, alone>>
  <2>1. CASE Mode!ListBusy(p)
    BY <1>1, <2>1 DEF Mode!ListBusy, Mode!Opening, Mode!NextList
  <2>2. CASE Mode!EndOfPass(p)
    BY <1>1, <2>2 DEF Mode!EndOfPass, Mode!Go, Mode!TypeOK
  <2> QED BY <2>1, <2>2
<1>3. /\ opened' \in [Proc -> [Lists -> {"no", "elsewhere"} \cup Mode!Modes]]
      /\ envs' \in [Proc -> SUBSET Mode!Dirs]
      /\ \A q \in Proc \ {p} : envs'[q] = envs[q] /\ opened'[q] = opened[q]
      /\ \/ envs'[p] = envs[p] /\ opened'[p] = opened[p]
         \/ envs'[p] = {} /\ \A l \in Lists : opened'[p][l] = "no"
  <2>1. /\ opened \in [Proc -> [Lists -> {"no", "elsewhere"} \cup Mode!Modes]]
        /\ envs \in [Proc -> SUBSET Mode!Dirs]
    BY <1>1 DEF Mode!TypeOK
  <2>2. CASE envs' = envs /\ opened' = opened
    BY <2>1, <2>2
  <2>3. CASE envs' = [envs EXCEPT ![p] = {}] /\ opened' = [opened EXCEPT ![p] = Mode!NotOpen]
    <3>1. /\ Mode!NotOpen \in [Lists -> {"no", "elsewhere"} \cup Mode!Modes]
          /\ \A l \in Lists : Mode!NotOpen[l] = "no"
      BY DEF Mode!NotOpen
    <3>2. opened'[p] = Mode!NotOpen /\ envs'[p] = {}
      BY <2>1, <2>3
    <3>3. opened' \in [Proc -> [Lists -> {"no", "elsewhere"} \cup Mode!Modes]]
      BY <2>1, <2>3, <3>1
    <3> QED BY <2>1, <2>3, <3>1, <3>2, <3>3
  <2> QED BY <1>2, <2>2, <2>3
<1>4. Mode!TypeOK'
  <2>1. at' \in [Proc -> Nat \ {0}] /\ retry' \in [Proc -> BOOLEAN]
    BY <1>1, <1>2 DEF Mode!TypeOK
  <2> QED BY <1>1, <1>2, <1>3, <2>1 DEF Mode!TypeOK
<1>5. JobInv(p)'
  BY <1>1, <1>2, <1>3 DEF JobInv, Decided
<1>6. OpenInv(p)'
  BY <1>1, <1>2, <1>3 DEF OpenInv
<1>7. Unforced => HomeInv(p)'
  BY <1>2, <1>3 DEF ModeInv, HomeInv, Mode!Enabled, Mode!dsm
<1>8. \A l \in Lists : WithLogs(l)' <=> WithLogs(l)
  BY <1>2 DEF WithLogs
<1>9. ASSUME Mode!Ordinary PROVE DiskInv' /\ AgreeInv(p)' /\ AloneInv(p)'
  <2>1. DiskInv /\ AgreeInv(p)
    BY <1>9 DEF ModeInv
  <2>2. DiskInv'
    BY <1>2, <1>8, <2>1 DEF DiskInv
  <2>3. AgreeInv(p)'
    BY <1>2, <1>3, <1>8, <2>1 DEF AgreeInv, Decided, HasList, Mode!dsm
  <2>4. AloneInv(p)'
    BY <1>2 DEF AloneInv
  <2> QED BY <2>2, <2>3, <2>4
<1>10. ASSUME Mode!Ordinary, NEW q \in Proc \ {p}, mpc[q] = "alone"
       PROVE  (Undisturbed(q, p))'
  <2>1. Undisturbed(q, p) /\ JobInv(q)
    BY <1>10 DEF ModeInv, AloneInv
  <2>2. Mode!List(q) \in Lists
    BY <1>1, <1>10, <2>1, ListsOfJob DEF JobInv
  <2>3. /\ (Mode!Enabled(q)' <=> Mode!Enabled(q)) /\ (Mode!Enabled(p)' <=> Mode!Enabled(p))
        /\ Mode!List(q)' = Mode!List(q)
    BY <1>1, <1>2, <1>10 DEF Mode!Enabled, Mode!dsm, Mode!List, Mode!TypeOK
  <2> QED BY <1>2, <1>3, <2>1, <2>2, <2>3 DEF Undisturbed
<1>11. \A q \in Proc \ {p} :
           /\ mpc'[q] = mpc[q] /\ job'[q] = job[q] /\ eTransaction'[q] = eTransaction[q]
           /\ at'[q] = at[q] /\ envs'[q] = envs[q] /\ opened'[q] = opened[q]
           /\ alone'[q] = alone[q]
  BY <1>1, <1>2, <1>3 DEF Mode!TypeOK
<1> QED
  BY <1>2, <1>4, <1>5, <1>6, <1>7, <1>8, <1>9, <1>10, <1>11, OfOneProcess

\* Recovery has its directory for itself, and does not lose its log files.
LEMMA RecoverKeeps ==
    ASSUME ModeInv, NEW p \in Proc, Mode!RecoverOpen(p)
    PROVE  ModeInv'
<1> DEFINE l == Mode!List(p)
           d == Dir(l)
<1>1. /\ mpc[p] = "dispatch" /\ mpc' = [mpc EXCEPT ![p] = "alone"] /\ Mode!Enabled(p)
      /\ \A q \in Proc \ {p} : alone[q] # d /\ ~(d \in envs[q] /\ Mode!Enabled(q))
      /\ alone' = [alone EXCEPT ![p] = d]
      /\ mdisk' = [mdisk EXCEPT !.regions = @ \ {d}, !.logs = @ \cup {d}]
            \/ mdisk' = Mode!WithEnvironment(d)
      /\ UNCHANGED <<use, build, job, eTransaction, at, retry, envs, opened>>
  BY DEF Mode!RecoverOpen, Mode!Go
<1>2. Mode!TypeOK /\ JobInv(p) /\ OpenInv(p)
  BY DEF ModeInv
<1>3. job[p] \in use.jobs /\ at[p] \in DOMAIN job[p].lists /\ Decided(p)
  BY <1>1, <1>2 DEF JobInv
<1>4. l \in Lists /\ HasList(p, l) /\ d \in Mode!Dirs
  BY <1>2, <1>3, ListsOfJob
<1>5. d = Dir(Mode!List(p))
  OBVIOUS
<1> HIDE DEF l, d
<1>6. /\ mdisk' \in Mode!Disk /\ mdisk'.made = mdisk.made
      /\ mdisk'.regions \cup mdisk'.logs = mdisk.regions \cup mdisk.logs \cup {d}
  <2>1. mdisk \in Mode!Disk
    BY <1>2 DEF Mode!TypeOK
  <2>2. CASE mdisk' = [mdisk EXCEPT !.regions = @ \ {d}, !.logs = @ \cup {d}]
    <3>1. mdisk' \in Mode!Disk /\ mdisk'.made = mdisk.made
      BY <1>4, <2>1, <2>2 DEF Mode!Disk
    <3>2. mdisk'.regions = mdisk.regions \ {d} /\ mdisk'.logs = mdisk.logs \cup {d}
      BY <2>1, <2>2 DEF Mode!Disk
    <3> QED BY <3>1, <3>2
  <2>3. CASE mdisk' = Mode!WithEnvironment(d)
    <3>1. mdisk' \in Mode!Disk /\ mdisk'.made = mdisk.made
      BY <1>4, <2>1, <2>3 DEF Mode!Disk, Mode!WithEnvironment
    <3>2. mdisk'.regions = mdisk.regions \cup {d} /\ mdisk'.logs = mdisk.logs \cup {d}
      BY <2>1, <2>3 DEF Mode!Disk, Mode!WithEnvironment
    <3> QED BY <3>1, <3>2
  <2> QED BY <1>1, <2>2, <2>3
<1>7. mpc'[p] = "alone" /\ alone'[p] = d
  BY <1>1, <1>2 DEF Mode!TypeOK
<1>8. Mode!TypeOK'
  <2>1. DOMAIN alone' = Proc
    BY <1>1, <1>2 DEF Mode!TypeOK
  <2>2. mpc' \in [Proc -> {"off", "list", "init", "running", "command", "dispatch", "alone"}]
    BY <1>1, <1>2 DEF Mode!TypeOK
  <2> QED BY <1>1, <1>2, <1>6, <2>1, <2>2 DEF Mode!TypeOK
<1>9. JobInv(p)' /\ OpenInv(p)'
  BY <1>1, <1>2, <1>3, <1>7 DEF JobInv, OpenInv, Decided
<1>10. ASSUME Unforced PROVE HomeInv(p)'
  <2>1. HomeInv(p)
    BY <1>10 DEF ModeInv
  <2> QED BY <1>1, <1>7, <2>1 DEF HomeInv, Mode!Enabled, Mode!dsm
<1>11. (Mode!Enabled(p)' <=> Mode!Enabled(p)) /\ Mode!List(p)' = Mode!List(p)
  BY <1>1 DEF Mode!Enabled, Mode!dsm, Mode!List
<1>12. ASSUME Mode!Ordinary
       PROVE  /\ build = "probing" => \A k \in Lists : WithLogs(k)' <=> WithLogs(k)
              /\ DiskInv' /\ AgreeInv(p)' /\ AloneInv(p)'
  <2>1. DiskInv /\ AgreeInv(p)
    BY <1>12 DEF ModeInv
  <2>2. build = "probing" => d \in mdisk.regions \cup mdisk.logs
    BY <1>1, <1>3, <1>4, <2>1 DEF AgreeInv, Mode!Enabled, Mode!dsm, WithLogs, d
  <2>3. build = "probing" => \A k \in Lists : WithLogs(k)' <=> WithLogs(k)
    BY <1>6, <2>2 DEF WithLogs
  <2>4. DiskInv'
    BY <1>1, <1>6, <2>1, <2>3 DEF DiskInv
  <2>5. AgreeInv(p)'
    BY <1>1, <1>6, <1>7, <2>1, <2>3 DEF AgreeInv, Decided, HasList, Mode!dsm
  <2>6. ASSUME NEW q \in Proc \ {p} PROVE (Undisturbed(p, q))'
    <3>1. Mode!Enabled(q)' <=> Mode!Enabled(q)
      BY <1>1 DEF Mode!Enabled, Mode!dsm
    <3> QED BY <1>1, <1>5, <1>11, <3>1 DEF Undisturbed
  <2>7. AloneInv(p)'
    <3>1. alone'[p] = Dir(Mode!List(p)')
      BY <1>5, <1>7, <1>11
    <3>2. Mode!Enabled(p)'
      BY <1>1, <1>11
    <3> QED BY <2>6, <3>1, <3>2 DEF AloneInv
  <2> QED BY <2>3, <2>4, <2>5, <2>7
<1>13. ASSUME Mode!Ordinary, NEW q \in Proc \ {p}, mpc[q] = "alone"
       PROVE  (Undisturbed(q, p))'
  <2>1. Undisturbed(q, p)
    BY <1>13 DEF ModeInv, AloneInv
  <2>2. /\ (Mode!Enabled(q)' <=> Mode!Enabled(q)) /\ (Mode!Enabled(p)' <=> Mode!Enabled(p))
        /\ Mode!List(q)' = Mode!List(q)
    BY <1>1 DEF Mode!Enabled, Mode!dsm, Mode!List
  <2> QED BY <1>1, <2>1, <2>2 DEF Undisturbed
<1>14. \A q \in Proc \ {p} :
           /\ mpc'[q] = mpc[q] /\ job'[q] = job[q] /\ eTransaction'[q] = eTransaction[q]
           /\ at'[q] = at[q] /\ envs'[q] = envs[q] /\ opened'[q] = opened[q]
           /\ alone'[q] = alone[q]
  BY <1>1, <1>2 DEF Mode!TypeOK
<1> QED
  BY <1>1, <1>6, <1>8, <1>9, <1>10, <1>12, <1>13, <1>14, OfOneProcess

\* A list that is to be verified is open nowhere: who has it is in the same
\* mode, and has locked it.
LEMMA LockKeeps ==
    ASSUME ModeInv, NEW p \in Proc, Mode!LockFile(p)
    PROVE  ModeInv'
<1> DEFINE l == Mode!List(p)
<1>1. /\ mpc[p] = "dispatch" /\ mpc' = [mpc EXCEPT ![p] = "alone"]
      /\ ~Mode!Enabled(p) /\ job[p].command \in Mode!FileCommands
      /\ \A q \in Proc \ {p} : alone[q] # l /\ opened[q][l] # "disabled"
      /\ alone' = [alone EXCEPT ![p] = l]
      /\ UNCHANGED <<use, build, mdisk, job, eTransaction, at, retry, envs, opened>>
  BY DEF Mode!LockFile, Mode!Go
<1>2. Mode!TypeOK /\ JobInv(p) /\ OpenInv(p)
  BY DEF ModeInv
<1>3. job[p] \in use.jobs /\ at[p] \in DOMAIN job[p].lists /\ Decided(p)
  BY <1>1, <1>2 DEF JobInv
<1>4. l \in Lists /\ HasList(p, l)
  BY <1>2, <1>3, ListsOfJob
<1>5. l = Mode!List(p)
  OBVIOUS
<1> HIDE DEF l
<1>6. mpc'[p] = "alone" /\ alone'[p] = l
  BY <1>1, <1>2 DEF Mode!TypeOK
<1>7. Mode!TypeOK'
  <2>1. DOMAIN alone' = Proc
    BY <1>1, <1>2 DEF Mode!TypeOK
  <2>2. mpc' \in [Proc -> {"off", "list", "init", "running", "command", "dispatch", "alone"}]
    BY <1>1, <1>2 DEF Mode!TypeOK
  <2> QED BY <1>1, <1>2, <2>1, <2>2 DEF Mode!TypeOK
<1>8. JobInv(p)' /\ OpenInv(p)'
  BY <1>1, <1>2, <1>3, <1>6 DEF JobInv, OpenInv, Decided
<1>9. ASSUME Unforced PROVE HomeInv(p)'
  <2>1. HomeInv(p)
    BY <1>9 DEF ModeInv
  <2> QED BY <1>1, <1>6, <2>1 DEF HomeInv, Mode!Enabled, Mode!dsm
<1>10. (Mode!Enabled(p)' <=> Mode!Enabled(p)) /\ Mode!List(p)' = Mode!List(p)
  BY <1>1 DEF Mode!Enabled, Mode!dsm, Mode!List
<1>11. \A k \in Lists : WithLogs(k)' <=> WithLogs(k)
  BY <1>1 DEF WithLogs
<1>12. ASSUME Mode!Ordinary PROVE DiskInv' /\ AgreeInv(p)' /\ AloneInv(p)'
  <2>1. DiskInv /\ AgreeInv(p)
    BY <1>12 DEF ModeInv
  <2>2. DiskInv'
    BY <1>1, <1>11, <2>1 DEF DiskInv
  <2>3. AgreeInv(p)'
    BY <1>1, <1>6, <1>11, <2>1 DEF AgreeInv, Decided, HasList, Mode!dsm
  <2>4. ASSUME NEW q \in Proc \ {p} PROVE opened[q][l] = "no"
    <3>1. mdisk.made[l] \in {"absent", Mode!dsm(p)} /\ Mode!dsm(p) \in Mode!Modes
      BY <1>1, <1>3, <1>4, <1>12, ModeOfList
    <3>2. Mode!dsm(p) = "disabled"
      BY <1>1, <3>1 DEF Mode!Enabled, Mode!Modes
    <3>3. JobInv(q) /\ OpenInv(q) /\ AgreeInv(q)
      BY <1>12 DEF ModeInv
    <3>4. CASE mpc[q] = "off"
      BY <1>4, <3>3, <3>4 DEF OpenInv, Mode!NotOpen
    <3>5. CASE mpc[q] # "off" /\ opened[q][l] # "no"
      <4>1. opened[q][l] = mdisk.made[l] /\ opened[q][l] = Mode!dsm(q) /\ Decided(q)
        BY <1>4, <3>3, <3>5 DEF AgreeInv, OpenInv, JobInv
      <4>2. Mode!dsm(q) \in Mode!Modes
        BY <1>2, <4>1 DEF Mode!dsm, Mode!TypeOK, Mode!Modes, Decided
      <4>3. opened[q][l] = "disabled"
        BY <3>1, <3>2, <4>1, <4>2 DEF Mode!Modes
      <4> QED BY <1>1, <4>3
    <3> QED BY <3>4, <3>5
  <2>5. ASSUME NEW q \in Proc \ {p} PROVE (Undisturbed(p, q))'
    BY <1>1, <1>5, <1>10, <2>4 DEF Undisturbed
  <2>6. AloneInv(p)'
    <3>1. alone'[p] = Mode!List(p)' /\ ~Mode!Enabled(p)'
      BY <1>1, <1>5, <1>6, <1>10
    <3> QED BY <2>5, <3>1 DEF AloneInv
  <2> QED BY <2>2, <2>3, <2>6
<1>13. ASSUME Mode!Ordinary, NEW q \in Proc \ {p}, mpc[q] = "alone"
       PROVE  (Undisturbed(q, p))'
  <2>1. Undisturbed(q, p)
    BY <1>13 DEF ModeInv, AloneInv
  <2>2. /\ (Mode!Enabled(q)' <=> Mode!Enabled(q)) /\ (Mode!Enabled(p)' <=> Mode!Enabled(p))
        /\ Mode!List(q)' = Mode!List(q)
    BY <1>1 DEF Mode!Enabled, Mode!dsm, Mode!List
  <2> QED BY <1>1, <2>1, <2>2 DEF Undisturbed
<1>14. \A q \in Proc \ {p} :
           /\ mpc'[q] = mpc[q] /\ job'[q] = job[q] /\ eTransaction'[q] = eTransaction[q]
           /\ at'[q] = at[q] /\ envs'[q] = envs[q] /\ opened'[q] = opened[q]
           /\ alone'[q] = alone[q]
  BY <1>1, <1>2 DEF Mode!TypeOK
<1> QED
  BY <1>1, <1>7, <1>8, <1>9, <1>11, <1>12, <1>13, <1>14, OfOneProcess

\* The processes, step by step.
LEMMA ModeStep == ModeInv /\ [Mode!Next]_modeVars => ModeInv'
<1> SUFFICES ASSUME ModeInv, [Mode!Next]_modeVars PROVE ModeInv'
  OBVIOUS
<1>1. CASE UNCHANGED modeVars
  <2>1. Mode!TypeOK'
    BY <1>1 DEF modeVars, ModeInv, Mode!TypeOK
  <2>2. \A p \in Proc : JobInv(p)' /\ OpenInv(p)'
    BY <1>1 DEF modeVars, ModeInv, JobInv, OpenInv, Decided
  <2>3. (Unforced => \A p \in Proc : HomeInv(p))'
    BY <1>1 DEF modeVars, ModeInv, Unforced, HomeInv, Mode!Enabled, Mode!dsm, Mode!List
  <2>4. (Mode!Ordinary => DiskInv /\ \A p \in Proc : AgreeInv(p) /\ AloneInv(p))'
    BY <1>1 DEF modeVars, ModeInv, Mode!Ordinary, DiskInv, AgreeInv, AloneInv, Undisturbed,
                WithLogs, HasList, Decided, Mode!Enabled, Mode!dsm, Mode!List
  <2> QED BY <2>1, <2>2, <2>3, <2>4 DEF ModeInv
<1>2. ASSUME NEW p \in Proc,
             \/ Mode!Refused(p) \/ Mode!CannotOpen(p) \/ Mode!Asserts(p)
             \/ Mode!NoFunction(p) \/ Mode!Done(p) \/ Mode!Quits(p)
      PROVE  ModeInv'
  <2>1. PICK how : Mode!Ends(p, how)
    BY <1>2 DEF Mode!Refused, Mode!CannotOpen, Mode!Asserts, Mode!NoFunction, Mode!Done,
                Mode!Quits
  <2> QED BY <2>1, EndKeeps
<1> QED
  BY <1>1, <1>2, JobStarts, ProbeKeeps, InitKeeps, OpenKeeps, BusyKeeps, RecoverKeeps, LockKeeps
  DEF Mode!Next

\* What ModesSound says of the processes follows.
LEMMA ModeFollows == ModeInv => Mode!OneMode /\ Mode!VerifiedAlone /\ Mode!OneEnvironment
<1> SUFFICES ASSUME ModeInv
             PROVE  Mode!OneMode /\ Mode!VerifiedAlone /\ Mode!OneEnvironment
  OBVIOUS
<1>1. \A p \in Proc : JobInv(p) /\ OpenInv(p)
  BY DEF ModeInv
<1>2. Mode!OneMode
  <2> SUFFICES ASSUME Mode!Ordinary, NEW p \in Proc, NEW l \in Lists, opened[p][l] # "no"
               PROVE  opened[p][l] = mdisk.made[l]
    BY DEF Mode!OneMode
  <2>1. mpc[p] # "off"
    BY <1>1 DEF OpenInv, Mode!NotOpen
  <2>2. AgreeInv(p)
    BY DEF ModeInv
  <2> QED BY <2>1, <2>2 DEF AgreeInv
<1>3. Mode!VerifiedAlone
  <2> SUFFICES ASSUME Mode!Ordinary, NEW p \in Proc, NEW q \in Proc, mpc[p] = "alone",
                      job[p].command \in Mode!FileCommands, p # q
               PROVE  opened[q][Mode!List(p)] = "no"
    BY DEF Mode!VerifiedAlone
  <2>1. AloneInv(p)
    BY DEF ModeInv
  <2>2. Undisturbed(p, q)
    BY <2>1 DEF AloneInv
  <2>3. CASE ~Mode!Enabled(p)
    BY <2>2, <2>3 DEF Undisturbed
  <2>4. CASE Mode!Enabled(p) /\ opened[q][Mode!List(p)] # "no"
    <3> DEFINE l == Mode!List(p)
    <3>1. Mode!TypeOK
      BY DEF ModeInv
    <3>2. job[p] \in use.jobs /\ at[p] \in DOMAIN job[p].lists /\ Decided(p)
      BY <1>1 DEF JobInv
    <3>3. l \in Lists /\ HasList(p, l)
      BY <3>1, <3>2, ListsOfJob
    <3>4. Dir(l) \in envs[q] /\ mpc[q] # "off"
      BY <1>1, <2>4, <3>3 DEF OpenInv, Mode!NotOpen
    <3>5. ~Mode!Enabled(q)
      BY <2>2, <2>4, <3>4 DEF Undisturbed
    <3>6. AgreeInv(q)
      BY DEF ModeInv
    <3>7. opened[q][l] = mdisk.made[l] /\ opened[q][l] = Mode!dsm(q)
      BY <2>4, <3>3, <3>4, <3>6 DEF AgreeInv
    <3> HIDE DEF l
    <3>8. mdisk.made[l] \in {"absent", Mode!dsm(p)}
      BY <3>2, <3>3, ModeOfList
    <3>9. Mode!dsm(q) \in Mode!Modes
      BY <1>1, <3>1, <3>4 DEF JobInv, Mode!dsm, Mode!TypeOK, Mode!Modes, Decided
    <3> QED BY <2>4, <3>5, <3>7, <3>8, <3>9 DEF Mode!Enabled, Mode!Modes
  <2> QED BY <2>3, <2>4
<1>4. Mode!OneEnvironment
  BY DEF ModeInv, HomeInv, Unforced, Mode!OneEnvironment
<1> QED BY <1>2, <1>3, <1>4

-----------------------------------------------------------------------------
(* Datastore *)

Contents == [Layer!Keys -> Layer!Cells \cup {Absent}]

\* The cells of v mean what was asked for, and their numbers are in the order
\* of the file if the backend knows it or it is that of this machine.
Told(v, m) ==
    /\ v \in Contents
    /\ m = [k \in Layer!Keys |-> Layer!Meaning(v[k])]
    /\ Layer!Portable => Layer!InOneOrder(v, dfile.order)

\* A walk has a result of its own.
WalkInv ==
    danswer.op = "walk" => /\ {"op", "ret"} \subseteq DOMAIN danswer
                           /\ danswer.ret \in {"ok", "error", "exit"}

\* It is so in the transaction and in the file, and the answers are sound.
LayerInv ==
    /\ Layer!TypeOK
    /\ Told(dview, dasked) /\ Told(ddisk, dmeant)
    /\ WalkInv /\ Layer!ReadsMeant /\ Layer!WalkWhole /\ Layer!RetryRestores

\* The cells of a value are a sequence of one to three numbers.
LEMMA CellsAre ==
    ASSUME NEW c \in Layer!Cells
    PROVE  /\ c \in Seq(Layer!Cell) /\ Len(c) \in 1 .. 3 /\ DOMAIN c = 1 .. Len(c)
           /\ \A i \in 1 .. Len(c) : c[i] \in Layer!Cell
           /\ c # Absent
<1>1. PICK n \in 1 .. 3 : c \in [1 .. n -> Layer!Cell]
  BY DEF Layer!Cells
<1>2. c \in Seq(Layer!Cell)
  BY <1>1, SeqDef
<1>3. DOMAIN c = 1 .. n /\ DOMAIN c = 1 .. Len(c) /\ Len(c) \in Nat
  BY <1>1, <1>2, LenProperties
<1>4. Len(c) = n
  BY <1>3
<1>5. c # Absent
  BY LayerAssumption DEF Layer!DatastoreAssumption
<1> QED BY <1>1, <1>2, <1>3, <1>4, <1>5

LEMMA CellsMean ==
    ASSUME NEW c \in Layer!Cells
    PROVE  Layer!Meaning(c) \in Layer!Numbers /\ Layer!Meaning(c) # Absent
<1>1. Layer!Meaning(c) \in Layer!Numbers
  BY CellsAre DEF Layer!Meaning, Layer!Numbers, Layer!Cell
<1> QED BY <1>1, LayerAssumption DEF Layer!DatastoreAssumption

\* The numbers are converted from the order of the file.
LEMMA InternalSays ==
    ASSUME NEW c \in Layer!Cells, Layer!Portable, dfile.order \in Layer!Orders,
           \A i \in DOMAIN c : c[i].order = dfile.order
    PROVE  Layer!Says(Layer!Internal(c), Layer!Meaning(c))
<1>1. ASSUME NEW i \in 1 .. Len(c) PROVE Layer!swap(c[i]) = Layer!Number(c[i].n)
  <2>1. c[i] \in Layer!Cell /\ c[i].order = dfile.order
    BY CellsAre
  <2>2. CASE Layer!is_swapped
    <3>1. dfile.order = "other"
      BY <2>2 DEF Layer!is_swapped, Layer!Orders
    <3>2. Layer!Flip("other") = "host"
      BY DEF Layer!Flip, Layer!Orders
    <3> QED BY <2>1, <2>2, <3>1, <3>2 DEF Layer!swap, Layer!Number, Layer!Cell
  <2>3. CASE ~Layer!is_swapped
    <3>1. dfile.order = "host"
      BY <2>3 DEF Layer!is_swapped, Layer!Portable
    <3> QED BY <2>1, <2>3, <3>1 DEF Layer!swap, Layer!Number, Layer!Cell
  <2> QED BY <2>2, <2>3
<1>2. Len(c) \in 1 .. 3 /\ c # Absent
  BY CellsAre
<1> DEFINE m == Layer!Meaning(c)
           v == Layer!Internal(c)
<1>3. v.spam = Layer!Number(m.spam) /\ v.good = Layer!Number(m.good) /\ v.date = Layer!Number(m.date)
  BY <1>1, <1>2 DEF Layer!Meaning, Layer!Internal
<1>4. DOMAIN v = {"spam", "good", "date"}
  BY DEF Layer!Internal
<1>5. v = [f \in {"spam", "good", "date"} |-> v[f]]
  BY <1>4 DEF Layer!Internal
<1> HIDE DEF m, v
<1>6. v = [f \in {"spam", "good", "date"} |-> Layer!Number(m[f])]
  BY <1>3, <1>5
<1> QED BY <1>6 DEF Layer!Says, m, v

\* And to it, without the date unless there is one to be kept.
Kept(val) == IF dconf.timestamp_tokens THEN val ELSE [val EXCEPT !.date = 0]

LEMMA ExternalMeans ==
    ASSUME NEW val \in Layer!Numbers, dfile.order \in Layer!Orders
    PROVE  /\ Layer!External(val) \in Layer!Cells
           /\ Layer!Portable =>
                 \A i \in DOMAIN Layer!External(val) :
                    Layer!External(val)[i].order = dfile.order
           /\ Layer!Meaning(Layer!External(val)) = Kept(val)
<1> DEFINE n == IF dconf.timestamp_tokens /\ val.date # 0 THEN 3 ELSE 2
           cells == <<val.spam, val.good>>
                    \o (IF dconf.timestamp_tokens /\ val.date # 0 THEN <<val.date>> ELSE <<>>)
           c == Layer!External(val)
<1>1. val.spam \in Nat /\ val.good \in Nat /\ val.date \in Nat
  BY DEF Layer!Numbers
<1>2. /\ DOMAIN cells = 1 .. n /\ cells[1] = val.spam /\ cells[2] = val.good
      /\ n = 3 => cells[3] = val.date
  BY <1>1
<1>3. c = [i \in 1 .. n |-> Layer!swap(Layer!Number(cells[i]))]
  BY <1>2 DEF Layer!External
<1>4. \A i \in 1 .. n : cells[i] \in Nat
  BY <1>1, <1>2
<1> HIDE DEF cells, c
<1>5. ASSUME NEW i \in 1 .. n
      PROVE  /\ c[i] \in Layer!Cell /\ c[i].n = cells[i]
             /\ Layer!Portable => c[i].order = dfile.order
  <2>1. c[i] = Layer!swap(Layer!Number(cells[i]))
    BY <1>3
  <2>2. CASE Layer!is_swapped
    <3>1. dfile.order = "other"
      BY <2>2 DEF Layer!is_swapped, Layer!Orders
    <3>2. Layer!Flip("host") = "other"
      BY DEF Layer!Flip, Layer!Orders
    <3>3. c[i] = [n |-> cells[i], order |-> "other"]
      BY <2>1, <2>2, <3>2 DEF Layer!swap, Layer!Number
    <3> QED BY <1>4, <3>1, <3>3 DEF Layer!Cell, Layer!Orders
  <2>3. CASE ~Layer!is_swapped
    <3>1. c[i] = [n |-> cells[i], order |-> "host"]
      BY <2>1, <2>3 DEF Layer!swap, Layer!Number
    <3>2. Layer!Portable => dfile.order = "host"
      BY <2>3 DEF Layer!is_swapped, Layer!Portable
    <3> QED BY <1>4, <3>1, <3>2 DEF Layer!Cell, Layer!Orders
  <2> QED BY <2>2, <2>3
<1>6. n \in {2, 3} /\ DOMAIN c = 1 .. n
  BY <1>3
<1>7. c \in [1 .. n -> Layer!Cell]
  BY <1>3, <1>5
<1>8. c \in Layer!Cells
  BY <1>6, <1>7 DEF Layer!Cells
<1>9. Len(c) = n
  BY <1>6, <1>8, CellsAre
<1>10. Layer!Meaning(c) = Kept(val)
  <2>1. Layer!Meaning(c) = [spam |-> val.spam, good |-> val.good,
                            date |-> IF n = 3 THEN val.date ELSE 0]
    BY <1>2, <1>5, <1>6, <1>8, <1>9, CellsAre DEF Layer!Meaning
  <2>2. Kept(val) = [spam |-> val.spam, good |-> val.good,
                     date |-> IF n = 3 THEN val.date ELSE 0]
    BY <1>1 DEF Kept, Layer!Numbers
  <2> QED BY <2>1, <2>2
<1> QED BY <1>5, <1>6, <1>8, <1>10 DEF c

\* A value is written: of the keys that the store takes.
LEMMA PutTells ==
    ASSUME NEW v, NEW m, Told(v, m), dfile.order \in Layer!Orders,
           NEW k \in Layer!Keys, NEW val \in Layer!Numbers
    PROVE  Told(Layer!Put(v, k, val),
                IF Layer!Stores(k) THEN [m EXCEPT ![k] = Kept(val)] ELSE m)
<1>1. CASE ~Layer!Stores(k)
  BY <1>1 DEF Layer!Put
<1>2. CASE Layer!Stores(k)
  <2> DEFINE c == Layer!External(val)
             w == [v EXCEPT ![k] = c]
             a == [m EXCEPT ![k] = Kept(val)]
  <2>1. /\ c \in Layer!Cells /\ Layer!Meaning(c) = Kept(val)
        /\ Layer!Portable => \A i \in DOMAIN c : c[i].order = dfile.order
    BY ExternalMeans
  <2> HIDE DEF c
  <2>2. v \in Contents /\ m = [l \in Layer!Keys |-> Layer!Meaning(v[l])]
    BY DEF Told
  <2>3. w \in Contents /\ w[k] = c /\ \A l \in Layer!Keys : l # k => w[l] = v[l]
    BY <2>1, <2>2 DEF Contents
  <2>4. a = [l \in Layer!Keys |-> Layer!Meaning(w[l])]
    BY <2>1, <2>2, <2>3
  <2>5. Layer!Portable => Layer!InOneOrder(w, dfile.order)
    BY <2>1, <2>3 DEF Told, Layer!InOneOrder
  <2>6. Told(w, a)
    BY <2>3, <2>4, <2>5 DEF Told
  <2> QED BY <1>2, <2>6 DEF Layer!Put, c
<1> QED BY <1>1, <1>2

LEMMA NothingTold == Told(Layer!Nothing, Layer!Nothing)
BY DEF Told, Contents, Layer!Nothing, Layer!Meaning, Layer!InOneOrder

\* What is told is a count for every key that is there.
LEMMA ToldOfType ==
    ASSUME NEW v, NEW m, Told(v, m)
    PROVE  /\ v \in [Layer!Keys -> Layer!Cells \cup {Absent}]
           /\ m \in [Layer!Keys -> Layer!Numbers \cup {Absent}]
           /\ \A k \in Layer!Keys : m[k] = Absent <=> v[k] = Absent
<1>1. \A k \in Layer!Keys : v[k] # Absent =>
          Layer!Meaning(v[k]) \in Layer!Numbers /\ Layer!Meaning(v[k]) # Absent
  BY CellsMean DEF Told, Contents
<1>2. \A k \in Layer!Keys : v[k] = Absent => Layer!Meaning(v[k]) = Absent
  BY DEF Layer!Meaning
<1> QED BY <1>1, <1>2 DEF Told, Contents

\* A step after which view and file are told and the answer is sound.
LEMMA LayerTold ==
    ASSUME LayerInv, NEW v, NEW a, NEW d, NEW m, Told(v, a), Told(d, m),
           dview' = v, dasked' = a, ddisk' = d, dmeant' = m,
           UNCHANGED <<backend, dconf>>, dfile'.order = dfile.order,
           dfile' \in [present : BOOLEAN, order : Layer!Orders],
           dpc' \in {"closed", "open", "txn", "exit"},
           dmode' \in {"none", "read", "write", "load"}, dops' \in 0 .. LayerOps,
           WalkInv', Layer!ReadsMeant', Layer!WalkWhole', Layer!RetryRestores'
    PROVE  LayerInv'
<1>1. Layer!Portable' <=> Layer!Portable
  BY DEF Layer!Portable, Layer!Knows
<1>2. Told(dview, dasked)' /\ Told(ddisk, dmeant)'
  BY <1>1 DEF Told
<1>3. /\ {v, d} \subseteq [Layer!Keys -> Layer!Cells \cup {Absent}]
      /\ {a, m} \subseteq [Layer!Keys -> Layer!Numbers \cup {Absent}]
  BY ToldOfType
<1>4. Layer!TypeOK'
  BY <1>3 DEF LayerInv, Layer!TypeOK
<1> QED BY <1>2, <1>4 DEF LayerInv

\* Any answer but these is sound.
LEMMA OtherAnswer ==
    ASSUME \/ danswer' = Layer!NoAnswer
           \/ danswer'.op \notin {"read", "walk"} /\ danswer'.ret # "retry"
    PROVE  WalkInv' /\ Layer!ReadsMeant' /\ Layer!WalkWhole' /\ Layer!RetryRestores'
BY DEF WalkInv, Layer!NoAnswer, Layer!ReadsMeant, Layer!WalkWhole, Layer!RetryRestores

LEMMA LayerStarts == Layer!Init => LayerInv
<1> SUFFICES ASSUME Layer!Init PROVE LayerInv
  OBVIOUS
<1>1. PICK f \in Files \cup {Absent} :
         /\ dfile = [present |-> f # Absent, order |-> IF f = Absent THEN "host" ELSE f.order]
         /\ ddisk = IF f = Absent THEN Layer!Nothing ELSE f.content
  BY DEF Layer!Init
<1>2. /\ backend \in Layer!Backends
      /\ dconf \in [timestamp_tokens : BOOLEAN, today : Dates, encoding : Counts]
      /\ dview = Layer!Nothing /\ dasked = Layer!Nothing
      /\ dmeant = [k \in Layer!Keys |-> Layer!Meaning(ddisk[k])]
      /\ dpc = "closed" /\ dmode = "none" /\ danswer = Layer!NoAnswer /\ dops = 0
  BY DEF Layer!Init
<1>3. f # Absent => /\ f.order \in Layer!Orders /\ f.content \in Contents
                    /\ Layer!InOneOrder(f.content, f.order)
  BY LayerAssumption DEF Layer!DatastoreAssumption, Contents
<1>4. Told(dview, dasked)
  BY <1>2, NothingTold
<1>5. Told(ddisk, dmeant)
  <2>1. CASE f = Absent
    <3>1. ddisk = Layer!Nothing /\ dmeant = Layer!Nothing
      BY <1>1, <1>2, <2>1 DEF Layer!Nothing, Layer!Meaning
    <3> QED BY <3>1, NothingTold
  <2>2. CASE f # Absent
    <3>1. ddisk = f.content /\ dfile.order = f.order
      BY <1>1, <2>2
    <3> QED BY <1>2, <1>3, <2>2, <3>1 DEF Told
  <2> QED BY <2>1, <2>2
<1>6. dfile \in [present : BOOLEAN, order : Layer!Orders]
  BY <1>1, <1>3 DEF Layer!Orders
<1>7. /\ {ddisk, dview} \subseteq [Layer!Keys -> Layer!Cells \cup {Absent}]
      /\ {dasked, dmeant} \subseteq [Layer!Keys -> Layer!Numbers \cup {Absent}]
  BY <1>4, <1>5, ToldOfType
<1>8. 0 \in 0 .. LayerOps
  BY LayerAssumption DEF Layer!DatastoreAssumption
<1>9. Layer!TypeOK
  BY <1>2, <1>6, <1>7, <1>8 DEF Layer!TypeOK
<1>10. WalkInv /\ Layer!ReadsMeant /\ Layer!WalkWhole /\ Layer!RetryRestores
  BY <1>2 DEF WalkInv, Layer!NoAnswer, Layer!ReadsMeant, Layer!WalkWhole, Layer!RetryRestores
<1> QED BY <1>4, <1>5, <1>9, <1>10 DEF LayerInv

\* ds_open: a new list is given its version and its encoding.
LEMMA OpenTells ==
    ASSUME LayerInv, NEW how \in {"read", "write", "load"}, Layer!Open(how)
    PROVE  LayerInv'
<1> DEFINE v == IF ~dfile.present /\ how = "write" THEN Layer!WithVersion(ddisk) ELSE ddisk
           a == [k \in Layer!Keys |-> Layer!Meaning(v[k])]
<1>1. /\ dpc' = "open" /\ dmode' = how /\ danswer' = Layer!NoAnswer
      /\ dfile' = IF how = "read" THEN dfile ELSE [dfile EXCEPT !.present = TRUE]
      /\ dview' = v /\ dasked' = a
      /\ ddisk' = IF Layer!Transactions THEN v ELSE ddisk
      /\ dmeant' = IF Layer!Transactions THEN a ELSE dmeant
      /\ UNCHANGED <<backend, dconf, dops>>
  BY DEF Layer!Open
<1>2. /\ Layer!TypeOK /\ Told(ddisk, dmeant) /\ dfile.order \in Layer!Orders
      /\ dconf.encoding \in Nat /\ dconf.today \in Nat
  BY LayerAssumption DEF LayerInv, Layer!TypeOK, Layer!DatastoreAssumption
<1>3. Told(v, a)
  <2>1. CASE ~dfile.present /\ how = "write"
    <3> DEFINE first == Layer!Stamped(Layer!Val(1, 0, dconf.today))
               second == Layer!Stamped(Layer!Val(dconf.encoding, 0, dconf.today))
               w == Layer!Put(ddisk, Version, first)
    <3>1. first \in Layer!Numbers /\ second \in Layer!Numbers
      BY <1>2 DEF Layer!Stamped, Layer!Val, Layer!Numbers
    <3>2. Version \in Layer!Keys /\ Encoding \in Layer!Keys
      BY LayerAssumption DEF Layer!DatastoreAssumption
    <3>3. v = Layer!Put(w, Encoding, second)
      BY <2>1 DEF Layer!WithVersion
    <3> HIDE DEF first, second, w, v
    <3>4. PICK m : Told(w, m)
      BY <1>2, <3>1, <3>2, PutTells DEF w
    <3>5. PICK n : Told(v, n)
      BY <1>2, <3>1, <3>2, <3>3, <3>4, PutTells
    <3> QED BY <3>5 DEF Told
  <2>2. CASE ~(~dfile.present /\ how = "write")
    BY <1>2, <2>2 DEF Told
  <2> QED BY <2>1, <2>2
<1> HIDE DEF v, a
<1>4. dfile' \in [present : BOOLEAN, order : Layer!Orders] /\ dfile'.order = dfile.order
  BY <1>1, <1>2 DEF Layer!TypeOK
<1>5. Told(ddisk', dmeant')
  BY <1>1, <1>2, <1>3
<1>6. WalkInv' /\ Layer!ReadsMeant' /\ Layer!WalkWhole' /\ Layer!RetryRestores'
  BY <1>1, OtherAnswer
<1>7. dops' \in 0 .. LayerOps
  BY <1>1, <1>2 DEF Layer!TypeOK
<1> QED BY <1>1, <1>3, <1>4, <1>5, <1>6, <1>7, LayerTold

\* The transactions and the end of the list.
LEMMA TransactionTells ==
    ASSUME LayerInv,
           Layer!Close \/ Layer!Begin \/ Layer!Commit \/ Layer!Abort \/ Layer!OperEnds
    PROVE  LayerInv'
<1>1. /\ Layer!TypeOK /\ Told(dview, dasked) /\ Told(ddisk, dmeant)
      /\ Told(Layer!Nothing, Layer!Nothing)
  BY NothingTold DEF LayerInv
<1>2. /\ dpc' \in {"closed", "open", "txn"} /\ dmode' \in {dmode, "none"}
      /\ UNCHANGED <<backend, dconf, dfile, dops>>
      /\ (ddisk' = ddisk /\ dmeant' = dmeant) \/ (ddisk' = dview /\ dmeant' = dasked)
      /\ \/ dview' = dview /\ dasked' = dasked
         \/ dview' = ddisk /\ dasked' = dmeant
         \/ dview' = Layer!Nothing /\ dasked' = Layer!Nothing
  BY DEF Layer!Close, Layer!Begin, Layer!Commit, Layer!Abort, Layer!OperEnds, Layer!Undone
<1>3. WalkInv' /\ Layer!ReadsMeant' /\ Layer!WalkWhole' /\ Layer!RetryRestores'
  <2>1. CASE Layer!OperEnds
    <3>1. danswer.op = "walk" /\ \E ret \in {danswer.ret, "error"} :
             danswer' = [danswer EXCEPT !.op = "oper", !.ret = ret]
      BY <2>1 DEF Layer!OperEnds
    <3>2. PICK ret \in {danswer.ret, "error"} :
             danswer' = [danswer EXCEPT !.op = "oper", !.ret = ret]
      BY <3>1
    <3>3. {"op", "ret"} \subseteq DOMAIN danswer /\ ret # "retry"
      BY <3>1 DEF LayerInv, WalkInv
    <3>4. danswer'.op = "oper" /\ danswer'.ret # "retry"
      BY <3>2, <3>3
    <3> QED BY <3>4, OtherAnswer
  <2>2. CASE ~Layer!OperEnds
    <3>1. danswer' = Layer!NoAnswer
      BY <2>2 DEF Layer!Close, Layer!Begin, Layer!Commit, Layer!Abort
    <3> QED BY <3>1, OtherAnswer
  <2> QED BY <2>1, <2>2
<1>4. Told(dview', dasked') /\ Told(ddisk', dmeant')
  BY <1>1, <1>2
<1>5. /\ dfile' \in [present : BOOLEAN, order : Layer!Orders] /\ dfile'.order = dfile.order
      /\ dmode' \in {"none", "read", "write", "load"} /\ dops' \in 0 .. LayerOps
  BY <1>1, <1>2 DEF Layer!TypeOK
<1> QED BY <1>2, <1>3, <1>4, <1>5, LayerTold

\* An operation that is refused for a deadlock, or ends the program: what it
\* has undone is what was committed.
LEMMA RefusedTells ==
    ASSUME LayerInv, NEW what \in {"read", "write", "delete"}, NEW k,
           Layer!Operates, Layer!Deadlocked(what, k) \/ Layer!Exits(what, k)
    PROVE  LayerInv'
<1>1. /\ Layer!TypeOK /\ Told(dview, dasked) /\ Told(ddisk, dmeant)
  BY DEF LayerInv
<1>2. /\ dpc' \in {"open", "exit"} /\ dops < LayerOps /\ dops' = dops + 1
      /\ UNCHANGED <<backend, dconf, dfile, ddisk, dmeant, dmode>>
      /\ (dview' = dview /\ dasked' = dasked) \/ (dview' = ddisk /\ dasked' = dmeant)
  <2>1. /\ dops < LayerOps /\ dops' = dops + 1
        /\ UNCHANGED <<backend, dconf, dfile, ddisk, dmeant, dmode>>
    BY DEF Layer!Operates
  <2>2. (dview' = dview /\ dasked' = dasked) \/ (dview' = ddisk /\ dasked' = dmeant)
    BY DEF Layer!Deadlocked, Layer!Exits, Layer!Undone
  <2>3. dpc' = "open" \/ dpc' = "exit"
    BY DEF Layer!Deadlocked, Layer!Exits
  <2> QED BY <2>1, <2>2, <2>3
<1>3. WalkInv' /\ Layer!ReadsMeant' /\ Layer!WalkWhole' /\ Layer!RetryRestores'
  <2>1. CASE Layer!Deadlocked(what, k)
    <3>1. danswer' = [op |-> what, key |-> k, ret |-> "retry"]
      BY <2>1 DEF Layer!Deadlocked
    <3>2. dview' = ddisk /\ dasked' = dmeant
      BY <2>1 DEF Layer!Deadlocked, Layer!Undone, Layer!Transactions
    <3>3. \A l \in Layer!Keys : dasked'[l] = Layer!Meaning(ddisk'[l])
      BY <1>1, <1>2, <3>2 DEF Told
    <3>4. danswer'.op \in {"read", "write", "delete"} /\ danswer'.ret = "retry"
      BY <3>1
    <3>5. Layer!RetryRestores'
      BY <1>2, <3>2, <3>3 DEF Layer!RetryRestores
    <3> QED BY <3>4, <3>5 DEF WalkInv, Layer!ReadsMeant, Layer!WalkWhole
  <2>2. CASE Layer!Exits(what, k)
    <3>1. danswer'.op \in {"read", "write", "delete"} /\ danswer'.ret = "exit"
      BY <2>2 DEF Layer!Exits
    <3> QED BY <3>1 DEF WalkInv, Layer!ReadsMeant, Layer!WalkWhole, Layer!RetryRestores
  <2> QED BY <2>1, <2>2
<1>4. Told(dview', dasked') /\ Told(ddisk', dmeant')
  BY <1>1, <1>2
<1>5. /\ dfile' \in [present : BOOLEAN, order : Layer!Orders] /\ dfile'.order = dfile.order
      /\ dmode' \in {"none", "read", "write", "load"} /\ dops' \in 0 .. LayerOps
  BY <1>1, <1>2, LayerAssumption DEF Layer!TypeOK, Layer!DatastoreAssumption
<1> QED BY <1>2, <1>3, <1>4, <1>5, LayerTold

\* An operation that is answered.
LEMMA AnswerTells ==
    ASSUME LayerInv, Layer!Operates, Told(dview', dasked'), dpc' \in {"txn", "exit"},
           WalkInv', Layer!ReadsMeant', Layer!WalkWhole', Layer!RetryRestores'
    PROVE  LayerInv'
<1>1. Layer!TypeOK /\ Told(ddisk, dmeant)
  BY DEF LayerInv
<1>2. /\ dops < LayerOps /\ dops' = dops + 1
      /\ UNCHANGED <<backend, dconf, dfile, ddisk, dmeant, dmode>>
  BY DEF Layer!Operates
<1>3. Told(ddisk', dmeant')
  BY <1>1, <1>2
<1>4. /\ dfile' \in [present : BOOLEAN, order : Layer!Orders] /\ dfile'.order = dfile.order
      /\ dmode' \in {"none", "read", "write", "load"} /\ dops' \in 0 .. LayerOps
  BY <1>1, <1>2, LayerAssumption DEF Layer!TypeOK, Layer!DatastoreAssumption
<1> QED BY <1>2, <1>3, <1>4, LayerTold

\* ds_read, ds_write and ds_delete.
LEMMA ReadTells ==
    ASSUME LayerInv, NEW k \in Layer!Keys, Layer!Read(k)
    PROVE  LayerInv'
<1>1. Layer!TypeOK /\ Told(dview, dasked)
  BY DEF LayerInv
<1>2. Layer!Operates
  BY DEF Layer!Read
<1>3. CASE Layer!Deadlocked("read", k) \/ Layer!Exits("read", k)
  BY <1>2, <1>3, RefusedTells
<1>4. CASE UNCHANGED <<dview, dasked>> /\ dview[k] = Absent /\ Layer!Answers("read", k, "notfound")
  <2>1. danswer'.op = "read" /\ danswer'.ret = "notfound" /\ danswer'.key = k /\ dpc' = "txn"
    BY <1>4 DEF Layer!Answers
  <2>2. dasked'[k] = Absent
    BY <1>1, <1>4, ToldOfType
  <2>3. WalkInv' /\ Layer!ReadsMeant' /\ Layer!WalkWhole' /\ Layer!RetryRestores'
    BY <2>1, <2>2 DEF WalkInv, Layer!ReadsMeant, Layer!WalkWhole, Layer!RetryRestores
  <2>4. Told(dview', dasked')
    BY <1>1, <1>4
  <2> QED BY <1>2, <2>1, <2>3, <2>4, AnswerTells
<1>5. CASE /\ UNCHANGED <<dview, dasked>> /\ dview[k] # Absent /\ dpc' = "txn"
           /\ danswer' = [op |-> "read", key |-> k, ret |-> "ok",
                           val |-> Layer!Internal(dview[k])]
  <2>1. /\ danswer'.op = "read" /\ danswer'.ret = "ok" /\ danswer'.key = k
        /\ danswer'.val = Layer!Internal(dview[k])
    BY <1>5
  <2>2. Layer!Portable => Layer!Says(Layer!Internal(dview[k]), dasked[k])
    <3> SUFFICES ASSUME Layer!Portable PROVE Layer!Says(Layer!Internal(dview[k]), dasked[k])
      OBVIOUS
    <3>1. dview[k] \in Layer!Cells /\ dasked[k] = Layer!Meaning(dview[k])
      BY <1>1, <1>5 DEF Told, Contents
    <3>2. dfile.order \in Layer!Orders /\ \A i \in DOMAIN dview[k] : dview[k][i].order = dfile.order
      BY <1>1, <1>5 DEF Told, Layer!InOneOrder, Layer!TypeOK
    <3> QED BY <3>1, <3>2, InternalSays
  <2>3. /\ Layer!Portable' <=> Layer!Portable
        /\ Layer!Says(danswer'.val, dasked'[k]) <=> Layer!Says(danswer'.val, dasked[k])
    BY <1>2, <1>5 DEF Layer!Operates, Layer!Portable, Layer!Knows
  <2>4. Layer!Says(danswer.val, dasked[danswer.key])' <=> Layer!Says(danswer'.val, dasked'[k])
    BY <2>1 DEF Layer!Says, Layer!Number
  <2>5. WalkInv' /\ Layer!ReadsMeant' /\ Layer!WalkWhole' /\ Layer!RetryRestores'
    BY <2>1, <2>2, <2>3, <2>4
       DEF WalkInv, Layer!ReadsMeant, Layer!WalkWhole, Layer!RetryRestores
  <2>6. Told(dview', dasked')
    BY <1>1, <1>5
  <2> QED BY <1>2, <1>5, <2>5, <2>6, AnswerTells
<1> QED BY <1>3, <1>4, <1>5 DEF Layer!Read

LEMMA WriteTells ==
    ASSUME LayerInv, NEW k \in Layer!Keys, NEW given \in Layer!Numbers, Layer!Write(k, given)
    PROVE  LayerInv'
<1> DEFINE val == Layer!Stamped(IF k = MsgCount THEN [given EXCEPT !.date = dconf.today] ELSE given)
<1>1. /\ Layer!TypeOK /\ Told(dview, dasked) /\ dfile.order \in Layer!Orders
      /\ dconf.today \in Nat
  BY LayerAssumption DEF LayerInv, Layer!TypeOK, Layer!DatastoreAssumption
<1>2. Layer!Operates
  BY DEF Layer!Write
<1>3. CASE Layer!Deadlocked("write", k) \/ Layer!Exits("write", k)
  BY <1>2, <1>3, RefusedTells
<1>4. CASE /\ dview' = Layer!Put(dview, k, val)
           /\ dasked' = IF ~Layer!Stores(k) THEN dasked
                        ELSE [dasked EXCEPT ![k] = IF dconf.timestamp_tokens THEN val
                                                   ELSE [val EXCEPT !.date = 0]]
           /\ Layer!Answers("write", k, "ok")
  <2>1. val \in Layer!Numbers
    <3> DEFINE dated == IF k = MsgCount THEN [given EXCEPT !.date = dconf.today] ELSE given
    <3>1. dated \in Layer!Numbers
      BY <1>1 DEF Layer!Numbers
    <3>2. [dated EXCEPT !.date = dconf.today] \in Layer!Numbers
      BY <1>1, <3>1 DEF Layer!Numbers
    <3>3. Layer!Stamped(dated) \in {dated, [dated EXCEPT !.date = dconf.today]}
      BY DEF Layer!Stamped
    <3> HIDE DEF dated
    <3>4. Layer!Stamped(dated) \in Layer!Numbers
      BY <3>1, <3>2, <3>3
    <3> QED BY <3>4 DEF dated
  <2> HIDE DEF val
  <2>2. dasked' = IF Layer!Stores(k) THEN [dasked EXCEPT ![k] = Kept(val)] ELSE dasked
    BY <1>4 DEF Kept
  <2>3. Told(dview', dasked')
    <3>1. Told(Layer!Put(dview, k, val),
               IF Layer!Stores(k) THEN [dasked EXCEPT ![k] = Kept(val)] ELSE dasked)
      BY <1>1, <2>1, PutTells
    <3> QED BY <1>4, <2>2, <3>1
  <2>4. danswer'.op = "write" /\ danswer'.ret = "ok" /\ dpc' = "txn"
    BY <1>4 DEF Layer!Answers
  <2>5. WalkInv' /\ Layer!ReadsMeant' /\ Layer!WalkWhole' /\ Layer!RetryRestores'
    BY <2>4, OtherAnswer
  <2> QED BY <1>2, <2>3, <2>4, <2>5, AnswerTells
<1> QED BY <1>3, <1>4 DEF Layer!Write

LEMMA DeleteTells ==
    ASSUME LayerInv, NEW k \in Layer!Keys, Layer!Delete(k)
    PROVE  LayerInv'
<1>1. Layer!TypeOK /\ Told(dview, dasked)
  BY DEF LayerInv
<1>2. Layer!Operates
  BY DEF Layer!Delete
<1>3. CASE Layer!Deadlocked("delete", k) \/ Layer!Exits("delete", k)
  BY <1>2, <1>3, RefusedTells
<1>4. ASSUME NEW ret \in {"ok", "notfound"}, Layer!Answers("delete", k, ret),
             \/ UNCHANGED <<dview, dasked>>
             \/ /\ dview' = [dview EXCEPT ![k] = Absent]
                /\ dasked' = [dasked EXCEPT ![k] = Absent]
      PROVE  LayerInv'
  <2>1. Told(dview', dasked')
    <3>1. CASE UNCHANGED <<dview, dasked>>
      BY <1>1, <3>1
    <3>2. CASE /\ dview' = [dview EXCEPT ![k] = Absent]
               /\ dasked' = [dasked EXCEPT ![k] = Absent]
      <4> DEFINE v == [dview EXCEPT ![k] = Absent]
      <4>1. v \in Contents /\ v[k] = Absent /\ \A l \in Layer!Keys : l # k => v[l] = dview[l]
        BY <1>1 DEF Told, Contents
      <4>2. [dasked EXCEPT ![k] = Absent] = [l \in Layer!Keys |-> Layer!Meaning(v[l])]
        BY <1>1, <4>1 DEF Told, Layer!Meaning
      <4>3. Layer!Portable => Layer!InOneOrder(v, dfile.order)
        BY <1>1, <4>1 DEF Told, Layer!InOneOrder
      <4> QED BY <3>2, <4>1, <4>2, <4>3 DEF Told
    <3> QED BY <1>4, <3>1, <3>2
  <2>2. danswer'.op = "delete" /\ danswer'.ret = ret /\ dpc' = "txn"
    BY <1>4 DEF Layer!Answers
  <2>3. WalkInv' /\ Layer!ReadsMeant' /\ Layer!WalkWhole' /\ Layer!RetryRestores'
    BY <2>2, OtherAnswer
  <2> QED BY <1>2, <2>1, <2>2, <2>3, AnswerTells
<1> QED BY <1>3, <1>4 DEF Layer!Delete

\* A walk that is whole comes to every key that is there, once.
LEMMA WalksAll ==
    ASSUME Layer!TypeOK, NEW walked \in Layer!Walks
    PROVE  LET here == {k \in Layer!Keys : dview[k] # Absent}
           IN  /\ Len(walked) \in Nat /\ DOMAIN walked = 1 .. Len(walked)
               /\ {walked[i] : i \in 1 .. Len(walked)} = here
               /\ \A i \in 1 .. Len(walked) : walked[i] \in here
               /\ \A i, j \in 1 .. Len(walked) : i # j => walked[i] # walked[j]
<1> DEFINE here == {k \in Layer!Keys : dview[k] # Absent}
           n == Cardinality(here)
<1>1. IsFiniteSet(here)
  <2>1. Order \in Seq(Layer!Keys)
    BY LayerAssumption DEF Layer!DatastoreAssumption
  <2>2. Order \in [1 .. Len(Order) -> Layer!Keys] /\ Len(Order) \in Nat
    BY <2>1, LenProperties
  <2>3. Order \in Surjection(1 .. Len(Order), Layer!Keys)
    BY <2>2 DEF Surjection, Layer!Keys, Layer!ToSet
  <2>4. IsFiniteSet(1 .. Len(Order))
    BY <2>2, FS_Interval
  <2>5. IsFiniteSet(Layer!Keys)
    BY <2>3, <2>4, FS_Surjection
  <2> QED BY <2>5, FS_Subset
<1>2. n \in Nat
  BY <1>1, FS_CardinalityType
<1>3. Layer!Cardinality(here) = Cardinality(here)
  BY DEF Layer!Cardinality, Cardinality, Layer!IsFiniteSet, IsFiniteSet
<1>4. walked \in [1 .. n -> here] /\ \A i, j \in 1 .. n : i # j => walked[i] # walked[j]
  BY <1>3 DEF Layer!Walks, Layer!SetToSeqs
<1>5. walked \in Seq(here)
  BY <1>2, <1>4, SeqDef
<1>6. Len(walked) = n /\ DOMAIN walked = 1 .. n
  BY <1>2, <1>4, <1>5, LenProperties
<1>7. walked \in Surjection(1 .. n, here)
  <2>1. walked \in Injection(1 .. n, here)
    BY <1>4 DEF Injection, IsInjective
  <2>2. Cardinality(1 .. n) = n
    BY <1>2, FS_Interval
  <2> QED BY <1>1, <2>1, <2>2, FS_Injection
<1>8. {walked[i] : i \in 1 .. n} = here
  BY <1>4, <1>7 DEF Surjection
<1> QED BY <1>2, <1>4, <1>6, <1>8

\* ds_foreach: what it gives is what was asked for.
LEMMA WalkTells ==
    ASSUME LayerInv, Layer!Foreach
    PROVE  LayerInv'
<1>1. Layer!TypeOK /\ Told(dview, dasked) /\ dfile.order \in Layer!Orders
  BY DEF LayerInv, Layer!TypeOK
<1>2. Layer!Operates /\ UNCHANGED <<dview, dasked>>
  BY DEF Layer!Foreach
<1> DEFINE Gives(walked, n, ended) ==
        /\ ended = "whole" => n = Len(walked)
        /\ danswer' = [op |-> "walk", ended |-> ended, ret |-> Layer!WalkResult(ended),
                       seen |-> [i \in 1 .. n |-> <<walked[i], Layer!Internal(dview[walked[i]])>>]]
        /\ dpc' = IF Layer!WalkResult(ended) = "exit" THEN "exit" ELSE "txn"
<1>3. PICK walked \in Layer!Walks :
          \E n \in 0 .. Len(walked), ended \in {"whole", "hook", "cursor"} : Gives(walked, n, ended)
  BY DEF Layer!Foreach
<1>4. PICK n \in 0 .. Len(walked), ended \in {"whole", "hook", "cursor"} : Gives(walked, n, ended)
  BY <1>3
<1> DEFINE here == {k \in Layer!Keys : dview[k] # Absent}
           seen == [i \in 1 .. n |-> <<walked[i], Layer!Internal(dview[walked[i]])>>]
<1>5. /\ danswer'.op = "walk" /\ danswer'.ended = ended /\ danswer'.seen = seen
      /\ danswer'.ret = Layer!WalkResult(ended) /\ {"op", "ret"} \subseteq DOMAIN danswer'
  BY <1>4
<1>6. Layer!WalkResult(ended) \in {"ok", "error", "exit"} /\ dpc' \in {"txn", "exit"}
  BY <1>4 DEF Layer!WalkResult, Layer!EmptyWalk
<1>7. /\ Len(walked) \in Nat /\ {walked[i] : i \in 1 .. Len(walked)} = here
      /\ \A i \in 1 .. Len(walked) : walked[i] \in here
      /\ \A i, j \in 1 .. Len(walked) : i # j => walked[i] # walked[j]
  BY <1>1, WalksAll
<1>8. /\ DOMAIN seen = 1 .. n
      /\ \A i \in 1 .. n : /\ seen[i][1] = walked[i]
                            /\ seen[i][2] = Layer!Internal(dview[walked[i]])
  OBVIOUS
<1>9. WalkInv' /\ Layer!ReadsMeant' /\ Layer!RetryRestores'
  BY <1>5, <1>6 DEF WalkInv, Layer!ReadsMeant, Layer!RetryRestores
<1> HIDE DEF seen
<1>10. ASSUME ended = "whole", Layer!Portable
      PROVE  /\ {p[1] : p \in Layer!ToSet(seen)} = {k \in Layer!Keys : dasked[k] # Absent}
             /\ \A i \in DOMAIN seen : Layer!Says(seen[i][2], dasked[seen[i][1]])
             /\ \A i, j \in DOMAIN seen : i # j => seen[i][1] # seen[j][1]
  <2>1. n = Len(walked)
    BY <1>4, <1>10
  <2>2. {p[1] : p \in Layer!ToSet(seen)} = here
    BY <1>7, <1>8, <2>1 DEF Layer!ToSet
  <2>3. here = {k \in Layer!Keys : dasked[k] # Absent}
    BY <1>1, ToldOfType
  <2>4. ASSUME NEW i \in 1 .. n PROVE Layer!Says(seen[i][2], dasked[seen[i][1]])
    <3> DEFINE k == walked[i]
    <3>1. k \in Layer!Keys /\ dview[k] # Absent
      BY <1>7, <2>1
    <3>2. seen[i][1] = k /\ seen[i][2] = Layer!Internal(dview[k])
      BY <1>8
    <3> HIDE DEF k
    <3>3. dview[k] \in Layer!Cells /\ dasked[k] = Layer!Meaning(dview[k])
      BY <1>1, <3>1 DEF Told, Contents
    <3>4. \A j \in DOMAIN dview[k] : dview[k][j].order = dfile.order
      BY <1>1, <1>10, <3>1 DEF Told, Layer!InOneOrder
    <3>5. Layer!Says(Layer!Internal(dview[k]), Layer!Meaning(dview[k]))
      BY <1>1, <1>10, <3>3, <3>4, InternalSays
    <3> QED BY <3>2, <3>3, <3>5
  <2> QED BY <1>7, <1>8, <2>1, <2>2, <2>3, <2>4
<1>11. Layer!WalkWhole'
  <2>1. (Layer!Portable' <=> Layer!Portable) /\ dasked' = dasked
    BY <1>2 DEF Layer!Operates, Layer!Portable, Layer!Knows
  <2>2. ASSUME ended = "whole", Layer!Portable
        PROVE  /\ {p[1] : p \in Layer!ToSet(danswer'.seen)} = {k \in Layer!Keys : dasked'[k] # Absent}
               /\ \A i \in DOMAIN danswer'.seen :
                     Layer!Says(danswer'.seen[i][2], dasked'[danswer'.seen[i][1]])
               /\ \A i, j \in DOMAIN danswer'.seen :
                     i # j => danswer'.seen[i][1] # danswer'.seen[j][1]
    BY <1>5, <1>10, <2>1, <2>2
  <2> QED BY <1>5, <2>1, <2>2 DEF Layer!WalkWhole
<1>12. Told(dview', dasked')
  BY <1>1, <1>2
<1> QED BY <1>2, <1>6, <1>9, <1>11, <1>12, AnswerTells

\* The layer, step by step.
LEMMA LayerStep == LayerInv /\ [Layer!Next]_layerVars => LayerInv'
<1> SUFFICES ASSUME LayerInv, [Layer!Next]_layerVars PROVE LayerInv'
  OBVIOUS
<1>1. ASSUME UNCHANGED layerVars PROVE LayerInv'
  <2>1. Layer!TypeOK'
    BY <1>1 DEF layerVars, LayerInv, Layer!TypeOK
  <2>2. Layer!Portable' <=> Layer!Portable
    BY <1>1 DEF layerVars, Layer!Portable, Layer!Knows
  <2>3. Told(dview, dasked)' /\ Told(ddisk, dmeant)' /\ WalkInv'
    BY <1>1, <2>2 DEF layerVars, LayerInv, Told, WalkInv
  <2>4. Layer!ReadsMeant' /\ Layer!WalkWhole' /\ Layer!RetryRestores'
    BY <1>1, <2>2 DEF layerVars, LayerInv, Layer!ReadsMeant, Layer!WalkWhole, Layer!RetryRestores,
                      Layer!Says, Layer!Number
  <2> QED BY <2>1, <2>3, <2>4 DEF LayerInv
<1>2. CASE Layer!Ended
  BY <1>1, <1>2 DEF Layer!Ended, Layer!vars, layerVars
<1>3. ASSUME NEW k \in Layer!Keys \ {Version, Encoding}, NEW spam \in Counts, NEW good \in Counts,
             NEW date \in Dates, Layer!Write(k, Layer!Val(spam, good, date))
      PROVE  LayerInv'
  <2>1. Layer!Val(spam, good, date) \in Layer!Numbers
    BY LayerAssumption DEF Layer!DatastoreAssumption, Layer!Val, Layer!Numbers
  <2> QED BY <1>3, <2>1, WriteTells
<1> QED
  BY <1>1, <1>2, <1>3, OpenTells, TransactionTells, ReadTells, DeleteTells, WalkTells
  DEF Layer!Next

\* What LayerSound says follows.
LEMMA LayerFollows ==
    LayerInv => /\ Layer!ReadsMeant /\ Layer!WalkWhole
                /\ Layer!OneByteOrder /\ Layer!RetryRestores
BY DEF LayerInv, Told, Layer!Portable, Layer!OneByteOrder

-----------------------------------------------------------------------------
(* The parts in one behaviour *)

PartInv == /\ part = "upgrade" => UpgradeInv
           /\ part = "mode" => ModeInv
           /\ part = "layer" => LayerInv

THEOREM StorageInvariant == StorageSpec => []PartInv
<1>1. StorageInit => PartInv
  BY UpgradeStarts, ModeStarts, LayerStarts
  DEF StorageInit, UpgradeInit, ModeInit, LayerInit, PartInv
<1>2. PartInv /\ [StorageNext]_allVars => PartInv'
  <2> SUFFICES ASSUME PartInv, [StorageNext]_allVars PROVE PartInv'
    OBVIOUS
  <2>1. part' = part
    BY DEF StorageNext, allVars
  <2>2. part = "upgrade" => [Upgrade!Next]_upgradeVars
    BY DEF StorageNext, allVars
  <2>3. part = "mode" => [Mode!Next]_modeVars
    BY DEF StorageNext, allVars
  <2>4. part = "layer" => [Layer!Next]_layerVars
    BY DEF StorageNext, allVars
  <2> QED BY <2>1, <2>2, <2>3, <2>4, UpgradeStep, ModeStep, LayerStep DEF PartInv
<1> QED BY <1>1, <1>2, PTL DEF StorageSpec

\* A list of QDBM that is upgraded is there at every moment, and what it was is
\* kept (bogoQDBMupgrade.c, QdbmUpgrade): for any words and files, and any
\* commands whose names are apart.
THEOREM UpgradeKeepsTheList == StorageSpec => []UpgradeSound
<1>1. PartInv => UpgradeSound
  BY UpgradeFollows DEF PartInv, UpgradeSound
<1> QED BY <1>1, StorageInvariant, PTL

\* Processes without options use a list of Berkeley DB in the mode it was made
\* in, a list is verified while nobody has it open, and a bogofilter has one
\* environment (datastore_db.c, TransactionMode): for any processes, lists,
\* directories and jobs.
THEOREM ProcessesAgreeOnTheMode == StorageSpec => []ModesSound
<1>1. PartInv => ModesSound
  BY ModeFollows DEF PartInv, ModesSound
<1> QED BY <1>1, StorageInvariant, PTL

\* What the layer above the stores gives is what it was given (datastore.c,
\* Datastore): for any keys, counts, dates and files, in either byte order and
\* with the short values of old lists.
THEOREM LayerGivesWhatItGot == StorageSpec => []LayerSound
<1>1. PartInv => LayerSound
  BY LayerFollows DEF PartInv, LayerSound
<1> QED BY <1>1, StorageInvariant, PTL
=============================================================================
