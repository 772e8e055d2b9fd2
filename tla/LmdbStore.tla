------------------------------ MODULE LmdbStore ------------------------------
(***************************************************************************)
(* The LMDB backend, datastore_lmdb.c.  The library gives serialised write *)
(* transactions over a memory map of fixed size: an operation that needs a *)
(* page beyond the map fails with MDB_MAP_FULL, and the map can only be    *)
(* resized outside a transaction.  The code therefore keeps a cache of the *)
(* operations of the transaction, and when the map is full it aborts,      *)
(* grows the map, begins again and replays the cache.                      *)
(*                                                                         *)
(* Sizes are in units of a_BFLM_GROW, pages likewise.                      *)
(***************************************************************************)
EXTENDS Naturals, FiniteSets, Sequences, SequencesExt

CONSTANTS
  Proc, Word, Value, Absent, Same, None,
  Cost,       \* <<kind, pages>>: the pages the operations of a kind may take
  Garbage,    \* words the bytes of a deleted key may read as afterwards
  ChunkSize,  \* entries that fit into one chunk of the cache
  MaxMap,     \* the largest map the address space allows
  MaxOps,     \* per process: operations in a transaction (bound of the model)
  GrowTries   \* a_BFLM_GROW_TRIES

VARIABLES
  disk,     \* the committed word list
  used,     \* the pages it takes
  size,     \* the map size its meta page records
  writer,   \* holder of the writer mutex, or None
  pc,       \* per process: closed, open, txn, full, resized, replaying, exited
  rdonly,   \* per process: a_BFLM_RDONLY
  map,      \* per process: the size of its memory map
  dbsize,   \* per process: bflm_dbsize
  view,     \* per process: the word list as its transaction sees it
  room,     \* per process: pages taken in its transaction
  cache,    \* per process: bflm_txn_cache, top of the stack first
  pos,      \* per process: chunk and entry that its replay has come to
  op,       \* per process: the operation it is trying again, or None
  tries,    \* per process: retries
  asked,    \* history, per process: what its transaction has asked for
  overtaken, \* history: another process committed while this one grew the map
  keys      \* history, per process: what its cache has for the keys it asked for

disks == <<disk, used, size>>
handles == <<pc, rdonly, map, dbsize>>
txns == <<view, room, cache, pos, op, tries, asked, overtaken, keys>>
vars == <<disk, used, size, writer, handles, txns>>

List == [Word -> Value \cup {Absent}]
Empty == [w \in Word |-> Absent]
Nothing == [w \in Word |-> Same]
Larger(a, b) == IF a > b THEN a ELSE b

\* One operation: set key to val, delete key (val is Absent) or commit;
\* need is the number of new pages the library takes for it.
Operation ==
  {o \in [kind : {"set"}, key : Word, val : Value, need : 0..1]
           \cup [kind : {"delete"}, key : Word, val : {Absent}, need : 0..1]
           \cup [kind : {"commit"}, need : 0..1] : <<o.kind, o.need>> \in Cost}

ASSUME LmdbAssumption ==
  /\ None \notin Proc \cup Operation
  /\ Absent \notin Value /\ Same \notin Value \cup {Absent}
  /\ Garbage \subseteq Word
  /\ {ChunkSize, MaxMap, GrowTries} \subseteq Nat \ {0}

\* db_get_dbvalue and db_foreach: the transaction's own list, Absent for
\* DS_NOTFOUND.
Get(p, w) == view[p][w]
Walk(p) == {w \in Word : Get(p, w) # Absent}

-----------------------------------------------------------------------------
(* The cache of operations.                                                *)

\* An entry goes into the chunk on top of the stack; a full one gets a new
\* chunk above it.
CachePut(chunks, e) ==
  IF chunks = <<>> \/ Len(Head(chunks)) >= ChunkSize
  THEN <<<<e>>>> \o chunks
  ELSE <<Append(Head(chunks), e)>> \o Tail(chunks)

\* Mutant: the chunks are left as they are on the stack.
TopDown(chunks) == chunks

\* The chunks in the order they were made, from the bottom of the stack.
InOrder(chunks) == Reverse(chunks)

Entries(chunks) == UNION {{k} \X DOMAIN chunks[k] : k \in DOMAIN chunks}

-----------------------------------------------------------------------------
Init == /\ disk = Empty /\ used = 0 /\ size = 1 /\ writer = None
        /\ pc = [p \in Proc |-> "closed"]
        /\ rdonly = [p \in Proc |-> FALSE]
        /\ map = [p \in Proc |-> 0]
        /\ dbsize = [p \in Proc |-> 0]
        /\ view = [p \in Proc |-> Empty]
        /\ room = [p \in Proc |-> 0]
        /\ cache = [p \in Proc |-> <<>>]
        /\ pos = [p \in Proc |-> <<1, 1>>]
        /\ op = [p \in Proc |-> None]
        /\ tries = [p \in Proc |-> 0]
        /\ asked = [p \in Proc |-> Nothing]
        /\ overtaken = {}
        /\ keys = [p \in Proc |-> "intact"]

\* db_open for writing: one transaction looks for the two databases and makes
\* them when they are not there; that is the "created" event.
OpenWriter(p) ==
  /\ pc[p] = "closed" /\ writer = None
  /\ pc' = [pc EXCEPT ![p] = "open"]
  /\ rdonly' = [rdonly EXCEPT ![p] = FALSE]
  /\ map' = [map EXCEPT ![p] = size]
  /\ dbsize' = [dbsize EXCEPT ![p] = 0]
  /\ UNCHANGED <<disk, used, size, writer, txns>>

OpenReader(p) ==
  /\ pc[p] = "closed"
  /\ pc' = [pc EXCEPT ![p] = "open"]
  /\ rdonly' = [rdonly EXCEPT ![p] = TRUE]
  /\ map' = [map EXCEPT ![p] = size]
  /\ dbsize' = [dbsize EXCEPT ![p] = 0]
  /\ UNCHANGED <<disks, writer, txns>>

\* The library reports MDB_MAP_RESIZED to a process whose map is smaller than
\* the list another process has committed: it takes over the recorded size.
Fitted(p) == IF used > map[p] THEN size ELSE map[p]

\* A reader that finds no database (a_BFLM_DB_UNAVAIL) sees an empty list.
Begin(p) ==
  /\ pc[p] = "open"
  /\ rdonly[p] \/ writer = None
  /\ pc' = [pc EXCEPT ![p] = "txn"]
  /\ writer' = IF rdonly[p] THEN writer ELSE p
  /\ map' = [map EXCEPT ![p] = Fitted(p)]
  /\ view' = [view EXCEPT ![p] = disk]
  /\ room' = [room EXCEPT ![p] = used]
  /\ UNCHANGED <<disks, rdonly, dbsize, cache, pos, op, tries, asked, overtaken, keys>>

\* The cache is freed.
Freed(p) ==
  /\ view' = [view EXCEPT ![p] = Empty]
  /\ room' = [room EXCEPT ![p] = 0]
  /\ cache' = [cache EXCEPT ![p] = <<>>]
  /\ pos' = [pos EXCEPT ![p] = <<1, 1>>]
  /\ op' = [op EXCEPT ![p] = None]
  /\ tries' = [tries EXCEPT ![p] = 0]
  /\ asked' = [asked EXCEPT ![p] = Nothing]
  /\ keys' = [keys EXCEPT ![p] = "intact"]

\* The end of a transaction, kept or not.
Ended(p) ==
  /\ pc' = [pc EXCEPT ![p] = "open"]
  /\ writer' = IF writer = p THEN None ELSE writer
  /\ Freed(p)
  /\ UNCHANGED <<rdonly, map, dbsize>>

Abort(p) == /\ pc[p] = "txn" /\ op[p] = None
            /\ Ended(p) /\ overtaken' = overtaken \ {p} /\ UNCHANGED disks

\* exit(EX_ERROR) or the process is killed: the library discards the
\* transaction and hands on the mutex.
Gone(p, to) ==
  /\ pc' = [pc EXCEPT ![p] = to]
  /\ writer' = IF writer = p THEN None ELSE writer
  /\ Freed(p)
  /\ rdonly' = [rdonly EXCEPT ![p] = FALSE]
  /\ map' = [map EXCEPT ![p] = 0]
  /\ dbsize' = [dbsize EXCEPT ![p] = 0]
  /\ overtaken' = overtaken \ {p}
  /\ UNCHANGED disks

Crash(p) == pc[p] # "closed" /\ Gone(p, "closed")

Close(p) == pc[p] = "open" /\ Gone(p, "closed")

-----------------------------------------------------------------------------
Asking(p, o) ==
  \/ op[p] = None /\ Cardinality(Entries(cache[p])) < MaxOps[p]
  \/ op[p] = o

Fits(p, o) == room[p] + o.need <= map[p]

\* mdb_cursor_put and mdb_cursor_del within the map; key is what the cache has
\* for o.key.
Done(p, o, key) ==
  /\ view' = [view EXCEPT ![p][o.key] = o.val]
  /\ room' = [room EXCEPT ![p] = @ + o.need]
  /\ cache' = [cache EXCEPT ![p] = CachePut(@, [key |-> key, val |-> o.val, need |-> o.need])]
  /\ op' = [op EXCEPT ![p] = None]
  /\ tries' = [tries EXCEPT ![p] = 0]
  /\ asked' = [asked EXCEPT ![p][o.key] = o.val]
  /\ keys' = IF key # o.key /\ keys[p] = "intact" THEN [keys EXCEPT ![p] = "rewritten"] ELSE keys
  /\ UNCHANGED <<disks, writer, handles, pos, overtaken>>

SetValue(p) ==
  \E o \in Operation :
    /\ pc[p] = "txn" /\ ~rdonly[p] /\ o.kind = "set" /\ Asking(p, o)
    /\ Fits(p, o) /\ Done(p, o, o.key)

\* db_delete asks with MDB_SET_KEY, so the key that it puts into the cache after
\* mdb_cursor_del is read from the page it has deleted from (lines 910, 916, 929).
\* The library copies a page before its first change and leaves the old one; once
\* the page was changed in this transaction, the bytes may be another key's.
DeletedKeys(p, o) == {o.key} \cup IF cache[p] = <<>> THEN {} ELSE Garbage

Delete(p) ==
  \E o \in Operation :
    /\ pc[p] = "txn" /\ ~rdonly[p] /\ o.kind = "delete" /\ Asking(p, o)
    /\ o.key \in Walk(p)
    /\ Fits(p, o)
    /\ \E key \in DeletedKeys(p, o) : Done(p, o, key)

\* MDB_NOTFOUND: nothing is deleted and nothing cached.
DeleteMissing(p) ==
  /\ pc[p] = "txn" /\ op[p] # None
  /\ op[p].kind = "delete" /\ op[p].key \notin Walk(p)
  /\ op' = [op EXCEPT ![p] = None]
  /\ tries' = [tries EXCEPT ![p] = 0]
  /\ UNCHANGED <<disks, writer, handles, view, room, cache, pos, asked, overtaken, keys>>

Growing == {p \in Proc : pc[p] \in {"full", "resized"}}

\* A commit records the map size in the meta page.
Commit(p) ==
  \E o \in Operation :
    /\ pc[p] = "txn" /\ o.kind = "commit" /\ (op[p] = None \/ op[p] = o)
    /\ rdonly[p] => o.need = 0
    /\ Fits(p, o)
    /\ IF rdonly[p] THEN UNCHANGED disks
       ELSE /\ disk' = view[p]
            /\ used' = room[p] + o.need
            /\ size' = Larger(size, map[p])
    /\ overtaken' = IF rdonly[p] THEN overtaken
                    ELSE (overtaken \ {p}) \cup Growing
    /\ Ended(p)

-----------------------------------------------------------------------------
\* MDB_MAP_FULL while a try is left: a_bflm_txn_mapfull aborts.
MapFull(p) ==
  \E o \in Operation :
    /\ pc[p] = "txn" /\ ~rdonly[p]
    /\ IF o.kind = "commit" THEN op[p] \in {None, o} ELSE Asking(p, o)
    /\ o.kind = "delete" => o.key \in Walk(p)
    /\ ~Fits(p, o) /\ tries[p] < GrowTries
    /\ tries' = [tries EXCEPT ![p] = @ + 1]
    /\ op' = [op EXCEPT ![p] = o]
    /\ pc' = [pc EXCEPT ![p] = "full"]
    /\ writer' = None
    /\ view' = [view EXCEPT ![p] = Empty]
    /\ room' = [room EXCEPT ![p] = 0]
    /\ keys' = IF keys[p] = "intact" THEN keys ELSE [keys EXCEPT ![p] = "replayed"]
    /\ UNCHANGED <<disks, rdonly, map, dbsize, cache, pos, asked, overtaken>>

\* The caller sees the failure: a set or a delete exits, a commit reports it.
Failed(p) ==
  IF op[p].kind = "commit"
  THEN Ended(p) /\ overtaken' = overtaken \ {p} /\ UNCHANGED disks
  ELSE Gone(p, "exited")

OutOfTries(p) ==
  /\ pc[p] = "txn" /\ op[p] # None /\ ~Fits(p, op[p]) /\ tries[p] = GrowTries
  /\ op[p].kind = "delete" => op[p].key \in Walk(p)
  /\ Failed(p)

\* Mutant: what this process has asked for before is forgotten.
GrownOnce(p) == size + 1

\* The larger of the recorded size and the one this process has asked for
\* (the library forgets it when a transaction is aborted), and one unit more.
Grown(p) == Larger(size, dbsize[p]) + 1

Resize(p) ==
  /\ pc[p] = "full" /\ Grown(p) <= MaxMap
  /\ map' = [map EXCEPT ![p] = Grown(p)]
  /\ dbsize' = [dbsize EXCEPT ![p] = Grown(p)]
  /\ pc' = [pc EXCEPT ![p] = "resized"]
  /\ UNCHANGED <<disks, writer, rdonly, txns>>

TooLarge(p) == pc[p] = "full" /\ Grown(p) > MaxMap /\ Failed(p)

\* The transaction is begun again, behind any other writer.  When that one has
\* committed more than the map now holds, the size is taken anew.
BeginAgain(p) ==
  /\ pc[p] = "resized" /\ writer = None
  /\ IF used > map[p]
     THEN /\ pc' = [pc EXCEPT ![p] = "full"]
          /\ UNCHANGED <<disks, writer, rdonly, map, dbsize, txns>>
     ELSE /\ pc' = [pc EXCEPT ![p] = "replaying"]
          /\ writer' = p
          /\ view' = [view EXCEPT ![p] = disk]
          /\ room' = [room EXCEPT ![p] = used]
          /\ UNCHANGED <<disks, rdonly, map, dbsize, cache, pos, op, tries, asked, overtaken, keys>>

\* A put that finds no page and a delete that finds no key end the replay.
Playable(p, e) == Fits(p, e) /\ (e.val = Absent => e.key \in Walk(p))

\* The replay, one entry a step.
PlayEntry(p) ==
  LET chunks == InOrder(cache[p])
      k == pos[p][1]
      i == pos[p][2]
      e == chunks[k][i]
  IN  /\ pc[p] = "replaying" /\ k \in DOMAIN chunks
      /\ IF Playable(p, e)
         THEN /\ view' = [view EXCEPT ![p][e.key] = e.val]
              /\ room' = [room EXCEPT ![p] = @ + e.need]
              /\ pos' = [pos EXCEPT ![p] = IF i < Len(chunks[k]) THEN <<k, i + 1>> ELSE <<k + 1, 1>>]
              /\ UNCHANGED <<disks, writer, handles, cache, op, tries, asked, overtaken, keys>>
         ELSE Failed(p)

\* The operation that found the map full is tried again.
EndReplay(p) ==
  /\ pc[p] = "replaying" /\ pos[p][1] > Len(cache[p])
  /\ pc' = [pc EXCEPT ![p] = "txn"]
  /\ pos' = [pos EXCEPT ![p] = <<1, 1>>]
  /\ UNCHANGED <<disks, writer, rdonly, map, dbsize, view, room, cache, op, tries, asked, overtaken,
                 keys>>

Step(p) == \/ OpenWriter(p) \/ OpenReader(p) \/ Close(p)
           \/ Begin(p) \/ Commit(p) \/ Abort(p)
           \/ SetValue(p) \/ Delete(p) \/ DeleteMissing(p)
           \/ MapFull(p) \/ Resize(p) \/ BeginAgain(p) \/ PlayEntry(p) \/ EndReplay(p)
           \/ OutOfTries(p) \/ TooLarge(p)

Next == \E p \in Proc : Step(p) \/ Crash(p)

Spec == Init /\ [][Next]_vars

-----------------------------------------------------------------------------
(* Properties.                                                             *)

States == {"closed", "open", "txn", "full", "resized", "replaying", "exited"}
Entry == [key : Word, val : Value \cup {Absent}, need : 0..1]

TypeOK ==
  /\ disk \in List /\ used \in 0..size /\ size \in 1..MaxMap
  /\ writer \in Proc \cup {None}
  /\ pc \in [Proc -> States]
  /\ rdonly \in [Proc -> BOOLEAN]
  /\ map \in [Proc -> 0..MaxMap] /\ dbsize \in [Proc -> 0..MaxMap]
  /\ view \in [Proc -> List] /\ room \in [Proc -> 0..MaxMap]
  /\ cache \in [Proc -> Seq(Seq(Entry))]
  /\ pos \in [Proc -> Nat \X Nat]
  /\ op \in [Proc -> Operation \cup {None}] /\ tries \in [Proc -> 0..GrowTries]
  /\ asked \in [Proc -> [Word -> Value \cup {Absent, Same}]]
  /\ overtaken \subseteq Proc
  /\ keys \in [Proc -> {"intact", "rewritten", "replayed"}]

\* The mutex belongs to a writer in a transaction, the pages fit the map, and
\* the cache belongs to a transaction that has not ended.
WriterAlone ==
  \A p \in Proc : writer = p <=> pc[p] = "replaying" \/ (pc[p] = "txn" /\ ~rdonly[p])

TakesRoom ==
  \A p \in Proc : /\ room[p] <= map[p]
                  /\ pc[p] \notin {"txn", "replaying"} => room[p] = 0

TidyOutside ==
  \A p \in Proc :
    /\ pc[p] \in {"full", "resized", "replaying"} => op[p] # None /\ ~rdonly[p]
    /\ pc[p] \in {"closed", "open", "exited"} \/ rdonly[p]
         => cache[p] = <<>> /\ asked[p] = Nothing /\ op[p] = None /\ p \notin overtaken
    /\ pc[p] # "replaying" => pos[p] = <<1, 1>>
    /\ pc[p] \in {"full", "resized", "replaying"} => keys[p] # "rewritten"

Promise == INSTANCE AtomicStore WITH store <- disk

\* Every commit stores exactly what its transaction asked for on top of what
\* was there, however often the map was grown and the operations replayed on
\* the way (datastore_lmdb.c:22-35); a crash, an abort and a failure store
\* nothing.  Excepted are the commits of transactions that were replayed with
\* a rewritten key in the cache: those store what the replay made, which may
\* lack a deletion and another word (KeepsThePromise).
PromiseUnlessRewritten ==
  /\ Promise!AInit
  /\ [][Promise!ANext \/ \E p \in Proc : keys[p] = "replayed" /\ Commit(p)]_<<disk, asked>>

\* A writer reads its own writes: after a replay the transaction shows the
\* same list it showed before the map was full, unless the replay had a
\* rewritten key.
ViewIsAsked ==
  \A p \in Proc : pc[p] = "txn" /\ ~rdonly[p] /\ keys[p] # "replayed"
                    => \A w \in Word : Get(p, w) = Promise!Overlay(disk, asked[p])[w]

\* A process that nobody overtook gives up, or fails to commit, only when the
\* address space is exhausted: the replay fits the grown map, a try is left,
\* and what is to be deleted again is there.  Excepted from the last are
\* replays with a rewritten key, which is perhaps not there (OnlyTheLimitFails).
LimitUnlessRewritten ==
  [][\A p \in Proc \ overtaken :
       \/ TooLarge(p) \/ OutOfTries(p)
       \/ PlayEntry(p) /\ pc'[p] \in {"exited", "open"} /\ keys[p] # "replayed"
       => Larger(size, dbsize[p]) = MaxMap]_vars

\* These two do not hold: the code keeps the changes so as to be "capable to
\* replay all changes" (datastore_lmdb.c:31-33), but a deletion that is not the
\* first change of its transaction may be replayed as that of another word, which
\* is lost instead, or is not there, which ends the program.
KeepsThePromise == Promise!ASpec
OnlyTheLimitFails ==
  [][\A p \in Proc \ overtaken :
       TooLarge(p) \/ OutOfTries(p) \/ (PlayEntry(p) /\ pc'[p] \in {"exited", "open"})
       => Larger(size, dbsize[p]) = MaxMap]_vars

\* Does not hold: the list changes under a transaction that is growing the map; the
\* values it has cached were computed from what it had read.
NotOvertaken == \A p \in overtaken : cache[p] = <<>>
=============================================================================
