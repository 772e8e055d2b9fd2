----------------------------- MODULE Datastore -----------------------------
(***************************************************************************)
(* The layer between the programs and the backends (datastore.c), and what *)
(* each backend answers it: a count is converted to the byte order of the  *)
(* file, a value may lack the date or, in an old list, the second count,   *)
(* an operation may end the transaction (DS_ABORT_RETRY) or the program,   *)
(* and a walk ends where the hook or the cursor fails.  One process uses   *)
(* the list; what several do to each other is in the modules of the        *)
(* backends.                                                               *)
(***************************************************************************)
EXTENDS Integers, Sequences, SequencesExt

CONSTANTS
    Order,          \* the keys, in the order of the store
    MsgCount, Version, Encoding,
    Long,           \* keys that are longer than LMDB stores
    Counts, Dates,  \* 0 is no date
    Absent,
    Files,          \* the lists that are there: byte order and contents
    MaxOps          \* operations on a list

Keys == ToSet(Order)
Orders == {"host", "other"}
Backends == {"db", "trad", "sqlite", "lmdb", "tc", "kc", "qdbm"}

\* A value in a file has one, two or three numbers.
Cell == [n : Nat, order : Orders]
Cells == [{1} -> Cell] \cup [1 .. 2 -> Cell] \cup [1 .. 3 -> Cell]
Numbers == [spam : Nat, good : Nat, date : Nat]
InOneOrder(content, order) ==
    \A k \in Keys : content[k] # Absent => \A i \in DOMAIN content[k] : content[k][i].order = order

DatastoreAssumption ==
    /\ Order \in Seq(Keys)
    /\ {MsgCount, Version, Encoding} \subseteq Keys /\ Long \subseteq Keys
    /\ 0 \in Dates /\ Dates \subseteq Nat /\ Counts \subseteq Nat /\ MaxOps \in Nat
    /\ Absent \notin Cells \cup Numbers
    /\ \A f \in Files : /\ f.order \in Orders /\ f.content \in [Keys -> Cells \cup {Absent}]
                       /\ InOneOrder(f.content, f.order)

VARIABLES
    backend,
    conf,       \* timestamp_tokens, today, encoding
    file,       \* present, order
    disk,       \* in the file: cells in a byte order
    view,       \* as the handle shows it
    meant,      \* what the program has asked for, as numbers; committed
    asked,      \* and in the transaction
    pc, mode,
    answer,     \* of the last operation
    ops

vars == <<backend, conf, file, disk, view, meant, asked, pc, mode, answer, ops>>

Flip(order) == CHOOSE o \in Orders : o # order
NoAnswer == [op |-> "none"]
Transactions == backend \notin {"trad", "qdbm"}

\* The backends that know the byte order of the file.
Knows == backend \in {"db", "trad", "sqlite"}
is_swapped == Knows /\ file.order # "host"

Number(c) == [n |-> c, order |-> "host"]
swap(c) == IF is_swapped THEN [c EXCEPT !.order = Flip(@)] ELSE c

\* Mutant: the date is not taken from the value.
InternalWithoutDate(cells) ==
    [spam |-> swap(cells[1]), good |-> IF Len(cells) < 2 THEN Number(0) ELSE swap(cells[2]),
     date |-> Number(0)]

\* convert_external_to_internal
Internal(cells) ==
    [spam |-> swap(cells[1]),
     good |-> IF Len(cells) < 2 THEN Number(0) ELSE swap(cells[2]),
     date |-> IF Len(cells) < 3 THEN Number(0) ELSE swap(cells[3])]

\* convert_internal_to_external
External(val) ==
    LET cells == <<val.spam, val.good>>
                 \o (IF conf.timestamp_tokens /\ val.date # 0 THEN <<val.date>> ELSE <<>>)
    IN [i \in DOMAIN cells |-> swap(Number(cells[i]))]

Meaning(cells) ==
    IF cells = Absent THEN Absent
    ELSE [spam |-> cells[1].n, good |-> IF Len(cells) < 2 THEN 0 ELSE cells[2].n,
          date |-> IF Len(cells) < 3 THEN 0 ELSE cells[3].n]

Nothing == [k \in Keys |-> Absent]

Init == /\ backend \in Backends
        /\ conf \in [timestamp_tokens : BOOLEAN, today : Dates, encoding : Counts]
        /\ \E f \in Files \cup {Absent} :
              /\ file = [present |-> f # Absent,
                         order |-> IF f = Absent THEN "host" ELSE f.order]
              /\ disk = IF f = Absent THEN Nothing ELSE f.content
        /\ backend = "lmdb" => \A k \in Long : disk[k] = Absent
        /\ view = Nothing /\ asked = Nothing
        /\ meant = [k \in Keys |-> Meaning(disk[k])]
        /\ pc = "closed" /\ mode = "none" /\ answer = NoAnswer /\ ops = 0

-----------------------------------------------------------------------------
(* ds_open, ds_close                                                       *)

\* LMDB does not find, and does not store, a key that is too long.
Stores(k) == ~(backend = "lmdb" /\ k \in Long)
Put(v, k, val) == IF Stores(k) THEN [v EXCEPT ![k] = External(val)] ELSE v

\* ds_write, from any caller: with timestamps the date is that of today.
Stamped(val) ==
    IF conf.timestamp_tokens /\ conf.today # 0 THEN [val EXCEPT !.date = conf.today] ELSE val
Val(spam, good, date) == [spam |-> spam, good |-> good, date |-> date]
WithVersion(v) == Put(Put(v, Version, Stamped(Val(1, 0, conf.today))),
                      Encoding, Stamped(Val(conf.encoding, 0, conf.today)))

\* A new list gets its version and encoding in a transaction of its own, unless it
\* is to be loaded.
Open(m) ==
    /\ pc = "closed" /\ pc' = "open" /\ mode' = m
    /\ file.present \/ m # "read" \/ backend = "lmdb"
    /\ file' = IF m = "read" THEN file ELSE [file EXCEPT !.present = TRUE]
    /\ LET v == IF ~file.present /\ m = "write" THEN WithVersion(disk) ELSE disk
       IN /\ view' = v
          /\ disk' = IF Transactions THEN v ELSE disk
          /\ asked' = [k \in Keys |-> Meaning(v[k])]
          /\ meant' = IF Transactions THEN asked' ELSE meant
    /\ answer' = NoAnswer
    /\ UNCHANGED <<backend, conf, ops>>

\* Without transactions the changes of the handle are in the file now.
Close ==
    /\ pc = "open" /\ pc' = "closed" /\ mode' = "none"
    /\ IF Transactions THEN UNCHANGED <<disk, meant>> ELSE disk' = view /\ meant' = asked
    /\ view' = Nothing /\ asked' = Nothing /\ answer' = NoAnswer
    /\ UNCHANGED <<backend, conf, file, ops>>

Begin == /\ pc = "open" /\ pc' = "txn" /\ ops < MaxOps /\ answer' = NoAnswer
         /\ UNCHANGED <<backend, conf, file, disk, view, meant, asked, mode, ops>>

Commit == /\ pc = "txn" /\ pc' = "open" /\ answer' = NoAnswer
          /\ IF Transactions THEN disk' = view /\ meant' = asked ELSE UNCHANGED <<disk, meant>>
          /\ UNCHANGED <<backend, conf, file, view, asked, mode, ops>>

Undone == IF Transactions THEN view' = disk /\ asked' = meant ELSE UNCHANGED <<view, asked>>

Abort == /\ pc = "txn" /\ pc' = "open" /\ answer' = NoAnswer /\ Undone
         /\ UNCHANGED <<backend, conf, file, disk, meant, mode, ops>>

-----------------------------------------------------------------------------
(* One key                                                                 *)

Operates == pc = "txn" /\ ops < MaxOps /\ ops' = ops + 1
            /\ UNCHANGED <<backend, conf, file, disk, meant, mode>>

Answers(op, k, ret) == /\ answer' = [op |-> op, key |-> k, ret |-> ret]
                       /\ pc' = "txn"

\* The store has chosen this transaction to end a deadlock: it is undone, and the
\* program is to begin it again.
Deadlocked(op, k) ==
    /\ backend \in {"db", "sqlite"} /\ Undone
    /\ pc' = "open" /\ answer' = [op |-> op, key |-> k, ret |-> "retry"]

\* A mistake of the store ends the program, and with it the transaction.
Exits(op, k) ==
    /\ pc' = "exit" /\ Undone /\ answer' = [op |-> op, key |-> k, ret |-> "exit"]

\* ds_read
Read(k) ==
    /\ Operates
    /\ \/ /\ IF view[k] = Absent THEN Answers("read", k, "notfound")
             ELSE /\ answer' = [op |-> "read", key |-> k, ret |-> "ok", val |-> Internal(view[k])]
                  /\ pc' = "txn"
          /\ UNCHANGED <<view, asked>>
       \/ Deadlocked("read", k) \/ Exits("read", k)

\* ds_write; the counts of messages are written with the date of today.
Write(k, given) ==
    /\ mode # "read" /\ Operates
    /\ \/ LET val == Stamped(IF k = MsgCount THEN [given EXCEPT !.date = conf.today] ELSE given)
          IN /\ view' = Put(view, k, val)
             /\ asked' = IF ~Stores(k) THEN asked
                         ELSE [asked EXCEPT ![k] = IF conf.timestamp_tokens THEN val
                                                   ELSE [val EXCEPT !.date = 0]]
             /\ Answers("write", k, "ok")
       \/ Deadlocked("write", k) \/ Exits("write", k)

\* ds_delete.  What is not there: Berkeley DB and LMDB say so, SQLite does not mind, the
\* others end the program.  To Berkeley DB a deadlock is an error as any other.
Delete(k) ==
    /\ mode # "read" /\ Operates
    /\ \/ IF view[k] # Absent
          THEN /\ view' = [view EXCEPT ![k] = Absent] /\ asked' = [asked EXCEPT ![k] = Absent]
               /\ Answers("delete", k, "ok")
          ELSE IF backend \in {"tc", "kc", "qdbm"} THEN Exits("delete", k)
          ELSE /\ Answers("delete", k, IF backend = "sqlite" \/ ~Stores(k) THEN "ok"
                                       ELSE "notfound")
               /\ UNCHANGED <<view, asked>>
       \/ backend # "db" /\ Deadlocked("delete", k)
       \/ Exits("delete", k)

-----------------------------------------------------------------------------
(* ds_foreach, ds_oper                                                     *)

\* The keys that are there, each once and in the order of the store.
Before(k, l) == \E i, j \in DOMAIN Order : i < j /\ Order[i] = k /\ Order[j] = l
Walks == {ks \in SetToSeqs({k \in Keys : view[k] # Absent}) :
             \A i, j \in DOMAIN ks : i < j => Before(ks[i], ks[j])}

\* Whom the backend tells that the hook has failed, and that the cursor has.
TellsOfHook == backend \in {"sqlite", "lmdb"}
TellsOfCursor == backend \in {"db", "trad", "sqlite", "lmdb"}

\* SQLite's list is never empty: the marker of the byte order is in it.
EmptyWalk == CASE backend \in {"tc", "qdbm"} -> "exit"
               [] backend = "kc" -> "error"
               [] OTHER -> "ok"

Unnoticed(ended) == \/ ended = "whole"
                    \/ ended = "hook" /\ ~TellsOfHook
                    \/ ended = "cursor" /\ ~TellsOfCursor
WalkResult(ended) == IF view = Nothing THEN EmptyWalk
                     ELSE IF Unnoticed(ended) THEN "ok" ELSE "error"

\* The walk goes as far as n keys: to the end, to where the hook fails, or the cursor.
Foreach ==
    /\ Operates /\ UNCHANGED <<view, asked>>
    /\ \E keys \in Walks : \E n \in 0 .. Len(keys), ended \in {"whole", "hook", "cursor"} :
        /\ ended = "whole" => n = Len(keys)
        /\ ended = "hook" => n > 0
        /\ ended = "cursor" => n < Len(keys)
        /\ answer' = [op |-> "walk", ended |-> ended, ret |-> WalkResult(ended),
                      seen |-> [i \in 1 .. n |-> <<keys[i], Internal(view[keys[i]])>>]]
        /\ pc' = IF WalkResult(ended) = "exit" THEN "exit" ELSE "txn"

\* The transaction of ds_oper is committed or aborted after the walk, and its list is
\* closed; nothing was changed.
OperEnds ==
    /\ pc = "txn" /\ mode = "read" /\ answer.op = "walk"
    /\ \E ret \in {answer.ret, "error"} : answer' = [answer EXCEPT !.op = "oper", !.ret = ret]
    /\ pc' = "closed" /\ mode' = "none" /\ view' = Nothing /\ asked' = Nothing
    /\ UNCHANGED <<backend, conf, file, disk, meant, ops>>

\* The program has ended.
Ended == pc = "exit" /\ UNCHANGED vars

Next ==
    \/ \E m \in {"read", "write", "load"} : Open(m)
    \/ Begin \/ Commit \/ Abort \/ Close \/ Foreach \/ OperEnds \/ Ended
    \/ \E k \in Keys : Read(k) \/ Delete(k)
    \/ \E k \in Keys \ {Version, Encoding}, spam, good \in Counts, date \in Dates :
          Write(k, Val(spam, good, date))

Spec == Init /\ [][Next]_vars

-----------------------------------------------------------------------------
(* Properties                                                              *)

TypeOK == /\ backend \in Backends /\ ops \in 0 .. MaxOps
          /\ pc \in {"closed", "open", "txn", "exit"}
          /\ mode \in {"none", "read", "write", "load"}
          /\ conf \in [timestamp_tokens : BOOLEAN, today : Dates, encoding : Counts]
          /\ file \in [present : BOOLEAN, order : Orders]
          /\ {disk, view} \subseteq [Keys -> Cells \cup {Absent}]
          /\ {asked, meant} \subseteq [Keys -> Numbers \cup {Absent}]

Says(val, m) == val = [f \in {"spam", "good", "date"} |-> Number(m[f])]

\* What is read is what was written last, wherever the file comes from, however old
\* its values are and whatever was undone in between.
Portable == Knows \/ file.order = "host"
ReadsMeant ==
    /\ answer.op = "read" /\ answer.ret = "ok" /\ Portable => Says(answer.val, asked[answer.key])
    /\ answer.op = "read" /\ answer.ret = "notfound" => asked[answer.key] = Absent

\* A walk that says it went well, on a store that tells, has given every value once.
WalkWhole ==
    answer.op = "walk" /\ answer.ret = "ok" /\ answer.ended = "whole" /\ Portable =>
        /\ {p[1] : p \in ToSet(answer.seen)} = {k \in Keys : asked[k] # Absent}
        /\ \A i \in DOMAIN answer.seen : Says(answer.seen[i][2], asked[answer.seen[i][1]])
        /\ \A i, j \in DOMAIN answer.seen : i # j => answer.seen[i][1] # answer.seen[j][1]

\* The numbers of a file are all in one byte order.
OneByteOrder ==
    Knows => InOneOrder(disk, file.order)

\* A deadlock leaves what was committed, and nothing else.
RetryRestores ==
    answer # NoAnswer /\ answer.ret = "retry" =>
        view = disk /\ \A k \in Keys : asked[k] = Meaning(disk[k])

\* The counts of a list from another machine are read as they are.  It fails for the
\* backends that do not know the byte order (db_is_swapped of datastore_tc.c and others).
CountsTravel ==
    answer.op = "read" /\ answer.ret = "ok" => Says(answer.val, asked[answer.key])

\* A walk that was cut short does not say it went well.  It fails for all but SQLite and
\* LMDB (datastore_db.c:1029, datastore_tc.c:369, datastore_kc.c:294, datastore_qdbm.c:305).
WalkTold == answer.op = "walk" /\ answer.ended # "whole" => answer.ret # "ok"

\* A list can be walked before it has words.  It fails for tc, kc and qdbm.
EmptyListWalked == answer.op = "walk" /\ answer.ended = "whole" => answer.ret = "ok"
=============================================================================
