---------------------------- MODULE Maintenance ----------------------------
(***************************************************************************)
(* bogoutil -m and -u (maint.c): walk through a wordlist, discard tokens,  *)
(* convert others and merge their counts, all through the queue of         *)
(* transaction.c, then apply the queue.                                    *)
(*                                                                         *)
(* The process has the wordlist to itself. The walk is in the order of the *)
(* bytes of the keys, and sees the wordlist as it was: writes are queued.  *)
(***************************************************************************)
EXTENDS TransactionQueue, FiniteSetsExt

CONSTANTS
    MsgCount,       \* ".MSG_COUNT"
    Version,        \* ".WORDLIST_VERSION"
    Order,          \* the keys in the order of their bytes
    Replaced,       \* each key with "?" for its non-ascii characters
    FromRaw,        \* each key, converted from the default charset to utf-8
    ToRaw,          \* and back
    Prefixed,       \* each key with "ip:" for its "url:"
    OutOfSize,      \* the keys that -s min,max does not keep
    CurrentVersion, \* the value of an upgraded list, 20040500
    Tasks           \* command lines, each with a wordlist it is used on

EncodingKind == {"unknown", "raw", "unicode"}

SpecialKeysAssumption ==
    \A f \in {Replaced, FromRaw, ToRaw, Prefixed} :
        f \in [Word -> Word] /\ f[MsgCount] = MsgCount /\ f[Version] = Version
Option ==
    [count : Nat, age : Nat, size : BOOLEAN, replace : BOOLEAN,
     encoding : EncodingKind, upgrade : BOOLEAN]

Counts == [spam : Nat, good : Nat, date : Nat]

\* A wordlist, and its ".ENCODING".
IsWordlist(list) ==
    /\ list.store \in [Word -> Value \cup {Absent}]
    /\ list.enc \in EncodingKind \cup {"none"}

TasksAssumption == \A task \in Tasks : task.opt \in Option /\ IsWordlist(task.list)
ValueAssumption == Value \subseteq Counts /\ Absent \notin Counts
OrderAssumption ==
    /\ Order \in Seq(Word) /\ {Order[i] : i \in DOMAIN Order} = Word
    /\ \A i, j \in DOMAIN Order : Order[i] = Order[j] => i = j

VARIABLES
    pc,
    opt,        \* the command line
    store,      \* the wordlist, without ".ENCODING"
    enc,        \* ".ENCODING", or "none"
    old,        \* old_encoding
    cursor,     \* the place of the walk in Order
    queue,      \* the operations to be done
    ret,
    before      \* history: the wordlist and its encoding at the start

vars == <<pc, opt, store, enc, old, cursor, queue, ret, before>>

\* A list without encoding is raw.
OldEncoding(list) == IF list.enc = "none" THEN "raw" ELSE list.enc

\* maintain_wordlist before the walk.
Init ==
    /\ pc = "walk"
    /\ \E task \in Tasks : opt = task.opt /\ before = task.list
    /\ store = before.store
    /\ enc = before.enc
    /\ old = OldEncoding(before)
    /\ cursor = 1
    /\ queue = <<>>
    /\ ret = "EX_OK"

-----------------------------------------------------------------------------
(* What is done to a key *)

\* discard_token, with the command line o: only if all the constraints of the
\* user are satisfied.
DiscardToken(o, t, val) ==
    /\ t # MsgCount
    /\ o.count # 0 \/ o.age # 0 \/ o.size
    /\ o.count # 0 => val.spam <= o.count /\ val.good <= o.count
    /\ o.age # 0 => val.date <= o.age
    /\ o.size => t \in OutOfSize

Sum(a, b) ==
    [spam |-> a.spam + b.spam, good |-> a.good + b.good,
     date |-> Max({a.date, b.date})]

\* Mutant: a token is merged with itself.
MergeTokensAlways(q, t, new, val) ==
    LET deleted == Append(q, Deletion(t))
        found == TaRead(store, deleted, new)
    IN  Append(deleted, Writing(new, IF found = Absent THEN val
                                     ELSE Sum(found, val)))

\* merge_tokens: delete the one, add its counts to the other.
MergeTokens(q, t, new, val) ==
    IF t = new THEN q
    ELSE LET deleted == Append(q, Deletion(t))
             found == TaRead(store, deleted, new)
         IN  Append(deleted, Writing(new, IF found = Absent THEN val
                                          ELSE Sum(found, val)))

\* replace_token: whatever the other token holds is overwritten.
ReplaceToken(q, t, new, val) ==
    IF t = new THEN q ELSE q \o <<Deletion(t), Writing(new, val)>>

\* iconvert, set up with DEFAULT_OR_UNICODE of both encodings.
Recoded(o, from, t) ==
    CASE from = "raw" /\ o.encoding # "raw" -> FromRaw[t]
      [] from # "raw" /\ o.encoding = "raw" -> ToRaw[t]
      [] OTHER -> t

\* maintain_hook for a key that the walk comes to.
Hook(t, val) ==
    IF t = MsgCount THEN queue
    ELSE IF DiscardToken(opt, t, val) THEN Append(queue, Deletion(t))
    ELSE LET replaced == IF opt.replace
                            THEN MergeTokens(queue, t, Replaced[t], val)
                            ELSE queue
             recoded == MergeTokens(replaced, t, Recoded(opt, old, t), val)
         IN  IF opt.upgrade THEN ReplaceToken(recoded, t, Prefixed[t], val)
                            ELSE recoded

-----------------------------------------------------------------------------
\* ds_foreach: the next key, if the wordlist has it.
Walk ==
    /\ pc = "walk"
    /\ cursor <= Len(Order)
    /\ cursor' = cursor + 1
    /\ LET t == Order[cursor]
       IN  queue' = IF store[t] = Absent THEN queue ELSE Hook(t, store[t])
    /\ UNCHANGED <<pc, opt, store, enc, old, ret, before>>

Current == store[Version] # Absent /\ store[Version].spam >= CurrentVersion

\* Version and encoding are written to the wordlist, past the queue.
EndOfWalk ==
    /\ pc = "walk"
    /\ cursor > Len(Order)
    /\ pc' = "flush"
    /\ store' = IF opt.upgrade /\ ~Current
                   THEN [store EXCEPT ![Version] =
                            [spam |-> CurrentVersion, good |-> 0, date |-> 0]]
                   ELSE store
    /\ enc' = IF old # opt.encoding THEN opt.encoding ELSE enc
    /\ UNCHANGED <<opt, old, cursor, queue, ret, before>>

\* Mutant: the queue is applied from its end.
FlushFromEnd ==
    /\ pc = "flush"
    /\ queue # <<>>
    /\ store' = Applied(store, queue[Len(queue)])
    /\ queue' = SubSeq(queue, 1, Len(queue) - 1)
    /\ UNCHANGED <<pc, opt, enc, old, cursor, ret, before>>

\* ta_flush: deleting what is not there is an error, and the loop goes on.
Flush ==
    /\ pc = "flush"
    /\ queue # <<>>
    /\ LET item == Head(queue)
       IN  /\ store' = Applied(store, item)
           /\ ret' = IF item.val = Absent /\ store[item.word] = Absent
                        THEN "EX_ERROR" ELSE ret
    /\ queue' = Tail(queue)
    /\ UNCHANGED <<pc, opt, enc, old, cursor, before>>

\* ds_txn_commit, whatever ta_commit has returned.
Commit ==
    /\ pc = "flush"
    /\ queue = <<>>
    /\ pc' = "done"
    /\ UNCHANGED <<opt, store, enc, old, cursor, queue, ret, before>>

Next == Walk \/ EndOfWalk \/ Flush \/ Commit

Spec == Init /\ [][Next]_vars

-----------------------------------------------------------------------------
(* Properties *)

\* The types of the variables.
TypeOK ==
    /\ pc \in {"walk", "flush", "done"}
    /\ \E task \in Tasks : opt = task.opt /\ before = task.list
    /\ \A t \in Word : store[t] # Absent =>
            store[t] \in [spam : Nat, good : Nat, date : Nat]
    /\ enc \in EncodingKind \cup {"none"}
    /\ old \in EncodingKind
    /\ cursor \in 1 .. Len(Order) + 1
    /\ \A i \in DOMAIN queue : queue[i].word \in Word
    /\ ret \in {"EX_OK", "EX_ERROR"}

\* What becomes of a token that is kept, and the tokens that become it.
Target(o, from, t) ==
    IF o.replace THEN Replaced[t]
    ELSE IF o.upgrade THEN Prefixed[t] ELSE Recoded(o, from, t)
Kept(o, list) ==
    {t \in Word : list.store[t] # Absent /\ ~DiscardToken(o, t, list.store[t])}
Sources(t) == {u \in Kept(opt, before) : Target(opt, old, u) = t}

Combined(S) ==
    [spam |-> MapThenSumSet(LAMBDA t : before.store[t].spam, S),
     good |-> MapThenSumSet(LAMBDA t : before.store[t].good, S),
     date |-> Max({before.store[t].date : t \in S})]

\* bogoutil.xml: "matching tokens will be combined"; and no other count is
\* changed or lost, and what is discarded does not come back.
KeptAreCombined ==
    pc = "done" =>
        \A t \in Word \ {Version} :
            store[t] = IF Sources(t) = {} THEN Absent ELSE Combined(Sources(t))

\* Where that is so: one conversion is asked for, and a token that others are
\* to become stays what it is, or the walk has come to it before it comes to
\* them. -u, which overwrites, is for a list without such tokens.
Stays(o, list, t) == t \in Kept(o, list) /\ Target(o, OldEncoding(list), t) = t
WalkedBefore(t, u) ==
    \E i, j \in DOMAIN Order : i < j /\ Order[i] = t /\ Order[j] = u
Moves(o, list, t, u) ==
    t \in Kept(o, list) /\ Target(o, OldEncoding(list), t) = u /\ u # t
Regular(o, list) ==
    /\ o.replace => ~o.upgrade
    /\ o.replace \/ o.upgrade =>
        \A t \in Kept(o, list) : Recoded(o, OldEncoding(list), t) = t
    /\ \A t, u \in Word :
        Moves(o, list, t, u) /\ list.store[u] # Absent =>
            Stays(o, list, u) \/ WalkedBefore(u, t)
    /\ o.upgrade =>
        \A t, u \in Word :
            Moves(o, list, t, u) =>
                /\ ~Stays(o, list, u)
                /\ \A v \in Kept(o, list) : Target(o, OldEncoding(list), v) = u => v = t
RegularTasks == \A task \in Tasks : Regular(task.opt, task.list)

\* No key is deleted that the wordlist does not have.
NeverFails == ret = "EX_OK"

\* While the queue is applied the wordlist, as ta_read gives it, does not
\* change: what the walk has decided is what is done.
FlushIsSilent ==
    [][pc = "flush" =>
        \A t \in Word : TaRead(store', queue', t) = TaRead(store, queue, t)]_vars

\* A list that was to be converted says so.
EncodingMarked ==
    pc = "done" /\ opt.encoding # "unknown" =>
        \/ enc = opt.encoding
        \/ enc = "none" /\ opt.encoding = "raw"

\* NEWS.0: 'bogoutil uses "--unicode=yes/no" in maintenance mode to convert
\* a wordlist to/from unicode': without it nothing is converted.
EncodingKept ==
    pc = "done" /\ opt.encoding = "unknown" => enc = before.enc

\* maint.c, of a list that was upgraded: "up-to-date - nothing to do".
UpgradedOnce ==
    pc = "done" /\ before.store[Version] # Absent => store = before.store
=============================================================================
