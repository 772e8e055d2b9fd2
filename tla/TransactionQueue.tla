-------------------------- MODULE TransactionQueue --------------------------
(***************************************************************************)
(* The queue of operations of transaction.c: what bogoutil -m is going to  *)
(* do to a wordlist while it still walks through it.                       *)
(***************************************************************************)
EXTENDS Naturals, Sequences

CONSTANTS
    Word,       \* the keys of the wordlist
    Value,      \* what it holds for a key
    Absent      \* what it holds for a key that it does not have

ASSUME AbsentAssumption == Absent \notin Value

Contents == [Word -> Value \cup {Absent}]

\* An item of the queue writes a value, or deletes: writes Absent.
Item == [word : Word, val : Value \cup {Absent}]

Deletion(t) == [word |-> t, val |-> Absent]
Writing(t, v) == [word |-> t, val |-> v]

Places(queue, t) == {i \in DOMAIN queue : queue[i].word = t}

Last(queue, t) ==
    CHOOSE i \in Places(queue, t) : \A j \in Places(queue, t) : j <= i

\* ta_read: the last item of the queue for the key, or the wordlist.
TaRead(store, queue, t) ==
    IF Places(queue, t) = {} THEN store[t] ELSE queue[Last(queue, t)].val

\* ds_write or ds_delete for an item of the queue.
Applied(store, item) == [store EXCEPT ![item.word] = item.val]
=============================================================================
