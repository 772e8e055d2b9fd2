-------------------------- MODULE TokenTransaction --------------------------
(***************************************************************************)
(* transaction.c: operations are queued, reads search the queue from its   *)
(* end, and the commit applies the queue to the wordlist item by item.     *)
(***************************************************************************)
EXTENDS TransactionQueue

CONSTANT MaxQueue   \* bound on the operations of a transaction

ASSUME MaxQueueAssumption == MaxQueue \in Nat

VARIABLES
    pc,         \* "none", "open" or "flushing"
    store,      \* the wordlist
    queue,      \* ta->head to ta->last
    asked       \* history: the last call of ta_write or ta_delete

vars == <<pc, store, queue, asked>>

Init ==
    /\ pc = "none"
    /\ store \in Contents
    /\ queue = <<>>
    /\ asked = Absent

TaInit == pc = "none" /\ pc' = "open" /\ UNCHANGED <<store, queue, asked>>

\* Mutant: the new item is put at the head.
TaAddAtHead(item) ==
    /\ pc = "open"
    /\ Len(queue) < MaxQueue
    /\ queue' = <<item>> \o queue
    /\ asked' = item
    /\ UNCHANGED <<pc, store>>

\* ta_delete and ta_write.
TaAdd(item) ==
    /\ pc = "open"
    /\ Len(queue) < MaxQueue
    /\ queue' = Append(queue, item)
    /\ asked' = item
    /\ UNCHANGED <<pc, store>>

TaCommit == pc = "open" /\ pc' = "flushing" /\ UNCHANGED <<store, queue, asked>>

\* ta_flush(ta, true): one round of its loop, and its end.
Flush ==
    /\ pc = "flushing"
    /\ \/ /\ queue # <<>>
          /\ store' = Applied(store, Head(queue))
          /\ queue' = Tail(queue)
          /\ UNCHANGED <<pc, asked>>
       \/ /\ queue = <<>>
          /\ pc' = "none"
          /\ UNCHANGED <<store, queue, asked>>

\* ta_flush(ta, false)
TaRollback ==
    /\ pc = "open"
    /\ pc' = "none"
    /\ queue' = <<>>
    /\ UNCHANGED <<store, asked>>

Next ==
    \/ TaInit \/ TaCommit \/ Flush \/ TaRollback
    \/ \E item \in Item : TaAdd(item)

Spec == Init /\ [][Next]_vars

-----------------------------------------------------------------------------
(* Properties *)

\* The wordlist as ta_read gives it.
View == [t \in Word |-> TaRead(store, queue, t)]

\* The types of the variables; nothing is queued without a transaction.
TypeOK ==
    /\ pc \in {"none", "open", "flushing"}
    /\ store \in Contents
    /\ queue \in Seq(Item)
    /\ asked \in Item \cup {Absent}
    /\ pc = "none" => queue = <<>>

\* Reads see the writes before them, each round of ta_flush included, and a
\* commit leaves in the wordlist what the transaction would have read.
Direct ==
    INSTANCE DirectStore WITH
        asked <- asked,
        open <- pc = "open",
        contents <- View,
        committed <- IF pc = "flushing" THEN View ELSE store

ReadsOwnWrites == Direct!Spec
=============================================================================
