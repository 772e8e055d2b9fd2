---------------------------- MODULE DirectStore ----------------------------
(***************************************************************************)
(* What transaction.c promises: a transaction reads what it has written,   *)
(* and all that it has written reaches the wordlist, or nothing.           *)
(***************************************************************************)
CONSTANTS Word, Value, Absent

VARIABLES
    open,       \* there is a transaction
    asked,      \* the last operation it was asked for
    contents,   \* the wordlist as the transaction reads it
    committed   \* the wordlist as it stays

vars == <<open, asked, contents, committed>>

Init ==
    /\ open = FALSE
    /\ asked = Absent
    /\ committed \in [Word -> Value \cup {Absent}]
    /\ contents = committed

Begin == ~open /\ open' = TRUE /\ UNCHANGED <<asked, contents, committed>>

Update(t, v) ==
    /\ open
    /\ asked' = [word |-> t, val |-> v]
    /\ contents' = [contents EXCEPT ![t] = v]
    /\ UNCHANGED <<open, committed>>

Commit ==
    /\ open
    /\ open' = FALSE
    /\ committed' = contents
    /\ UNCHANGED <<asked, contents>>

Rollback ==
    /\ open
    /\ open' = FALSE
    /\ contents' = committed
    /\ UNCHANGED <<asked, committed>>

Next ==
    \/ Begin \/ Commit \/ Rollback
    \/ \E t \in Word, v \in Value \cup {Absent} : Update(t, v)

Spec == Init /\ [][Next]_vars
=============================================================================
