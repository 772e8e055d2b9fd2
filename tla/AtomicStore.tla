----------------------------- MODULE AtomicStore -----------------------------
(***************************************************************************)
(* What datastore.h promises of every store with transactions: between     *)
(* ds_txn_begin and ds_txn_commit the values a process sets and the words  *)
(* it deletes reach the store together or not at all, the last one asked   *)
(* for a word counts, and nothing else changes the store.                  *)
(***************************************************************************)
CONSTANTS Proc, Word, Value, Absent, Same
VARIABLES store,   \* the word list: every word's value, or Absent
          asked    \* what each process asked for in its transaction

avars == <<store, asked>>

Nothing == [w \in Word |-> Same]

Overlay(s, a) == [w \in Word |-> IF a[w] = Same THEN s[w] ELSE a[w]]

AInit == store = [w \in Word |-> Absent] /\ asked = [p \in Proc |-> Nothing]

Ask(p) == /\ UNCHANGED store
          /\ \E w \in Word : LET v == asked'[p][w]
                             IN  /\ v \in Value \cup {Absent}
                                 /\ asked' = [asked EXCEPT ![p][w] = v]

Keep(p) == /\ store' = Overlay(store, asked[p])
           /\ asked' = [asked EXCEPT ![p] = Nothing]

Discard(p) == asked' = [asked EXCEPT ![p] = Nothing] /\ UNCHANGED store

ANext == \E p \in Proc : Ask(p) \/ Keep(p) \/ Discard(p)

ASpec == AInit /\ [][ANext]_avars
=============================================================================
