------------------------ MODULE SerialRegistration -------------------------
(***************************************************************************)
(* What concurrent registrations promise: each one is applied to the       *)
(* wordlist once, completely and at one instant, or not at all.            *)
(***************************************************************************)
EXTENDS TokenCounts

CONSTANTS
    Proc,
    Job         \* what each process was started for

VARIABLES
    store,      \* the counts of every key
    applied     \* the processes whose registration is in the wordlist

vars == <<store, applied>>

Init ==
    /\ store \in [Key -> Count]
    /\ applied = {}

Register(p) ==
    /\ Registers(Job[p])
    /\ p \notin applied
    /\ applied' = applied \cup {p}
    /\ store' = Registered(Job[p], store)

Next == \E p \in Proc : Register(p)

Spec == Init /\ [][Next]_vars
=============================================================================
