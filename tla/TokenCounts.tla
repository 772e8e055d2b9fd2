---------------------------- MODULE TokenCounts ----------------------------
(***************************************************************************)
(* The counts a wordlist keeps for a token and for ".MSG_COUNT", and what  *)
(* one call of register_words (register.c) adds to or takes from them.     *)
(***************************************************************************)
EXTENDS Naturals

CONSTANTS
    Token,      \* the tokens of messages
    MsgCount,   \* the key ".MSG_COUNT"
    Word        \* counts are unsigned integers modulo Word (2^32)

ASSUME MsgCountAssumption == MsgCount \notin Token
ASSUME WordAssumption == Word \in Nat \ {0}

Key == Token \cup {MsgCount}

Count == [spam : 0 .. Word - 1, good : 0 .. Word - 1]

\* The arguments of register_words. incr and decr come from -s, -n, -S and
\* -N; a process that only classifies has neither. freq is 0 for a token
\* that is not in the messages.
JobType ==
    [incr : {"spam", "good", "none"}, decr : {"spam", "good", "none"},
     freq : [Token -> 0 .. Word - 1], msgs : 0 .. Word - 1]

Tokens(job) == {t \in Token : job.freq[t] > 0}

\* What a registration adds to, or takes from, the counts of a key: a job
\* without tokens counts no messages.
Amount(job, k) ==
    IF k \in Token THEN job.freq[k]
    ELSE IF Tokens(job) = {} THEN 0 ELSE job.msgs

Added(n, amount) == (n + amount) % Word

Removed(n, amount) == IF n < amount THEN 0 ELSE n - amount

\* register_words increments first and decrements what that has given.
Updated(job, k, count) ==
    LET sum(ix) == IF job.incr = ix THEN Added(count[ix], Amount(job, k))
                                    ELSE count[ix]
        new(ix) == IF job.decr = ix THEN Removed(sum(ix), Amount(job, k))
                                    ELSE sum(ix)
    IN  [spam |-> new("spam"), good |-> new("good")]

\* open_wordlists is called with DS_WRITE unless the run type is RUN_NORMAL.
Registers(job) == job.incr # "none" \/ job.decr # "none"

\* The keys a job reads, and writes when it registers.
Keys(job) == Tokens(job) \cup {MsgCount}

\* The wordlist after the whole job.
Registered(job, store) ==
    [k \in Key |-> IF k \in Keys(job) THEN Updated(job, k, store[k])
                                      ELSE store[k]]
=============================================================================
