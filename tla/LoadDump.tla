------------------------------ MODULE LoadDump ------------------------------
(***************************************************************************)
(* bogoutil -d and bogoutil -l (bogoutil.c): a wordlist is written as text,*)
(* one line for each key, and the text is read into another list, new or   *)
(* not, in one transaction.  Either command may fail on the way; the one   *)
(* that loads takes whatever text there is, as at the end of a pipe.       *)
(***************************************************************************)
EXTENDS Naturals, Sequences, SequencesExt, FiniteSets, FiniteSetsExt

CONSTANTS
    Order,          \* the keys in the order of the walk
    Replaced,       \* each key with "?" for its non-ascii characters (-n)
    MsgCount, Encoding, Version, Robx,      \* the keys that begin with "."
    Long,           \* the keys longer than the max_token_len of `opt'
    IntMax,         \* the largest int; counts go to twice that and one
    Today,          \* set_today, or the date given with -y
    Absent,
    Tasks           \* the two lists, and the options of both commands

Key == ToSet(Order)
Count == 0 .. 2 * IntMax + 1
Entry == [key : Key, spam : Count, good : Count, date : Nat]
List == [Key -> Entry \cup {Absent}]
Special == {MsgCount, Encoding, Version, Robx}

\* A walk comes to each key once, and a name that is made of another one has a "?".
LoadDumpAssumption ==
    /\ IntMax \in Nat /\ Today \in Nat \ {0}
    /\ Order \in Seq(Key) /\ IsInjective(Order)
    /\ Replaced \in [Key -> Key] /\ \A k \in Key : Replaced[Replaced[k]] = Replaced[k]
    /\ Special \subseteq Key /\ \A k \in Key : k \in Special \/ Replaced[k] \in Special => Replaced[k] = k
    /\ Long \subseteq Key /\ Absent \notin Entry
    /\ Tasks \subseteq [opt : [count : Nat, replace : BOOLEAN, max_token_len : BOOLEAN],
                        from : List, into : List]

VARIABLES
    pc,
    opt,        \* maintain with a threshold (-c), replace (-n), max_token_len
    list,       \* the list that is dumped
    pos,        \* the next key, the next line
    text,       \* the lines written
    whole,      \* the dump ended well
    target,     \* the list on disk that is loaded into
    view,       \* the same, in the transaction
    rv,         \* of load_wordlist
    before      \* history: the target as it was

vars == <<pc, opt, list, pos, text, whole, target, view, rv, before>>

Init ==
    /\ \E task \in Tasks : opt = task.opt /\ list = task.from /\ before = task.into
    /\ pc = "dump" /\ pos = 1 /\ text = <<>> /\ whole = TRUE
    /\ target = before /\ view = before /\ rv = 0

\* discard_token, with a threshold for the counts only
Discarded(k, v) ==
    /\ opt.count # 0
    /\ k \notin {MsgCount, Robx, Encoding}
    /\ v.spam <= opt.count /\ v.good <= opt.count

Name(k) == IF opt.replace THEN Replaced[k] ELSE k

-----------------------------------------------------------------------------
(* bogoutil -d                                                             *)

\* ds_dump_hook; a date of 0 is not written, and read as 0.
Dump ==
    /\ pc = "dump" /\ pos <= Len(Order)
    /\ LET k == Order[pos]
       IN text' = IF list[k] = Absent \/ Discarded(k, list[k]) THEN text
                  ELSE Append(text, [list[k] EXCEPT !.key = Name(k)])
    /\ pos' = pos + 1
    /\ UNCHANGED <<pc, opt, list, whole, target, view, rv, before>>

\* The output cannot be written, or a signal came (fDie).
DumpFails ==
    /\ pc = "dump" /\ pos <= Len(Order)
    /\ whole' = FALSE /\ pc' = "load" /\ pos' = 1
    /\ UNCHANGED <<opt, list, text, target, view, rv, before>>

DumpEnds ==
    /\ pc = "dump" /\ pos > Len(Order)
    /\ pc' = "load" /\ pos' = 1
    /\ UNCHANGED <<opt, list, text, whole, target, view, rv, before>>

-----------------------------------------------------------------------------
(* bogoutil -l                                                             *)

\* atoi into an int; a negative one is 0.
Atoi(n) == IF n > IntMax THEN 0 ELSE n

is_count(k) == k \notin {Version, Robx}

\* Mutant: the counts of the line replace those of the list.
LoadedReplacing(l) ==
    LET k == Name(l.key)
        v == [key |-> k, spam |-> Atoi(l.spam), good |-> Atoi(l.good),
              date |-> IF l.date = 0 THEN Today ELSE l.date]
    IN IF \/ opt.max_token_len /\ l.key \in Long
          \/ ~is_count(k) \/ Discarded(k, v)
       THEN view ELSE [view EXCEPT ![k] = v]

\* The list after a line: the counts are added to those that are there, and
\* the date of the line becomes that of the token (set_date, ds_write).
Loaded(l) ==
    LET k == Name(l.key)
        v == [key |-> k, spam |-> Atoi(l.spam), good |-> Atoi(l.good),
              date |-> IF l.date = 0 THEN Today ELSE l.date]
        Add(a, b) == (a + b) % (2 * IntMax + 2)
    IN IF \/ opt.max_token_len /\ l.key \in Long
          \/ ~is_count(k) \/ Discarded(k, v)
       THEN view
       ELSE [view EXCEPT ![k] =
                IF @ = Absent THEN v
                ELSE [v EXCEPT !.spam = Add(@, view[k].spam),
                               !.good = Add(@, view[k].good)]]

LoadLine ==
    /\ pc = "load" /\ rv # 2 /\ pos <= Len(text)
    /\ view' = Loaded(text[pos]) /\ pos' = pos + 1
    /\ UNCHANGED <<pc, opt, list, text, whole, target, rv, before>>

\* ds_read or ds_write fails: the loop goes on.
LineFails ==
    /\ pc = "load" /\ rv # 2 /\ pos <= Len(text)
    /\ rv' = 1 /\ pos' = pos + 1
    /\ UNCHANGED <<pc, opt, list, text, whole, target, view, before>>

\* fgets fails: the loop ends.
ReadFails ==
    /\ pc = "load" /\ rv # 2 /\ pos <= Len(text)
    /\ rv' = 2
    /\ UNCHANGED <<pc, opt, list, pos, text, whole, target, view, before>>

\* Abort after an error, or commit, which may fail.
LoadEnds ==
    /\ pc = "load" /\ (rv = 2 \/ pos > Len(text))
    /\ \/ rv = 0 /\ target' = view /\ pc' = "loaded"
       \/ target' = target /\ pc' = "failed"
    /\ UNCHANGED <<opt, list, pos, text, whole, view, rv, before>>

\* The process is killed; its transaction is undone.
Killed ==
    /\ pc = "load" /\ pc' = "failed"
    /\ UNCHANGED <<opt, list, pos, text, whole, target, view, rv, before>>

Next == \/ Dump \/ DumpFails \/ DumpEnds
        \/ LoadLine \/ LineFails \/ ReadFails \/ LoadEnds \/ Killed

Spec == Init /\ [][Next]_vars

-----------------------------------------------------------------------------
(* Properties                                                              *)

TypeOK == pc \in {"dump", "load", "loaded", "failed"} /\ rv \in {0, 1, 2}

\* What the lists held under the name k, discarded keys left out.
Kept(k) == {o \in Key : /\ list[o] # Absent /\ Name(o) = k /\ is_count(o)
                        /\ ~Discarded(o, list[o])
                        /\ ~(opt.max_token_len /\ (IF opt.replace THEN k ELSE o) \in Long)}
Spam(S) == MapThenSumSet(LAMBDA o : list[o].spam, S)
Good(S) == MapThenSumSet(LAMBDA o : list[o].good, S)

Counts(v) == IF v = Absent THEN <<0, 0>> ELSE <<v.spam, v.good>>
\* What is added up fits in a count, and is read as it was written.
Fits == \A k \in Key : /\ list[k] # Absent => list[k].spam <= IntMax /\ list[k].good <= IntMax
                       /\ Counts(before[k])[1] + Spam(Kept(k)) \in Count
                       /\ Counts(before[k])[2] + Good(Kept(k)) \in Count

\* A dump that is loaded gives every token and the message counts what they
\* had, in addition to what the list held before, and the date of a new token
\* is kept; after any failure the list is as it was (load_wordlist and
\* ds_dump_hook, bogoutil.c).
ListMoved ==
    /\ pc = "loaded" /\ whole /\ Fits =>
        \A k \in Key :
            LET kept == Kept(k)
            IN /\ Counts(target[k]) = <<Counts(before[k])[1] + Spam(kept),
                                        Counts(before[k])[2] + Good(kept)>>
               /\ kept # {} => target[k].date \in
                    {IF list[o].date = 0 THEN Today ELSE list[o].date : o \in kept}
    /\ pc # "loaded" \/ rv # 0 => target = before

\* Does not hold: the version is dumped and not loaded, and a list that is
\* made by loading gets none (is_count, datastore.c:162), so its addresses
\* are looked up under the prefix of the old versions (token.c:168).
VersionKept == pc = "loaded" /\ whole => target[Version] = list[Version]

\* Does not hold: the encoding is added up like a count.
EncodingIsOne ==
    pc = "loaded" /\ whole /\ list[Encoding] # Absent /\ before[Encoding] # Absent
        => target[Encoding].spam \in {list[Encoding].spam, before[Encoding].spam}

\* Does not hold: counts over IntMax are read as 0.
LargeCountsKept ==
    pc = "loaded" /\ whole /\ (\A k \in Key : before[k] = Absent)
        => \A k \in Key : target[k] # Absent /\ ~opt.replace
                            => Counts(target[k]) = Counts(list[k])
=============================================================================
