---------------------------- MODULE MessageLoop ----------------------------
(***************************************************************************)
(* The main loop of bogofilter (bogofilter.c, bogomain.c): for each        *)
(* message, collect its tokens, then register them at once (-p), keep them *)
(* for one registration at the end, or classify the message and register   *)
(* it by the result (-u); then commit, or abort when a signal came.        *)
(*                                                                         *)
(* The process has the wordlists to itself (Registration shows why), and   *)
(* the classifier may give any answer.                                     *)
(***************************************************************************)
EXTENDS TokenCounts, FiniteSets, Sequences

CONSTANTS
    Modes,          \* the option combinations validate_args lets through
    MaxMessages     \* bound on the messages of one input

MaxMessagesAssumption == MaxMessages \in Nat
\* The counts of a run have room in a wordlist that was empty: with 32 bits,
\* fewer than 2^16 messages, as -u may count each one with all before it.
RoomAssumption == Word \in Nat \ {0} /\ MaxMessages * MaxMessages < Word
\* -s, -n, -S, -N, -u, -p and -l; a mode that registers does not update.
ModesAssumption ==
    Modes \subseteq
        {m \in [incr : {"spam", "good", "none"}, decr : {"spam", "good", "none"},
                update : BOOLEAN, passthrough : BOOLEAN, logflag : BOOLEAN] :
            /\ m.incr # "none" => m.incr # m.decr
            /\ m.update => m.incr = "none" /\ m.decr = "none"}

VARIABLES
    mode,       \* the options, fixed for the run
    pc,
    disk,       \* the wordlist as committed
    db,         \* the wordlist as this process sees it in its transaction
    left,       \* the messages of the input that are not read yet
    w,          \* the tokens of the current message
    words,      \* the sum of the messages so far: freq of each token
    count,      \* words->count
    msgcount,
    fDie,
    history     \* the messages registered so far, with the counts they go to

vars == <<mode, pc, disk, db, left, w, words, count, msgcount, fDie, history>>

NoFreq == [t \in Token |-> 0]

RegisterOpt == mode.incr # "none" \/ mode.decr # "none"
RegisterBef == RegisterOpt /\ mode.passthrough
RegisterAft == (RegisterOpt /\ ~mode.passthrough) \/ mode.update
Classifies == mode.passthrough \/ ~RegisterOpt

\* The arguments of register_words for the tokens of one message.
JobOf(incr, decr, tokens, msgs) ==
    [incr |-> incr, decr |-> decr, msgs |-> msgs,
     freq |-> [t \in Token |-> IF t \in tokens THEN 1 ELSE 0]]

Init ==
    /\ mode \in Modes
    /\ pc = "more"
    /\ disk = [k \in Key |-> [spam |-> 0, good |-> 0]]
    /\ db = disk
    /\ left \in 0 .. MaxMessages
    /\ w = {}
    /\ words = NoFreq
    /\ count = 0
    /\ msgcount = 0
    /\ fDie = FALSE
    /\ history = <<>>

-----------------------------------------------------------------------------
(* One message *)
\* Mutant: the freq of a token is overwritten and not added to.
AccumulateOverwrites(tokens) ==
    IF RegisterAft
       THEN /\ words' = [t \in Token |-> IF t \in tokens THEN 1 ELSE words[t]]
            /\ count' = count + Cardinality(tokens)
                              + Cardinality({t \in tokens : words[t] = 0})
       ELSE UNCHANGED <<words, count>>

\* wordhash_add: every token of the message counts once more; the entries
\* that are new are counted twice in words->count.
Accumulate(tokens) ==
    IF RegisterAft
       THEN /\ words' = [t \in Token |-> IF t \in tokens THEN words[t] + 1
                                                         ELSE words[t]]
            /\ count' = count + Cardinality(tokens)
                              + Cardinality({t \in tokens : words[t] = 0})
       ELSE UNCHANGED <<words, count>>

Happened(incr, decr, tokens) ==
    history' = Append(history, [incr |-> incr, decr |-> decr, tokens |-> tokens])

\* collect_words; register_words for this message alone; wordhash_add.
ReadMessage ==
    /\ pc = "more"
    /\ left > 0
    /\ left' = left - 1
    /\ \E tokens \in SUBSET Token :
        /\ w' = tokens
        /\ db' = IF RegisterBef
                    THEN Registered(JobOf(mode.incr, mode.decr, tokens, 1), db)
                    ELSE db
        /\ Accumulate(tokens)
        /\ IF RegisterOpt THEN Happened(mode.incr, mode.decr, tokens)
                          ELSE UNCHANGED history
    /\ msgcount' = msgcount + 1
    /\ pc' = IF Classifies THEN "classify" ELSE "next"
    /\ UNCHANGED <<mode, disk, fDie>>

\* lookup_words, msg_status, and with -u the registration of a message that
\* is not unsure and not within thresh_update; write_log_message.
Classify ==
    /\ pc = "classify"
    /\ \/ /\ mode.update
          /\ \E ix \in {"spam", "good"} :
                /\ db' = Registered(JobOf(ix, "none", w, msgcount), db)
                /\ Happened(ix, "none", w)
       \/ UNCHANGED <<db, history>>
    /\ msgcount' = IF mode.logflag /\ ~RegisterOpt THEN 0 ELSE msgcount
    /\ pc' = "next"
    /\ UNCHANGED <<mode, disk, left, w, words, count, fDie>>

\* exit(EX_ERROR) when a signal came: bf_exit aborts the transaction.
NextMessage ==
    /\ pc = "next"
    /\ IF fDie THEN pc' = "died" /\ db' = disk
               ELSE pc' = "more" /\ UNCHANGED db
    /\ w' = {}
    /\ UNCHANGED <<mode, left, disk, words, count, msgcount, fDie, history>>

-----------------------------------------------------------------------------
(* The end of the input, and signals *)

\* The one registration of everything that was read.
EndOfInput ==
    /\ pc = "more"
    /\ left = 0
    /\ db' = IF RegisterAft /\ ~mode.update
                THEN Registered([incr |-> mode.incr, decr |-> mode.decr,
                                 freq |-> words, msgs |-> msgcount], db)
                ELSE db
    /\ pc' = "close"
    /\ UNCHANGED <<mode, disk, left, w, words, count, msgcount, fDie, history>>

\* close_wordlists(true)
CloseWordlists ==
    /\ pc = "close"
    /\ disk' = db
    /\ pc' = "done"
    /\ UNCHANGED <<mode, db, left, w, words, count, msgcount, fDie, history>>

\* mysigdie, the handler of SIGINT and SIGTERM, the first time.
Signal ==
    /\ pc \notin {"done", "died"}
    /\ ~fDie
    /\ fDie' = TRUE
    /\ UNCHANGED <<mode, pc, disk, db, left, w, words, count, msgcount, history>>

\* mysigdie the second time: exit from wherever the process is.
SecondSignal ==
    /\ pc \notin {"done", "died"}
    /\ fDie
    /\ pc' = "died"
    /\ db' = disk
    /\ UNCHANGED <<mode, disk, left, w, words, count, msgcount, fDie, history>>

Next ==
    \/ ReadMessage \/ Classify \/ NextMessage \/ EndOfInput \/ CloseWordlists
    \/ Signal \/ SecondSignal

Spec == Init /\ [][Next]_vars

-----------------------------------------------------------------------------
(* Properties *)

\* The messages registered as ix, of those that have the token.
RegisteredAs(ix) == {i \in DOMAIN history : history[i].incr = ix}
With(t) == {i \in DOMAIN history : t \in history[i].tokens}

\* The types of the variables; the wordlist stays one of 32-bit counts.
TypeOK ==
    /\ mode \in Modes
    /\ pc \in {"more", "classify", "next", "close", "done", "died"}
    /\ disk \in [Key -> Count]
    /\ db \in [Key -> Count]
    /\ left \in 0 .. MaxMessages
    /\ w \subseteq Token
    /\ words \in [Token -> 0 .. MaxMessages]
    /\ count \in Nat
    /\ msgcount \in 0 .. MaxMessages
    /\ fDie \in BOOLEAN
    /\ Len(history) <= MaxMessages

\* At the end of a run on an empty wordlist each token has been counted once
\* for each message it was registered with, whichever way the options take.
TokensCountedOnce ==
    pc = "done" /\ mode.decr = "none" =>
        \A t \in Token, ix \in {"spam", "good"} :
            disk[t][ix] = Cardinality(RegisteredAs(ix) \cap With(t))

\* Scoring divides the counts of a token by the number of messages: no token
\* is ever counted in more messages than there are.
TokensWithinMessages ==
    mode.decr = "none" =>
        \A t \in Token, ix \in {"spam", "good"} :
            /\ db[t][ix] <= db[MsgCount][ix]
            /\ disk[t][ix] <= disk[MsgCount][ix]

\* A run that is interrupted has registered nothing.
InterruptedRegistersNothing ==
    pc = "died" => \A k \in Key : disk[k] = [spam |-> 0, good |-> 0]

\* bogofilter.xml, of -u: "Effectively this option runs bogofilter with the
\* -s or -n flag": each message that is registered counts as one message.
UpdateCountsMessages ==
    pc = "done" /\ mode.update =>
        \A ix \in {"spam", "good"} :
            disk[MsgCount][ix] <= Cardinality(RegisteredAs(ix))

\* register.c: words->count is the "number of unique tokens".
CountIsUnique == count = Cardinality({t \in Token : words[t] > 0})
=============================================================================
