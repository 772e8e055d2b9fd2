------------------------------- MODULE Tuning -------------------------------
(***************************************************************************)
(* How bogotune reads its messages and divides them (bogotune.c, the       *)
(* conversions of wordhash.c): mails become lists of pointers to the       *)
(* counts in the training table, which grow while the training messages    *)
(* are added; when all are divided, the scoring messages become copies of  *)
(* the counts.  What is then done with the scores is in ParameterScan.     *)
(*                                                                         *)
(* The files of a run are all of mails or all of message counts.  If they  *)
(* are mixed, a message count file sets msgs_good and msgs_bad for all     *)
(* (msgcounts.c:75), and its last file decides whether there is training   *)
(* (bogotune.c:807, :828); that is not modelled.                           *)
(***************************************************************************)
EXTENDS Naturals, Sequences, SequencesExt, FiniteSets, FiniteSetsExt

CONSTANTS
    Word,
    Inputs,         \* what bogotune may be started on: records of the fields
                    \* of `job', with the tokens of each message
    ListCount,      \* messages the training needs (LIST_COUNT)
    TestCount       \* messages the scoring needs (TEST_COUNT)

Classes == <<"good", "spam">>   \* ham is read, and divided, first

TuningAssumption ==
    /\ TestCount \in Nat /\ TestCount > 0
    /\ ListCount \in Nat /\ ListCount > TestCount /\ ListCount % TestCount = 0
    /\ \A j \in Inputs : /\ j.ds_flag \in {"DSK", "RAM"}
                         /\ j.mails \in [ToSet(Classes) -> Seq(SUBSET Word)]
                         /\ j.lex \in Seq(SUBSET Word)

VARIABLES
    job,        \* ds_flag ("DSK", "RAM"), user_robx (whether -r was given),
                \* wordlist (its counts, if it can be loaded), kind ("mail" or
                \* "counts" files), mails (the messages of each class), lex
                \* (the messages to convert, with -M), lists (files of both
                \* classes are given)
    pc,
    class,      \* the class that is read or divided, 1 or 2
    item,       \* the number of the next message of the class
    train,      \* the counts of the tokens of the training table
    msgs,       \* msgs_good and msgs_bad
    list,       \* the messages read, ns_msglists->msgs and sp_msglists->msgs
    sets,       \* the messages to score, by class
    written,    \* the message count file, a record per message
    trained     \* history: the messages trained on, by class

vars == <<job, pc, class, item, train, msgs, list, sets, written, trained>>

Zero == [good |-> 0, spam |-> 0]
NoMessages == [c \in ToSet(Classes) |-> <<>>]
C == Classes[class]

NoCounts == [t \in Word |-> Zero]

Init ==
    /\ job \in Inputs
    /\ pc = "load" /\ class = 1 /\ item = 1
    /\ train = NoCounts /\ msgs = Zero
    /\ list = NoMessages /\ sets = NoMessages /\ written = <<>>
    /\ trained = [c \in ToSet(Classes) |-> {}]

\* Message counts are made from a list on disk, for files of one class at most.
check_msgcount_parms == job.ds_flag = "DSK" /\ ~job.lists

\* main and load_hook: a list on disk must be there and in one encoding.
LoadWordlist ==
    /\ pc = "load"
    /\ IF job.ds_flag = "RAM" THEN UNCHANGED <<train, msgs>>
       ELSE IF job.wordlist.loads THEN train' = job.wordlist.count /\ msgs' = job.wordlist.msgs
       ELSE UNCHANGED <<train, msgs>>
    /\ pc' = IF job.ds_flag = "DSK" /\ ~job.wordlist.loads THEN "exit"
             ELSE IF job.lex = <<>> THEN "read"
             ELSE IF check_msgcount_parms THEN "convert to counts" ELSE "exit"
    /\ UNCHANGED <<job, class, item, list, sets, written, trained>>

\* set_train_msg_counts: asked of a list whose message counts are both 0, and
\* then ends the program.
Countless == job.ds_flag = "DSK" /\ msgs = Zero

\* What becomes of a message that is read: of a mail, pointers to the counts
\* of its tokens in `train' (convert_wordhash_to_propslist); of a message
\* count file, the counts it holds itself.
MessageOf(i) ==
    IF job.kind = "mail"
    THEN [id |-> i, type |-> "props", words |-> job.mails[C][i], cnts |-> <<>>]
    ELSE [id |-> i, type |-> "cnts", words |-> {},
          cnts |-> [t \in job.mails[C][i] |-> [good |-> i, spam |-> class]]]

msglist_add(l, m) == Append(l, m)

\* write_msgcount_file: the counts of the training table, 0 for a token that
\* it does not have.
MsgcountOf(words) == [msgs |-> msgs, count |-> [t \in words |-> train[t]]]

\* bogolex and read_mailbox
ConvertMessage ==
    /\ pc = "convert to counts"
    /\ IF item > Len(job.lex) THEN pc' = "end" /\ UNCHANGED <<item, written>>
       ELSE IF Countless THEN pc' = "exit" /\ UNCHANGED <<item, written>>
       ELSE /\ written' = Append(written, MsgcountOf(job.lex[item]))
            /\ item' = item + 1 /\ UNCHANGED pc
    /\ UNCHANGED <<job, class, train, msgs, list, sets, trained>>

\* read_mailbox; a message without tokens is not kept.
ReadMessage ==
    /\ pc = "read" /\ item <= Len(job.mails[C])
    /\ IF Countless THEN pc' = "exit" /\ UNCHANGED <<item, list>>
       ELSE /\ list' = IF job.mails[C][item] = {} THEN list
                       ELSE [list EXCEPT ![C] = msglist_add(@, MessageOf(item))]
            /\ item' = item + 1 /\ UNCHANGED pc
    /\ UNCHANGED <<job, class, train, msgs, sets, written, trained>>

\* To the other class, or on to the next step for both.
EndOfClass(next) ==
    /\ item' = 1 /\ class' = 3 - class
    /\ pc' = IF class = 1 THEN pc ELSE next

\* filelist_read
EndOfFiles ==
    /\ pc = "read" /\ item > Len(job.mails[C])
    /\ EndOfClass("divide")
    /\ UNCHANGED <<job, train, msgs, list, sets, written, trained>>

-----------------------------------------------------------------------------
(* distribute                                                              *)

divvy == job.ds_flag = "RAM" /\ ~job.user_robx /\ job.kind = "mail"

\* scale: from ListCount / TestCount for few messages down to 1 for many, as
\* a fraction over ListCount - TestCount.
RatioTimes(n) ==
    LET most == ListCount \div TestCount
        range == ListCount - TestCount
    IN IF n < ListCount + TestCount THEN most * range
       ELSE IF n > 2 * ListCount THEN range
       ELSE most * range - (most - 1) * (n - ListCount - TestCount)

\* Is the next message one to train on?
ToTrain ==
    divvy /\ Cardinality(trained[C]) * (ListCount - TestCount)
               < RatioTimes(Len(list[C])) * (Len(sets[C]) + 1)

\* wordhash_set_counts on pointers to the counts; the wordhash_add behind it
\* finds no key in a list of pointers and adds nothing.
Train(m) ==
    /\ train' = [t \in Word |-> IF t \in m.words THEN [train[t] EXCEPT ![C] = @ + 1]
                                                 ELSE train[t]]
    /\ trained' = [trained EXCEPT ![C] = @ \cup {m.id}]
    /\ UNCHANGED sets

Divide ==
    /\ pc = "divide" /\ item <= Len(list[C])
    /\ LET m == list[C][item]
       IN IF ToTrain THEN Train(m)
          ELSE sets' = [sets EXCEPT ![C] = msglist_add(@, m)] /\ UNCHANGED <<train, trained>>
    /\ item' = item + 1
    /\ UNCHANGED <<job, pc, class, msgs, list, written>>

\* convert_propslist_to_countlist
Countlist(m) ==
    IF m.type = "cnts" THEN m
    ELSE [m EXCEPT !.type = "cnts", !.cnts = [t \in m.words |-> train[t]]]

EndOfDivision ==
    /\ pc = "divide" /\ item > Len(list[C])
    /\ msgs' = IF divvy THEN [c \in ToSet(Classes) |-> Cardinality(trained[c])] ELSE msgs
    /\ EndOfClass("convert")
    /\ UNCHANGED <<job, train, list, sets, written, trained>>

\* create_countlists, for the ham and then for the spam
CreateCountlists ==
    /\ pc = "convert"
    /\ sets' = [sets EXCEPT ![C] = [k \in DOMAIN @ |-> Countlist(@[k])]]
    /\ EndOfClass("check")
    /\ UNCHANGED <<job, train, msgs, list, written, trained>>

count_messages(c) == Len(sets[c])

\* check_msg_counts, for a wordlist on disk only: it needs a ratio between
\* 0.1 and 10, and both enough messages and enough of them in the list.
CheckMsgCounts ==
    /\ pc = "check"
    /\ LET enough == /\ \A c \in ToSet(Classes) :
                          msgs[c] >= ListCount /\ count_messages(c) >= TestCount
                     /\ msgs.good <= 10 * msgs.spam /\ msgs.spam <= 10 * msgs.good
       IN pc' = IF job.ds_flag = "DSK" /\ ~enough THEN "exit" ELSE "score"
    /\ UNCHANGED <<job, class, item, train, msgs, list, sets, written, trained>>

Next == \/ LoadWordlist \/ ConvertMessage \/ ReadMessage \/ EndOfFiles \/ Divide \/ EndOfDivision
        \/ CreateCountlists \/ CheckMsgCounts

Spec == Init /\ [][Next]_vars

-----------------------------------------------------------------------------
(* Properties                                                              *)

TypeOK ==
    /\ pc \in {"load", "convert to counts", "end", "read", "divide", "convert", "check", "exit", "score"}
    /\ class \in {1, 2}
    /\ \A c \in ToSet(Classes) : Len(list[c]) <= Len(job.mails[c])

Scored(c) == {m.id : m \in ToSet(sets[c])}

\* How many of the messages of class c that were trained on have the token.
TrainedWith(t, c) == Cardinality({i \in trained[c] : t \in job.mails[c][i]})

\* A message is scored with what the training messages of both classes say of
\* its tokens, or with what the wordlist says, and with nothing of itself or
\* of another message that is scored, although all of them share the counts
\* until they are copied (distribute and create_countlists in bogotune.c).
ScoredByTraining ==
    pc = "score" =>
        \A c \in ToSet(Classes) :
            /\ Scored(c) \cap trained[c] = {}
            /\ Scored(c) \cup trained[c]
                 = {i \in DOMAIN job.mails[c] : job.mails[c][i] # {}}
            /\ job.kind = "mail" =>
                 \A m \in ToSet(sets[c]) : \A t \in m.words :
                    m.cnts[t] = IF job.ds_flag = "DSK" THEN job.wordlist.count[t]
                                ELSE [d \in ToSet(Classes) |-> TrainedWith(t, d)]

\* A message count file says of every token of a mail, and of the messages, what
\* the wordlist says, so that it scores like the mail (write_msgcount_file).
CountsAsInMail ==
    pc = "end" =>
        /\ Len(written) = Len(job.lex)
        /\ \A i \in DOMAIN written :
            /\ written[i].msgs = job.wordlist.msgs
            /\ written[i].count = [t \in job.lex[i] |-> job.wordlist.count[t]]

\* Of enough messages, enough are trained on and enough are scored: "there
\* must be 2500" for 2000 and 500 (doc/bogotune.xml, distribute).
EnoughOfBoth ==
    pc = "score" /\ divvy =>
        \A c \in ToSet(Classes) : Len(list[c]) >= ListCount + TestCount =>
            /\ Cardinality(trained[c]) >= ListCount
            /\ Len(sets[c]) >= TestCount

\* Does not hold: with -D and -r no message is trained on, and the rest is
\* scored with counts of 0 (line 828).
MemoryListTrained ==
    pc = "score" /\ job.ds_flag = "RAM" /\ job.kind = "mail"
        => \A c \in ToSet(Classes) : list[c] # <<>> => trained[c] # {}

\* Does not hold: without a wordlist on disk nobody asks whether there are
\* enough messages, and the first score of no messages is read (line 378).
SomethingToScore == pc = "score" => \A c \in ToSet(Classes) : sets[c] # <<>>
=============================================================================
