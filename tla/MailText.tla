------------------------------ MODULE MailText ------------------------------
(***************************************************************************)
(* The way of a mail through bogofilter: reader__next_mail finds it,       *)
(* yy_get_new_line of the lexer takes its lines and drops the header that  *)
(* an earlier run of bogofilter has put there, the text block keeps the    *)
(* others, and write_message (passthrough.c, -p) writes them out with the  *)
(* new header.                                                             *)
(*                                                                         *)
(* The text is plain (Mime has the parts), and one message is written      *)
(* before the next is read.                                                *)
(***************************************************************************)
EXTENDS Naturals, Sequences, FiniteSets, SequencesExt

CONSTANTS
    None,
    EOF,
    Cases,      \* the option combinations
    Files(_)    \* the files each of them is tried on

ASSUME CasesAssumption ==
    \A c \in Cases :
        /\ c.mbox_mode \in BOOLEAN /\ c.passthrough \in BOOLEAN
        /\ c.tag \in BOOLEAN       \* the subject tag of the status is set
        /\ c.placed \in BOOLEAN    \* spam_header_place is set
        /\ c.stores \in Nat

-----------------------------------------------------------------------------
(* The readers (bogoreader.c over buff.c and fgetsl.c): the files named on *)
(* the command line are opened one after the other, and each is cut into   *)
(* mails by the reader its first byte selects.  What the readers remember  *)
(* between two calls is static: it outlives the mail, and the file.        *)
(* Standard input is the case of a single file.  Directories are in        *)
(* Maildir.                                                                *)

\* A line: its kind, the separator whose first byte it has (or None), what
\* the length field of an rmail separator says, in lines, and whether a
\* newline ends it.  The last line of a file may lack its newline.
Kinds == {"From", "count", "rmail", "ant", "dot", "blank", "space", "fold",
          "spam", "subject", "place", "text"}
Separators == {"From", "count", "rmail", "ant"}
Line == [k : Kinds, c : Separators \cup {None}, n : Nat, nl : BOOLEAN]

\* None and EOF are not among what they are told from.
ASSUME MarkersAssumption ==
    /\ None \notin Line \cup Kinds \cup {"mail", "mailbox"}
    /\ EOF \notin Line

IsLwsp(ln) == ln.k \in {"space", "fold"}
IsEol(ln) == ln # EOF /\ ln.k = "blank"

\* The statics of bogoreader.c.
Statics == [sep : Separators \cup {None},
            getline : {"mailbox", "simple", "rmail", "ant"},
            next_mail : {None, "mail", "mailbox"},
            mail_first : BOOLEAN, firstline : BOOLEAN, have_message : BOOLEAN,
            saved : [{"mailbox", "rmail", "ant"} -> Line \cup {None}],
            emptyline : BOOLEAN, bytesleft : Nat, dot_found : BOOLEAN]

InitStatics ==
    [sep |-> None, getline |-> "simple", next_mail |-> None,
     mail_first |-> TRUE, firstline |-> TRUE, have_message |-> FALSE,
     saved |-> [g \in {"mailbox", "rmail", "ant"} |-> None], emptyline |-> FALSE, bytesleft |-> 0, dot_found |-> TRUE]

\* A stream: the lines not read yet and feof.  A closed one is at its end.
Stream == [lines : Seq(Line), eof : BOOLEAN]
Closed == [lines |-> <<>>, eof |-> TRUE]

-----------------------------------------------------------------------------
(* Opening *)

\* get_reader_line: one byte selects the reader.  Only mailbox_getline is
\* given up without mbox_mode; without a match the separator of the file
\* before stays.
Selected(s, f, mbox_mode) ==
    LET c == IF f = <<>> THEN None ELSE f[1].c
        sep == IF c = None THEN s.sep ELSE c
    IN [s EXCEPT
          !.sep = sep,
          !.getline = IF c \in {"rmail", "ant"} THEN c
                      ELSE IF mbox_mode THEN "mailbox" ELSE "simple"]

\* open_mailstore for a file.
Opened(s, f, mbox_mode) ==
    [Selected(s, f, mbox_mode) EXCEPT
       !.firstline = TRUE,
       !.mail_first = TRUE,
       !.next_mail = IF mbox_mode THEN "mailbox" ELSE "mail"]

\* fgetc of get_reader_line meets the end of an empty file.
StreamOf(f) == [lines |-> f, eof |-> f = <<>>]

\* mail_next_mail, mailbox_next_mail
MoreMail(s) == s.mail_first \/ (s.next_mail = "mailbox" /\ s.have_message)

-----------------------------------------------------------------------------
(* One line.  A reader returns its line, or EOF, with the statics and the  *)
(* stream after it, and lwsp: the first byte of the caller's buffer, which *)
(* was empty, is a blank or a tab.                                         *)

Result(s, in, line, lwsp) ==
    [s |-> s, in |-> in, line |-> line, lwsp |-> lwsp]

\* buff_fgetsln over xfgetsl: the buffer is left alone once feof is set, and
\* gets its NUL byte when the end is met.
Fgets(s, in, lwsp) ==
    IF in.eof THEN Result(s, in, EOF, lwsp)
    ELSE IF in.lines = <<>> THEN Result(s, [in EXCEPT !.eof = TRUE], EOF, FALSE)
    ELSE LET ln == Head(in.lines)
         IN Result(s, [lines |-> Tail(in.lines), eof |-> ~ln.nl], ln, IsLwsp(ln))

\* The NUL byte the readers put behind what the buffer holds.
Terminated(r) == [r EXCEPT !.lwsp = r.line # EOF /\ r.lwsp]

\* The separator kept at the end of the mail before; every reader has its own.
IsSaved(s) == s.getline # "simple" /\ s.saved[s.getline] # None

Saved(s, in) ==
    Result([s EXCEPT !.saved[s.getline] = None], in, s.saved[s.getline], FALSE)

\* A separator: the first one of a file opens its first mail, another one
\* ends the mail and is kept.
Separated(r) ==
    IF r.s.firstline
       THEN [r EXCEPT !.s.firstline = FALSE]
       ELSE [r EXCEPT !.s.have_message = TRUE, !.s.saved[r.s.getline] = r.line,
                   !.line = EOF]

IsSeparator(r) == r.line # EOF /\ r.line.k = r.s.sep

\* Mutant: without the line marked "removable".
SimpleGetlineBare(s, in, lwsp) == Fgets(s, in, lwsp)

SimpleGetline(s, in, lwsp) == Terminated(Fgets(s, in, lwsp))

\* Mutant: a separator does not need an empty line before it.
MailboxGetlineAnywhere(s, in, lwsp) ==
    LET r == Fgets([s EXCEPT !.have_message = FALSE], in, lwsp)
        q == IF IsSeparator(r) THEN Separated(r) ELSE Terminated(r)
    IN [q EXCEPT !.s.emptyline = IsEol(q.line)]

MailboxGetline(s, in, lwsp) ==
    LET r == Fgets([s EXCEPT !.have_message = FALSE], in, lwsp)
        q == IF (s.firstline \/ s.emptyline) /\ IsSeparator(r)
                THEN Separated(r) ELSE Terminated(r)
    IN [q EXCEPT !.s.emptyline = IsEol(q.line)]

\* The lines the separator announced are taken unseen; here nothing resets
\* have_message and nothing terminates the buffer.
RmailGetline(s, in, lwsp) ==
    IF s.bytesleft > 0
       THEN LET r == Fgets(s, in, lwsp)
            IN IF r.line = EOF THEN r
               ELSE [r EXCEPT !.s.bytesleft = s.bytesleft - 1]
       ELSE LET r == Fgets([s EXCEPT !.have_message = FALSE], in, lwsp)
            IN IF IsSeparator(r)
                  THEN Separated([r EXCEPT !.s.bytesleft = r.line.n])
                  ELSE Terminated(r)

\* A separator counts only after the dot that ends the mail before.
AntGetline(s, in, lwsp) ==
    LET r == Fgets([s EXCEPT !.have_message = FALSE], in, lwsp)
    IN IF s.dot_found /\ IsSeparator(r)
          THEN Separated([r EXCEPT !.s.dot_found = FALSE])
          ELSE [Terminated(r) EXCEPT
                  !.s.dot_found = s.dot_found \/ (r.line # EOF /\ r.line.k = "dot")]

\* reader_getline
Getline(s, in, lwsp) ==
    IF IsSaved(s) THEN Saved(s, in)
    ELSE CASE s.getline = "simple"  -> SimpleGetline(s, in, lwsp)
           [] s.getline = "mailbox" -> MailboxGetline(s, in, lwsp)
           [] s.getline = "rmail"   -> RmailGetline(s, in, lwsp)
           [] s.getline = "ant"     -> AntGetline(s, in, lwsp)

-----------------------------------------------------------------------------
(* The mail *)

VARIABLES
    opt,        \* the options
    pc,
    left,       \* files not opened yet
    file,       \* history: the file being read
    fpin,
    st,         \* the statics of the reader
    lwsp,       \* the first byte of the line buffer is a blank or a tab
    msg_header, have_body,
    took,       \* history: the lines of this file the readers have given
    starts,     \* history: where in took the mails begin
    text,       \* the text block
    wr,         \* the locals of write_header
    out         \* the mail as written

mails == <<took, starts>>
read == <<file, fpin, st, lwsp, mails>>
lexed == <<msg_header, have_body, text>>
written == <<wr, out>>
vars == <<opt, pc, left, read, lexed, written>>

Status == "status"      \* the header bogofilter adds
Tag == "tag"            \* a Subject line that holds the tag only
Tagged == "tagged"      \* the Subject line with the tag put into it
Eol == "eol"
Item(k) == [k |-> k, c |-> None, n |-> 0, nl |-> TRUE]

StartWrite == [pos |-> 1, subj |-> FALSE, place |-> FALSE, lf |-> TRUE]

Init == /\ opt \in Cases
        /\ pc = "more" /\ left = opt.stores
        /\ file = <<>> /\ fpin = Closed /\ st = InitStatics /\ lwsp = FALSE
        /\ msg_header = TRUE /\ have_body = FALSE
        /\ took = <<>> /\ starts = <<>> /\ text = <<>>
        /\ wr = StartWrite /\ out = <<>>

-----------------------------------------------------------------------------
(* reader__next_mail, one turn of its loop a step.                         *)

\* Bound on the history: more mails than lines are not told apart.
MaxMails == Len(file) + 2

\* lexer_init starts every mail anew.
NextMail == /\ pc = "more" /\ st.next_mail # None /\ MoreMail(st)
            /\ st' = [st EXCEPT !.mail_first = FALSE]
            /\ starts' = IF Len(starts) < MaxMails THEN Append(starts, Len(took) + 1)
                         ELSE starts
            /\ msg_header' = TRUE /\ have_body' = FALSE /\ text' = <<>>
            /\ wr' = StartWrite /\ out' = <<>>
            /\ pc' = "get"
            /\ UNCHANGED <<opt, left, file, fpin, lwsp, took>>

StoreExhausted == /\ pc = "more" /\ st.next_mail # None /\ ~MoreMail(st)
                  /\ st' = [st EXCEPT !.mail_first = FALSE, !.next_mail = None]
                  /\ UNCHANGED <<opt, pc, left, file, fpin, lwsp, mails,
                                 lexed, written>>

OpenStore == /\ pc = "more" /\ st.next_mail = None /\ left > 0
             /\ left' = left - 1
             /\ \E f \in Files(opt) :
                  /\ file' = f /\ fpin' = StreamOf(f)
                  /\ st' = Opened(st, f, opt.mbox_mode)
             /\ took' = <<>> /\ starts' = <<>>
             /\ UNCHANGED <<opt, pc, lwsp, lexed, written>>

\* A file that cannot be opened ends it all: the files after it are not
\* looked at.
OpenFails == /\ pc = "more" /\ st.next_mail = None /\ left > 0
             /\ left' = left - 1
             /\ pc' = "done"
             /\ fpin' = Closed
             /\ st' = [st EXCEPT !.firstline = TRUE]
             /\ UNCHANGED <<opt, file, lwsp, mails, lexed, written>>

NoMoreStores == /\ pc = "more" /\ st.next_mail = None /\ left = 0
                /\ pc' = "done"
                /\ UNCHANGED <<opt, left, read, lexed, written>>

-----------------------------------------------------------------------------
(* yy_get_new_line, get_decoded_line                                       *)

\* A line for the lexer: kept for -p, and an empty line ends the header.
Keep(ln) == /\ text' = IF opt.passthrough THEN Append(text, ln) ELSE text
            /\ msg_header' = (msg_header /\ ~IsEol(ln))
            /\ have_body' = (have_body \/ (msg_header /\ IsEol(ln)))
            /\ pc' = "get"

IsSpamHeader(ln) == msg_header /\ ln.k = "spam"

Deliver(ln) ==
    IF ln = EOF THEN pc' = "eof" /\ UNCHANGED lexed
    ELSE IF IsSpamHeader(ln) THEN pc' = "skip" /\ UNCHANGED lexed
    ELSE Keep(ln)

\* The reader is called; the history takes its line.
Read(r) ==
    /\ fpin' = r.in /\ st' = r.s /\ lwsp' = r.lwsp
    /\ took' = IF r.line = EOF THEN took ELSE Append(took, r.line)
    /\ UNCHANGED starts

GetLine == /\ pc = "get"
           /\ LET r == Getline(st, fpin, lwsp)
              IN Read(r) /\ Deliver(r.line)
           /\ UNCHANGED <<opt, left, file, written>>

\* Mutant: only the first line of the header is dropped.
SkipFirstLine ==
    /\ pc = "skip"
    /\ LET r == Getline(st, fpin, lwsp) IN Read(r) /\ Deliver(r.line)
    /\ UNCHANGED <<opt, left, file, written>>

\* skip_folded_line looks at the buffer first and at the end of the file
\* never.
SkipFoldedLine ==
    /\ pc = "skip"
    /\ LET r == Getline(st, fpin, lwsp)
           again == r.lwsp /\ ~IsEol(r.line)
       IN /\ Read(r)
          /\ IF again THEN UNCHANGED <<pc, lexed>> ELSE Deliver(r.line)
    /\ UNCHANGED <<opt, left, file, written>>

-----------------------------------------------------------------------------
(* write_message                                                           *)

EndMail == /\ pc = "eof"
           /\ pc' = IF opt.passthrough THEN "header" ELSE "more"
           /\ UNCHANGED <<opt, left, read, lexed, written>>

\* Where the folded lines of a spam header end.
AfterFolds(i) ==
    CHOOSE j \in i + 1 .. Len(text) + 1 :
        /\ j = Len(text) + 1 \/ ~(IsLwsp(text[j]))
        /\ \A l \in i + 1 .. j - 1 : IsLwsp(text[l])

IsDelim(ln) == IsEol(ln) \/ (~have_body /\ ln.k = "space")

SkipSpamHeader == /\ pc = "header" /\ wr.pos <= Len(text)
                  /\ text[wr.pos].k = "spam"
                  /\ wr' = [wr EXCEPT !.pos = AfterFolds(wr.pos)]
                  /\ UNCHANGED <<opt, pc, left, read, lexed, out>>

IsPlace(ln) == opt.placed /\ ~wr.place /\ ln.k = "place"

HeaderLine ==
    /\ pc = "header" /\ wr.pos <= Len(text)
    /\ LET ln == text[wr.pos]
           tagged == opt.tag /\ ~wr.subj /\ ln.k = "subject"
           before == IF IsPlace(ln) THEN Append(out, Item(Status)) ELSE out
       IN /\ ln.k # "spam" /\ ~IsDelim(ln)
          /\ out' = Append(before, IF tagged THEN [ln EXCEPT !.k = Tagged] ELSE ln)
          /\ wr' = [pos |-> wr.pos + 1, subj |-> wr.subj \/ tagged,
                    place |-> wr.place \/ IsPlace(ln),
                    lf |-> IF tagged THEN wr.lf ELSE ln.nl]
    /\ UNCHANGED <<opt, pc, left, read, lexed>>

\* fputs(eol): it ends the line before, or is an empty line.
PutEol(o) == IF o # <<>> /\ ~o[Len(o)].nl
                THEN [o EXCEPT ![Len(o)].nl = TRUE]
                ELSE Append(o, Item(Eol))

\* The end of write_header, what write_message puts behind it, and the empty
\* line write_body begins with.  The delimiter itself is not written.
EndOfHeader ==
    /\ pc = "header" /\ (wr.pos <= Len(text) => IsDelim(text[wr.pos]))
    /\ LET stated == IF wr.place THEN out ELSE Append(out, Item(Status))
           ended == IF wr.lf THEN stated ELSE PutEol(stated)
           tagged == IF opt.tag /\ ~wr.subj THEN Append(ended, Item(Tag)) ELSE ended
       IN out' = PutEol(tagged)
    /\ wr' = [wr EXCEPT !.pos = @ + 1, !.lf = TRUE]
    /\ pc' = "body"
    /\ UNCHANGED <<opt, left, read, lexed>>

WriteBody ==
    /\ pc = "body"
    /\ LET body == out \o SubSeq(text, wr.pos, Len(text))
       IN out' = IF body[Len(body)].nl THEN body ELSE PutEol(body)
    /\ pc' = "more"
    /\ UNCHANGED <<opt, left, read, lexed, wr>>

Next == \/ NextMail \/ StoreExhausted \/ OpenFails \/ NoMoreStores
        \/ OpenStore
        \/ GetLine \/ SkipFoldedLine \/ EndMail
        \/ SkipSpamHeader \/ HeaderLine \/ EndOfHeader \/ WriteBody

\* The process is scheduled; every step is the program's own.
Spec == Init /\ [][Next]_vars /\ WF_vars(Next)

-----------------------------------------------------------------------------
(* Properties                                                              *)

\* Every variable keeps its type.
TypeOK == /\ pc \in {"more", "get", "skip", "eof", "header", "body", "done"}
          /\ left \in Nat
          /\ st \in Statics
          /\ fpin.lines \in Seq(Line) /\ fpin.eof \in BOOLEAN
          /\ {lwsp, msg_header, have_body} \subseteq BOOLEAN
          /\ took \in Seq(Line) /\ text \in Seq(Line)
          /\ \A j \in DOMAIN starts : starts[j] \in 1 .. Len(took) + 1
          /\ wr.pos \in 1 .. Len(text) + 2
          /\ \A i \in DOMAIN out : out[i].nl \in BOOLEAN

Waiting == IF IsSaved(st) THEN <<st.saved[st.getline]>> ELSE <<>>
Exhausted == st.next_mail = None /\ pc = "more"

\* A batch that is whole: its mails have the lines they announce, one behind
\* the other, and with ANT each ends with the first dot.
AreHeads(heads, f) ==
    /\ 1 \in heads
    /\ \A i \in heads : /\ f[i].k = "rmail" /\ i + f[i].n <= Len(f)
                       /\ (i + f[i].n = Len(f) \/ i + f[i].n + 1 \in heads)
                       /\ \A l \in i + 1 .. i + f[i].n : l \notin heads
WholeRmail(f) == \E heads \in SUBSET DOMAIN f : AreHeads(heads, f)
WholeAnt(f) ==
    /\ f[1].k = "ant" /\ f[Len(f)].k = "dot"
    /\ \A i \in 1 .. Len(f) - 1 : f[i].k = "dot" => f[i + 1].k = "ant"

\* What is asked of a file: only its last line may lack the newline, and what begins
\* like a batch is one that is whole, and read with -M, or has no separator at all.
WholeFile(c, f) ==
    /\ f \in Seq(Line)
    /\ \A i \in DOMAIN f : /\ f[i].nl \/ i = Len(f)
                           /\ f[i].k \in Separators => f[i].c = f[i].k
    /\ f # <<>> /\ f[1].c \in {"rmail", "ant"} =>
          /\ c.mbox_mode
          /\ \/ \A i \in DOMAIN f : f[i].k # f[1].c
             \/ f[1].c = "rmail" /\ WholeRmail(f)
             \/ f[1].c = "ant" /\ WholeAnt(f)
WholeFiles == \A c \in Cases : \A f \in Files(c) : WholeFile(c, f)

\* The mails of a file, the separator the reader holds back and what is not
\* read yet are the file, at every moment; a file that is done with is read
\* to its end.  (The saved line, have_message and the stream are kept apart,
\* bogoreader.c:437-579.)
LinesKept == /\ took \o Waiting \o fpin.lines = file
             /\ Exhausted => took = file

\* The lines of a mail.
Mail(j) == SubSeq(took, starts[j],
                  IF j = Len(starts) THEN Len(took) ELSE starts[j + 1] - 1)

IsMbox == file # <<>> /\ file[1].k = "From"
IsBatch(k) == file # <<>> /\ file[1].k = k

\* Whatever file was read before it: an mbox is cut at its From lines that
\* follow an empty line and nowhere else; the mails of an rmail batch have the
\* lines they announce; those of an ANT batch end with their dot, and a
\* separator before it is text.
MailsSplit ==
    Exhausted /\ opt.mbox_mode =>
        /\ IsMbox =>
              LET seps == {i \in DOMAIN file : /\ file[i].k = "From"
                                               /\ i > 1 => IsEol(file[i - 1])}
              IN Range(starts) = seps /\ Len(starts) = Cardinality(seps)
        /\ IsBatch("rmail") => \A j \in DOMAIN starts :
                Mail(j)[1].k = "rmail" /\ Len(Mail(j)) = Mail(j)[1].n + 1
        /\ IsBatch("ant") => \A j \in DOMAIN starts :
                /\ Mail(j)[1].k = "ant"
                /\ \A i \in DOMAIN Mail(j) : Mail(j)[i].k = "dot" <=> i = Len(Mail(j))

\* The first line of m that P holds for, or the one behind it.
FirstOf(m, P(_)) == CHOOSE i \in 1 .. Len(m) + 1 :
                       /\ i = Len(m) + 1 \/ P(m[i])
                       /\ \A j \in 1 .. i - 1 : ~P(m[j])

KindOf(ln) == IF ln.k = Tagged THEN "subject" ELSE ln.k
KindsOf(m) == [i \in DOMAIN m |-> KindOf(m[i])]

\* A mail without the spam headers of an earlier run, with their folds.
Stripped(m) ==
    LET spam == {i \in 1 .. FirstOf(m, IsEol) - 1 : m[i].k = "spam"}
        folds == {i \in DOMAIN m : \E j \in spam :
                    j < i /\ \A l \in j + 1 .. i : IsLwsp(m[l])}
        stays == (DOMAIN m) \ (spam \cup folds)
    IN [i \in 1 .. Cardinality(stays) |->
          m[CHOOSE j \in stays : Cardinality({l \in stays : l <= j}) = i]]

\* The line that ends the header: an empty one, or in a mail without one the
\* first line of blanks.
HeaderEnd(m) == IF \E i \in DOMAIN m : IsEol(m[i]) THEN FirstOf(m, IsEol)
                ELSE FirstOf(m, LAMBDA ln : ln.k = "space")

\* The header is there and its last line has no newline.
CutShort(m) == m # <<>> /\ HeaderEnd(m) = Len(m) + 1 /\ ~m[Len(m)].nl

IsWritten == pc = "more" /\ opt.passthrough /\ starts # <<>>
TheMail == Stripped(Mail(Len(starts)))

\* With -p the mail comes out as it went in: without the spam headers of
\* earlier runs, with an empty line between header and body (there are two
\* where the header was cut short), and with what bogofilter adds.
PassedThrough ==
    IsWritten =>
        LET m == TheMail
            h == HeaderEnd(m)
            added == {Status, Tag} \cup (IF CutShort(m) THEN {Eol} ELSE {})
            eol == IF CutShort(m) THEN <<>> ELSE <<Eol>>
        IN KindsOf(SelectSeq(out, LAMBDA ln : ln.k \notin added)) =
              KindsOf(SubSeq(m, 1, h - 1)) \o eol \o KindsOf(SubSeq(m, h + 1, Len(m)))

IsInHeader(k) == LET at == {i \in DOMAIN out : out[i].k \in k}
                 IN /\ Cardinality(at) = 1
                    /\ \A i \in at, j \in DOMAIN out :
                          out[j].k \in {Eol, "blank"} => i < j

\* The header of a mail written gets the status once, and the tag once, in
\* the Subject or as one, unless the header was cut short (tests/
\* t.ignore_spam_header, t.passthrough-hb).
StatusInHeader ==
    IsWritten => /\ IsInHeader({Status})
                 /\ opt.tag /\ ~CutShort(TheMail) =>
                        IsInHeader({Tag, Tagged})

\* Does not hold: a header that is cut short gets its tag behind the empty
\* line, and the status in the middle of its last line.
TagInHeader == IsWritten /\ opt.tag => IsInHeader({Tag, Tagged})
StatusOnItsLine ==
    IsWritten => \A i \in DOMAIN out :
                    out[i].k = Status /\ i > 1 => out[i - 1].nl

\* The input ends: no mail is read for ever, and no file gives mails for ever.
InputEnds == <>(pc = "done")
=============================================================================
